------------------------------- MODULE Codecs -------------------------------
(***************************************************************************)
(* The pure codecs of the bridge, checked case by case: each initial      *)
(* state is one input, and the properties compare what the code's        *)
(* operators compute for it with what the format requires. Nothing        *)
(* changes after Init.                                                     *)
(*                                                                         *)
(* The references the WSP operators are compared with are written from    *)
(* the WSP specification (WAP-230): uintvars, the Get and Reply PDUs, and *)
(* the short forms of the header encodings.                                *)
(***************************************************************************)
EXTENDS Base91, Base91Length, WAPResponse, WMLCDecompiler, WDPHeader, HTTPFront

CONSTANTS
  EncodeInputs,  \* byte sequences encoded into a buffer that never limits
  DecodeInputs,  \* character sequences decoded into such a buffer
  EncodeEdges,   \* byte sequences encoded into every buffer size of Caps
  DecodeEdges,   \* character sequences decoded into every buffer size of Caps
  Caps,          \* small buffer sizes
  BufferSize,    \* a buffer that never limits: 256, as in MyMesh::loop
  DatagramLens,  \* lengths of the data handed to sendWDPToMesh
  Uris,          \* URLs handleHTTPRequest builds a Get PDU for
  Replies,       \* replies a WAPBox sends, as records of their fields
  Pdus,          \* arbitrary byte sequences received as a reply
  WmlDocs,       \* WML documents [table, root] a WAPBox compiles to WMLC
  Wmlcs,         \* arbitrary WMLC bodies [w, size] with an output size
  Sends,         \* payloads sendWDPViaMesh cuts: [src, dst, len, ref, buf]
  Datagrams,     \* arbitrary byte sequences arriving over the mesh
  StatusBytes,   \* WSP status bytes of a reply
  Requests       \* HTTP requests a browser sends to the AP

\* sizeof(http_wapRequest) and the TID of the request.
RequestBufferSize == 512
Tid == 1
\* sizeof(http_decompiled).
DecompiledSize == 8192

VARIABLE case

Init ==
  \/ \E x \in EncodeInputs : case = [op |-> "enc", in |-> x, cap |-> BufferSize]
  \/ \E s \in DecodeInputs : case = [op |-> "dec", in |-> s, cap |-> BufferSize]
  \/ \E x \in EncodeEdges, c \in Caps : case = [op |-> "enc", in |-> x, cap |-> c]
  \/ \E s \in DecodeEdges, c \in Caps : case = [op |-> "dec", in |-> s, cap |-> c]
  \/ \E l \in DatagramLens : case = [op |-> "len", in |-> l, cap |-> outputMaxLen]
  \/ \E u \in Uris : case = [op |-> "get", in |-> u, cap |-> RequestBufferSize]
  \/ \E r \in Replies : case = [op |-> "reply", in |-> r, cap |-> 0]
  \/ \E d \in Pdus : case = [op |-> "pdu", in |-> d, cap |-> 0]
  \/ \E d \in WmlDocs : case = [op |-> "wml", in |-> d, cap |-> DecompiledSize]
  \/ \E x \in Wmlcs : case = [op |-> "wmlc", in |-> x.w, cap |-> x.size]
  \/ \E x \in Sends : case = [op |-> "udh", in |-> x, cap |-> x.buf]
  \/ \E m \in Datagrams : case = [op |-> "datagram", in |-> m, cap |-> 0]
  \/ \E b \in StatusBytes : case = [op |-> "status", in |-> b, cap |-> 0]
  \/ \E r \in Requests : case = [op |-> "http", in |-> r, cap |-> WapRequestSize]
Next == UNCHANGED case
Spec == Init /\ [][Next]_case

\* Every digit Base91::encode emits indexes ALPHABET: the quotient of a
\* 14-bit value by 91 stays below 91 only because such a value has its low
\* 13 bits at most 88.
DigitsInAlphabet ==
  case.op = "enc" =>
    LET e == Encode(case.in, BufferSize) IN \A i \in DOMAIN e : e[i] \in 0..90

\* Base91::decode inverts Base91::encode: the bytes sendWDPToMesh encodes
\* are the bytes the receiving inbox decodes.
RoundTrip ==
  case.op = "enc" =>
    Decode(Encode(case.in, BufferSize), BufferSize) = case.in

\* Base91::encode writes the whole encoding and its null terminator, or
\* returns 0: a buffer one character too small is a failure, never a
\* truncation.
EncodeAllOrNothing ==
  case.op = "enc" =>
    LET full == Encode(case.in, BufferSize)
    IN Encode(case.in, case.cap) = IF Len(full) + 1 <= case.cap THEN full ELSE <<>>

\* Base91::decode fills the buffer exactly or returns 0.
DecodeAllOrNothing ==
  case.op = "dec" =>
    LET full == Decode(case.in, BufferSize)
    IN Decode(case.in, case.cap) = IF Len(full) <= case.cap THEN full ELSE <<>>

\* sendWDPToMesh never logs "Base91 encoding failed": after the truncation
\* to maxBinaryLen bytes, the encoding and its null terminator fit in
\* encodedMsg, whatever the data.
EncodingFits ==
  case.op = "len" => \A st \in EncodeOutcomes(case.in) : st.result = "ok"

(***************************************************************************)
(* References from the WSP specification                                   *)
(***************************************************************************)

\* The value of 7-bit groups, most significant first.
RECURSIVE GroupValue(_)
GroupValue(u) == IF u = <<>> THEN 0 ELSE GroupValue(Front(u)) * 128 + (Last(u) % 128)

\* u is the uintvar of v: every byte but the last has its top bit set,
\* there is no leading zero group, and the groups make v.
IsUintvarOf(u, v) ==
  /\ Len(u) \in 1..5
  /\ \A i \in 1..Len(u) : (u[i] >= 128) = (i < Len(u))
  /\ Len(u) > 1 => u[1] # 128
  /\ GroupValue(u) = v

\* The index of the first NUL of s at or after i, or 0.
FirstNul(s, i) ==
  IF \E j \in i..Len(s) : s[j] = 0
  THEN CHOOSE j \in i..Len(s) : s[j] = 0 /\ \A k \in i..(j - 1) : s[k] # 0
  ELSE 0

\* The field codes of a header block of well-known fields, each with a
\* short-integer, a text-string or a short value-length value; <<None>>
\* when the block is not one.
RECURSIVE FieldCodes(_)
FieldCodes(s) ==
  IF s = <<>> THEN <<>>
  ELSE IF s[1] < 128 \/ Len(s) < 2 THEN <<None>>
  ELSE LET v == s[2]
           last == IF v >= 128 THEN 2
                   ELSE IF v <= 30 THEN 2 + v
                   ELSE FirstNul(s, 2)
       IN IF last = 0 \/ last > Len(s) THEN <<None>>
          ELSE <<s[1] - 128>> \o FieldCodes(SubSeq(s, last + 1, Len(s)))

\* A reply of the WAPBox: [status, ct, fields, body]. ct is
\* [kind, code, len]: a well-known type, one with len bytes of parameters
\* after a value length, or a text of len characters. A field is
\* [f, len]: Server, Location, an Etag text, an application header of
\* len-character name and value, Content-Length len, a Date of len
\* octets, or Cache-Control: no-cache.
CtBytes(ct) ==
  CASE ct.kind = "code" -> <<ct.code + 128>>
    [] ct.kind = "general" -> <<1 + ct.len, ct.code + 128>> \o [i \in 1..ct.len |-> 129]
    [] ct.kind = "text" -> Text(ct.len) \o <<0>>

RECURSIVE BigEndian(_)
BigEndian(v) == IF v = 0 THEN <<>> ELSE BigEndian(v \div 256) \o <<(v % 256)>>

FieldBytes(fd) ==
  CASE fd.f = "server" -> <<WSP_HEADER_SERVER + 128>> \o Text(fd.len) \o <<0>>
    [] fd.f = "location" -> <<WSP_HEADER_LOCATION + 128>> \o Text(fd.len) \o <<0>>
    [] fd.f = "etag" -> <<19 + 128>> \o Text(fd.len) \o <<0>>
    [] fd.f = "app" -> Text(fd.len) \o <<0>> \o Text(fd.len) \o <<0>>
    [] fd.f = "length" ->
         <<WSP_HEADER_CONTENT_LENGTH + 128>>
         \o (IF fd.len < 128 THEN <<fd.len + 128>>
             ELSE <<Len(BigEndian(fd.len))>> \o BigEndian(fd.len))
    [] fd.f = "date" -> <<18 + 128, fd.len>> \o [i \in 1..fd.len |-> 7]
    [] fd.f = "cache" -> <<8 + 128, 128>>

RECURSIVE UintvarOf(_)
UintvarOf(v) ==
  IF v < 128 THEN <<v>>
  ELSE LET h == UintvarOf(v \div 128)
       IN [h EXCEPT ![Len(h)] = @ + 128] \o <<(v % 128)>>

ReplyPdu(rp) ==
  LET hdr == CtBytes(rp.ct) \o FoldLeft(LAMBDA acc, fd : acc \o FieldBytes(fd), <<>>, rp.fields)
  IN <<Tid, REPLY_PDU_TYPE, rp.status>> \o UintvarOf(Len(hdr)) \o hdr \o rp.body

\* The value the last field of kind k gives, or none.
LastOf(rp, k) ==
  LET s == SelectSeq(rp.fields, LAMBDA fd : fd.f = k)
  IN IF s = <<>> THEN None ELSE s[Len(s)].len

ExpectedCt(ct) ==
  IF ct.kind = "text" THEN [NoType EXCEPT !.kind = "text", !.text = Text(ct.len)]
  ELSE [NoType EXCEPT !.kind = "code", !.code = contentTypeToString(ct.code)]

(***************************************************************************)
(* WSP properties                                                          *)
(***************************************************************************)

\* The Get PDU handleHTTPRequest builds is what WSP prescribes: the TID,
\* the Get type, the URI length as a uintvar, the URI, then well-formed
\* header fields, among them User-Agent, and Host exactly when the URL's
\* host fits extractHostFromUrl's 64-byte buffer.
GetRequestParses ==
  case.op = "get" =>
    LET pdu == createGetRequest(case.in, Tid, case.cap, TRUE)
        u == UriLen(case.in)
    IN pdu # <<>> =>
         \E k \in 1..5 :
           /\ 2 + k + u <= Len(pdu)
           /\ SubSeq(pdu, 1, 2) = <<Tid, GET_PDU_TYPE>>
           /\ IsUintvarOf(SubSeq(pdu, 3, 2 + k), u)
           /\ SubSeq(pdu, 3 + k, 2 + k + u) = Text(u)
           /\ LET codes == ToSet(FieldCodes(SubSeq(pdu, 3 + k + u, Len(pdu))))
              IN /\ None \notin codes
                 /\ WSP_HEADER_USER_AGENT \in codes
                 /\ (WSP_HEADER_HOST \in codes) = (case.in.host \in 1..63)

\* WAPResponse::decode recovers every field the AP uses from a reply in
\* the short forms of WSP: status, content type, Server, Location, the
\* Content-Length (the body length when none is given) and the body.
ReplyRoundTrip ==
  case.op = "reply" =>
    LET r == decode(ReplyPdu(case.in))
        cl == LastOf(case.in, "length")
        srv == LastOf(case.in, "server")
        loc == LastOf(case.in, "location")
    IN /\ r.ok
       /\ r.wspStatus = case.in.status
       /\ r.ct = ExpectedCt(case.in.ct)
       /\ r.server = IF srv = None THEN <<>> ELSE Text(srv)
       /\ r.location = IF loc = None THEN <<>> ELSE Text(loc)
       /\ r.body = case.in.body
       /\ r.contentLength = IF cl = None \/ cl = 0 THEN Len(case.in.body) ELSE cl

\* Whatever bytes arrive as a reply, decode reads none beyond the PDU:
\* parseHeaders only runs on a header block that decodeWithoutTID has
\* checked lies inside it.
ReadsInBounds ==
  case.op = "pdu" => ~decode(case.in).oob

(***************************************************************************)
(* References from the WBXML specification                                 *)
(***************************************************************************)

\* A WML element is [tag, attrs, kids]: its tag token, its attributes
\* [a, v] (an attribute start token without a value prefix, and the
\* bytes of the value), and its content: elements, inline texts [text]
\* and string table references [ref].
RECURSIVE WbxmlOf(_), KidsWbxml(_)
\* The content of an element, child after child.
KidsWbxml(ks) == IF ks = <<>> THEN <<>> ELSE WbxmlOf(Head(ks)) \o KidsWbxml(Tail(ks))
WbxmlOf(n) ==
  IF "text" \in DOMAIN n THEN <<WBXML_STR_I>> \o n.text \o <<0>>
  ELSE IF "ref" \in DOMAIN n THEN <<WBXML_STR_T, n.ref>>
  ELSE LET attr(acc, at) ==
             acc \o <<at.a>> \o (IF at.v = <<>> THEN <<>> ELSE <<WBXML_STR_I>> \o at.v \o <<0>>)
       IN <<n.tag + (IF n.attrs = <<>> THEN 0 ELSE TAG_HAS_ATTRS)
                  + (IF n.kids = <<>> THEN 0 ELSE TAG_HAS_CONTENT)>>
          \o (IF n.attrs = <<>> THEN <<>> ELSE FoldLeft(attr, <<>>, n.attrs) \o <<WBXML_END>>)
          \o (IF n.kids = <<>> THEN <<>> ELSE KidsWbxml(n.kids) \o <<WBXML_END>>)

\* The string at offset i of a string table.
TableEntry(table, i) == SubSeq(table, i + 1, FirstNul(table, i + 1) - 1)

RECURSIVE WmlOf(_, _), KidsWml(_, _)
KidsWml(ks, table) == IF ks = <<>> THEN "" ELSE WmlOf(Head(ks), table) \o KidsWml(Tail(ks), table)
WmlOf(n, table) ==
  IF "text" \in DOMAIN n THEN Chars(n.text)
  ELSE IF "ref" \in DOMAIN n THEN Chars(TableEntry(table, n.ref))
  ELSE LET name == getElementName(n.tag)
           attr(acc, at) ==
             acc \o " " \o AttributeTable[at.a][1] \o "=\"" \o Chars(at.v) \o "\""
       IN "<" \o name \o FoldLeft(attr, "", n.attrs)
          \o (IF n.kids = <<>> THEN "/>"
              ELSE ">" \o KidsWml(n.kids, table) \o "</" \o name \o ">")

\* A WML 1.1 deck in UTF-8 (charset 106) with its string table.
WmlcOf(doc) == <<1, 4, 106, Len(doc.table)>> \o doc.table \o WbxmlOf(doc.root)

\* d is decompile's result for the WMLC of doc, and is doc's text.
IsDeck(d, doc) ==
  d.ok /\ d.out = XmlDeclaration \o DocType(4) \o WmlOf(doc.root, doc.table)

(***************************************************************************)
(* WMLC properties                                                         *)
(***************************************************************************)

\* decompile turns the WMLC of a WML deck back into that deck's text:
\* the declaration, the WML 1.1 DOCTYPE, and every element, attribute,
\* text and string table reference, closed in the order it was opened.
WmlRoundTrip ==
  case.op = "wml" =>
    IsDeck(decompile(WmlcOf(case.in), case.cap, Len(WmlcOf(case.in))), case.in)

\* Whatever the WMLC, decompile leaves room for the NUL it writes: the
\* text it returns is shorter than outputSize, so http_decompiled is
\* never overrun and the length handleHTTPRequest writes is inside it.
OutputFits ==
  case.op = "wmlc" => Len(decompile(case.in, case.cap, Len(case.in)).out) < case.cap

\* decompileBody's main loop ends: each iteration consumes at least the
\* token it reads, so a body of n bytes takes at most n iterations and
\* handleHTTPRequest returns to the mesh loop.
DecompileTerminates ==
  case.op = "wmlc" => decompile(case.in, case.cap, Len(case.in)).done

\* The string table ends in a NUL, or there is none.
TableTerminated(w) ==
  LET h == HeaderOf(w) IN h.ok => h.tl = 0 \/ w[h.ts + h.tl] = 0

\* decompileBody's string reads stay inside the WMLC: with a 64-bit
\* size_t, STR_T, EXT_T and LITERAL take only offsets below
\* stringTableLen, so when the table's last string is terminated, strlen
\* stops inside the table whatever offsets the page holds.
DecompileReadsInBounds ==
  case.op = "wmlc" /\ TableTerminated(case.in) =>
    ~decompile(case.in, case.cap, Len(case.in)).oob
\* A payload of len bytes, each telling its position.
Payload(len) == [i \in 1..len |-> i % 251]

\* Datagram k of n, as the receiving handler reads it (r), matches the
\* send s: its ports, its kind, and for a part its reference, count and
\* number; every part but the last is full, so it lands at the offset
\* (currentPart - 1) * 108 the receiver copies it to, and the receiver's
\* buffer and partReceived array take it.
Arrives(s, n, k, r) ==
  /\ r.udh.dest = s.dst /\ r.udh.source = s.src
  /\ IF s.len <= maxPayloadSimple
     THEN r.kind = "simple"
     ELSE /\ r.kind = "concat"
          /\ r.udh.refNum = s.ref /\ r.udh.totalParts = n /\ r.udh.currentPart = k
          /\ k < n => Len(r.data) = maxPayloadConcat
          /\ Stored(r.udh, Len(r.data), s.buf)

SendArrives(s, ms) ==
  /\ \A k \in DOMAIN ms :
       /\ Len(ms[k]) <= maxBinaryLen
       /\ isValidWDPMessage(ms[k])
       /\ Arrives(s, Len(ms), k, Received(ms[k]))
  /\ FoldLeft(LAMBDA acc, m : acc \o Received(m).data, <<>>, ms) = Payload(s.len)

\* What one node's sendWDPViaMesh sends, the other's handleIncomingMesh
\* gets back: every datagram fits in the maxBinaryLen bytes sendWDPToMesh
\* encodes whole, passes MyMesh's isValidWDPMessage, carries the ports
\* the right way round and its part number, is stored by the receiver,
\* and the parts join to the payload: for requests up to the 512 bytes
\* of http_wapRequest into the proxy's 2048-byte buffer, and replies up
\* to the proxy's 1500-byte UDP buffer into the AP's 4096 bytes.
DatagramsRoundTrip ==
  case.op = "udh" =>
    SendArrives(case.in, sendWDPViaMesh(case.in.src, case.in.dst, Payload(case.in.len), case.in.ref))

\* What the handler does with a datagram isValidWDPMessage accepted.
Dispatched(m, r) ==
  IF m[1] = 11
  THEN /\ r.kind = "concat"
       /\ r.udh.currentPart \in 1..r.udh.totalParts
       /\ r.udh.dest # 0 /\ r.udh.source # 0
  ELSE /\ r.kind = "simple" /\ r.udh.ei = 5
       /\ r.udh.dest # 0 /\ r.udh.source # 0

\* Every datagram MyMesh::loop lets through isValidWDPMessage is read by
\* handleIncomingMesh as what its header length says: a 0x0B header as a
\* part with a number in 1..totalParts, never as a simple datagram whose
\* ports are header bytes, and neither with a zero port.
ValidatedDispatch ==
  case.op = "datagram" /\ isValidWDPMessage(case.in) =>
    Dispatched(case.in, Received(case.in))

(***************************************************************************)
(* Status codes. WAP-230 (table 36) assigns WSP status bytes to HTTP codes *)
(* class by class: 0x10-0x11, 0x20-0x26 and 0x30-0x37 but 0x36 are        *)
(* 100 * class + detail; 0x40-0x51 are 400-417 and 0x60-0x65 are 500-505. *)
(***************************************************************************)
WspAssigned == {16, 17} \cup 32..38 \cup (48..55 \ {54}) \cup 64..81 \cup 96..101
HttpOfWsp(b) ==
  CASE b < 64  -> 100 * (b \div 16) + (b % 16)
    [] b < 96  -> 400 + (b - 64)
    [] OTHER   -> 500 + (b - 96)

\* The status line decode gives for WSP status byte b.
StatusLineOf(b, r) ==
  /\ r.ok
  /\ r.statusCode = IF b \in WspAssigned THEN HttpOfWsp(b) ELSE 500
  /\ r.statusText # "Unknown"

\* The status line the AP writes for a reply ("HTTP/1.1 %d %s" of the
\* statusCode and statusText decode sets, in sendResponse and
\* ap_trySendEarlyHeaders) carries the HTTP code WAP-230 assigns to the
\* WSP status byte, 500 for a byte it leaves unassigned, and a reason
\* phrase other than "Unknown": wspStatusToHttp (wap_request.cpp) and
\* httpStatusToText (wap_response.cpp) are two tables that must agree.
StatusLine ==
  case.op = "status" => StatusLineOf(case.in, decode(<<Tid, REPLY_PDU_TYPE, case.in, 0>>))

\* What parseReplyPDU (p) and decode (d) read of one PDU agree.
ParsersAgree(p, d) ==
  p.ok => d.ok /\ d.statusCode = p.status /\ d.body = p.body

\* Whenever the Reply parser of the tests (WAPRequest::parseReplyPDU)
\* accepts a PDU, the firmware's WAPResponse::decode accepts it as well and
\* reads the same status code and the same body: both skip the header
\* block under the same size_t test, decode only when it is not empty.
ReplyParsersAgree ==
  case.op = "pdu" => ParsersAgree(parseReplyPDU(case.in), decode(case.in))

(***************************************************************************)
(* The HTTP front end. HTTP/1.1 (RFC 7230) reads a request line as method *)
(* SP target SP version, matches header names in any case, and names the  *)
(* resource by the effective request URI: an absolute-form target as it   *)
(* is, else "http://", the Host header and the target; a request without  *)
(* Host takes the configured default host, here wap.bevelgacom.be.        *)
(***************************************************************************)
IsHostName(n) == n \in {"Host", "host", "HOST"}
HostOf(r) ==
  LET hs == SelectSeq(r.headers, LAMBDA h : IsHostName(h.name))
  IN IF hs = <<>> THEN NoHost ELSE Last(hs)
EffectiveUri(r) ==
  LET t == r.line.target
      h == HostOf(r)
  IN CASE t.form = "absolute" -> t
       [] h.len + h.port > 0 ->
            [form |-> "absolute", scheme |-> 7, host |-> h.len, rest |-> h.port + t.rest]
       [] OTHER ->
            [form |-> "absolute", scheme |-> 7, host |-> DefaultHostLen, rest |-> t.rest]
\* The target fits path[256] and the Host value host[128].
FieldsFit(r) ==
  /\ UriLen(r.line.target) < PathSize
  /\ HostOf(r).len + HostOf(r).port < HostSize

\* The outcome o of request r, with pdu the Get PDU of its effective URI.
Forwards(r, o, pdu) ==
  /\ (o.kind = "400") <=> r.line.spaces < 2
  /\ (o.kind = "mesh") <=> /\ r.line.spaces >= 2
                           /\ r.line.method \in {"GET", "HEAD"}
                           /\ HostOf(r).probe = 0
                           /\ pdu # <<>>
  /\ o.kind = "mesh" => o.pdu = pdu

\* handleHTTPRequest answers 400 exactly the requests whose request line
\* is not method SP target SP version, and hands a Get PDU to the mesh
\* exactly for a GET or HEAD that is not a connectivity probe and whose
\* PDU fits http_wapRequest; that PDU names the effective request URI.
\* parseHTTPRequest, buildURL and createGetRequest must agree on the
\* target, the Host header found in any case, and the default host.
FrontEndForwards ==
  case.op = "http" /\ FieldsFit(case.in) =>
    Forwards(case.in, handleHTTPRequest(case.in, Tid),
             createGetRequest(EffectiveUri(case.in), Tid, WapRequestSize, TRUE))
====

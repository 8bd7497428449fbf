------------------------------ MODULE HTTPFront ------------------------------
(***************************************************************************)
(* The HTTP front end of the AP node (src/src/mode_ap.h): parseHTTPRequest *)
(* reads a browser's request into http_req, and handleHTTPRequest answers  *)
(* it 400, drops it (a captive-portal probe), answers 501 or 500, or       *)
(* builds the URL and the Get PDU it hands to sendWAPRequestViaMesh (the   *)
(* wait that follows is APExchange).                                       *)
(*                                                                         *)
(* A request is what the client delivered before an empty line, the 5 s   *)
(* deadline or a disconnect: all three end the header loop alike. Text is *)
(* kept only as far as the code tells it apart:                            *)
(*   line    [method, spaces, target]: the method word, how many spaces   *)
(*           the request line has (2 stands for 2 or more), and the        *)
(*           target between the first two;                                  *)
(*   target  [form, scheme, host, rest]: "origin" ("/..." or "?..."),      *)
(*           "absolute" (an "http://" or "https://" prefix of scheme        *)
(*           characters, then host and rest as in a WAPRequest URL) or     *)
(*           "empty";                                                       *)
(*   header  [name, len, port, probe, num]: the name as sent (or "" when   *)
(*           the line has no colon past column 0); for a Host value the    *)
(*           length of its name, of a ":port" suffix, and the position at  *)
(*           which a connectivity-check domain ends in it (0: none); the   *)
(*           length of a Content-Type; the toInt of a Content-Length.      *)
(* Values are counted without the white space trim() removes.              *)
(***************************************************************************)
EXTENDS WAPRequest

\* HTTPRequest's field sizes, and sizeof(http_url) and sizeof(http_wapRequest).
PathSize == 256
HostSize == 128
ContentTypeSize == 64
BodySize == 512
UrlSize == 512
WapRequestSize == 512

\* "wap.bevelgacom.be", the host of a request without one.
DefaultHostLen == 17

\* String::toLowerCase on the header names the inputs use.
Lowercase(n) ==
  CASE n \in {"Host", "HOST"} -> "host"
    [] n = "Content-Type" -> "content-type"
    [] n = "Content-Length" -> "content-length"
    [] OTHER -> n

\* Mutant: the name is compared as sent.
HeaderNameIsCaseSensitive(h, name) == h.name = name

\* colonPos > 0, and the lowercased name compared with "host" etc.
HeaderNameIs(h, name) == h.name # "" /\ Lowercase(h.name) = name

\* The effect of strncpy(dst, src, size - 1) on a length.
Copied(len, size) == IF len < size - 1 THEN len ELSE size - 1

\* A URL or target record cut to its first n characters, from the end.
Cut(u, n) ==
  LET s == IF u.scheme < n THEN u.scheme ELSE n
      h == IF u.host < n - s THEN u.host ELSE n - s
      r == IF u.rest < n - s - h THEN u.rest ELSE n - s - h
  IN [u EXCEPT !.scheme = s, !.host = h, !.rest = r]

\* The stored Host: the first 127 characters of the value; it holds a
\* probe domain only when the domain ends inside them.
StoredHost(h) ==
  LET name == Copied(h.len, HostSize)
  IN [len |-> name, port |-> Copied(h.len + h.port, HostSize) - name,
      probe |-> IF h.probe > 0 /\ h.probe <= HostSize - 1 THEN h.probe ELSE 0]

NoHost == [len |-> 0, port |-> 0, probe |-> 0]

\* The header loop: each line with a known name overwrites its field.
StoreHeader(req, h) ==
  CASE HeaderNameIs(h, "host") -> [req EXCEPT !.host = StoredHost(h)]
    [] HeaderNameIs(h, "content-type") ->
         [req EXCEPT !.contentType = Copied(h.len, ContentTypeSize)]
    [] HeaderNameIs(h, "content-length") -> [req EXCEPT !.contentLength = h.num]
    [] OTHER -> req

\* The body read of parseHTTPRequest.
ReadBody(req) ==
  [req EXCEPT !.bodyLen = IF req.contentLength > 0 /\ req.contentLength < BodySize
                         THEN req.contentLength ELSE 0]

\* parseHTTPRequest: false for an empty request line or one with fewer
\* than two spaces (an empty line has none); else the method (every method
\* of the inputs is shorter than method[16]) and the path copied into
\* their fields, the headers stored, and a body read when
\* 0 < contentLength < 512 (the client sends it in full).
parseHTTPRequest(r) ==
  IF r.line.spaces < 2
  THEN [ok |-> FALSE]
  ELSE ReadBody(FoldLeft(StoreHeader,
                         [ok |-> TRUE, method |-> r.line.method,
                          path |-> Cut(r.line.target, PathSize - 1),
                          host |-> NoHost, contentType |-> 0, contentLength |-> 0,
                          bodyLen |-> 0],
                         r.headers))

\* The strstr tests against the five connectivity-check hosts.
IsProbe(req) == req.host.probe # 0

\* buildURL: an absolute target is copied as it is; else "http://" and the
\* stored host (or the default host) go before it, cut to sizeof(url) - 1.
buildURL(req) ==
  IF req.path.form = "absolute" THEN Cut(req.path, UrlSize - 1)
  ELSE IF req.host.len + req.host.port > 0
  THEN Cut([form |-> "absolute", scheme |-> 7, host |-> req.host.len,
            rest |-> req.host.port + req.path.rest], UrlSize - 1)
  ELSE Cut([form |-> "absolute", scheme |-> 7, host |-> DefaultHostLen,
            rest |-> req.path.rest], UrlSize - 1)

\* The Get PDU for url: "500" when none fits, else handed to the mesh.
SendGet(url, pdu) ==
  IF pdu = <<>> THEN [kind |-> "500", tid |-> TRUE]
  ELSE [kind |-> "mesh", tid |-> TRUE, url |-> url, pdu |-> pdu]

\* handleHTTPRequest on the parsed request.
Answer(req, tid) ==
  IF ~req.ok THEN [kind |-> "400", tid |-> FALSE]
  ELSE IF IsProbe(req) THEN [kind |-> "closed", tid |-> FALSE]
  ELSE IF req.method \notin {"GET", "HEAD"} THEN [kind |-> "501", tid |-> TRUE]
  ELSE SendGet(buildURL(req), createGetRequest(buildURL(req), tid, WapRequestSize, TRUE))

\* The front of handleHTTPRequest up to sendWAPRequestViaMesh: "400",
\* "closed" (a probe: the connection is just dropped), "501", "500" (no
\* Get PDU fits), or "mesh" with the URL and the Get PDU; "tid" tells
\* whether transactionCounter was advanced.
handleHTTPRequest(r, tid) == Answer(parseHTTPRequest(r), tid)
=============================================================================

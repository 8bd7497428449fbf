# TLA+ models of MeshAccessProtocol

These modules model the WAP-over-MeshCore bridge in `src/`. TLC checks them.

## The system

An **AP node** (`src/src/mode_ap.h`) runs a WiFi access point with a captive DNS and an HTTP server.
- A browser's GET is turned into a WSP Get PDU (`lib/wap/wap_request.cpp`).
- The PDU is cut into WDP datagrams with an SMS-style UDH: simple, or concatenated with a reference number and part numbers.
- The datagrams are Base91-encoded and sent over the LoRa mesh to the **proxy node** (`src/src/mode_proxy.h`).

`sendWAPRequestViaMesh` then blocks the AP. While it blocks it:
- stops the HTTP server;
- spins the mesh loop (`MyMesh::loop` in `src/src/main.cpp`), which runs `ap_loop` and at most one queued datagram per iteration;
- gives up after 15 s without a stored part.

The proxy node's `WDPGateway`:
- reassembles requests;
- forwards each one by UDP to a WAPBox, from a socket bound to the client's random source port;
- relays the UDP reply back over the mesh.

Back on the AP, `ap_handleIncomingMesh` reassembles the reply. When part 1 arrives it sends the HTTP headers early. It streams the later parts of a non-WMLC body straight to the browser. A WMLC body is decompiled (`lib/wap/wmlc_decompiler.cpp`) at the end.

All of it is single-threaded and poll-driven. The concurrency lies in the interleaving of the following, and in the timeouts that race them:
- mesh datagrams, which are lost, duplicated and reordered;
- the UDP exchange with the WAPBox;
- the browser, which may disconnect;
- the clock.

## Modules

| Module | Models | State | Actions |
|---|---|---|---|
| `WDPGateway` | class `WDPGateway` (proxy) | `concatMessages`, `pendingConnections` (with the socket's bound port `udpSocket`), datagram sets `meshIn`, `meshOut`, `udpOut`, `udpIn`; history `sent`, `forwarded`, `relayed` | `handleIncomingMesh(d)` (whole handler, including `forwardToWAPBox`), `loop` (read replies, relay with `sendWDPViaMesh`, both timeouts); environment `APSend`, `WAPBoxReply`, `Tick`, `Quiescent` |
| `APExchange` | `sendWAPRequestViaMesh`, `ap_handleIncomingMesh`, `ap_trySendEarlyHeaders`, `ap_loop` cleanup, response paths of `handleHTTPRequest` | record `ap` holding the globals (`ap_currentRequestPort`, `ap_meshResponseReady`/buffer, `ap_waitingClient`, `ap_headersSent`, `ap_isWMLC`, `ap_lastPartReceivedTime` as an age, the slots, the HTTP server state, the bytes written to the client); `connected`, `meshIn`, `dupBudget`; history `requested`, `answer`, `done` | `StartRequest`, `WaitIteration(d)` (one loop iteration: mesh loop + disconnect check + ready check + the HTTP response), `WaitExpired`, `IdleLoop(d)`; environment `ProxyRelay`, `Disconnect`, `Tick`, `Quiescent` |
| `MeshNode` | the AP side of `MyMesh` (`src/src/main.cpp`) and the `ap_proxy_*` globals of `mode_ap.h` | the pending inbox and reply queue (16 slots each in the code), `expected_ack_crc`, the ping and discovery state, a clock; history of handled messages and of the CRCs sent to the proxy (an ACK of a CRC can only come from the contact the message went to) | `onMessageRecv(m)`, `processAck(c)`, `loop` (ping ACK check, discovery timeout and retry, one inbox entry, one pending reply), `startProxyDiscovery`, `sendWDPToMesh`; environment `PeerSend(from, t)`, `Tick` |
| `Base91` | `Base91::encode` and `Base91::decode` | none: operators over byte and digit sequences | one operator per loop step, the tail, and the whole function |
| `Base91Length` | the truncation in `sendWDPToMesh` and the length control of `Base91::encode` | none | the set of encoder end states over every input of a given length, the data abstracted to the 13/14-bit choice |
| `WAPRequest` | `WAPRequest` (`lib/wap/wap_request.cpp`): uintvars, the header builders, `createGetRequest`, the `wspStatusToHttp` table and `parseReplyPDU` (the Reply parser the tests use) | none | operators; a URL is the triple of its scheme, host and rest lengths |
| `WAPResponse` | `WAPResponse::decode`, `decodeWithoutTID` (with the status code and reason phrase it sets), `parseHeaders`, `httpStatusToText` (`lib/wap/wap_response.cpp`) | none | operators; every read past the PDU sets `oob` and stops the parse |
| `WMLCDecompiler` | `WMLCDecompiler::decompile`, `decompileBody`, `decodeMbUint` and the element, attribute and value tables (`lib/wap/wmlc_decompiler.cpp`) | none | operators. `BodyStep` is one pass of the main loop and `BodyLoop` the loop itself, run for at most `fuel` passes. The attribute and value loops are `AttrLoop` and `ValueLoop`. The element stack is `r.stack`, and a read past the WMLC sets `oob`. Text bytes are abstracted to the letters a, b and c. |
| `WDPRelay` | what the proxy promises its AP nodes, without slots, sockets or clocks | `sent`, `forwarded`, `relayed`, `pending` (the `[from, port]` of requests awaiting a reply) | `Send`, `Forward` (as sent; may give up one pending request), `Relay` (only to a pending request's node and port, which stops being pending) |
| `WDPHeader` | the UDH byte layout: the header building of `sendWDPViaMesh`/`ap_sendWDPViaMesh`, `parseUDH`, `parseConcatUDH`, the dispatch at the top of both `handleIncomingMesh`, the part store test, and `MyMesh::isValidWDPMessage` | none | operators over byte sequences |
| `HTTPFront` | `parseHTTPRequest`, `buildURL` and `handleHTTPRequest` up to `sendWAPRequestViaMesh` (`src/src/mode_ap.h`) | none | operators over a request abstracted to its method, the number of spaces in its request line, the lengths of its target, and its header lines (name as sent, lengths of a Host value and of its port, where a connectivity-check domain ends in it, a Content-Length's value). The outcome is 400, closed (a probe), 501, 500 or the Get PDU. The 5 s deadlines are abstracted to the lines the client delivered. |
| `Codecs` | a harness over the seven codec modules | `case`: one input, fixed at Init | none (`Next` leaves `case` unchanged); properties compare the code's operators with references written from WSP (WAP-230) and WBXML |
| `MC_WDPGateway`, `MC_APExchange`, `MC_Codecs` | model values and small constant sets for TLC | | |

Payloads are sequences of small integers. In `APExchange` a WSP reply is `<<header, body...>>`, where the header is the model value `Text` or `Wmlc`. The model assumes the WSP headers fit in part 1, as the code's comment expects.

Time is relative: each slot carries its age in ticks since its timestamp, and `Tick` ages every active slot up to one past its timeout.
- In `WDPGateway` a tick is 30 s (concat eviction after 1 tick, pending connections after 2).
- In `APExchange` a tick is 15 s (the wait ends after 1 tick, slots are evicted after 2).

The code runs each handler to completion, and each action does too. Every state change a handler makes is inside its action:
- the trailing `forwardToWAPBox` and `clearConcatMessage`;
- the early headers and the streaming writes;
- the HTTP response written after the wait returns.

The handler `ap_handleIncomingMesh` is written as an operator from state to state, so that one wait-loop iteration can compose it with the checks that follow it in the code.

## Network assumptions

No action delivers a datagram fairly, so:
- a datagram that is never delivered is lost;
- delivery in any order is reordering.

In `WDPGateway` delivery does not consume a datagram, so any datagram can be delivered again (duplication). In `APExchange` delivery consumes it, and at most `MaxDuplicates` deliveries are repeats. The reason is the liveness property: unbounded duplication of a stale reply would reset the 15 s wait forever.

A WAPBox reply left in `udpIn` is one the socket never read, or one that arrives late.

## Runs

| Run | Config | Expect | Shows |
|---|---|---|---|
| `gw_safety` | `MC_WDPGateway.cfg` | pass | The proxy forwards only requests that were sent, byte for byte (`ForwardIntegrity`). It relays each reply only to the node and port that asked (`ReplyRouting`). Every reassembly slot is freed again (`SlotsReclaimed`). The gateway implements the abstract relay `WDPRelay` (`ImplementsRelay`, see Refinement). This holds under loss, duplication, reordering, both timeouts, a full pending pool and slot reuse. 2 nodes, 2 requests (one concatenated, one simple), 1 pending slot, 2 concat slots. |
| `gw_ref_collision` | `MC_WDPGatewayRefCollision.cfg` | violation | With a reused reference number, two requests of one node are spliced into one. |
| `ap_exchange` | `MC_APExchange.cfg` | pass | Four properties hold. A response returned by the wait is the reply to that request (`BufferedResponseIntegrity`). WMLC pages and one-datagram pages reach the browser intact (`ClientGetsReply`). Nothing from another request's datagrams is written to the browser (`NoForeignBytes`). The HTTP server always restarts (`ServerRestarts`). The run has late replies to abandoned requests, duplicates, disconnects, timeouts and a one-slot pool. |
| `ap_reorder` | `MC_APExchangeReorder.cfg` | violation | With a two-part text reply, reordered parts give the browser a truncated body. |
| `ap_stale_stream` | `MC_APExchangeStale.cfg` | violation | A late reply's part 2 is streamed into the next request's body. |
| `ap_timeout_after_headers` | `MC_APExchangeTimeout.cfg` | violation | A timeout after the early headers appends a 504 status line. |
| `mesh_node` | `MC_MeshNode.cfg` | pass | With every send succeeding, each queued WDP message reaches its handler exactly once (`HandledOnce`), no queued message starves (`QueuedHandled`), and proxy discovery ends (`DiscoveryEnds`) after at most `AP_PROXY_DISCOVERY_MAX_RETRIES` pings (`RetriesExhausted`). Peers ping the node, the browser sends requests, and ACKs are lost or duplicated. |
| `mesh_ping_send_failed` | `MC_MeshNodeSendFail.cfg` | violation | When the ping's `sendMessage` fails, discovery stays in progress forever. |
| `mesh_foreign_ack` | `MC_MeshNodeForeignAck.cfg` | violation | `PathFromProxyAck`: while the proxy ping is pending, another contact pings the node; loop() sends it `ping ok`, that contact's ACK clears `expected_ack_crc`, and `checkProxyPingAck` marks the proxy path discovered although the proxy acknowledged nothing. (The ACK of a WDP request does not count against it: `sendWDPToMesh` sends to the proxy.) |
| `codecs` | `MC_Codecs.cfg` | pass | Base91 decode inverts encode (`RoundTrip`), every digit is in the alphabet (`DigitsInAlphabet`), both functions write all or nothing at every buffer size (`EncodeAllOrNothing`, `DecodeAllOrNothing`), and every truncated datagram fits MeshCore's 150 characters (`EncodingFits`). The Get PDU is well-formed WSP (`GetRequestParses`). Every short-form reply decodes to its fields (`ReplyRoundTrip`). With a 64-bit `unsigned long`, no reply makes `decode` read past the PDU (`ReadsInBounds`). The WMLC of a WML deck decompiles back to the deck's text (`WmlRoundTrip`). This includes a deck nested 32 deep, the most the element stack holds. Whatever the WMLC, the output stays shorter than the buffer (`OutputFits`). With a terminated string table, `decompileBody` reads nothing past the WMLC (`DecompileReadsInBounds`). Every datagram either node's `sendWDPViaMesh` builds passes `isValidWDPMessage`, fits the 121 bytes `sendWDPToMesh` encodes whole, and is read back by the other node's handler with its ports the right way round, its reference and part number, and a part the receiver stores; the parts join to the payload (`DatagramsRoundTrip`). Every datagram `isValidWDPMessage` passes is read as the kind its header length declares, with a part number in 1..totalParts and no zero port (`ValidatedDispatch`). For every WSP status byte, the status line carries the code WAP-230 assigns (500 if unassigned) and a known reason phrase: the two tables in two files agree (`StatusLine`). Whatever `parseReplyPDU` accepts, `decode` reads with the same status and body (`ReplyParsersAgree`). `handleHTTPRequest` answers 400 exactly the request lines that are not method SP target SP version. It forwards exactly the GET and HEAD requests that are not connectivity probes, and its Get PDU names the effective request URI of RFC 7230: the absolute target, or `http://` + Host (in any case) + target, or the default host (`FrontEndForwards`). |
| `wsp_uintvar_wrap` | `MC_CodecsESP32.cfg` | violation | With the ESP32's 32-bit `unsigned long` and `size_t`, the header length `8F FF FF FF 7F` wraps to 2^32-1. The bounds check `pos + headersLen <= len` wraps too and passes, so `parseHeaders` reads past the reply. |
| `wmlc_opaque_hang` | `MC_CodecsWmlcHang.cfg` | violation | On the ESP32, an OPAQUE length of 2^32 - 6 wraps `pos` back to the OPAQUE token. `decompileBody`'s main loop then never ends, and `handleHTTPRequest` hangs (`DecompileTerminates`). The body is 10 bytes. |

Each violation run has a finding in `PROJECT.json`. Each property of a passing run has a mutant there: a plausible bug in the mapped code that TLC catches under the run's own configuration.

## Refinement

`WDPRelay` states what an AP node may assume of the proxy, with no slots, sockets, fragments or clocks. `WDPGateway` defines `Abstract == INSTANCE WDPRelay WITH pending <- PendingRequests`. The history variables `sent`, `forwarded` and `relayed` are shared. `PendingRequests` maps the active `pendingConnections` to the `[meshRecipient, clientSourcePort]` pairs they serve. `MC_WDPGateway.cfg` checks `Abstract!Spec` as the property `ImplementsRelay`.

Every step of the gateway must be a step of `WDPRelay` or leave its variables unchanged:
- a forward opens at most one pending request and gives up at most one other (a slot taken over);
- a relayed reply answers a pending request at that request's node and port, and the request stops being pending.

`loop` clears a slot in the same step that relays its reply (`ServedSlot`). A slot kept active after its reply would let a second reply through for the same request, which `Relay` forbids. The mutant `ServedSlotKept` is exactly that bug. `APExchange`'s environment action `ProxyRelay` assumes this behaviour of the proxy.

## Bounds

Chunks are 2 elements and a simple datagram carries up to 3. So a 4-element payload takes the concatenated path in 2 parts, and a shorter one the simple path. Both paths of `sendWDPViaMesh` and of both handlers are taken.
- **Pools:** the pending pool of 1 slot forces the "no free slot" and the "reuse an expired slot" paths. The AP run's single concat slot forces "No free concat message slots".
- **Requests:** two requests are enough for every cross-request case: a stale reply, slot and socket reuse, a reference-number collision. Three requests exceed TLC's budget here.
- **Reference numbers:** under `FreshRefs` the reference numbers are only compared for equality. So the AP model picks the least unused one.

## Wide integers

TLC's integers are 32-bit signed. A 5-byte uintvar holds 35 bits, so `WAPRequest` keeps such values as `[hi, lo]`, meaning hi * 2^21 + lo. `WideMod` reduces `hi` to the width of `unsigned long` (`ULONG_BITS`: 32 on the ESP32, 64 on a host build). `WideValue` caps the value at 2^30 for the comparisons with PDU positions, which are all far below that. Every other value the codecs compute stays below 2^24.

## Codec inputs

`MC_Codecs` enumerates:
- every byte sequence of up to 2 bytes, and edge inputs at the 13/14-bit boundary of Base91, against every buffer size up to 10;
- every datagram length from 0 to 130 (past the 121-byte truncation);
- URLs whose host lengths (0, 1, 63, 64) and total lengths straddle the 127/128 uintvar boundary, the 64-byte host buffer and the capacity of the 512-byte request buffer;
- replies with each content-type form, up to 2 fields of Server, Location, Etag, an application header, Content-Length (short and multi-octet), Date and Cache-Control, and bodies of 0 to 2 bytes;
- WML decks (a `card` under `wml` with attribute sets and up to 2 children of text, string table references and elements), and a chain of 32 nested elements, compiled to WMLC by a reference encoder written from the WBXML specification;
- arbitrary WMLC. The header has WML 1.1 or an unknown public ID and one of 4 string tables: none, short, 40 characters, or unterminated. The body has up to 2 tokens of every kind the main loop tells apart, or 3 element-building tokens. There are also bodies that fill the 100-byte minimum output exactly. The hang run adds OPAQUE lengths of 5 bytes;
- sends of 0, 1, 113, 114, 216, 217 and 512 bytes into the proxy's 2048-byte reassembly buffer, and of 1404, 1405 and 1500 bytes into the AP's 4096. These are the simple limit, one and two parts, the 512-byte `http_wapRequest`, and the 1500-byte UDP buffer of the proxy's `loop` (14 parts). Ports are 1, 255, 256, 9200 and 65535, and `refNum` is 0 or 255. Payload byte i is i mod 251, so a misplaced fragment shows;
- datagrams of 6, 7, 11 and 12 bytes whose bytes take, at each position, the values the tests of `isValidWDPMessage` and of the parsers tell apart;
- raw PDUs: a Reply header, a uintvar of 1, 2 or 5 bytes (including the wrapping ones) and up to 3 header bytes from values chosen at each branch of `parseHeaders`;
- all 256 WSP status bytes;
- HTTP requests: the methods GET, HEAD, POST, `get` and none, request lines with 0, 1 and 2 spaces, origin, absolute (`http://`, `https://`) and empty targets up to the 255 characters `path` holds, and up to two header lines out of Host (three spellings, a port, 127 characters, a probe domain), Content-Type, Content-Length (10 and 600) and a line without a colon.

The requests reach every outcome except 500. A URL `buildURL` forms is at most 7 + 127 + 255 = 389 characters, and its Get PDU, headers included, stays below the 512 bytes of `http_wapRequest`. So the front end never takes its "Failed to create WAP request" branch. Targets that do not start with `/`, `?` or a scheme, and a scheme in upper case, are left out of the inputs: `buildURL` glues them to the host, and the URL record cannot express the result.

`decompile` is a chain of operators. Each result used more than once is passed as an operator argument, not bound by a LET. TLC's coverage statistics expand a LET at every use, and at the decompiler's depth that multiplies the time to start a run.

Recursion is kept shallow, because a Java stack overflow ends a TLC run:
- the decompiler's main loop (`Passes`) takes up to four steps per level of recursion, and the encoder length (`AfterBytes`) up to eight;
- the 32-deep test deck is built from the inside out.

## Fairness

- `loop()` of the proxy and each iteration of the AP's wait loop run on every pass of the Arduino main loop, so both are weakly fair.
- `millis()` advances, so `Tick` is weakly fair.
- The wait's exit on timeout is weakly fair.
- In `MeshNode`, `loop` and `startProxyDiscovery` (called from `setup` and the main loop) are weakly fair, as is `Tick`.
- Nothing outside the nodes is fair: the mesh, the WAPBox and the browser.

## Not modelled

- **`WMLCDecompiler::getVersion` and `getPublicId`:** nothing in the firmware calls them.
- **Deeper WML nesting and variables in attribute values:** the decompiler mishandles both (see the hazards), so the round-trip reference leaves them out.
- **Text formatting:** `WAPResponse::formatAsHTTP` and `print`. The firmware never calls them. The reason phrases of `httpStatusToText` are abstracted to known or "Unknown".
- **MeshCore itself:** routing, retransmission and the ACK hash. A message is delivered, lost or duplicated.
- **The proxy branch of `MyMesh::loop`:** it runs the same inbox code as the AP branch.
- **Truncated paths and hosts:** `parseHTTPRequest` cuts a path over 255 characters and a Host over 127 without an error. `Copied` and `Cut` model the cut, and `FrontEndForwards` is stated for requests that fit. No run slot is left to show the cut as a violation (see the hazards).
- **Platform I/O, out of scope:** the socket reads of `parseHTTPRequest` (characters and deadlines), DNS, WiFi, display, contacts and CLI.

See `PROJECT.json` for the component list and the hazards each property covers.

----------------------------- MODULE APExchange -----------------------------
(***************************************************************************)
(* The AP node's side of one WAP exchange (src/src/mode_ap.h).             *)
(*                                                                         *)
(* handleHTTPRequest calls sendWAPRequestViaMesh, which stops the HTTP     *)
(* server, picks a random source port (ap_currentRequestPort), sends the   *)
(* request and then spins: each iteration runs the_mesh.loop() (ap_loop's  *)
(* concat cleanup and at most one queued datagram, which goes to           *)
(* ap_handleIncomingMesh), checks for a client disconnect and for a ready  *)
(* response; the loop ends after 15 s without a stored part.               *)
(* ap_handleIncomingMesh reassembles the proxy's concatenated reply, sends *)
(* the HTTP headers early when part 1 arrives and streams later parts of a *)
(* non-WMLC body straight to the client.                                    *)
(*                                                                         *)
(* A WSP reply is a sequence whose first element is its content-type       *)
(* header (model value Text or Wmlc) and whose other elements are body     *)
(* bytes; the headers are assumed to fit in part 1, as the code's comment  *)
(* expects.                                                                *)
(***************************************************************************)
EXTENDS Integers, Sequences, FiniteSets, SequencesExt, FiniteSetsExt

CONSTANTS
  Ports,            \* values ap_generateSourcePort() may return
  RefNums,          \* reference numbers the proxy may put on a reply
  Replies,          \* WSP replies the proxy may relay
  ChunkSize,        \* MESHCORE_MAX_BINARY_PAYLOAD - 12
  SimpleMax,        \* MESHCORE_MAX_BINARY_PAYLOAD - 7
  MaxTrackedParts,  \* 16 parts per AP_ConcatMessage
  MaxConcat,        \* AP_MAX_CONCAT_MESSAGES
  WaitTimeout,      \* the 15000 ms passed by handleHTTPRequest, in ticks
  ConcatTimeout,    \* 30000 ms, in ticks
  MaxRequests,      \* bound on HTTP requests in one behaviour
  MaxDuplicates,    \* bound on datagrams the mesh delivers twice
  FreshRefs,        \* TRUE: the proxy never reuses a reference number
  Text, Wmlc        \* model values: the content type a WSP reply carries

HeaderKinds == {Text, Wmlc}

ASSUME /\ ChunkSize \in Nat \ {0} /\ SimpleMax > ChunkSize
       /\ MaxConcat \in Nat \ {0} /\ MaxTrackedParts \in Nat \ {0}
       /\ WaitTimeout \in Nat \ {0} /\ ConcatTimeout \in Nat
       /\ FreshRefs \in BOOLEAN /\ MaxDuplicates \in Nat
       /\ 0 \notin Ports
       /\ \A r \in Replies : Len(r) > 0 /\ r[1] \in HeaderKinds

VARIABLES
  ap,         \* the AP's globals, one record (see APState)
  connected,  \* the waiting WiFiClient is still connected
  meshIn,     \* reply datagrams relayed by the proxy and not yet delivered
  dupBudget,  \* duplicate deliveries the mesh may still make
  requested,  \* history: source ports of the requests sent, in order
  answer,     \* history: the reply the proxy relayed for each port
  done        \* history: finished exchanges

vars == <<ap, connected, meshIn, dupBudget, requested, answer, done>>

ConcatIdx == 1..MaxConcat
ConcatAgeCap == ConcatTimeout + 1

-----------------------------------------------------------------------------
(* The proxy's sendWDPViaMesh, as seen by the AP (see WDPGateway).         *)

NumParts(p) == (Len(p) + ChunkSize - 1) \div ChunkSize

PartData(p, k) ==
  SubSeq(p, (k - 1) * ChunkSize + 1, Min({k * ChunkSize, Len(p)}))

Fragments(dst, ref, p) ==
  IF Len(p) <= SimpleMax
  THEN {[kind |-> "simple", dst |-> dst, ref |-> 0, total |-> 0, cur |-> 0,
         data |-> p]}
  ELSE {[kind |-> "concat", dst |-> dst, ref |-> ref, total |-> NumParts(p),
         cur |-> k, data |-> PartData(p, k)] : k \in 1..NumParts(p)}

-----------------------------------------------------------------------------
(* WAPResponse::decode of the first fragment: the content type and the     *)
(* body bytes that follow it.  ap_isWMLC is strstr(contentType, "wmlc").    *)

HeaderOf(p) == p[1]
BodyOf(p) == Tail(p)

\* Client writes: an HTTP status line with its content type, body bytes,
\* or the WML that WMLCDecompiler::decompile makes of a WMLC body.  src is
\* the destination port of the datagram the data came from (0: none).
StatusWrite(ct, src) == [kind |-> "status", ct |-> ct, src |-> src]
BodyWrite(b, src) == [kind |-> "body", bytes |-> b, src |-> src]
WmlWrite(b, src) == [kind |-> "wml", wmlc |-> b, src |-> src]

-----------------------------------------------------------------------------
(* Slots: ap_clearConcatMessage, and part storage in ap_handleIncomingMesh. *)

ap_clearConcatMessage ==
  [active |-> FALSE, refNum |-> 0, totalParts |-> 0, receivedParts |-> 0,
   parts |-> [k \in 1..MaxTrackedParts |-> <<>>], destPort |-> 0,
   age |-> ConcatAgeCap]

\* The part is stored when its index is tracked and not yet received.
CanStore(slot, d) ==
  /\ d.cur > 0 /\ d.cur <= MaxTrackedParts
  /\ slot.parts[d.cur] = <<>>

\* data[0 .. sum of partSizes) once every part is in.
Reassembled(slot) == FlattenSeq([k \in 1..slot.totalParts |-> slot.parts[k]])

\* The state ap_handleIncomingMesh and sendWAPRequestViaMesh work on.
APState ==
  [phase : {"idle", "waiting"}, serverUp : BOOLEAN, port : Ports \cup {0}, ready : BOOLEAN,
   buf : Seq(Nat \cup HeaderKinds), waitingClient : BOOLEAN,
   headersSent : BOOLEAN, isWMLC : BOOLEAN, lastPart : 0..WaitTimeout,
   slots : [ConcatIdx -> [active : BOOLEAN, refNum : RefNums \cup {0},
                          totalParts : 0..MaxTrackedParts,
                          receivedParts : 0..MaxTrackedParts,
                          parts : [1..MaxTrackedParts -> Seq(Nat \cup HeaderKinds)],
                          destPort : Ports \cup {0}, age : 0..ConcatAgeCap]],
   out : Seq([kind : {"status"}, ct : {"text", "wml", "504"}, src : Ports \cup {0}]
             \cup [kind : {"body"}, bytes : Seq(Nat), src : Ports \cup {0}]
             \cup [kind : {"wml"}, wmlc : Seq(Nat), src : Ports \cup {0}]),
   reqPort : Ports \cup {0}]

\* A write reaches the client only while it is connected.
Write(st, w) == IF connected THEN [st EXCEPT !.out = Append(@, w)] ELSE st

\* Mutant: the first packet's body is written for a WMLC reply too.
EarlyHeadersRawBody(st, data, src) ==
  IF ~st.waitingClient \/ st.headersSent THEN st
  ELSE LET wmlc == HeaderOf(data) = Wmlc
           s1 == Write([st EXCEPT !.isWMLC = wmlc, !.headersSent = TRUE],
                       StatusWrite(IF wmlc THEN "wml" ELSE "text", src))
       IN IF BodyOf(data) # <<>> THEN Write(s1, BodyWrite(BodyOf(data), src))
          ELSE s1

\* Mutant: the WMLC content type is sent as it came, not rewritten to WML.
EarlyHeadersRawType(st, data, src) ==
  IF ~st.waitingClient \/ st.headersSent THEN st
  ELSE LET wmlc == HeaderOf(data) = Wmlc
           s1 == Write([st EXCEPT !.isWMLC = wmlc, !.headersSent = TRUE],
                       StatusWrite(IF wmlc THEN "wmlc" ELSE "text", src))
       IN IF ~wmlc /\ BodyOf(data) # <<>>
          THEN Write(s1, BodyWrite(BodyOf(data), src))
          ELSE s1

\* ap_trySendEarlyHeaders(wspData): status and content type, then, for a
\* non-WMLC reply, the body bytes that came in the same datagram.
ap_trySendEarlyHeaders(st, data, src) ==
  IF ~st.waitingClient \/ st.headersSent THEN st
  ELSE LET wmlc == HeaderOf(data) = Wmlc
           s1 == Write([st EXCEPT !.isWMLC = wmlc, !.headersSent = TRUE],
                       StatusWrite(IF wmlc THEN "wml" ELSE "text", src))
       IN IF ~wmlc /\ BodyOf(data) # <<>>
          THEN Write(s1, BodyWrite(BodyOf(data), src))
          ELSE s1

\* The reply is accepted into ap_meshResponseBuffer.
Deliver(st, p) ==
  [st EXCEPT !.buf = p, !.ready = TRUE, !.port = 0]

PortMatches(st, dst) == st.port = 0 \/ dst = st.port

\* Mutant: early headers are sent for part 1 of any reply.
EarlyHeadersAllowedAny(st, slot) == TRUE

\* "Verify port match first" before the early headers of part 1.
EarlyHeadersAllowed(st, slot) == PortMatches(st, slot.destPort)

\* Mutant: a completed reply is accepted whatever its destination port.
CompletionAcceptedAny(st, slot) == TRUE

\* "Verify this response matches our pending request by destination port"
\* on a completed concatenated reply.
CompletionAccepted(st, slot) == st.port = 0 \/ slot.destPort = st.port

\* Mutant: the wait is extended by every part, stored or duplicate.
NoteProgressAlways(st, stored) == [st EXCEPT !.lastPart = 0]

\* ap_lastPartReceivedTime = millis() when a part is stored.
NoteProgress(st, stored) == IF stored THEN [st EXCEPT !.lastPart = 0] ELSE st

-----------------------------------------------------------------------------
(* ap_handleIncomingMesh(from, data, len) on state st, for a datagram d.   *)

NewSlot(d) ==
  [ap_clearConcatMessage EXCEPT !.active = TRUE, !.refNum = d.ref,
     !.totalParts = d.total, !.destPort = d.dst, !.age = 0]

HandleConcat(st, d) ==
  LET found == {i \in ConcatIdx : st.slots[i].active /\ st.slots[i].refNum = d.ref}
      free == {i \in ConcatIdx : ~st.slots[i].active}
  IN IF found = {} /\ free = {} THEN st   \* "No free concat message slots"
     ELSE
     LET i == IF found # {} THEN Min(found) ELSE Min(free)
         s0 == IF found # {} THEN st.slots[i] ELSE NewSlot(d)
         stored == CanStore(s0, d)
         s1 == IF stored
               THEN [s0 EXCEPT !.parts[d.cur] = d.data,
                               !.receivedParts = @ + 1, !.age = 0]
               ELSE s0
         st1 == NoteProgress([st EXCEPT !.slots[i] = s1], stored)
         \* early headers on part 1, streaming of later non-WMLC parts
         st2 == IF ~stored THEN st1
                ELSE IF d.cur = 1 /\ ~st1.headersSent /\ st1.waitingClient
                THEN IF EarlyHeadersAllowed(st1, s1)
                     THEN ap_trySendEarlyHeaders(st1, d.data, d.dst)
                     ELSE st1
                ELSE IF /\ ~st1.isWMLC /\ st1.headersSent
                        /\ st1.waitingClient /\ connected /\ d.cur > 1
                THEN Write(st1, BodyWrite(d.data, d.dst))
                ELSE st1
         cleared == [st2 EXCEPT !.slots[i] = ap_clearConcatMessage]
     IN IF s1.receivedParts # s1.totalParts THEN st2
        ELSE IF CompletionAccepted(st2, s1) THEN Deliver(cleared, Reassembled(s1))
        ELSE cleared                           \* "Concat port mismatch"

HandleSimple(st, d) ==
  IF ~PortMatches(st, d.dst) THEN st           \* "Port mismatch"
  ELSE LET st1 == IF ~st.headersSent /\ st.waitingClient
                  THEN ap_trySendEarlyHeaders(st, d.data, d.dst) ELSE st
       IN Deliver(st1, d.data)

ap_handleIncomingMesh(st, d) ==
  IF d.kind = "concat" THEN HandleConcat(st, d) ELSE HandleSimple(st, d)

\* ap_loop's cleanup of concat messages older than 30 s.
ExpireConcat(st) ==
  [st EXCEPT !.slots = [i \in ConcatIdx |->
     IF st.slots[i].active /\ st.slots[i].age > ConcatTimeout
     THEN ap_clearConcatMessage ELSE st.slots[i]]]

\* No queued datagram is old enough to be processed in this iteration.
NoDatagram == [kind |-> "none", dst |-> 0, ref |-> 0, total |-> 0, cur |-> 0,
               data |-> <<>>]

\* The queued datagram d is taken off the mesh, unless the mesh delivers it
\* again later (a duplicate, within the budget).
Consume(d) ==
  \/ meshIn' = meshIn \ {d} /\ UNCHANGED dupBudget
  \/ d # NoDatagram /\ dupBudget > 0 /\ dupBudget' = dupBudget - 1
     /\ UNCHANGED meshIn

\* One the_mesh.loop(): ap_loop, then at most one queued datagram.
MeshLoop(st, d) ==
  IF d = NoDatagram THEN ExpireConcat(st)
  ELSE ap_handleIncomingMesh(ExpireConcat(st), d)

-----------------------------------------------------------------------------
(* sendWAPRequestViaMesh and the handleHTTPRequest code around it.         *)

Finish(st, ok) ==
  done' = done \cup {[port |-> st.reqPort, ok |-> ok, out |-> st.out,
                      buf |-> st.buf]}

\* A client's GET reaches handleHTTPRequest; the request goes out on a
\* fresh random source port and the wait starts.
StartRequest(p) ==
  /\ ap.phase = "idle" /\ ap.serverUp
  /\ Len(requested) < MaxRequests
  /\ p \notin Range(requested)
  /\ ap' = [ap EXCEPT !.phase = "waiting", !.serverUp = FALSE,
              !.ready = FALSE, !.buf = <<>>,
              !.waitingClient = TRUE, !.headersSent = FALSE, !.isWMLC = FALSE,
              !.port = p, !.lastPart = 0, !.out = <<>>, !.reqPort = p]
  /\ connected' = TRUE
  /\ requested' = Append(requested, p)
  /\ UNCHANGED <<meshIn, dupBudget, answer, done>>

\* The reply is handed back: handleHTTPRequest sends what the early
\* headers have not (the decompiled WML), or the whole response.
Respond(st) ==
  LET fin == [st EXCEPT !.phase = "idle", !.serverUp = TRUE, !.ready = FALSE,
                        !.waitingClient = FALSE, !.headersSent = FALSE]
      body == BodyOf(st.buf)
  IN IF st.headersSent
     THEN IF st.isWMLC /\ st.buf # <<>> THEN Write(fin, WmlWrite(body, 0))
          ELSE fin
     ELSE IF HeaderOf(st.buf) = Wmlc
          THEN Write(Write(fin, StatusWrite("wml", 0)), WmlWrite(body, 0))
          ELSE Write(Write(fin, StatusWrite("text", 0)), BodyWrite(body, 0))

\* One iteration of the wait loop, taken while less than 15 s have passed
\* since the last stored part.
WaitIteration(d) ==
  /\ ap.phase = "waiting"
  /\ ap.lastPart < WaitTimeout
  /\ LET st == MeshLoop(ap, d) IN
     IF ~connected
     THEN \* "Client disconnected while waiting for mesh response"
          /\ ap' = [st EXCEPT !.phase = "idle", !.serverUp = TRUE,
                              !.ready = FALSE, !.port = 0,
                              !.waitingClient = FALSE, !.headersSent = FALSE]
          /\ Finish(st, FALSE)
     ELSE IF st.ready
     THEN /\ ap' = Respond(st)
          /\ Finish(Respond(st), TRUE)
     ELSE /\ ap' = st
          /\ UNCHANGED done
  /\ ap' # ap
  /\ Consume(d)
  /\ UNCHANGED <<connected, requested, answer>>

\* Mutant: the timeout path returns without httpServer.begin().
WaitExpiredNoRestart ==
  /\ ap.phase = "waiting"
  /\ ap.lastPart >= WaitTimeout
  /\ LET st == Write([ap EXCEPT !.phase = "idle",
                                !.waitingClient = FALSE, !.headersSent = FALSE],
                     StatusWrite("504", 0))
     IN ap' = st /\ Finish(st, FALSE)
  /\ UNCHANGED <<connected, meshIn, dupBudget, requested, answer>>

\* The wait loop ends without a reply; ap_currentRequestPort is left set.
\* handleHTTPRequest then writes "504 Gateway Timeout".
WaitExpired ==
  /\ ap.phase = "waiting"
  /\ ap.lastPart >= WaitTimeout
  /\ LET st == Write([ap EXCEPT !.phase = "idle", !.serverUp = TRUE,
                                !.waitingClient = FALSE, !.headersSent = FALSE],
                     StatusWrite("504", 0))
     IN ap' = st /\ Finish(st, FALSE)
  /\ UNCHANGED <<connected, meshIn, dupBudget, requested, answer>>

\* the_mesh.loop() from the main loop while no request is waiting.
IdleLoop(d) ==
  /\ ap.phase = "idle"
  /\ ap' = MeshLoop(ap, d)
  /\ ap' # ap
  /\ Consume(d)
  /\ UNCHANGED <<connected, requested, answer, done>>

-----------------------------------------------------------------------------
(* Environment: the proxy, the client and the clock.                      *)

\* The proxy relays the WAPBox's reply to a request, possibly after the AP
\* has given up on it.
ProxyRelay(p) ==
  \E r \in Replies, ref \in RefNums :
    /\ p \in Range(requested)
    /\ \A a \in answer : a.port # p
    \* refNum = millis() & 0xFF; fresh refs are interchangeable, so the
    \* least unused one stands for all of them
    /\ FreshRefs => ref = Min(RefNums \ {a.ref : a \in answer})
    /\ meshIn' = meshIn \cup Fragments(p, ref, r)
    /\ answer' = answer \cup {[port |-> p, ref |-> ref, reply |-> r]}
    /\ UNCHANGED <<ap, connected, dupBudget, requested, done>>

Disconnect ==
  /\ ap.phase = "waiting" /\ connected
  /\ connected' = FALSE
  /\ UNCHANGED <<ap, meshIn, dupBudget, requested, answer, done>>

\* millis() advances.
Tick ==
  /\ \/ ap.phase = "waiting" /\ ap.lastPart < WaitTimeout
     \/ \E i \in ConcatIdx : ap.slots[i].active /\ ap.slots[i].age < ConcatAgeCap
  /\ ap' = [ap EXCEPT
              !.lastPart = IF ap.phase = "waiting" THEN Min({@ + 1, WaitTimeout})
                           ELSE @,
              !.slots = [i \in ConcatIdx |->
                 IF @[i].active THEN [@[i] EXCEPT !.age = Min({@ + 1, ConcatAgeCap})]
                 ELSE @[i]]]
  /\ UNCHANGED <<connected, meshIn, dupBudget, requested, answer, done>>

\* No request is waiting and no client connects: the AP idles.
Quiescent ==
  /\ ap.phase = "idle"
  /\ UNCHANGED vars

Init ==
  /\ ap = [phase |-> "idle", serverUp |-> TRUE, port |-> 0, ready |-> FALSE, buf |-> <<>>,
           waitingClient |-> FALSE, headersSent |-> FALSE, isWMLC |-> FALSE,
           lastPart |-> 0, slots |-> [i \in ConcatIdx |-> ap_clearConcatMessage],
           out |-> <<>>, reqPort |-> 0]
  /\ connected = FALSE
  /\ meshIn = {} /\ dupBudget = MaxDuplicates /\ requested = <<>> /\ answer = {} /\ done = {}

Datagrams == meshIn \cup {NoDatagram}

Next ==
  \/ \E p \in Ports : StartRequest(p)
  \/ \E d \in Datagrams : WaitIteration(d)
  \/ WaitExpired
  \/ \E d \in Datagrams : IdleLoop(d)
  \/ \E p \in Ports : ProxyRelay(p)
  \/ Disconnect
  \/ Tick
  \/ Quiescent

\* The wait loop spins until it returns, and millis() advances.
Spec == Init /\ [][Next]_vars
        /\ WF_vars(\E d \in Datagrams : WaitIteration(d))
        /\ WF_vars(WaitExpired) /\ WF_vars(Tick)

-----------------------------------------------------------------------------
(* Properties.                                                             *)

TypeOK ==
  /\ ap \in APState
  /\ connected \in BOOLEAN /\ dupBudget \in 0..MaxDuplicates
  /\ requested \in Seq(Ports)

\* What the client saw: its status lines, body bytes and decompiled WML.
StatusLines(out) == SelectSeq(out, LAMBDA w : w.kind = "status")
BodyBytes(out) ==
  FlattenSeq([k \in 1..Len(SelectSeq(out, LAMBDA w : w.kind = "body")) |->
                SelectSeq(out, LAMBDA w : w.kind = "body")[k].bytes])
WmlBodies(out) ==
  LET ws == SelectSeq(out, LAMBDA w : w.kind = "wml")
  IN [k \in 1..Len(ws) |-> ws[k].wmlc]

\* The HTTP response a client should get for a WSP reply.
ExpectedView(r) ==
  IF HeaderOf(r) = Text
  THEN [status |-> <<"text">>, body |-> BodyOf(r), wml |-> <<>>]
  ELSE [status |-> <<"wml">>, body |-> <<>>, wml |-> <<BodyOf(r)>>]

View(out) ==
  [status |-> [k \in 1..Len(StatusLines(out)) |-> StatusLines(out)[k].ct],
   body |-> BodyBytes(out), wml |-> WmlBodies(out)]

\* Reply correlation: when sendWAPRequestViaMesh returns a response, it is
\* exactly the reply the proxy relayed to that request's source port, even
\* with replies to abandoned requests still arriving and reassembly slots
\* left over from them.
BufferedResponseIntegrity ==
  \A e \in done : e.ok =>
    \E a \in answer : a.port = e.port /\ a.reply = e.buf

\* End to end: a client whose request is answered gets one status line and
\* the reply's body, written early part by part (non-WMLC) or decompiled at
\* the end (WMLC), in the order of the reply.
ClientGetsReply ==
  \A e \in done : e.ok =>
    \E a \in answer : a.port = e.port /\ View(e.out) = ExpectedView(a.reply)

\* No cross-talk: nothing ap_handleIncomingMesh writes to the waiting client
\* (early headers, streamed parts) comes from a datagram addressed to
\* another request's source port.
NoForeignBytes ==
  \A k \in DOMAIN ap.out : ap.out[k].src \in {0, ap.reqPort}

\* One response per connection: the client never gets a second HTTP status
\* line, e.g. the 504 that handleHTTPRequest writes after a timeout.
SingleStatusLine ==
  \A e \in done : Len(StatusLines(e.out)) <= 1

\* The AP serves again: every wait in sendWAPRequestViaMesh ends (reply,
\* disconnect or timeout) and the HTTP server is restarted.
ServerRestarts == ~ap.serverUp ~> ap.serverUp

=============================================================================

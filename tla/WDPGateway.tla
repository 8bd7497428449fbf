----------------------------- MODULE WDPGateway -----------------------------
(***************************************************************************)
(* The proxy node's WDP gateway (src/src/mode_proxy.h, class WDPGateway).  *)
(*                                                                         *)
(* Mesh datagrams (simple or concatenated UDH) arrive from AP nodes; the   *)
(* concatenated ones are reassembled in a pool of concatMessages slots;    *)
(* a complete request is forwarded by UDP to the WAPBox from a socket      *)
(* bound to the client's source port and remembered in a pool of           *)
(* pendingConnections.  loop() reads WAPBox replies from those sockets,    *)
(* fragments them back onto the mesh, and evicts timed-out slots.          *)
(*                                                                         *)
(* Payloads are sequences of abstract bytes; header bytes are abstracted   *)
(* to record fields.  Time is relative: every slot carries its age in      *)
(* ticks since its timestamp, and Tick ages every active slot.             *)
(***************************************************************************)
EXTENDS Integers, Sequences, FiniteSets, FiniteSetsExt, Functions

CONSTANTS
  MeshIds,          \* mesh identities of the AP nodes (sender id strings)
  SenderPorts,      \* SenderPorts[m]: client source ports node m may pick
  RefNums,          \* concatenation reference numbers the senders may pick
  Requests,         \* Requests[k]: the WSP request payload of the k-th request
  Replies,          \* WSP reply payloads the WAPBox may answer with
  ChunkSize,        \* MESHCORE_MAX_BINARY_PAYLOAD - 12: payload per concat part
  SimpleMax,        \* MESHCORE_MAX_BINARY_PAYLOAD - 7: payload of a simple datagram
  MaxTrackedParts,  \* 16: parts a ConcatMessage can record
  DataSize,         \* sizeof(ConcatMessage.data)
  MaxConcat,        \* MAX_CONCAT_MESSAGES
  MaxPending,       \* MAX_PENDING_CONNECTIONS
  ConcatTimeout,    \* 30000 ms, in ticks
  PendingTimeout,   \* 60000 ms, in ticks
  MaxRequests,      \* bound on requests the AP nodes send in one behaviour
  FreshRefs,       \* TRUE: a node never reuses a reference number
  NoSender          \* model value: senderMeshId/meshRecipient of a cleared slot

ASSUME /\ ChunkSize \in Nat \ {0} /\ SimpleMax > ChunkSize
       /\ MaxTrackedParts \in Nat \ {0}
       /\ DataSize > MaxTrackedParts * ChunkSize
       /\ MaxConcat \in Nat \ {0} /\ MaxPending \in Nat \ {0}
       /\ ConcatTimeout \in Nat /\ PendingTimeout \in Nat
       /\ FreshRefs \in BOOLEAN
       /\ \A k \in DOMAIN Requests : Len(Requests[k]) <= MaxTrackedParts * ChunkSize
       /\ MaxRequests <= Len(Requests)

VARIABLES
  concatMessages,      \* [1..MaxConcat -> slot record]
  pendingConnections,  \* [1..MaxPending -> pending record]
  meshIn,              \* datagrams in flight from AP nodes to the proxy
  meshOut,             \* datagrams the proxy has sent towards AP nodes
  udpOut,              \* UDP requests in flight to the WAPBox
  udpIn,               \* WAPBox replies in flight to the proxy's sockets
  sent,                \* history: requests the AP nodes sent
  forwarded,           \* history: requests the proxy sent to the WAPBox
  relayed              \* history: replies the proxy relayed onto the mesh

gwVars == <<concatMessages, pendingConnections, udpOut, udpIn,
            forwarded, relayed>>
vars == <<concatMessages, pendingConnections, meshIn, meshOut,
          udpOut, udpIn, sent, forwarded, relayed>>

Ports == UNION {SenderPorts[m] : m \in MeshIds}
WapboxPort == 9200
ConcatIdx == 1..MaxConcat
PendingIdx == 1..MaxPending
Offsets == 0..(DataSize - 1)
ConcatAgeCap == ConcatTimeout + 1
PendingAgeCap == PendingTimeout + 1
Bytes == UNION {Range(p) : p \in Range(Requests) \cup Replies}

-----------------------------------------------------------------------------
(* Fragmentation: sendWDPViaMesh / ap_sendWDPViaMesh.  A payload that fits  *)
(* SimpleMax goes as one simple datagram; otherwise ceil(len/ChunkSize)     *)
(* concatenated parts share one reference number.                           *)

NumParts(p) == (Len(p) + ChunkSize - 1) \div ChunkSize

PartData(p, k) ==
  SubSeq(p, (k - 1) * ChunkSize + 1, Min({k * ChunkSize, Len(p)}))

\* Mutant: the port sub-header is written source first.
sendWDPViaMeshSwapped(peer, src, dst, ref, p) ==
  IF Len(p) <= SimpleMax
  THEN {[kind |-> "simple", peer |-> peer, src |-> dst, dst |-> src,
         ref |-> 0, total |-> 0, cur |-> 0, data |-> p]}
  ELSE {[kind |-> "concat", peer |-> peer, src |-> dst, dst |-> src,
         ref |-> ref, total |-> NumParts(p), cur |-> k,
         data |-> PartData(p, k)] : k \in 1..NumParts(p)}

sendWDPViaMesh(peer, src, dst, ref, p) ==
  IF Len(p) <= SimpleMax
  THEN {[kind |-> "simple", peer |-> peer, src |-> src, dst |-> dst,
         ref |-> 0, total |-> 0, cur |-> 0, data |-> p]}
  ELSE {[kind |-> "concat", peer |-> peer, src |-> src, dst |-> dst,
         ref |-> ref, total |-> NumParts(p), cur |-> k,
         data |-> PartData(p, k)] : k \in 1..NumParts(p)}

-----------------------------------------------------------------------------
(* Slot records.  clearConcatMessage zeroes every field; lastUpdate = 0     *)
(* makes a cleared slot as old as the uptime, so its age is the cap.        *)

ZeroData == [o \in Offsets |-> 0]

clearConcatMessage ==
  [active |-> FALSE, refNum |-> 0, totalParts |-> 0, receivedParts |-> 0,
   partReceived |-> {}, data |-> ZeroData,
   partSizes |-> [k \in 1..MaxTrackedParts |-> 0],
   sourcePort |-> 0, destPort |-> 0, senderMeshId |-> NoSender,
   age |-> ConcatAgeCap]

\* udpSocket is the local port the connection's socket is bound to; 0 once
\* udpSocket.stop() has closed it.
clearPendingConnection ==
  [active |-> FALSE, clientSourcePort |-> 0, wapboxPort |-> 0,
   meshRecipient |-> NoSender, age |-> PendingAgeCap, udpSocket |-> 0]

\* "Create new concat entry": lastUpdate is not set here.
NewConcat(slot, d, from) ==
  [slot EXCEPT !.active = TRUE, !.refNum = d.ref, !.totalParts = d.total,
               !.receivedParts = 0, !.sourcePort = d.src, !.destPort = d.dst,
               !.senderMeshId = from, !.partReceived = {}, !.data = ZeroData]

\* "Store this part": written at offset (cur-1)*ChunkSize if the index is
\* tracked, not yet received and the part fits strictly inside data.
PartOffset(d) == (d.cur - 1) * ChunkSize

\* Mutant: the partReceived check is dropped, so a duplicate part counts.
CanStoreNoDupCheck(slot, d) ==
  /\ d.cur > 0 /\ d.cur <= MaxTrackedParts
  /\ PartOffset(d) + Len(d.data) < DataSize

CanStore(slot, d) ==
  /\ d.cur > 0 /\ d.cur <= MaxTrackedParts
  /\ d.cur \notin slot.partReceived
  /\ PartOffset(d) + Len(d.data) < DataSize

\* Mutant: lastUpdate = millis() is taken out of the store branch, so a
\* duplicate part also refreshes the slot.
StorePartAnyPart(slot, d) ==
  IF CanStore(slot, d)
  THEN [slot EXCEPT
          !.data = [o \in Offsets |->
                     IF o >= PartOffset(d) /\ o < PartOffset(d) + Len(d.data)
                     THEN d.data[o - PartOffset(d) + 1] ELSE slot.data[o]],
          !.partSizes[d.cur] = Len(d.data),
          !.partReceived = @ \cup {d.cur},
          !.receivedParts = @ + 1,
          !.age = 0]
  ELSE [slot EXCEPT !.age = 0]

StorePart(slot, d) ==
  IF CanStore(slot, d)
  THEN [slot EXCEPT
          !.data = [o \in Offsets |->
                     IF o >= PartOffset(d) /\ o < PartOffset(d) + Len(d.data)
                     THEN d.data[o - PartOffset(d) + 1] ELSE slot.data[o]],
          !.partSizes[d.cur] = Len(d.data),
          !.partReceived = @ \cup {d.cur},
          !.receivedParts = @ + 1,
          !.age = 0]
  ELSE slot

\* The forwarded buffer: data[0 .. sum of partSizes[0..totalParts-1] - 1].
Reassembled(slot) ==
  LET total == SumFunctionOnSet(slot.partSizes, 1..slot.totalParts)
  IN [k \in 1..total |-> slot.data[k - 1]]

-----------------------------------------------------------------------------
(* forwardToWAPBox(from, srcPort, dstPort, payload).                        *)

Expired(c) == c.age > PendingTimeout

\* Mutant: the socket is stopped and re-bound only for a slot that was
\* inactive; an expired slot taken over keeps its old binding.
ForwardToWAPBoxNoRebind(from, srcPort, dstPort, payload) ==
  LET dup == {i \in PendingIdx : /\ pendingConnections[i].active
                                 /\ pendingConnections[i].clientSourcePort = srcPort
                                 /\ pendingConnections[i].meshRecipient = from}
      free == {i \in PendingIdx : ~pendingConnections[i].active
                                  \/ Expired(pendingConnections[i])}
  IN IF dup # {}
     THEN /\ pendingConnections' = [pendingConnections EXCEPT ![Min(dup)].age = 0]
          /\ UNCHANGED <<udpOut, forwarded>>
     ELSE IF free # {}
     THEN LET s == Min(free) IN
          /\ pendingConnections' = [pendingConnections EXCEPT ![s] =
                [active |-> TRUE, clientSourcePort |-> srcPort,
                 wapboxPort |-> dstPort, meshRecipient |-> from, age |-> 0,
                 udpSocket |-> IF pendingConnections[s].active
                               THEN pendingConnections[s].udpSocket
                               ELSE srcPort]]
          /\ udpOut' = udpOut \cup {[port |-> srcPort, payload |-> payload,
                                     from |-> from]}
          /\ forwarded' = forwarded \cup {[from |-> from, port |-> srcPort,
                                           payload |-> payload]}
     ELSE UNCHANGED <<pendingConnections, udpOut, forwarded>>

ForwardToWAPBox(from, srcPort, dstPort, payload) ==
  LET dup == {i \in PendingIdx : /\ pendingConnections[i].active
                                 /\ pendingConnections[i].clientSourcePort = srcPort
                                 /\ pendingConnections[i].meshRecipient = from}
      free == {i \in PendingIdx : ~pendingConnections[i].active
                                  \/ Expired(pendingConnections[i])}
  IN IF dup # {}
     THEN \* duplicate request: only the timestamp is refreshed
          /\ pendingConnections' = [pendingConnections EXCEPT ![Min(dup)].age = 0]
          /\ UNCHANGED <<udpOut, forwarded>>
     ELSE IF free # {}
     THEN LET s == Min(free) IN
          \* udpSocket.stop(); udpSocket.begin(srcPort)
          /\ pendingConnections' = [pendingConnections EXCEPT ![s] =
                [active |-> TRUE, clientSourcePort |-> srcPort,
                 wapboxPort |-> dstPort, meshRecipient |-> from, age |-> 0,
                 udpSocket |-> srcPort]]
          /\ udpOut' = udpOut \cup {[port |-> srcPort, payload |-> payload,
                                     from |-> from]}
          /\ forwarded' = forwarded \cup {[from |-> from, port |-> srcPort,
                                           payload |-> payload]}
     ELSE \* "No free slots for pending connection": the request is dropped
          UNCHANGED <<pendingConnections, udpOut, forwarded>>

NoForward == UNCHANGED <<pendingConnections, udpOut, forwarded>>

-----------------------------------------------------------------------------
(* handleIncomingMesh(from, data, len), for a datagram d of meshIn.  The   *)
(* datagram stays in meshIn: the mesh may deliver it again.                *)

HandleConcat(from, d) ==
  LET found == {i \in ConcatIdx : /\ concatMessages[i].active
                                  /\ concatMessages[i].refNum = d.ref
                                  /\ concatMessages[i].senderMeshId = from}
      free == {i \in ConcatIdx : ~concatMessages[i].active}
  IN IF found = {} /\ free = {}
     THEN \* "No free concat message slots"
          UNCHANGED <<concatMessages>> /\ NoForward
     ELSE LET i == IF found # {} THEN Min(found) ELSE Min(free)
              s0 == IF found # {} THEN concatMessages[i]
                    ELSE NewConcat(concatMessages[i], d, from)
              s1 == StorePart(s0, d)
          IN IF s1.receivedParts = s1.totalParts
             THEN /\ ForwardToWAPBox(s1.senderMeshId, s1.sourcePort,
                                     s1.destPort, Reassembled(s1))
                  /\ concatMessages' = [concatMessages EXCEPT ![i] =
                                          clearConcatMessage]
             ELSE /\ concatMessages' = [concatMessages EXCEPT ![i] = s1]
                  /\ NoForward

handleIncomingMesh(d) ==
  /\ d \in meshIn
  /\ IF d.kind = "concat"
     THEN HandleConcat(d.peer, d)
     ELSE /\ ForwardToWAPBox(d.peer, d.src, d.dst, d.data)
          /\ UNCHANGED concatMessages
  /\ UNCHANGED <<meshIn, meshOut, udpIn, sent, relayed>>

-----------------------------------------------------------------------------
(* loop(): read one reply from the socket of every active pending          *)
(* connection that has one, relay it and clear the connection; then clear  *)
(* pending connections older than 60 s and concat slots older than 30 s.   *)
(* reply[i] is the datagram connection i reads, or NoReply.                *)

NoReply == [port |-> 0, payload |-> <<>>, reqFrom |-> NoSender, reqPort |-> 0]

\* Mutant: the connection is left active after its reply is relayed.
ServedSlotKept(c) == c

\* "Deactivate connection after sending response".
ServedSlot(c) == clearPendingConnection

loop ==
  \E reply \in [PendingIdx -> udpIn \cup {NoReply}], ref \in RefNums :
    LET served == {i \in PendingIdx : reply[i] # NoReply}
        afterRead == [i \in PendingIdx |->
                       IF i \in served THEN ServedSlot(pendingConnections[i])
                       ELSE pendingConnections[i]]
        afterTimeout == [i \in PendingIdx |->
                          IF afterRead[i].active /\ Expired(afterRead[i])
                          THEN clearPendingConnection ELSE afterRead[i]]
        concatTimeout == [i \in ConcatIdx |->
                           IF concatMessages[i].active
                              /\ concatMessages[i].age > ConcatTimeout
                           THEN clearConcatMessage ELSE concatMessages[i]]
        conn(i) == pendingConnections[i]
    IN
    /\ \A i \in served : /\ conn(i).active
                         /\ reply[i].port = conn(i).udpSocket
    /\ \A i, j \in served : i # j => reply[i] # reply[j]
    /\ \/ served # {}
       \/ afterTimeout # pendingConnections
       \/ concatTimeout # concatMessages
    /\ pendingConnections' = afterTimeout
    /\ concatMessages' = concatTimeout
    /\ udpIn' = udpIn \ {reply[i] : i \in served}
    /\ meshOut' = meshOut \cup
         UNION {sendWDPViaMesh(conn(i).meshRecipient, WapboxPort,
                               conn(i).clientSourcePort, ref, reply[i].payload)
                : i \in served}
    /\ relayed' = relayed \cup
         {[to |-> conn(i).meshRecipient, dst |-> conn(i).clientSourcePort,
           reqFrom |-> reply[i].reqFrom, reqPort |-> reply[i].reqPort]
          : i \in served}
    /\ UNCHANGED <<meshIn, udpOut, sent, forwarded>>

-----------------------------------------------------------------------------
(* Environment: AP nodes, the mesh, the WAPBox and the clock.  No action  *)
(* delivers a datagram fairly, so a datagram that is never delivered is    *)
(* lost, one delivered twice is duplicated, and delivery in any order is   *)
(* reordering; a reply left in udpIn is one the socket never read.         *)

\* An AP node fragments a request from a client source port it picked.
APSend(m) ==
  \E port \in SenderPorts[m], ref \in RefNums :
    LET p == Requests[Cardinality(sent) + 1] IN
    /\ Cardinality(sent) < MaxRequests
    /\ FreshRefs => \A s \in sent : s.from = m => s.ref # ref
    /\ sent' = sent \cup {[from |-> m, port |-> port, ref |-> ref, payload |-> p]}
    /\ meshIn' = meshIn \cup sendWDPViaMesh(m, port, WapboxPort, ref, p)
    /\ UNCHANGED <<gwVars, meshOut>>

\* The WAPBox answers a request to the port it came from.
WAPBoxReply(u) ==
  \E p \in Replies :
    /\ u \in udpOut
    /\ udpOut' = udpOut \ {u}
    /\ udpIn' = udpIn \cup {[port |-> u.port, payload |-> p,
                             reqFrom |-> u.from, reqPort |-> u.port]}
    /\ UNCHANGED <<concatMessages, pendingConnections, meshIn,
                   meshOut, sent, forwarded, relayed>>

\* millis() advances: every active slot grows older, up to its cap.
Tick ==
  /\ \/ \E i \in ConcatIdx : concatMessages[i].active
                             /\ concatMessages[i].age < ConcatAgeCap
     \/ \E i \in PendingIdx : pendingConnections[i].active
                              /\ pendingConnections[i].age < PendingAgeCap
  /\ concatMessages' = [i \in ConcatIdx |->
       IF concatMessages[i].active
       THEN [concatMessages[i] EXCEPT !.age = Min({@ + 1, ConcatAgeCap})]
       ELSE concatMessages[i]]
  /\ pendingConnections' = [i \in PendingIdx |->
       IF pendingConnections[i].active
       THEN [pendingConnections[i] EXCEPT !.age = Min({@ + 1, PendingAgeCap})]
       ELSE pendingConnections[i]]
  /\ UNCHANGED <<meshIn, meshOut, udpOut, udpIn, sent, forwarded, relayed>>

\* Nothing is left to do: every request sent, every slot free, no UDP traffic.
Quiescent ==
  /\ Cardinality(sent) = MaxRequests
  /\ \A i \in ConcatIdx : ~concatMessages[i].active
  /\ \A i \in PendingIdx : ~pendingConnections[i].active
  /\ udpOut = {} /\ udpIn = {}
  /\ UNCHANGED vars

Init ==
  /\ concatMessages = [i \in ConcatIdx |-> clearConcatMessage]
  /\ pendingConnections = [i \in PendingIdx |-> clearPendingConnection]
  /\ meshIn = {} /\ meshOut = {} /\ udpOut = {} /\ udpIn = {}
  /\ sent = {} /\ forwarded = {} /\ relayed = {}

Next ==
  \/ \E d \in meshIn : handleIncomingMesh(d)
  \/ loop
  \/ \E m \in MeshIds : APSend(m)
  \/ \E u \in udpOut : WAPBoxReply(u)
  \/ Tick
  \/ Quiescent

\* loop() runs on every iteration of the main loop and millis() advances.
Spec == Init /\ [][Next]_vars /\ WF_vars(loop) /\ WF_vars(Tick)

-----------------------------------------------------------------------------
(* Properties.                                                             *)

Slot == [active : BOOLEAN, refNum : RefNums \cup {0},
         totalParts : 0..MaxTrackedParts, receivedParts : 0..MaxTrackedParts,
         partReceived : SUBSET (1..MaxTrackedParts),
         data : [Offsets -> Bytes \cup {0}],
         partSizes : [1..MaxTrackedParts -> 0..ChunkSize],
         sourcePort : Ports \cup {0}, destPort : {WapboxPort, 0},
         senderMeshId : MeshIds \cup {NoSender}, age : 0..ConcatAgeCap]

TypeOK ==
  /\ concatMessages \in [ConcatIdx -> Slot]
  /\ pendingConnections \in [PendingIdx ->
        [active : BOOLEAN, clientSourcePort : Ports \cup {0},
         wapboxPort : {WapboxPort, 0}, meshRecipient : MeshIds \cup {NoSender},
         age : 0..PendingAgeCap, udpSocket : Ports \cup {0}]]

\* Reassembly integrity: every request handleIncomingMesh forwards to the
\* WAPBox is, byte for byte, a request that node sent from that port,
\* however the mesh lost, duplicated or reordered its parts.
ForwardIntegrity ==
  \A f \in forwarded : \E s \in sent : /\ s.from = f.from
                                     /\ s.port = f.port
                                     /\ s.payload = f.payload

\* Reply routing: loop() relays a WAPBox reply only to the mesh node and the
\* client port of the request it answers, even after pending connections
\* time out and their slots and sockets are reused.
ReplyRouting ==
  \A r \in relayed : r.to = r.reqFrom /\ r.dst = r.reqPort

\* No slot leak: every concatMessages slot that becomes active is freed
\* again, by completion or by the 30 s eviction in loop().
SlotsReclaimed ==
  \A i \in ConcatIdx : concatMessages[i].active ~> ~concatMessages[i].active


-----------------------------------------------------------------------------
(* Refinement.  The requests awaiting a reply are the keys of the active   *)
(* pending connections; the histories are shared with WDPRelay.            *)

PendingRequests ==
  {[from |-> pendingConnections[i].meshRecipient,
    port |-> pendingConnections[i].clientSourcePort] :
     i \in {j \in PendingIdx : pendingConnections[j].active}}

Abstract == INSTANCE WDPRelay WITH pending <- PendingRequests

\* The gateway implements WDPRelay: handleIncomingMesh forwards only sent
\* requests and holds each as pending until loop() relays its one reply,
\* to its node and port, or drops it; a relayed reply never answers a
\* request that was already answered, timed out or pushed out of its slot.
ImplementsRelay == Abstract!Spec

=============================================================================

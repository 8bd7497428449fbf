------------------------------ MODULE WDPHeader ------------------------------
(***************************************************************************)
(* The WDP user data header (UDH) of the datagrams the AP and proxy nodes *)
(* exchange over the mesh, byte by byte: how sendWDPViaMesh               *)
(* (src/src/mode_proxy.h) and ap_sendWDPViaMesh (src/src/mode_ap.h) cut a *)
(* payload into datagrams, how parseUDH and parseConcatUDH (and their ap_  *)
(* twins, which are the same code) read them back, which of the two       *)
(* handleIncomingMesh and ap_handleIncomingMesh apply, and what            *)
(* MyMesh::isValidWDPMessage (src/src/main.cpp) lets through to them.     *)
(*                                                                         *)
(* A datagram is a sequence of byte values 0..255.                        *)
(***************************************************************************)
EXTENDS Integers, Sequences

CONSTANT MESHCORE_MAX_BINARY_PAYLOAD  \* 120 in main.cpp and mode_proxy.h

maxPayloadSimple == MESHCORE_MAX_BINARY_PAYLOAD - 7
maxPayloadConcat == MESHCORE_MAX_BINARY_PAYLOAD - 12

\* (port >> 8) & 0xFF, port & 0xFF, and (hi << 8) | lo.
Hi(port) == (port \div 256) % 256
Lo(port) == port % 256
Port(hi, lo) == hi * 256 + lo

\* The 7-byte header of a simple datagram: destination port first.
SimpleUDH(srcPort, dstPort) ==
  <<6, 5, 4, Hi(dstPort), Lo(dstPort), Hi(srcPort), Lo(srcPort)>>

\* The 12-byte header of part "part" of "total": the concatenation IE, then
\* the port IE; total and part are cast to uint8_t.
ConcatUDH(refNum, total, part, srcPort, dstPort) ==
  <<11, 0, 3, refNum, total % 256, part % 256, 5, 4,
    Hi(dstPort), Lo(dstPort), Hi(srcPort), Lo(srcPort)>>

totalParts(len) == (len + maxPayloadConcat - 1) \div maxPayloadConcat

\* data[offset .. offset + partLen - 1] of part "part".
Fragment(data, part) ==
  SubSeq(data, (part - 1) * maxPayloadConcat + 1,
         IF Len(data) < part * maxPayloadConcat THEN Len(data) ELSE part * maxPayloadConcat)

\* The datagrams sendWDPViaMesh hands to sendMeshCallback, in order; refNum
\* is millis() & 0xFF.
sendWDPViaMesh(srcPort, dstPort, data, refNum) ==
  IF Len(data) <= maxPayloadSimple
  THEN <<SimpleUDH(srcPort, dstPort) \o data>>
  ELSE [part \in 1..totalParts(Len(data)) |->
          ConcatUDH(refNum, totalParts(Len(data)), part, srcPort, dstPort)
          \o Fragment(data, part)]

\* Mutant: the ports are read source first.
parseUDHSwapped(m) ==
  IF Len(m) < 7 THEN [ok |-> FALSE]
  ELSE [ok |-> TRUE, headerLen |-> m[1], ei |-> m[2], eiLength |-> m[3],
        dest |-> Port(m[6], m[7]), source |-> Port(m[4], m[5])]

\* Any 7 bytes are a simple header: the EI is only logged.
parseUDH(m) ==
  IF Len(m) < 7 THEN [ok |-> FALSE]
  ELSE [ok |-> TRUE, headerLen |-> m[1], ei |-> m[2], eiLength |-> m[3],
        dest |-> Port(m[4], m[5]), source |-> Port(m[6], m[7])]

parseConcatUDH(m) ==
  IF Len(m) < 12 \/ m[1] # 11 THEN [ok |-> FALSE]
  ELSE IF m[2] # 0 \/ m[3] # 3 THEN [ok |-> FALSE]
  ELSE [ok |-> TRUE, refNum |-> m[4], totalParts |-> m[5], currentPart |-> m[6],
        headerLen |-> m[1], ei |-> m[7], eiLength |-> m[8],
        dest |-> Port(m[9], m[10]), source |-> Port(m[11], m[12])]

\* What handleIncomingMesh does with a datagram before its slots: shorter
\* than 7 bytes it is dropped; a concatenated header is tried first, and
\* anything else is a simple datagram whose payload follows byte 7.
Received(m) ==
  IF Len(m) < 7 THEN [kind |-> "dropped"]
  ELSE IF parseConcatUDH(m).ok
  THEN [kind |-> "concat", udh |-> parseConcatUDH(m), data |-> SubSeq(m, 13, Len(m))]
  ELSE [kind |-> "simple", udh |-> parseUDH(m), data |-> SubSeq(m, 8, Len(m))]

\* Mutant: a concatenated header is not checked for its concatenation IE.
isValidWDPMessageLax(m) ==
  /\ Len(m) >= 7
  /\ m[1] \in {6, 11}
  /\ Len(m) >= m[1] + 1
  /\ m[1] = 6 => /\ m[2] = 5 /\ m[3] = 4
                 /\ Port(m[4], m[5]) # 0 /\ Port(m[6], m[7]) # 0
  /\ m[1] = 11 => /\ m[5] # 0 /\ m[6] # 0 /\ m[6] <= m[5]
                  /\ m[7] = 5 /\ m[8] = 4
                  /\ Port(m[9], m[10]) # 0 /\ Port(m[11], m[12]) # 0

\* The format check MyMesh::loop applies before handing a datagram on.
isValidWDPMessage(m) ==
  /\ Len(m) >= 7
  /\ m[1] \in {6, 11}
  /\ Len(m) >= m[1] + 1
  /\ m[1] = 6 => /\ m[2] = 5 /\ m[3] = 4
                 /\ Port(m[4], m[5]) # 0 /\ Port(m[6], m[7]) # 0
  /\ m[1] = 11 => /\ m[2] = 0 /\ m[3] = 3
                  /\ m[5] # 0 /\ m[6] # 0 /\ m[6] <= m[5]
                  /\ m[7] = 5 /\ m[8] = 4
                  /\ Port(m[9], m[10]) # 0 /\ Port(m[11], m[12]) # 0

\* The store test of a part in both handlers: a part number the
\* partReceived array has, whose data ends inside the reassembly buffer
\* (2048 bytes on the proxy, 4096 on the AP).
Stored(u, dataLen, bufSize) ==
  /\ u.currentPart > 0 /\ u.currentPart <= 16
  /\ (u.currentPart - 1) * maxPayloadConcat + dataLen < bufSize
=============================================================================

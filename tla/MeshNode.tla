------------------------------ MODULE MeshNode ------------------------------
(***************************************************************************)
(* The mesh-facing half of class MyMesh (src/src/main.cpp) on an AP node: *)
(* the pending inbox and pending reply queues filled by onMessageRecv and  *)
(* drained one entry per loop(), the single ACK register expected_ack_crc *)
(* shared by every sendMessage, and proxy path discovery (ping, 8 s       *)
(* timeout, retries) together with its state in src/src/mode_ap.h.         *)
(*                                                                         *)
(* sendMessage, the ACK hash and the radio belong to MeshCore, which is    *)
(* not part of the repository: a send is given a fresh CRC, its ACK may    *)
(* come back any number of times or never, and a failed send leaves        *)
(* expected_ack_crc either as it was or set to the new CRC.                *)
(*                                                                         *)
(* Message texts are abstract: "ping", "" (empty), "wdp" (Base91 of a      *)
(* valid WDP datagram), "junk" (decodes to an invalid datagram) and "raw"  *)
(* (no Base91 digit, a valid datagram as raw bytes).                       *)
(***************************************************************************)
EXTENDS Integers, Sequences, FiniteSets, FiniteSetsExt, SequencesExt

CONSTANTS
  Contacts,                       \* peers in the contact table
  Proxy,                          \* the contact of PROXY_NODE_PUBKEY
  PeerTexts,                      \* texts a peer may send
  MAX_PENDING_INBOX,
  MAX_PENDING_REPLIES,
  AP_PROXY_DISCOVERY_MAX_RETRIES,
  InboxDelay,                     \* ticks after which 100 ms have passed
  PingTimeout,                    \* ticks after which PROXY_PING_TIMEOUT_MS has passed
  MaxIncoming,                    \* bound on messages the peers send
  MaxRequests,                    \* bound on WAP requests the browser makes
  SendMayFail                     \* whether sendMessage may return MSG_SEND_FAILED

ASSUME Proxy \in Contacts
ASSUME 0 < InboxDelay /\ InboxDelay < PingTimeout

VARIABLES
  node,      \* the fields of MyMesh and the ap_proxy_* globals
  acks,      \* CRCs whose ACK is in flight; an ACK may arrive many times
  meshIn,    \* messages in flight to this node
  incoming,  \* number of messages the peers have sent
  requests,  \* number of WAP requests sent to the proxy
  pings,     \* history: CRCs of the pings sent successfully
  acked,     \* history: CRCs whose ACK matched expected_ack_crc
  proxyCrcs, \* history: CRCs of the messages sent to the proxy contact
  queued,    \* history: ids of the messages queued with a handleable text
  handled    \* history: ids handed to ap_handleIncomingMesh, in order

vars == <<node, acks, meshIn, incoming, requests, pings, acked, proxyCrcs, queued,
          handled>>

MaxSends == AP_PROXY_DISCOVERY_MAX_RETRIES + MaxRequests + MaxIncoming
Messages == [id : 1..MaxIncoming, from : Contacts, text : PeerTexts]
NoMessage == [id |-> 0, from |-> Proxy, text |-> ""]

\* Base91::decode skips characters outside the alphabet and fails (returns
\* 0) only when no digit is left.
Base91Decodes(t) == t \in {"wdp", "junk"}
\* isValidWDPMessage on the decoded bytes and on the raw bytes.
ValidDecoded(t) == t = "wdp"
ValidRaw(t) == t = "raw"
Handleable(t) == IF Base91Decodes(t) THEN ValidDecoded(t) ELSE ValidRaw(t)

\* clearPendingInbox / clearPendingReply
clearPendingInbox == [active |-> FALSE, age |-> 0, msg |-> NoMessage]
clearPendingReply == [active |-> FALSE, age |-> 0, to |-> Proxy]

FirstFree(q) == Min({i \in DOMAIN q : ~q[i].active})
FirstDue(q) == Min({i \in DOMAIN q : q[i].active /\ q[i].age >= InboxDelay})
HasDue(q) == \E i \in DOMAIN q : q[i].active /\ q[i].age >= InboxDelay

(***************************************************************************)
(* The loop body is written over a record holding every variable it may    *)
(* change, so that several sends in one loop() compose.                    *)
(***************************************************************************)
Sys == [node |-> node, acks |-> acks, pings |-> pings, proxyCrcs |-> proxyCrcs,
        handled |-> handled]

\* sendMessage to contact to: the set of states it may leave, with the
\* result in .sent. The ACK hash covers the message and its recipient, so
\* only that contact can return an ACK of crc.
sendMessage(s, to) ==
  LET crc == s.node.crcs + 1
      s1 == [s EXCEPT !.node.crcs = crc,
                      !.proxyCrcs = IF to = Proxy THEN @ \cup {crc} ELSE @]
  IN {[s1 EXCEPT !.node.expected_ack_crc = crc, !.acks = @ \cup {crc},
                 !.node.sent = TRUE]}
     \cup (IF SendMayFail
           THEN {[s1 EXCEPT !.node.expected_ack_crc = e, !.node.sent = FALSE] :
                   e \in {s.node.expected_ack_crc, crc}}
           ELSE {})

\* sendProxyPing: pending and timestamped only when the send did not fail.
sendProxyPing(s) ==
  {IF t.node.sent
   THEN [t EXCEPT !.node.proxy_ping_pending = TRUE, !.node.pingAge = 0,
                  !.pings = @ \cup {t.node.crcs}]
   ELSE t : t \in sendMessage(s, Proxy)}

\* Mutants: the retry limit never stops discovery; the limit stops the
\* retries but leaves ap_proxy_discovery_in_progress set; >= for >.
ap_incrementProxyDiscoveryAttemptNoStop(n) ==
  [n EXCEPT !.attempts = @ + 1, !.cont = TRUE]
ap_incrementProxyDiscoveryAttemptKeepsProgress(n) ==
  LET a == n.attempts + 1
  IN IF a > AP_PROXY_DISCOVERY_MAX_RETRIES
     THEN [n EXCEPT !.attempts = a, !.cont = FALSE]
     ELSE [n EXCEPT !.attempts = a, !.cont = TRUE]
ap_incrementProxyDiscoveryAttemptGE(n) ==
  LET a == n.attempts + 1
  IN IF a >= AP_PROXY_DISCOVERY_MAX_RETRIES
     THEN [n EXCEPT !.attempts = a, !.inProgress = FALSE, !.cont = FALSE]
     ELSE [n EXCEPT !.attempts = a, !.cont = TRUE]

\* ap_incrementProxyDiscoveryAttempt, with its result in .cont.
ap_incrementProxyDiscoveryAttempt(n) ==
  LET a == n.attempts + 1
  IN IF a > AP_PROXY_DISCOVERY_MAX_RETRIES
     THEN [n EXCEPT !.attempts = a, !.inProgress = FALSE, !.cont = FALSE]
     ELSE [n EXCEPT !.attempts = a, !.cont = TRUE]

\* checkProxyPingAck with ap_setProxyPathDiscovered.
checkProxyPingAck(n) ==
  IF n.proxy_ping_pending /\ n.expected_ack_crc = 0
  THEN [n EXCEPT !.proxy_ping_pending = FALSE, !.discovered = TRUE,
                 !.inProgress = FALSE]
  ELSE n

isProxyPingTimedOut(n) == n.proxy_ping_pending /\ n.pingAge > PingTimeout

\* The discovery timeout and retry block of loop().
DiscoveryRetry(s) ==
  IF s.node.inProgress /\ ~s.node.discovered /\ isProxyPingTimedOut(s.node)
  THEN LET n == ap_incrementProxyDiscoveryAttempt(
                   [s.node EXCEPT !.proxy_ping_pending = FALSE])
           s1 == [s EXCEPT !.node = n]
       IN IF n.cont THEN sendProxyPing(s1) ELSE {s1}
  ELSE {s}

\* Mutants: the entry is never cleared; a rejected entry is not cleared.
ProcessInboxNoClear(s) ==
  IF ~HasDue(s.node.inbox) THEN s
  ELSE LET m == s.node.inbox[FirstDue(s.node.inbox)].msg
       IN IF Handleable(m.text) THEN [s EXCEPT !.handled = Append(@, m.id)]
          ELSE s
ProcessInboxKeepRejected(s) ==
  IF ~HasDue(s.node.inbox) THEN s
  ELSE LET i == FirstDue(s.node.inbox)
           m == s.node.inbox[i].msg
       IN IF Handleable(m.text)
          THEN [s EXCEPT !.node.inbox[i] = clearPendingInbox,
                         !.handled = Append(@, m.id)]
          ELSE s

\* One pending inbox entry: cleared first, then validated, decoded and
\* handed to ap_handleIncomingMesh.
ProcessInbox(s) ==
  IF ~HasDue(s.node.inbox) THEN s
  ELSE LET i == FirstDue(s.node.inbox)
           m == s.node.inbox[i].msg
           s1 == [s EXCEPT !.node.inbox[i] = clearPendingInbox]
       IN IF Handleable(m.text) THEN [s1 EXCEPT !.handled = Append(@, m.id)]
          ELSE s1

\* One pending reply: cleared, then sent to the contact that pinged.
ProcessReplies(s) ==
  IF ~HasDue(s.node.replies) THEN {s}
  ELSE LET i == FirstDue(s.node.replies)
       IN sendMessage([s EXCEPT !.node.replies[i] = clearPendingReply],
                      s.node.replies[i].to)

Commit(s) ==
  /\ node' = s.node
  /\ acks' = s.acks
  /\ pings' = s.pings
  /\ proxyCrcs' = s.proxyCrcs
  /\ handled' = s.handled
(***************************************************************************)
(* Actions                                                                 *)
(***************************************************************************)

\* setup() calls startProxyDiscovery: ap_startProxyDiscovery, the first
\* attempt, resetProxyPath and sendProxyPing.
startProxyDiscovery ==
  /\ ~node.booted
  /\ LET n == ap_incrementProxyDiscoveryAttempt(
                [node EXCEPT !.booted = TRUE, !.inProgress = TRUE,
                             !.attempts = 0, !.discovered = FALSE])
         s1 == [Sys EXCEPT !.node = n]
     IN \E t \in (IF n.cont THEN sendProxyPing(s1) ELSE {s1}) : Commit(t)
  /\ UNCHANGED <<meshIn, incoming, requests, acked, queued>>

\* MyMesh::loop() in AP mode, after BaseChatMesh::loop(): the ping ACK
\* check, the discovery retry, one inbox entry and one pending reply.
loop ==
  /\ node.booted
  /\ LET s1 == [Sys EXCEPT !.node = checkProxyPingAck(@)]
     IN \E s2 \in DiscoveryRetry(s1) :
          \E s3 \in ProcessReplies(ProcessInbox(s2)) : Commit(s3)
  /\ UNCHANGED <<meshIn, incoming, requests, acked, queued>>

\* onMessageRecv: "ping" queues a reply, any other non-empty text is
\* queued for decoding; a full queue drops the message.
onMessageRecv(m) ==
  /\ node.booted
  /\ meshIn' = meshIn \ {m}
  /\ IF m.text = "ping"
     THEN /\ node' = IF \E i \in DOMAIN node.replies : ~node.replies[i].active
                     THEN [node EXCEPT !.replies[FirstFree(node.replies)] =
                             [active |-> TRUE, age |-> 0, to |-> m.from]]
                     ELSE node
          /\ UNCHANGED queued
     ELSE IF m.text # "" /\ \E i \in DOMAIN node.inbox : ~node.inbox[i].active
     THEN /\ node' = [node EXCEPT !.inbox[FirstFree(node.inbox)] =
                        [active |-> TRUE, age |-> 0, msg |-> m]]
          /\ queued' = IF Handleable(m.text) THEN queued \cup {m.id} ELSE queued
     ELSE UNCHANGED <<node, queued>>
  /\ UNCHANGED <<acks, incoming, requests, pings, acked, proxyCrcs, handled>>

\* processAck: an ACK matching expected_ack_crc clears it.
processAck(c) ==
  /\ c = node.expected_ack_crc
  /\ node' = [node EXCEPT !.expected_ack_crc = 0]
  /\ acked' = acked \cup {c}
  /\ UNCHANGED <<acks, meshIn, incoming, requests, pings, proxyCrcs, queued,
                 handled>>

\* The browser's request goes out through sendWDPToMesh (mode_ap's
\* meshCallback) to PROXY_NODE_PUBKEY; the wait loop that follows runs
\* loop() above.
sendWDPToMesh ==
  /\ node.booted
  /\ requests < MaxRequests
  /\ requests' = requests + 1
  /\ \E t \in sendMessage(Sys, Proxy) : Commit(t)
  /\ UNCHANGED <<meshIn, incoming, acked, queued>>

\* A peer sends a message to this node.
PeerSend(from, t) ==
  /\ incoming < MaxIncoming
  /\ incoming' = incoming + 1
  /\ meshIn' = meshIn \cup {[id |-> incoming + 1, from |-> from, text |-> t]}
  /\ UNCHANGED <<node, acks, requests, pings, acked, proxyCrcs, queued, handled>>

\* millis() advances: queued entries and a pending ping age.
Aging(q) == [i \in DOMAIN q |->
              IF q[i].active THEN [q[i] EXCEPT !.age = Min({@ + 1, InboxDelay})]
              ELSE q[i]]
Tick ==
  /\ node' = [node EXCEPT
                !.inbox = Aging(@), !.replies = Aging(@),
                !.pingAge = IF node.proxy_ping_pending
                            THEN Min({@ + 1, PingTimeout + 1}) ELSE @]
  /\ node' # node
  /\ UNCHANGED <<acks, meshIn, incoming, requests, pings, acked, proxyCrcs, queued,
                 handled>>

Init ==
  /\ node = [booted |-> FALSE, expected_ack_crc |-> 0, crcs |-> 0,
             sent |-> FALSE, cont |-> FALSE,
             proxy_ping_pending |-> FALSE, pingAge |-> 0,
             inProgress |-> FALSE, attempts |-> 0, discovered |-> FALSE,
             inbox |-> [i \in 1..MAX_PENDING_INBOX |-> clearPendingInbox],
             replies |-> [i \in 1..MAX_PENDING_REPLIES |-> clearPendingReply]]
  /\ acks = {} /\ meshIn = {} /\ incoming = 0 /\ requests = 0
  /\ pings = {} /\ acked = {} /\ proxyCrcs = {} /\ queued = {} /\ handled = <<>>

Next ==
  \/ startProxyDiscovery
  \/ loop
  \/ \E m \in meshIn : onMessageRecv(m)
  \/ \E c \in acks : processAck(c)
  \/ sendWDPToMesh
  \/ \E from \in Contacts, t \in PeerTexts : PeerSend(from, t)
  \/ Tick

\* loop() and millis() always progress; the peers, the radio and the
\* browser owe nothing, so messages and ACKs may be lost.
Spec == Init /\ [][Next]_vars
          /\ WF_vars(startProxyDiscovery) /\ WF_vars(loop) /\ WF_vars(Tick)

(***************************************************************************)
(* Properties                                                              *)
(***************************************************************************)

TypeOK ==
  /\ node.expected_ack_crc \in 0..MaxSends
  /\ node.crcs \in 0..MaxSends
  /\ node.attempts \in 0..AP_PROXY_DISCOVERY_MAX_RETRIES + 1
  /\ node.pingAge \in 0..PingTimeout + 1
  /\ \A i \in DOMAIN node.inbox : node.inbox[i].age \in 0..InboxDelay
  /\ acks \subseteq 1..MaxSends
  /\ meshIn \subseteq Messages
  /\ pings \subseteq acks /\ acked \subseteq acks /\ proxyCrcs \subseteq 1..MaxSends

\* loop() clears an inbox entry before it processes it, so every message
\* reaches ap_handleIncomingMesh at most once, and only a message that was
\* queued with a text that decodes to a valid WDP datagram.
HandledOnce ==
  /\ IsInjective(handled)
  /\ ToSet(handled) \subseteq queued

\* Every message onMessageRecv queued is eventually handed to
\* ap_handleIncomingMesh, although loop() always takes the lowest due slot.
QueuedHandled ==
  \A id \in 1..MaxIncoming : id \in queued ~> id \in ToSet(handled)

\* Proxy discovery ends: the ping is acknowledged or the retries run out.
DiscoveryEnds == node.inProgress ~> ~node.inProgress

\* A discovery that gave up sent AP_PROXY_DISCOVERY_MAX_RETRIES pings.
RetriesExhausted ==
  (node.booted /\ ~node.inProgress /\ ~node.discovered)
    => Cardinality(pings) = AP_PROXY_DISCOVERY_MAX_RETRIES

\* checkProxyPingAck ("check if it's from proxy") takes the path as
\* discovered only when the proxy acknowledged a message this node sent it
\* (the ping or a WDP request), not when another contact acknowledged the
\* "ping ok" reply it was sent.
PathFromProxyAck == node.discovered => acked \cap proxyCrcs # {}
====

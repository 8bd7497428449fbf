------------------------------ MODULE WDPRelay ------------------------------
(***************************************************************************)
(* What the proxy node promises its AP nodes, without slots, sockets,      *)
(* fragments or clocks.  AP nodes send requests; the proxy forwards a      *)
(* request to the WAPBox only as it was sent, and then holds it as         *)
(* pending; it relays a reply only for a pending request, to the node and  *)
(* client port that sent it, and that request is no longer pending.  A     *)
(* pending request may also be given up (timeout, or its place taken by   *)
(* a newer one).  Nothing has to happen: the mesh and the WAPBox may lose  *)
(* anything.                                                               *)
(*                                                                         *)
(* A request is [from, port, ...]: the AP node and the client source port; *)
(* a relayed reply is [to, dst, reqFrom, reqPort]: where it went and the    *)
(* request it answers.                                                     *)
(***************************************************************************)
EXTENDS Naturals, FiniteSets

VARIABLES
  sent,       \* requests the AP nodes have sent
  forwarded,  \* requests the proxy has forwarded, [from, port, payload]
  relayed,    \* replies the proxy has relayed
  pending     \* [from, port] of the requests awaiting a reply

vars == <<sent, forwarded, relayed, pending>>

Key(x) == [from |-> x.from, port |-> x.port]

Destination(r) == [from |-> r.to, port |-> r.dst]

Init == sent = {} /\ forwarded = {} /\ relayed = {} /\ pending = {}

\* An AP node sends one more request.
Send ==
  /\ \E s \in sent' : sent' = sent \cup {s}
  /\ UNCHANGED <<forwarded, relayed, pending>>

\* The proxy forwards a request exactly as some node sent it from that
\* port; it becomes pending, and at most one other pending request may
\* be given up to make room.
Forward ==
  /\ \E f \in forwarded' :
       /\ \E s \in sent : Key(s) = Key(f) /\ s.payload = f.payload
       /\ forwarded' = forwarded \cup {f}
       /\ \E gone \in SUBSET pending :
            /\ Cardinality(gone) <= 1
            /\ pending' = (pending \ gone) \cup {Key(f)}
  /\ UNCHANGED <<sent, relayed>>

\* The proxy relays replies, each to a pending request's node and port
\* and answering that very request; those requests stop being pending,
\* and others may be given up.
Relay ==
  /\ relayed \subseteq relayed'
  /\ \A r \in relayed' \ relayed :
       /\ Destination(r) \in pending
       /\ r.reqFrom = r.to /\ r.reqPort = r.dst
  /\ pending' \subseteq pending \ {Destination(r) : r \in relayed' \ relayed}
  /\ UNCHANGED <<sent, forwarded>>

Next == Send \/ Forward \/ Relay

Spec == Init /\ [][Next]_vars

=============================================================================

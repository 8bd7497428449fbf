--------------------------- MODULE MC_WDPGateway ---------------------------
(* Two AP nodes and two-byte chunks.  The first request (4 bytes) travels  *)
(* as two concatenated parts, the second (2 bytes) as a simple datagram;   *)
(* the WAPBox answers with a 1-byte reply.                                 *)
EXTENDS WDPGateway, TLC

CONSTANTS a1, a2

MC_MeshIds == {a1, a2}

\* Each node's clients pick their own source port.
MC_SenderPorts == (a1 :> {1001}) @@ (a2 :> {1002})

MC_Requests == <<<<1, 1, 1, 1>>, <<2, 2>>, <<4, 4, 4, 4>>>>

\* Two requests long enough to be concatenated.
MC_ConcatRequests == <<<<1, 1, 1, 1>>, <<2, 2, 2, 2>>>>

MC_Replies == {<<3>>}
=============================================================================

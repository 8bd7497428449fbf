--------------------------- MODULE MC_APExchange ---------------------------
(* Two HTTP requests on ports 1001 and 1002, two-element chunks.  A        *)
(* four-element reply is relayed as two concatenated parts, a             *)
(* three-element reply as one simple datagram.                             *)
EXTENDS APExchange, TLC

\* A WMLC page in two parts and a short text page in one datagram.
MC_Replies == {<<Wmlc, 1, 2, 3>>, <<Text, 5, 6>>}

\* A text page in two parts.
MC_TextReplies == {<<Text, 1, 2, 3>>}
=============================================================================

---------------------------- MODULE Base91Length ----------------------------
(***************************************************************************)
(* The length of Base91::encode's output (src/lib/base91/base91.cpp) for   *)
(* the datagrams MyMesh::sendWDPToMesh (src/src/main.cpp) sends: the data *)
(* is cut to maxBinaryLen bytes and encoded into a buffer of               *)
(* MESHCORE_MAX_BYTES + 1 characters.                                      *)
(*                                                                         *)
(* Only the encoder's control is kept: each byte adds 8 bits, and each    *)
(* value takes 13 or 14 bits; which one depends on the data and is left   *)
(* free, as is whether the tail needs a second digit when 7 bits remain.  *)
(* EncodeOutcomes(l) is the set of every end state of the encoder over    *)
(* every input of l bytes.                                                 *)
(***************************************************************************)
EXTENDS Integers

CONSTANT MESHCORE_MAX_BYTES

\* Mutant: the truncation counts 14 bits per value.
maxBinaryLenWide == ((MESHCORE_MAX_BYTES - 1) * 14) \div 16

\* The truncation of sendWDPToMesh and the size of encodedMsg.
maxBinaryLen == ((MESHCORE_MAX_BYTES - 1) * 13) \div 16
outputMaxLen == MESHCORE_MAX_BYTES + 1

\* The bytes sendWDPToMesh hands to encode for a datagram of l bytes.
TruncatedLen(l) == IF l > maxBinaryLen THEN maxBinaryLen ELSE l

\* An encoder state: bits in the queue, characters written, and "run",
\* or "fail" once encode has returned 0.
Start == [numBits |-> 0, outPos |-> 0, result |-> "run"]

\* One iteration of the input loop, for every byte value.
EncodeByteLen(st) ==
  IF st.result # "run" THEN {st}
  ELSE IF st.numBits + 8 <= 13 THEN {[st EXCEPT !.numBits = @ + 8]}
  ELSE IF st.outPos + 2 > outputMaxLen - 1 THEN {[st EXCEPT !.result = "fail"]}
  ELSE {[st EXCEPT !.numBits = @ + 8 - k, !.outPos = @ + 2] : k \in {13, 14}}

\* The remaining bits: one digit, and a second when more than 7 bits, or
\* a value above 90, remain; with 7 bits that depends on the data, with
\* fewer the queue is below 64.
EncodeTailLen(st) ==
  LET digits == IF st.numBits = 0 THEN {0}
                ELSE IF st.numBits > 7 THEN {2}
                ELSE IF st.numBits = 7 THEN {1, 2} ELSE {1}
  IN IF st.result # "run" THEN {st}
     ELSE {IF st.outPos + d > outputMaxLen - 1
           THEN [st EXCEPT !.result = "fail"]
           ELSE [st EXCEPT !.outPos = @ + d, !.result = "ok"] : d \in digits}

\* The states after one more byte.
ByteStep(S) == UNION {EncodeByteLen(st) : st \in S}
ByteStep4(S) == ByteStep(ByteStep(ByteStep(ByteStep(S))))
ByteStep8(S) == ByteStep4(ByteStep4(S))

\* The states after n bytes, up to eight to a level of recursion. (The
\* test of After is never true; it has each level's set computed before
\* the next one is built on it.)
RECURSIVE AfterBytes(_, _)
AfterBytes(S, n) ==
  IF n = 0 THEN S
  ELSE LET After == IF n < 8 THEN ByteStep(S) ELSE ByteStep8(S)
       IN IF After = {} THEN {} ELSE AfterBytes(After, IF n < 8 THEN n - 1 ELSE n - 8)

EncodeOutcomes(l) ==
  UNION {EncodeTailLen(st) : st \in AfterBytes({Start}, TruncatedLen(l))}
====

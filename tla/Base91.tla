------------------------------- MODULE Base91 -------------------------------
(***************************************************************************)
(* Base91::encode and Base91::decode (src/lib/base91/base91.cpp), the      *)
(* codec that makes WDP datagrams safe for MeshCore's strlen-based text    *)
(* messages (MyMesh::sendWDPToMesh and the inbox in src/src/main.cpp).     *)
(*                                                                         *)
(* A character is represented by its index in ALPHABET (0..90); Invalid   *)
(* stands for every character whose DECODE_TABLE entry is -1. Both         *)
(* functions return the empty sequence for their "return 0". The uint32   *)
(* queue never holds more than 22 bits, so its width plays no part. The   *)
(* queue holds exactly numBits bits, so "queue |= x << numBits" adds       *)
(* x * 2^numBits.                                                          *)
(***************************************************************************)
EXTENDS Integers, Sequences, SequencesExt

Invalid == -1

(***************************************************************************)
(* Base91::encode                                                          *)
(***************************************************************************)

\* Mutant: the 14-bit mask is applied to every extracted value.
EncodeStepWide(cap, st, b) ==
  LET q == st.queue + b * 2^st.numBits
      n == st.numBits + 8
      big == q % 8192 > 88
      k == IF big THEN 13 ELSE 14
  IN IF ~st.ok THEN st
     ELSE IF n <= 13 THEN [st EXCEPT !.queue = q, !.numBits = n]
     ELSE IF Len(st.out) + 2 > cap - 1 THEN [st EXCEPT !.ok = FALSE]
     ELSE [st EXCEPT !.queue = q \div 2^k, !.numBits = n - k,
                     !.out = @ \o <<(q % 16384) % 91, (q % 16384) \div 91>>]

\* Mutant: the room for the null terminator is not kept.
EncodeStepNoNul(cap, st, b) ==
  LET q == st.queue + b * 2^st.numBits
      n == st.numBits + 8
      big == q % 8192 > 88
      val == IF big THEN q % 8192 ELSE q % 16384
      k == IF big THEN 13 ELSE 14
  IN IF ~st.ok THEN st
     ELSE IF n <= 13 THEN [st EXCEPT !.queue = q, !.numBits = n]
     ELSE IF Len(st.out) + 2 > cap THEN [st EXCEPT !.ok = FALSE]
     ELSE [st EXCEPT !.queue = q \div 2^k, !.numBits = n - k,
                     !.out = @ \o <<val % 91, val \div 91>>]

\* One iteration of the input loop: append 8 bits to the queue; once it
\* holds more than 13, emit two digits of a 13-bit value, or of a 14-bit
\* value when the low 13 bits are at most 88. (A stopped encoder, ok =
\* FALSE, has returned 0.)
EncodeStep(cap, st, b) ==
  LET q == st.queue + b * 2^st.numBits
      n == st.numBits + 8
      big == q % 8192 > 88
      val == IF big THEN q % 8192 ELSE q % 16384
      k == IF big THEN 13 ELSE 14
  IN IF ~st.ok THEN st
     ELSE IF n <= 13 THEN [st EXCEPT !.queue = q, !.numBits = n]
     ELSE IF Len(st.out) + 2 > cap - 1 THEN [st EXCEPT !.ok = FALSE]
     ELSE [st EXCEPT !.queue = q \div 2^k, !.numBits = n - k,
                     !.out = @ \o <<val % 91, val \div 91>>]

\* The remaining bits: one digit, and a second one when more than 7 bits
\* or a value above 90 remain.
EncodeTail(st, cap) ==
  IF ~st.ok \/ st.numBits = 0 THEN st
  ELSE IF Len(st.out) + 1 > cap - 1 THEN [st EXCEPT !.ok = FALSE]
  ELSE LET st1 == [st EXCEPT !.out = Append(@, st.queue % 91)]
       IN IF st.numBits > 7 \/ st.queue > 90
          THEN IF Len(st1.out) + 1 > cap - 1 THEN [st EXCEPT !.ok = FALSE]
               ELSE [st1 EXCEPT !.out = Append(@, st.queue \div 91)]
          ELSE st1

RECURSIVE EncodeLoop(_, _, _)
EncodeLoop(cap, st, x) ==
  IF x = <<>> THEN st ELSE EncodeLoop(cap, EncodeStep(cap, st, Head(x)), Tail(x))

Encode(x, cap) ==
  LET st == EncodeTail(EncodeLoop(cap, [queue |-> 0, numBits |-> 0,
                                        out |-> <<>>, ok |-> TRUE], x), cap)
  IN IF cap = 0 \/ ~st.ok THEN <<>> ELSE st.out

(***************************************************************************)
(* Base91::decode                                                          *)
(***************************************************************************)

\* Mutant: the output limit is tested after the write.
RECURSIVE DrainLate(_, _)
DrainLate(st, cap) ==
  IF st.numBits < 8 THEN st
  ELSE IF Len(st.out) > cap THEN [st EXCEPT !.ok = FALSE]
  ELSE DrainLate([st EXCEPT !.out = Append(@, st.queue % 256),
                            !.queue = @ \div 256, !.numBits = @ - 8], cap)

\* The inner while loop: emit whole bytes while 8 bits are queued.
RECURSIVE Drain(_, _)
Drain(st, cap) ==
  IF st.numBits < 8 THEN st
  ELSE IF Len(st.out) >= cap THEN [st EXCEPT !.ok = FALSE]
  ELSE Drain([st EXCEPT !.out = Append(@, st.queue % 256),
                        !.queue = @ \div 256, !.numBits = @ - 8], cap)

\* Mutant: the 13/14-bit test reads the whole value, not its low 13 bits.
DecodeStepUnmasked(cap, st, d) ==
  IF ~st.ok \/ d = Invalid THEN st
  ELSE IF st.val = -1 THEN [st EXCEPT !.val = d]
  ELSE LET v == st.val + d * 91
       IN Drain([st EXCEPT !.queue = @ + v * 2^st.numBits,
                           !.numBits = @ + (IF v > 88 THEN 13 ELSE 14),
                           !.val = -1], cap)

\* One character: invalid ones are skipped; two digits form a value whose
\* 13 or 14 bits join the queue.
DecodeStep(cap, st, d) ==
  IF ~st.ok \/ d = Invalid THEN st
  ELSE IF st.val = -1 THEN [st EXCEPT !.val = d]
  ELSE LET v == st.val + d * 91
       IN Drain([st EXCEPT !.queue = @ + v * 2^st.numBits,
                           !.numBits = @ + (IF v % 8192 > 88 THEN 13 ELSE 14),
                           !.val = -1], cap)

\* A lone last digit yields one more byte.
DecodeTail(st, cap) ==
  IF ~st.ok \/ st.val = -1 THEN st
  ELSE IF Len(st.out) >= cap THEN [st EXCEPT !.ok = FALSE]
  ELSE [st EXCEPT !.out = Append(@, (st.queue + st.val * 2^st.numBits) % 256)]

RECURSIVE DecodeLoop(_, _, _)
DecodeLoop(cap, st, s) ==
  IF s = <<>> THEN st ELSE DecodeLoop(cap, DecodeStep(cap, st, Head(s)), Tail(s))

Decode(s, cap) ==
  LET st == DecodeTail(DecodeLoop(cap, [queue |-> 0, numBits |-> 0, val |-> -1,
                                        out |-> <<>>, ok |-> TRUE], s), cap)
  IN IF cap = 0 \/ ~st.ok THEN <<>> ELSE st.out
====

--------------------------- MODULE WMLCDecompiler ---------------------------
(***************************************************************************)
(* The WMLC decompiler of the AP node (class WMLCDecompiler,               *)
(* src/lib/wap/wmlc_decompiler.cpp), which handleHTTPRequest runs on a    *)
(* WMLC body before it sends the page to the browser.                      *)
(*                                                                         *)
(* The WMLC is a sequence w of byte values; offsets are 0-based as in the  *)
(* code, so the byte at offset i is w[i + 1]. The output is a TLA+ string. *)
(* A text byte is written as its character; the decoder only ever copies   *)
(* such bytes, so the model knows the few letters the inputs use and       *)
(* writes any other byte as "?", one character as in the code.            *)
(*                                                                         *)
(* decodeMbUint accumulates into unsigned long, so its value is Wide (see  *)
(* WAPRequest); with ULONG_BITS = 64 an mb_u_int32 of more than 6 bytes    *)
(* exceeds what TLC can represent and no input has one.                    *)
(***************************************************************************)
EXTENDS WAPRequest

WBXML_SWITCH_PAGE == 0
WBXML_END == 1
WBXML_ENTITY == 2
WBXML_STR_I == 3
WBXML_LITERAL == 4
WBXML_EXT_I_0 == 64
WBXML_EXT_I_1 == 65
WBXML_EXT_I_2 == 66
WBXML_PI == 67
WBXML_LITERAL_C == 68
WBXML_EXT_T_0 == 128
WBXML_EXT_T_1 == 129
WBXML_EXT_T_2 == 130
WBXML_STR_T == 131
WBXML_LITERAL_A == 132
WBXML_OPAQUE == 195
WBXML_LITERAL_AC == 196
TAG_HAS_CONTENT == 64
TAG_HAS_ATTRS == 128

\* The depth of elementStack.
STACK_SIZE == 32

NoName == "<none>"

\* wml_elements, tokens 0x1C to 0x3F; 0x3A has no entry.
ElementNames ==
  <<"a", "td", "tr", "table", "p", "postfield", "anchor", "access", "b",
    "big", "br", "card", "do", "em", "fieldset", "go", "head", "i", "img",
    "input", "meta", "noop", "prev", "onevent", "optgroup", "option",
    "refresh", "select", "small", "strong", NoName, "template", "timer",
    "u", "setvar", "wml">>

getElementName(token) ==
  LET base == token % 64
  IN IF base >= 28 THEN ElementNames[base - 27] ELSE NoName

\* wml_attributes: token |-> <<name, value prefix>>, "" for no prefix.
AttributeTable ==
  [t \in {5, 12, 13, 15, 18, 19, 20, 21, 22, 24, 25, 26, 33, 36, 37, 38,
          39, 42, 46, 49, 50, 53, 54, 55, 74, 77, 78, 79, 80, 82, 83, 84,
          85, 90, 94, 95} |->
     <<CASE t = 5 -> "accept-charset" [] t = 12 -> "alt" [] t = 13 -> "content"
         [] t = 15 -> "domain" [] t = 18 -> "format" [] t = 19 -> "height"
         [] t = 20 -> "hspace" [] t = 21 -> "ivalue" [] t = 22 -> "iname"
         [] t = 24 -> "label" [] t = 25 -> "localsrc" [] t = 26 -> "maxlength"
         [] t = 33 -> "name" [] t = 36 -> "onpick" [] t = 37 -> "onenterbackward"
         [] t = 38 -> "onenterforward" [] t = 39 -> "ontimer" [] t = 42 -> "path"
         [] t = 46 -> "scheme" [] t = 49 -> "size" [] t = 50 -> "src"
         [] t = 53 -> "tabindex" [] t = 54 -> "title" [] t = 55 -> "type"
         [] t = 74 -> "href" [] t = 77 -> "value" [] t = 78 -> "vspace"
         [] t = 79 -> "width" [] t = 80 -> "xml:lang" [] t = 82 -> "align"
         [] t = 83 -> "columns" [] t = 84 -> "class" [] t = 85 -> "id"
         [] t = 90 -> "http-equiv" [] t = 94 -> "accesskey" [] t = 95 -> "enctype",
       "">>]
  @@ [t \in 6..11 |-> <<"align", <<"bottom", "center", "left", "middle", "right", "top">>[t - 5]>>]
  @@ (16 :> <<"emptyok", "false">> @@ 17 :> <<"emptyok", "true">>
      @@ 27 :> <<"method", "get">> @@ 28 :> <<"method", "post">>
      @@ 29 :> <<"mode", "nowrap">> @@ 30 :> <<"mode", "wrap">>
      @@ 31 :> <<"multiple", "false">> @@ 32 :> <<"multiple", "true">>
      @@ 34 :> <<"newcontext", "false">> @@ 35 :> <<"newcontext", "true">>
      @@ 40 :> <<"optional", "false">> @@ 41 :> <<"optional", "true">>
      @@ 47 :> <<"sendreferer", "false">> @@ 48 :> <<"sendreferer", "true">>
      @@ 51 :> <<"ordered", "true">> @@ 52 :> <<"ordered", "false">>
      @@ 75 :> <<"href", "http://">> @@ 76 :> <<"href", "https://">>
      @@ 86 :> <<"forua", "false">> @@ 87 :> <<"forua", "true">>
      @@ 88 :> <<"src", "http://">> @@ 89 :> <<"src", "https://">>
      @@ 91 :> <<"http-equiv", "Content-Type">>
      @@ 92 :> <<"content", "application/vnd.wap.wmlc;charset=">>
      @@ 93 :> <<"http-equiv", "Expires">>
      @@ 96 :> <<"enctype", "application/x-www-form-urlencoded">>
      @@ 97 :> <<"enctype", "multipart/form-data">>
      @@ 98 :> <<"xml:space", "preserve">> @@ 99 :> <<"xml:space", "default">>
      @@ 100 :> <<"cache-control", "no-cache">>)
  @@ [t \in 56..73 \ {64, 65, 66, 67, 68} |->
        <<"type", CASE t = 56 -> "accept" [] t = 57 -> "delete" [] t = 58 -> "help"
                    [] t = 59 -> "password" [] t = 60 -> "onpick"
                    [] t = 61 -> "onenterbackward" [] t = 62 -> "onenterforward"
                    [] t = 63 -> "ontimer" [] t = 69 -> "options" [] t = 70 -> "prev"
                    [] t = 71 -> "reset" [] t = 72 -> "text" [] t = 73 -> "vnd.">>]

\* wml_attr_values.
AttrValueTable ==
  (133 :> ".com/" @@ 134 :> ".edu/" @@ 135 :> ".net/" @@ 136 :> ".org/"
   @@ 137 :> "accept" @@ 138 :> "bottom" @@ 139 :> "clear" @@ 140 :> "delete"
   @@ 141 :> "help" @@ 142 :> "http://" @@ 143 :> "http://www."
   @@ 144 :> "https://" @@ 145 :> "https://www." @@ 147 :> "middle"
   @@ 148 :> "nowrap" @@ 149 :> "onpick" @@ 150 :> "onenterbackward"
   @@ 151 :> "onenterforward" @@ 152 :> "ontimer" @@ 153 :> "options"
   @@ 154 :> "password" @@ 155 :> "reset" @@ 157 :> "text" @@ 158 :> "top"
   @@ 159 :> "unknown" @@ 160 :> "wrap" @@ 161 :> "www.")

Chr(b) == CASE b = 97 -> "a" [] b = 98 -> "b" [] b = 99 -> "c" [] OTHER -> "?"

Chars(bytes) == FoldLeft(LAMBDA acc, x : acc \o Chr(x), "", bytes)

\* decodeMbUint(&w[at], len): the bytes consumed (0 when the last byte
\* of the number lies beyond len) and the value.
RECURSIVE MbLoop(_, _, _, _, _)
MbLoop(w, at, len, i, value) ==
  IF i >= len THEN [n |-> 0, value |-> value]
  ELSE LET b == w[at + i + 1]
           v == WideMulAdd(value, 128, b % 128)
       IN IF b >= 128 THEN MbLoop(w, at, len, i + 1, v) ELSE [n |-> i + 1, value |-> v]

decodeMbUint(w, at, len) ==
  IF len = 0 THEN [n |-> 0, value |-> Zero] ELSE MbLoop(w, at, len, 0, Zero)
(***************************************************************************)
(* decompileBody. c is the context [w, b, len, ts, tl, size]: the WMLC,   *)
(* the offset and length of the body, the offset and length of the string *)
(* table (tl = 0 when there is none) and outputSize. r is the loop state   *)
(* [pos, out, stack, oob, done]: pos in the body, the text written, the   *)
(* open element names, whether strlen read past the WMLC, and whether    *)
(* the main loop has ended.                                                *)
(***************************************************************************)
At(c, p) == c.w[c.b + p + 1]

\* Mutant: the capacity test leaves no byte for the NUL.
appendStrNoSpare(c, r, s) ==
  [r EXCEPT !.out = IF Len(@) + Len(s) <= c.size THEN @ \o s ELSE @]

\* appendStr and appendChar: the text is written whole if it fits with
\* one byte to spare, else not at all.
appendStr(c, r, s) ==
  [r EXCEPT !.out = IF Len(@) + Len(s) < c.size THEN @ \o s ELSE @]

\* The loop copying an inline string: each character while one byte is
\* left, up to the NUL or the end of the body; then the NUL is skipped.
InlineStr(c, r) ==
  LET nul == SelectInSubSeq(c.w, c.b + r.pos + 1, c.b + c.len, LAMBDA x : x = 0)
      stop == IF nul = 0 THEN c.len ELSE nul - c.b - 1
      s == Chars(SubSeq(c.w, c.b + r.pos + 1, c.b + stop))
      room == c.size - 1 - Len(r.out)
  IN [r EXCEPT !.out = @ \o (IF Len(s) <= room THEN s ELSE SubSeq(s, 1, room)),
               !.pos = IF stop < c.len THEN stop + 1 ELSE stop]

\* strlen(&stringTable[off]): up to the next NUL of the WMLC, or past its
\* end.
TableStr(c, off) ==
  LET nul == SelectInSubSeq(c.w, c.ts + off + 1, Len(c.w), LAMBDA x : x = 0)
  IN IF nul = 0 THEN [s |-> Chars(SubSeq(c.w, c.ts + off + 1, Len(c.w))), oob |-> TRUE]
     ELSE [s |-> Chars(SubSeq(c.w, c.ts + off + 1, nul - 1)), oob |-> FALSE]

\* Mutant: the offset test admits the table's length.
AppendTableStrPastEnd(c, r, off) ==
  IF off <= c.tl
  THEN LET t == TableStr(c, off) IN [appendStr(c, r, t.s) EXCEPT !.oob = @ \/ t.oob]
  ELSE r

AppendTableStr(c, r, off) ==
  IF off < c.tl
  THEN LET t == TableStr(c, off) IN [appendStr(c, r, t.s) EXCEPT !.oob = @ \/ t.oob]
  ELSE r

\* The mb_u_int32 at pos.
MbAt(c, r) == decodeMbUint(c.w, c.b + r.pos, c.len - r.pos)

\* STR_T: a reference into the string table.
StrT(c, r) ==
  LET m == MbAt(c, r)
  IN IF m.n = 0 THEN r
     ELSE AppendTableStr(c, [r EXCEPT !.pos = @ + m.n], WideValue(m.value))

ExtSuffix(t) ==
  IF t \in {WBXML_EXT_I_1, WBXML_EXT_T_1} THEN ":e"
  ELSE IF t \in {WBXML_EXT_I_2, WBXML_EXT_T_2} THEN ":u" ELSE ""

\* EXT_I_n: a variable given inline.
ExtI(c, r, t) ==
  appendStr(c, appendStr(c, InlineStr(c, appendStr(c, r, "$(")), ExtSuffix(t)), ")")

\* EXT_T_n: a variable named in the string table.
ExtT(c, r, t) ==
  LET m == MbAt(c, r)
      r1 == AppendTableStr(c, appendStr(c, [r EXCEPT !.pos = @ + m.n], "$("),
                           WideValue(m.value))
  IN IF m.n = 0 THEN r ELSE appendStr(c, appendStr(c, r1, ExtSuffix(t)), ")")

\* ENTITY: "&#%lu;" formatted into entityBuf[16].
Entity(c, r) ==
  LET m == MbAt(c, r)
      e == "&#" \o ToString(WideValue(m.value)) \o ";"
  IN IF m.n = 0 THEN r
     ELSE appendStr(c, [r EXCEPT !.pos = @ + m.n],
                    IF Len(e) <= 15 THEN e ELSE SubSeq(e, 1, 15))

\* OPAQUE: the data is skipped, "pos += opaqueLen" in size_t.
Opaque(c, r) ==
  LET m == MbAt(c, r)
  IN IF m.n = 0 THEN r
     ELSE [r EXCEPT !.pos = WideValue(WideAdd(m.value, r.pos + m.n))]

\* Mutant: the stack check is one short.
OpenElementShallow(c, r, name, hasContent) ==
  IF hasContent
  THEN [appendStr(c, r, ">") EXCEPT
          !.stack = IF Len(r.stack) < STACK_SIZE - 1 THEN Append(@, name) ELSE @]
  ELSE appendStr(c, r, "/>")

\* An element with content is pushed while the stack has room.
OpenElement(c, r, name, hasContent) ==
  IF hasContent
  THEN [appendStr(c, r, ">") EXCEPT
          !.stack = IF Len(r.stack) < STACK_SIZE THEN Append(@, name) ELSE @]
  ELSE appendStr(c, r, "/>")

CloseElement(c, r) ==
  IF r.stack = <<>> THEN r
  ELSE appendStr(c, appendStr(c, appendStr(c, [r EXCEPT !.stack = Front(@)], "</"),
                              Last(r.stack)), ">")

\* LITERAL, LITERAL_A, LITERAL_C, LITERAL_AC: the name is in the string
\* table ("unknown" when the offset is not); attributes are skipped up
\* to their END.
Literal(c, r, t) ==
  LET m == MbAt(c, r)
      off == WideValue(m.value)
      r1 == [r EXCEPT !.pos = @ + m.n]
      named == IF off < c.tl THEN TableStr(c, off) ELSE [s |-> "unknown", oob |-> FALSE]
      r2 == [appendStr(c, appendStr(c, r1, "<"), named.s) EXCEPT !.oob = @ \/ named.oob]
      endAt == SelectInSubSeq(c.w, c.b + r2.pos + 1, c.b + c.len, LAMBDA x : x = WBXML_END)
      r3 == IF t \in {WBXML_LITERAL_A, WBXML_LITERAL_AC}
            THEN [r2 EXCEPT !.pos = IF endAt = 0 THEN c.len ELSE endAt - c.b]
            ELSE r2
  IN IF m.n = 0 THEN r
     ELSE OpenElement(c, r3, named.s, t \in {WBXML_LITERAL_C, WBXML_LITERAL_AC})

\* One token of an attribute value after its start token: an inline or
\* table string, a variable, a well-known value or any other byte,
\* which is skipped.
ValueToken(c, r, v) ==
  LET r1 == [r EXCEPT !.pos = @ + 1]
  IN CASE v = WBXML_STR_I -> InlineStr(c, r1)
       [] v = WBXML_STR_T -> StrT(c, r1)
       [] v \in WBXML_EXT_I_0..WBXML_EXT_I_2 -> ExtI(c, r1, v)
       [] v \in WBXML_EXT_T_0..WBXML_EXT_T_2 -> ExtT(c, r1, v)
       [] v >= 128 /\ v \in DOMAIN AttrValueTable -> appendStr(c, r1, AttrValueTable[v])
       [] OTHER -> r1

\* The value loop: it stops at END or at a token in 0x05..0x7F.
RECURSIVE ValueLoop(_, _)
ValueLoop(c, r) ==
  IF r.pos >= c.len THEN r
  ELSE LET v == At(c, r.pos)
       IN IF v = WBXML_END \/ (v < 128 /\ v >= 5) THEN r
          ELSE ValueLoop(c, ValueToken(c, r, v))

\* One token of an attribute list: a string, a well-known value, or an
\* attribute start with its name, prefix and value loop.
AttrToken(c, r, a) ==
  LET r1 == [r EXCEPT !.pos = @ + 1]
      attr == AttributeTable[a]
  IN CASE a = WBXML_STR_I -> InlineStr(c, r1)
       [] a = WBXML_STR_T -> StrT(c, r1)
       [] a >= 128 -> IF a \in DOMAIN AttrValueTable
                      THEN appendStr(c, r1, AttrValueTable[a]) ELSE r1
       [] a \in DOMAIN AttributeTable ->
            LET named == appendStr(c, appendStr(c, appendStr(c, r, " "), attr[1]), "=\"")
            IN appendStr(c, ValueLoop(c, [appendStr(c, named, attr[2])
                                           EXCEPT !.pos = @ + 1]), "\"")
       [] OTHER -> r1

RECURSIVE AttrLoop(_, _)
AttrLoop(c, r) ==
  IF r.pos >= c.len THEN r
  ELSE LET a == At(c, r.pos)
       IN IF a = WBXML_END THEN [r EXCEPT !.pos = @ + 1]
          ELSE AttrLoop(c, AttrToken(c, r, a))

\* A tag token: a known element is written with its attributes; an
\* unknown one is skipped.
Element(c, r, t) ==
  LET name == getElementName(t % 64)
      r1 == appendStr(c, appendStr(c, r, "<"), name)
      r2 == IF t >= TAG_HAS_ATTRS THEN AttrLoop(c, r1) ELSE r1
  IN IF name = NoName THEN r
     ELSE OpenElement(c, r2, name, (t \div TAG_HAS_CONTENT) % 2 = 1)

\* One iteration of the main loop, for the token at pos.
BodyStep(c, r) ==
  LET t == At(c, r.pos)
      r1 == [r EXCEPT !.pos = @ + 1]
      more == r1.pos < c.len
  IN CASE t = WBXML_SWITCH_PAGE -> IF more THEN [r1 EXCEPT !.pos = @ + 1] ELSE r1
       [] t = WBXML_END -> CloseElement(c, r1)
       [] t = WBXML_ENTITY -> IF more THEN Entity(c, r1) ELSE r1
       [] t = WBXML_STR_I -> InlineStr(c, r1)
       [] t = WBXML_STR_T -> IF more THEN StrT(c, r1) ELSE r1
       [] t \in WBXML_EXT_I_0..WBXML_EXT_I_2 -> ExtI(c, r1, t)
       [] t \in WBXML_EXT_T_0..WBXML_EXT_T_2 -> IF more THEN ExtT(c, r1, t) ELSE r1
       [] t = WBXML_OPAQUE -> IF more THEN Opaque(c, r1) ELSE r1
       [] t = WBXML_PI -> r1
       [] t \in {WBXML_LITERAL, WBXML_LITERAL_A, WBXML_LITERAL_C, WBXML_LITERAL_AC} ->
            IF more THEN Literal(c, r1, t) ELSE r1
       [] OTHER -> Element(c, r1, t)

\* The closing of every element still on the stack.
RECURSIVE CloseAll(_, _)
CloseAll(c, r) == IF r.stack = <<>> THEN r ELSE CloseAll(c, CloseElement(c, r))

\* One pass of "while (pos < len)": the end of the body closes what is
\* still open and ends the loop; a finished loop stays finished.
Pass(c, r) ==
  IF r.done THEN r
  ELSE IF r.pos >= c.len THEN [CloseAll(c, r) EXCEPT !.done = TRUE]
  ELSE BodyStep(c, r)

\* k passes in a row.
RECURSIVE PassN(_, _, _)
PassN(c, r, k) == IF k = 0 THEN r ELSE PassN(c, Pass(c, r), k - 1)

\* n passes, up to four to a level of recursion.
Chunk(n) == IF n < 4 THEN n ELSE 4
RECURSIVE Passes(_, _, _)
Passes(c, r, n) ==
  IF r.done \/ n = 0 THEN r
  ELSE Passes(c, PassN(c, r, Chunk(n)), n - Chunk(n))

\* The main loop for at most fuel iterations, and the pass that finds
\* the body consumed and closes the elements left open. done is FALSE
\* when the fuel ran out first.
BodyLoop(c, r, fuel) == Passes(c, r, fuel + 1)

decompileBody(c, fuel) ==
  BodyLoop(c, [pos |-> 0, out |-> "", stack |-> <<>>, oob |-> FALSE,
               done |-> FALSE], fuel)

XmlDeclaration == "<?xml version=\"1.0\"?>\n"

DocType(publicId) ==
  CASE publicId = 4 -> "<!DOCTYPE wml PUBLIC \"-//WAPFORUM//DTD WML 1.1//EN\" \"http://www.wapforum.org/DTD/wml_1.1.xml\">\n"
    [] publicId = 9 -> "<!DOCTYPE wml PUBLIC \"-//WAPFORUM//DTD WML 1.2//EN\" \"http://www.wapforum.org/DTD/wml12.dtd\">\n"
    [] publicId = 10 -> "<!DOCTYPE wml PUBLIC \"-//WAPFORUM//DTD WML 1.3//EN\" \"http://www.wapforum.org/DTD/wml13.dtd\">\n"
    [] OTHER -> ""

Failed == [ok |-> FALSE, out |-> "", oob |-> FALSE, done |-> TRUE]

\* The header: version, public ID (with a string table index when it is
\* 0), charset and string table length; ok is FALSE on each early return
\* of decompile. b is where the body starts.
HeaderOf(w) ==
  LET len == Len(w)
      pid == decodeMbUint(w, 1, len - 1)
      p1 == 1 + pid.n
      viaIndex == pid.value = Zero /\ p1 < len
      index == decodeMbUint(w, p1, len - p1)
      p2 == IF viaIndex THEN p1 + index.n ELSE p1
      charset == decodeMbUint(w, p2, len - p2)
      p3 == p2 + charset.n
      tableLen == decodeMbUint(w, p3, len - p3)
      p4 == p3 + tableLen.n
      tableEnd == WideValue(WideAdd(tableLen.value, p4))
  IN [ok |-> ~(len < 4 \/ pid.n = 0 \/ charset.n = 0 \/ tableLen.n = 0
               \/ (tableLen.value # Zero /\ tableEnd > len)),
      publicId |-> WideValue(IF viaIndex THEN index.value ELSE pid.value),
      ts |-> p4, tl |-> WideValue(tableLen.value),
      b |-> IF tableLen.value = Zero THEN p4 ELSE tableEnd]

\* The XML declaration and the DOCTYPE of the public ID.
Prolog(outputSize, publicId) ==
  appendStr([size |-> outputSize],
            appendStr([size |-> outputSize], [out |-> ""], XmlDeclaration),
            DocType(publicId)).out

Joined(head, body) ==
  [ok |-> TRUE, out |-> head \o body.out, oob |-> body.oob, done |-> body.done]

\* The head, then the body from h.b into the rest of the output.
DecompileWith(w, outputSize, fuel, h) ==
  LET head == Prolog(outputSize, h.publicId)
  IN Joined(head,
            IF h.b < Len(w)
            THEN decompileBody([w |-> w, b |-> h.b, len |-> Len(w) - h.b, ts |-> h.ts,
                                tl |-> h.tl, size |-> outputSize - Len(head)], fuel)
            ELSE [out |-> "", oob |-> FALSE, done |-> TRUE])

\* decompile(w, Len(w), output, outputSize); the main loop runs at most
\* fuel iterations.
decompile(w, outputSize, fuel) ==
  IF Len(w) < 4 \/ outputSize < 100 THEN Failed
  ELSE LET h == HeaderOf(w)
       IN IF h.ok THEN DecompileWith(w, outputSize, fuel, h) ELSE Failed
====

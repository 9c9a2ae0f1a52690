------------------------------ MODULE JsonText ------------------------------
(***************************************************************************)
(* The rest of cJSON's text side (cJSON.c): the printer with the room it   *)
(* asks for before each write, the escapes of string literals, and         *)
(* minifying.  All pure, and checked below, with the parser, against each  *)
(* other and against the header's promises over every small value.         *)
(***************************************************************************)
EXTENDS JsonParse, FiniteSets, SequencesExt, TLC

-----------------------------------------------------------------------------
(* String literals, as the bytes after the opening quote; digits of a \u   *)
(* escape are nibbles above 255, and anything else is no digit.            *)

Quote == 34
Backslash == 92
LetterU == 117
Digit(n) == 256 + n
Byte(raw, i) == IF i \in DOMAIN raw THEN raw[i] ELSE 0

parse_hex4(raw, i) ==
  IF \A k \in i..(i + 3) : Byte(raw, k) >= 256
  THEN FoldLeft(LAMBDA h, k : 16 * h + Byte(raw, i + k) - 256, 0, <<0, 1, 2, 3>>) ELSE 0

\* The bytes of a code point: six bits each behind a leading byte that tells how many.
utf8(codepoint) ==
  LET tail(n) == [k \in 1..n |-> 128 + ((codepoint \div 64 ^ (n - k)) % 64)]
      head(n) == codepoint \div 64 ^ n
  IN CASE codepoint < 128 -> <<codepoint>>
       [] codepoint \in 128..2047 -> <<192 + head(1)>> \o tail(1)
       [] codepoint \in 2048..65535 -> <<224 + head(2)>> \o tail(2)
       [] OTHER -> <<240 + head(3)>> \o tail(3)

\* How many bytes of the literal an escape takes (0: invalid), and what it stands for.
Escape(length, bytes) == [length |-> length, bytes |-> bytes]
utf16_literal_to_utf8(raw, i, end) ==
  LET first == parse_hex4(raw, i + 2)
      second == parse_hex4(raw, i + 8)
      paired == end - i >= 12 /\ Byte(raw, i + 6) = Backslash /\ Byte(raw, i + 7) = LetterU
  IN CASE end - i < 6 \/ first \in 56320..57343 -> Escape(0, <<>>)
       [] end - i >= 6 /\ first \in 55296..56319 ->
            IF paired /\ second \in 56320..57343
            THEN Escape(12, utf8(65536 + 1024 * (first % 1024) + (second % 1024))) ELSE Escape(0, <<>>)
       [] OTHER -> Escape(6, utf8(first))

\* b, f, n, r, t and the three characters that stand for themselves.
Short == (98 :> 8) @@ (102 :> 12) @@ (110 :> 10) @@ (114 :> 13) @@ (116 :> 9)
           @@ (Quote :> Quote) @@ (Backslash :> Backslash) @@ (47 :> 47)

\* The closing quote, and the backslashes that are not counted for the output.
RECURSIVE closing(_, _, _), unescaped(_, _, _)
closing(raw, i, skipped) ==
  CASE i > Len(raw) -> [at |-> 0, skipped |-> skipped]
    [] i <= Len(raw) /\ Byte(raw, i) = Quote -> [at |-> i, skipped |-> skipped]
    [] OTHER -> IF Byte(raw, i) = Backslash THEN closing(raw, i + 2, skipped + 1) ELSE closing(raw, i + 1, skipped)

unescaped(raw, i, end) ==
  LET esc == IF Byte(raw, i) # Backslash THEN Escape(1, <<Byte(raw, i)>>)
             ELSE CASE Byte(raw, i + 1) \in DOMAIN Short -> Escape(2, <<Short[Byte(raw, i + 1)]>>)
                    [] Byte(raw, i + 1) = LetterU -> utf16_literal_to_utf8(raw, i, end)
                    [] OTHER -> Escape(0, <<>>)
      rest == unescaped(raw, i + esc.length, end)
  IN CASE i >= end -> [ok |-> TRUE, bytes |-> <<>>]
       [] i < end /\ esc.length = 0 -> [ok |-> FALSE, bytes |-> <<>>]
       [] OTHER -> [ok |-> rest.ok, bytes |-> esc.bytes \o rest.bytes]

\* allocated is the room for the output, its NUL included.
parse_string(raw) ==
  LET end == closing(raw, 1, 0)
      out == unescaped(raw, 1, end.at)
  IN [ok |-> end.at > 0 /\ out.ok, bytes |-> out.bytes, allocated |-> end.at - end.skipped + 1]

\* What printing a string writes after the opening quote.
Control == {8, 9, 10, 12, 13, Quote, Backslash}
output_length(bytes) ==
  Len(bytes) + Cardinality({i \in DOMAIN bytes : bytes[i] \in Control})
             + 5 * Cardinality({i \in DOMAIN bytes : bytes[i] < 32 /\ bytes[i] \notin Control})
literal(bytes) ==
  FoldLeft(LAMBDA text, b :
             text \o (CASE b \in Control -> <<Backslash, CHOOSE c \in DOMAIN Short : Short[c] = b>>
                        [] b < 32 /\ b \notin Control ->
                             <<Backslash, LetterU, Digit(0), Digit(0), Digit(b \div 16), Digit(b % 16)>>
                        [] OTHER -> <<b>>), <<>>, bytes) \o <<Quote>>

-----------------------------------------------------------------------------
(* Printing: ask for room, write, move the offset.  pending counts what is *)
(* written behind the offset, for update_offset; over is a write that went *)
(* beyond the buffer.                                                      *)

Printer(length, noalloc, format) ==
  [length |-> length, noalloc |-> noalloc, format |-> format, offset |-> 0, pending |-> 0,
   depth |-> 0, ok |-> TRUE, over |-> FALSE, text |-> <<>>]

ensure(p, needed) ==
  LET needs == needed + p.offset + 1
  IN CASE p.length > 0 /\ p.offset >= p.length -> [p EXCEPT !.ok = FALSE]
       [] ~(p.length > 0 /\ p.offset >= p.length) /\ needs <= p.length -> p
       [] OTHER -> IF p.noalloc THEN [p EXCEPT !.ok = FALSE] ELSE [p EXCEPT !.length = 2 * needs]

Put(printer, needed, written, advance, pending, tokens) ==
  LET p == IF printer.ok THEN ensure(printer, needed) ELSE printer
  IN IF ~p.ok THEN p
     ELSE [p EXCEPT !.over = @ \/ p.offset + written > p.length, !.offset = @ + advance,
                    !.pending = pending, !.text = @ \o tokens]
update_offset(p) == [p EXCEPT !.offset = @ + p.pending, !.pending = 0]

Deeper(p, by) == [p EXCEPT !.depth = @ + by]
One(cond) == IF cond THEN 1 ELSE 0
Width(tok) == CASE tok.t = "number" -> Len(ToString(tok.val[1]))
                [] tok.t \in {"null", "true", "false"} -> Len(tok.t)
                [] OTHER -> 1

print_string_ptr(s, p) ==
  LET width == Len(literal(s))              \* without the opening quote
  IN Put(p, output_length(s) + 3, width + 2, 0, width + 1, <<S(s)>>)
print_number(tok, p) == Put(p, Width(tok) + 1, Width(tok) + 1, Width(tok), 0, <<tok>>)
print_literal(tok, p) == Put(p, Width(tok) + 1, Width(tok) + 1, 0, Width(tok), <<tok>>)

RECURSIVE print_value(_, _)

print_element(p, v, last) ==
  LET q == update_offset(print_value(v, p))
      width == 1 + One(q.format)
  IN IF last THEN q ELSE Put(q, width + 1, width + 1, width, 0, <<P("comma")>>)

print_array(v, p) ==
  LET opened == Deeper(Put(p, 1, 1, 1, 0, <<P("lbrack")>>), 1)
      filled[n \in 0..Len(v.items)] ==
        IF n = 0 THEN opened ELSE print_element(filled[n - 1], v.items[n], n = Len(v.items))
  IN Deeper(Put(filled[Len(v.items)], 2, 2, 0, 1, <<P("rbrack")>>), -1)

print_member(p, m, last) ==
  LET tabbed == IF p.format THEN Put(p, p.depth, p.depth, p.depth, 0, <<>>) ELSE p
      named == update_offset(print_string_ptr(m.string, tabbed))
      width == 1 + One(p.format)
      valued == update_offset(print_value(m.item, Put(named, width, width, width, 0, <<P("colon")>>)))
      ending == One(p.format) + One(~last)
  IN Put(valued, ending + 1, ending + 1, ending, 0, IF last THEN <<>> ELSE <<P("comma")>>)

print_object(v, p) ==
  LET width == 1 + One(p.format)
      opened == Deeper(Put(p, width + 1, width, width, 0, <<P("lbrace")>>), 1)
      filled[n \in 0..Len(v.items)] ==
        IF n = 0 THEN opened ELSE print_member(filled[n - 1], v.items[n], n = Len(v.items))
      last == IF p.format THEN opened.depth ELSE 1
  IN Deeper(Put(filled[Len(v.items)], last + 1, last + 1, 0, last, <<P("rbrace")>>), -1)

print_value(v, p) ==
  CASE v.t = "array" -> print_array(v, p)
    [] v.t = "object" -> print_object(v, p)
    [] v.t = "string" -> print_string_ptr(v.val, p)
    [] v.t = "number" -> print_number(v, p)
    [] OTHER -> print_literal(v, p)

cJSON_PrintPreallocated(v, length, format) == update_offset(print_value(v, Printer(length, TRUE, format)))
cJSON_PrintBuffered(v, prebuffer, format) == update_offset(print_value(v, Printer(prebuffer, FALSE, format)))
cJSON_Print(v, format) == cJSON_PrintBuffered(v, 256, format)

-----------------------------------------------------------------------------
(* Minifying, on the bytes of the text: blanks and comments go, strings stay *)

Blank == {9, 10, 13, 32}
Slash == 47
Star == 42

RECURSIVE after_line(_, _), after_comment(_, _), minified(_, _), minify_string(_, _)
after_line(text, i) == IF i > Len(text) \/ Byte(text, i) = 10 THEN i + 1 ELSE after_line(text, i + 1)
after_comment(text, i) ==
  CASE i > Len(text) -> i
    [] Byte(text, i) = Star /\ Byte(text, i + 1) = Slash -> i + 2
    [] OTHER -> after_comment(text, i + 1)

minify_string(text, i) ==
  CASE i > Len(text) -> <<>>
    [] Byte(text, i) = Quote -> <<Quote>> \o minified(text, i + 1)
    [] Byte(text, i) = Backslash /\ Byte(text, i + 1) = Quote ->
         <<Backslash, Quote>> \o minify_string(text, i + 2)
    [] OTHER -> <<Byte(text, i)>> \o minify_string(text, i + 1)

minified(text, i) ==
  CASE i > Len(text) -> <<>>
    [] Byte(text, i) \in Blank -> minified(text, i + 1)
    [] Byte(text, i) = Slash ->
         minified(text, CASE Byte(text, i + 1) = Slash -> after_line(text, i + 2)
                          [] Byte(text, i + 1) = Star -> after_comment(text, i + 2)
                          [] OTHER -> i + 1)
    [] Byte(text, i) = Quote -> <<Quote>> \o minify_string(text, i + 1)
    [] OTHER -> <<Byte(text, i)>> \o minified(text, i + 1)

cJSON_Minify(text) == minified(text, 1)

-----------------------------------------------------------------------------
(* Checked over every small value, token sequence and buffer               *)

Leaves == {P("null"), N(7), S(<<97>>)}
Nested(V) ==
  LET lists == UNION {[1..n -> V] : n \in 0..2}
  IN V \cup {[t |-> "array", items |-> l] : l \in lists}
       \cup {[t |-> "object", items |-> [i \in DOMAIN l |-> [string |-> <<107>>, item |-> l[i]]]] : l \in lists}
Values == Nested(Nested(Leaves))

\* What is printed, formatted or not, is read back as the same value; printing never
\* writes beyond the room it has asked for, and without format the offset ends behind
\* exactly what was written.
TextWidth(text) ==
  FoldLeft(LAMBDA n, tok : n + IF tok.t = "string" THEN Len(literal(tok.val)) + 1 ELSE Width(tok), 0, text)
ASSUME PrintedIsRead ==
  \A v \in Values, format \in BOOLEAN :
    LET p == cJSON_Print(v, format)
    IN /\ p.ok /\ ~p.over
       /\ ~format => p.offset = TextWidth(p.text)
       /\ cJSON_ParseWithOpts(p.text, TRUE) = Parsed(Len(p.text) + 1, v)

\* What is read is the print of a value, as far as it was read.
Tokens == Leaves \cup {P(c) : c \in {"lbrack", "rbrack", "lbrace", "rbrace", "comma", "colon"}}
ASSUME ReadIsPrinted ==
  \A n \in 1..5 : \A text \in [1..n -> Tokens] :
    LET v == cJSON_Parse(text)
    IN v.ok => cJSON_Print(v.val, FALSE).text = SubSeq(text, 1, v.at - 1)

\* A value as deep as the limit is read, a deeper one is not.
Brackets(n) == [i \in 1..(2 * n) |-> P(IF i <= n THEN "lbrack" ELSE "rbrack")]
ASSUME DepthLimited ==
  \A n \in 1..(NestingLimit + 2) : cJSON_Parse(Brackets(n)).ok <=> n <= NestingLimit

\* "to be safe allocate 5 bytes more than you actually need" (cJSON.h:168): with
\* those printing succeeds, and with fewer it fails or stays within the buffer.
ASSUME FiveBytesMore ==
  \A v \in Nested(Leaves), format \in BOOLEAN :
    LET need == cJSON_Print(v, format).offset + 1
    IN \A length \in 0..(need + 6) :
         LET p == cJSON_PrintPreallocated(v, length, format)
         IN /\ ~p.over
            /\ p.ok => need <= length
            /\ length >= need + 5 => p.ok

\* A string is read back as it was printed, whatever has to be escaped, within the
\* room it has asked for.
Bytes == {97, Quote, Backslash, 8, 10, 31, 32, 127, 128, 255}
ASSUME EscapedIsRead ==
  \A n \in 0..3 : \A bytes \in [1..n -> Bytes] :
    LET read == parse_string(literal(bytes))
    IN /\ read.ok /\ read.bytes = bytes
       /\ Len(literal(bytes)) = output_length(bytes) + 1

\* "This is at most how much we need for the output" (cJSON.c:829), whatever the
\* pieces of the literal, broken ones included.
U(a, b, c, d) == <<Backslash, LetterU, Digit(a), Digit(b), Digit(c), Digit(d)>>
Pieces == {<<97>>, <<Quote>>, <<Backslash>>, <<Backslash, 110>>, <<Backslash, Quote>>, <<Backslash, 97>>,
           <<Backslash, LetterU>>, <<Backslash, LetterU, 97, 97, 97, 97>>, U(0, 0, 14, 9), U(2, 0, 10, 12),
           U(13, 8, 3, 13), U(13, 14, 0, 0)}
ASSUME RoomForTheOutput ==
  \A n \in 0..4 : \A piece \in [1..n -> Pieces] :
    LET read == parse_string(FlattenSeq(piece) \o <<Quote>>)
    IN read.ok => Len(read.bytes) + 1 <= read.allocated

\* Minifying removes the blanks and comments between the rest and nothing else, as
\* long as no string ends in an escaped backslash: the quote behind it is then taken
\* for an escaped one, and what follows is cut and kept the wrong way round.
Opened(bytes) == <<Quote>> \o literal(bytes)
Kept == {<<91>>, <<44>>, Opened(<<97, 32, Slash, Slash>>), Opened(<<Backslash, 32, Quote>>), Opened(<<>>)}
Dropped == {<<32>>, <<Slash, Slash, Quote, 10>>, <<Slash, Star, Quote, 10, Star, Slash>>}
ASSUME OnlyBlanksGo ==
  /\ \A n \in 0..4 : \A piece \in [1..n -> Kept \cup Dropped] :
       cJSON_Minify(FlattenSeq(piece)) = FlattenSeq(SelectSeq(piece, LAMBDA p : p \in Kept))
  /\ cJSON_Minify(Opened(<<Backslash>>) \o <<32>>) = Opened(<<Backslash>>) \o <<32>>

\* UTF-8 by its definition: the bits of the bytes are those of the code point, in
\* order and in the fewest bytes, at every boundary.
Bits(bytes) ==
  LET lead == CASE Len(bytes) = 1 -> bytes[1] [] Len(bytes) = 2 -> bytes[1] - 192
                [] Len(bytes) = 3 -> bytes[1] - 224 [] OTHER -> bytes[1] - 240
  IN FoldLeft(LAMBDA n, b : 64 * n + b - 128, lead, Tail(bytes))
ASSUME CodePointsKept ==
  \A limit \in {1, 127, 128, 2047, 2048, 55295, 57344, 65535, 65536, 1114110} : \A cp \in {limit, limit + 1} \ {55296} :
    /\ Bits(utf8(cp)) = cp
    /\ \A i \in 2..Len(utf8(cp)) : utf8(cp)[i] \in 128..191
    /\ Len(utf8(cp)) = 1 + Cardinality({b \in {128, 2048, 65536} : cp >= b})
=============================================================================

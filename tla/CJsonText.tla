------------------------------ MODULE CJsonText ------------------------------
(***************************************************************************)
(* cJSON.c between text and items.  A text is a sequence of bytes; the     *)
(* parser sees it with its terminating zero, at indices from 0 like the C  *)
(* code's.  printf and strtod are modelled for integers, which is all the  *)
(* program puts into JSON numbers.                                         *)
(***************************************************************************)
EXTENDS CJsonHeap, SequencesExt, TLC

CONSTANTS NestingLimit    \* CJSON_NESTING_LIMIT

QUOTE == 34
BACKSLASH == 92
TAB == 9
NEWLINE == 10
\* [ ] { } , : u
Chr == [open_array |-> 91, close_array |-> 93, open_object |-> 123, close_object |-> 125,
        comma |-> 44, colon |-> 58, u |-> 117]

Literals == [NULL |-> <<110, 117, 108, 108>>,
             False |-> <<102, 97, 108, 115, 101>>,
             True |-> <<116, 114, 117, 101>>]

\* The characters with an escape sequence of one letter, and that letter.
Escapes == (8 :> 98) @@ (12 :> 102) @@ (10 :> 110) @@ (13 :> 114) @@ (9 :> 116)
           @@ (QUOTE :> QUOTE) @@ (BACKSLASH :> BACKSLASH)

-----------------------------------------------------------------------------
(* Printing.  A print buffer p: the text in front of offset, the allocated  *)
(* length, the nesting depth, whether a write left the allocated part, and  *)
(* the allocations malloc and realloc are still going to grant.  Once one   *)
(* failed the buffer is freed and p->buffer NULL: nothing is written again. *)

\* cJSON_Print starts with 256 bytes and length 0, cJSON_PrintBuffered and
\* cJSON_PrintPreallocated with the length they are given.
PrintBuffer(length, noalloc, format, grants) ==
  [text |-> <<>>, length |-> length, noalloc |-> noalloc, format |-> format,
   depth |-> 0, ok |-> TRUE, overrun |-> FALSE, grants |-> grants]

\* hooks.allocate or hooks.reallocate, to length bytes.
Allocate(p, length) ==
  IF p.grants = 0 THEN [p EXCEPT !.ok = FALSE, !.length = 0]
  ELSE [p EXCEPT !.length = length, !.grants = @ - 1]

\* Mutant of ensure: the byte for the terminating zero is forgotten.
ensureTight(p, size) ==
  LET needed == size + Len(p.text) IN
  IF ~p.ok \/ (p.length > 0 /\ Len(p.text) >= p.length) THEN [p EXCEPT !.ok = FALSE]
  ELSE IF needed <= p.length THEN p
  ELSE IF p.noalloc \/ needed > IntMax THEN [p EXCEPT !.ok = FALSE]
  ELSE Allocate(p, IF needed > IntMax \div 2 THEN IntMax ELSE needed * 2)

\* ensure: room for size bytes and one more.
ensure(p, size) ==
  LET needed == size + Len(p.text) + 1 IN
  IF ~p.ok \/ (p.length > 0 /\ Len(p.text) >= p.length) THEN [p EXCEPT !.ok = FALSE]
  ELSE IF needed <= p.length THEN p
  ELSE IF p.noalloc \/ needed > IntMax THEN [p EXCEPT !.ok = FALSE]
  ELSE Allocate(p, IF needed > IntMax \div 2 THEN IntMax ELSE needed * 2)

\* Room for size bytes is asked for; bytes are written, zero of them behind the
\* text, and update_offset moves on to the end of the text.
Write(p, size, bytes, zero) ==
  LET Put(q) ==
        IF ~q.ok THEN q
        ELSE [q EXCEPT !.text = @ \o bytes,
                       !.overrun = @ \/ Len(q.text) + Len(bytes) + zero > q.length]
  IN Put(ensure(p, size))

\* print_string_ptr's first loop: the bytes the escape sequences add.
EscapeCharacters(s) ==
  MapThenSumSet(LAMBDA i : IF s[i] \in DOMAIN Escapes THEN 1 ELSE IF s[i] < 32 THEN 5 ELSE 0,
                DOMAIN s)

\* Mutant of Escaped: control characters are written like others.
EscapedSome(s) == FlattenSeq([i \in DOMAIN s |->
  IF s[i] \in DOMAIN Escapes THEN <<BACKSLASH, Escapes[s[i]]>> ELSE <<s[i]>>])

Hex(d) == IF d < 10 THEN 48 + d ELSE 87 + d

\* print_string_ptr's second loop.
Escaped(s) == FlattenSeq([i \in DOMAIN s |->
  IF s[i] > 31 /\ s[i] \notin {QUOTE, BACKSLASH} THEN <<s[i]>>
  ELSE IF s[i] \in DOMAIN Escapes THEN <<BACKSLASH, Escapes[s[i]]>>
  ELSE <<BACKSLASH, 117, 48, 48, Hex(s[i] \div 16), Hex(s[i] % 16)>>])

print_string_ptr(p, s) ==
  IF s = NULL THEN Write(p, 3, <<QUOTE, QUOTE>>, 1)
  ELSE Write(p, Len(s) + EscapeCharacters(s) + 3, <<QUOTE>> \o Escaped(s) \o <<QUOTE>>, 1)

RECURSIVE Digits(_)
Digits(n) == IF n < 10 THEN <<48 + n>> ELSE Append(Digits(n \div 10), 48 + (n % 10))

print_number(p, d) ==
  LET Put(bytes) == Write(p, Len(bytes), bytes, 1)
  IN Put(IF d < 0 THEN <<45>> \o Digits(-d) ELSE Digits(d))

Tabs(n) == [i \in 1..n |-> TAB]
Deeper(p, d) == [p EXCEPT !.depth = @ + d]

\* print_value, print_array and print_object.
RECURSIVE print_value(_, _, _), print_elements(_, _, _), print_members(_, _, _)
print_value(h, x, p) ==
  LET n == h.item[x]
      lead == IF p.format THEN <<Chr.open_object, NEWLINE>> ELSE <<Chr.open_object>>
  IN CASE n.type \in DOMAIN Literals ->
            Write(p, Len(Literals[n.type]) + 1, Literals[n.type], 1)
       [] n.type = "Number" -> print_number(p, n.valuedouble)
       [] n.type = "Raw" -> Write(p, Len(n.valuestring) + 1, n.valuestring, 1)
       [] n.type = "String" -> print_string_ptr(p, n.valuestring)
       [] n.type = "Array" ->
            LET Close(q) == Deeper(Write(q, 2, <<Chr.close_array>>, 1), -1)
            IN Close(print_elements(h, Kids(h, x), Deeper(Write(p, 1, <<Chr.open_array>>, 0), 1)))
       [] n.type = "Object" ->
            LET Close(q) == Deeper(Write(q, IF q.format THEN q.depth + 1 ELSE 2,
                  (IF q.format THEN Tabs(q.depth - 1) ELSE <<>>) \o <<Chr.close_object>>, 1), -1)
            IN Close(print_members(h, Kids(h, x), Deeper(Write(p, Len(lead) + 1, lead, 0), 1)))
       [] OTHER -> [p EXCEPT !.ok = FALSE]

print_elements(h, kids, p) ==
  LET comma == IF p.format THEN <<Chr.comma, 32>> ELSE <<Chr.comma>>
      Separate(q) == IF Len(kids) > 1 THEN Write(q, Len(comma) + 1, comma, 1) ELSE q
  IN IF kids = <<>> \/ ~p.ok THEN p
     ELSE print_elements(h, Tail(kids), Separate(print_value(h, Head(kids), p)))

print_members(h, kids, p) ==
  LET colon == IF p.format THEN <<Chr.colon, TAB>> ELSE <<Chr.colon>>
      rest == (IF Len(kids) > 1 THEN <<Chr.comma>> ELSE <<>>)
                \o (IF p.format THEN <<NEWLINE>> ELSE <<>>)
      name == print_string_ptr(IF p.format THEN Write(p, p.depth, Tabs(p.depth), 0) ELSE p,
                               h.item[Head(kids)].string)
      value == print_value(h, Head(kids), Write(name, Len(colon), colon, 0))
  IN IF kids = <<>> \/ ~p.ok THEN p
     ELSE print_members(h, Tail(kids), Write(value, Len(rest) + 1, rest, 1))

\* cJSON_Print, cJSON_PrintUnformatted: the first buffer, and the text cut to size.
PrintedWith(h, x, format, grants) ==
  LET Cut(p) == IF p.ok THEN Allocate(p, Len(p.text) + 1) ELSE p
  IN Cut(print_value(h, x, Allocate(PrintBuffer(0, FALSE, format, grants), 0)))
\* cJSON_PrintBuffered
PrintBuffered(h, x, prebuffer, format, grants) ==
  print_value(h, x, Allocate(PrintBuffer(0, FALSE, format, grants), prebuffer))
\* cJSON_PrintPreallocated
PrintPreallocated(h, x, len, format) == print_value(h, x, PrintBuffer(len, TRUE, format, 0))

\* What is printed while there is memory: a text has fewer growths than bytes.
Printed(h, x, format) == PrintedWith(h, x, format, IntMax)

-----------------------------------------------------------------------------
(* Parsing.  t is the text with its zero, off the offset.  A result holds   *)
(* the heap, whether it went well, and the offset it left.                  *)

\* buffer_skip_whitespace: the terminating zero is a whitespace, but never
\* skipped.
skip(t, off) ==
  LET rest == {i \in off..(Len(t) - 1) : t[i + 1] > 32}
  IN IF rest = {} THEN Len(t) - 1 ELSE Min(rest)

\* skip_utf8_bom
skip_bom(t) == IF Len(t) > 4 /\ SubSeq(t, 1, 3) = <<239, 187, 191>> THEN 3 ELSE 0

StartsWith(t, off, s) == Len(t) >= off + Len(s) /\ SubSeq(t, off + 1, off + Len(s)) = s

Failed(h, off) == [h |-> h, ok |-> FALSE, off |-> off]
Passed(h, off) == [h |-> h, ok |-> TRUE, off |-> off]

IsDigit(c) == c \in 48..57

\* parse_number: an integer.
parse_number(h, x, t, off) ==
  LET minus == t[off + 1] = 45
      from == IF minus THEN off + 1 ELSE off
      Value(digits) == FoldLeft(LAMBDA n, c : n * 10 + (c - 48), 0, digits)
      Number(d) == [h EXCEPT !.item[x].type = "Number", !.item[x].valuedouble = d,
                             !.item[x].valueint = Saturated(d)]
      Until(i) == IF i = from THEN Failed(h, off)
                  ELSE Passed(Number((IF minus THEN -1 ELSE 1) * Value(SubSeq(t, from + 1, i))), i)
  IN Until(Min({i \in from..(Len(t) - 1) : ~IsDigit(t[i + 1])}))

\* parse_hex4
HexValue(c) == CASE IsDigit(c) -> c - 48
                 [] c \in 65..70 -> c - 55
                 [] c \in 97..102 -> c - 87
                 [] OTHER -> -1
parse_hex4(t, i) ==
  LET Value(d) == IF \E k \in 1..4 : d[k] < 0 THEN 0
                  ELSE FoldLeft(LAMBDA n, digit : n * 16 + digit, 0, d)
  IN Value([k \in 1..4 |-> HexValue(t[i + k])])

\* utf16_literal_to_utf8, encoding: the last bytes carry six bits each.
RECURSIVE Continuation(_, _)
Continuation(code, n) ==
  IF n = 0 THEN <<code>> ELSE Append(Continuation(code \div 64, n - 1), 128 + (code % 64))

utf8(code) ==
  LET Encoded(length) == [Continuation(code, length - 1) EXCEPT
                            ![1] = @ + <<0, 192, 224, 240>>[length]]
  IN Encoded(IF code < 128 THEN 1 ELSE IF code < 2048 THEN 2 ELSE IF code < 65536 THEN 3 ELSE 4)

\* Mutant of SurrogatePair: the code point is not offset by 0x10000.
SurrogatePairPlain(first, second) == (first % 1024) * 1024 + (second % 1024)

SurrogatePair(first, second) == 65536 + (first % 1024) * 1024 + (second % 1024)

NoLiteral == [length |-> 0, bytes |-> <<>>]

\* utf16_literal_to_utf8: one or two sequences at i, in front of end.
utf16_literal(t, i, end) ==
  LET Pair(first, second) ==
        IF second \notin 56320..57343 THEN NoLiteral
        ELSE [length |-> 12, bytes |-> utf8(SurrogatePair(first, second))]
      First(first) ==
        IF first \in 56320..57343 THEN NoLiteral
        ELSE IF first \notin 55296..56319 THEN [length |-> 6, bytes |-> utf8(first)]
        ELSE IF end - i < 12 \/ t[i + 7] # BACKSLASH \/ t[i + 8] # Chr.u THEN NoLiteral
        ELSE Pair(first, parse_hex4(t, i + 8))
  IN IF end - i < 6 THEN NoLiteral ELSE First(parse_hex4(t, i + 2))

\* parse_string's first loop: the index of the closing quote, or -1, and the
\* escaped bytes in front of it.
RECURSIVE EndOfString(_, _, _)
EndOfString(t, i, skipped) ==
  IF i >= Len(t) THEN [end |-> -1, skipped |-> skipped]
  ELSE IF t[i + 1] = QUOTE THEN [end |-> i, skipped |-> skipped]
  ELSE IF t[i + 1] # BACKSLASH THEN EndOfString(t, i + 1, skipped)
  ELSE IF i + 1 >= Len(t) THEN [end |-> -1, skipped |-> skipped]
  ELSE EndOfString(t, i + 2, skipped + 1)

Unescapes == [c \in {Escapes[e] : e \in DOMAIN Escapes} \cup {47} |->
                IF c = 47 THEN 47 ELSE CHOOSE e \in DOMAIN Escapes : Escapes[e] = c]

\* parse_string's second loop: the bytes up to end, or the index of an escape
\* sequence there is not.
RECURSIVE Unescaped(_, _, _, _)
Unescaped(t, i, end, bytes) ==
  LET c == t[i + 1]
      e == t[i + 2]
      Literal(u) == IF u.length = 0 THEN [ok |-> FALSE, bytes |-> <<>>, at |-> i]
                    ELSE Unescaped(t, i + u.length, end, bytes \o u.bytes)
  IN IF i >= end THEN [ok |-> TRUE, bytes |-> bytes, at |-> i]
     ELSE IF c # BACKSLASH THEN Unescaped(t, i + 1, end, Append(bytes, c))
     ELSE IF e \in DOMAIN Unescapes THEN Unescaped(t, i + 2, end, Append(bytes, Unescapes[e]))
     ELSE Literal(IF e = Chr.u THEN utf16_literal(t, i, end) ELSE NoLiteral)

\* A string as C reads it: up to the first zero.
CString(s) ==
  LET zeros == {i \in DOMAIN s : s[i] = 0}
  IN IF zeros = {} THEN s ELSE SubSeq(s, 1, Min(zeros) - 1)

\* parse_string.  The result also says whether the bytes fit what was allocated.
parse_string(h, x, t, off) ==
  LET Stored(s, e, r) ==
        IF ~r.ok THEN Failed([s.h EXCEPT !.strings = @ - 1], r.at)
        ELSE Passed([s.h EXCEPT !.item[x].type = "String", !.item[x].valuestring = CString(r.bytes),
                                !.overrun = @ \/ Len(r.bytes) + 1 > e.end - off - e.skipped + 1],
                    e.end + 1)
      Allocated(s, e) == IF ~s.ok THEN Failed(h, off + 1)
                         ELSE Stored(s, e, Unescaped(t, off + 1, e.end, <<>>))
      Ended(e) == IF e.end < 0 THEN Failed(h, off + 1) ELSE Allocated(Strdup(h), e)
  IN IF t[off + 1] # QUOTE THEN Failed(h, off + 1) ELSE Ended(EndOfString(t, off + 1, 0))

\* parse_object: the name of a member, its colon, and the way to its value.
parse_name(h, x, t, off) ==
  LET Named(g) == [g EXCEPT !.item[x].string = g.item[x].valuestring,
                            !.item[x].valuestring = NULL]
      Colon(name, i) == IF t[i + 1] # Chr.colon THEN Failed(Named(name.h), i)
                        ELSE Passed(Named(name.h), skip(t, i + 1))
      Read(name) == IF ~name.ok THEN name ELSE Colon(name, skip(t, name.off))
  IN Read(parse_string(h, x, t, off))

\* The list that hangs at x while it is built is given up.
GiveUp(h, x, off) ==
  Failed([Delete(h, h.item[x].child) EXCEPT !.item[x].child = NULL], off)

\* parse_value, and the first steps of parse_array and parse_object.
RECURSIVE parse_value(_, _, _, _, _), parse_elements(_, _, _, _, _, _)
parse_value(h, x, t, off, depth) ==
  LET literal == {l \in DOMAIN Literals : StartsWith(t, off, Literals[l])}
      c == t[off + 1]
      type == IF c = Chr.open_array THEN "Array" ELSE "Object"
      close == IF type = "Array" THEN Chr.close_array ELSE Chr.close_object
      inner == skip(t, off + 1)
  IN IF literal # {}
     THEN LET l == CHOOSE m \in literal : TRUE IN
          Passed([h EXCEPT !.item[x].type = l, !.item[x].valueint = IF l = "True" THEN 1 ELSE @],
                 off + Len(Literals[l]))
     ELSE IF c = QUOTE THEN parse_string(h, x, t, off)
     ELSE IF c = 45 \/ IsDigit(c) THEN parse_number(h, x, t, off)
     ELSE IF c \notin {Chr.open_array, Chr.open_object} \/ depth >= NestingLimit THEN Failed(h, off)
     ELSE IF t[inner + 1] = close THEN Passed([h EXCEPT !.item[x].type = type], inner + 1)
     ELSE parse_elements(h, x, t, inner - 1, depth + 1, type)

\* The loop of parse_array, and of parse_object, from the separator at off on.
parse_elements(h, x, t, off, depth, type) ==
  LET close == IF type = "Array" THEN Chr.close_array ELSE Chr.close_object
      Behind(v, i) ==
        IF t[i + 1] = Chr.comma THEN parse_elements(v.h, x, t, i, depth, type)
        ELSE IF t[i + 1] # close THEN GiveUp(v.h, x, i)
        ELSE Passed([v.h EXCEPT !.item[x].type = type], i + 1)
      Value(v) == IF ~v.ok THEN GiveUp(v.h, x, v.off) ELSE Behind(v, skip(t, v.off))
      Name(y, name) == IF ~name.ok THEN GiveUp(name.h, x, name.off)
                       ELSE Value(parse_value(name.h, y, t, name.off, depth))
      Start(g, y, i) == Name(y, IF type = "Array" THEN Passed(g, i) ELSE parse_name(g, y, t, i))
      Attach(n) == IF n.x = NULL THEN GiveUp(h, x, off)
                   ELSE Start(AddItemToArray(n.h, x, n.x), n.x, skip(t, off + 1))
  IN Attach(New(h))

\* cJSON_ParseWithOpts: the item or NULL, and where the text went wrong.
Parse(h, text, requireEnd) ==
  LET t == Append(text, 0)
      Refused(n, g, off) == [h |-> Delete(g, n.x), x |-> NULL,
                             error |-> IF off < Len(t) THEN off ELSE Len(t) - 1]
      End(n, v, end) == IF requireEnd /\ t[end + 1] # 0 THEN Refused(n, v.h, end)
                        ELSE [h |-> v.h, x |-> n.x, error |-> 0]
      Value(n, v) == IF ~v.ok THEN Refused(n, v.h, v.off) ELSE End(n, v, skip(t, v.off))
      Root(n) == IF n.x = NULL THEN [h |-> h, x |-> NULL, error |-> 0]
                 ELSE Value(n, parse_value(n.h, n.x, t, skip(t, skip_bom(t)), 0))
  IN Root(New(h))

-----------------------------------------------------------------------------
\* cJSON_Minify: what is left of the text from index i on; inside says whether
\* that is inside a string.
RECURSIVE Minify(_, _, _)
Minify(t, i, inside) ==
  LET c == t[i]
      d == IF i < Len(t) THEN t[i + 1] ELSE 0
      lineEnd == Min({k \in i..Len(t) : t[k] = NEWLINE} \cup {Len(t) + 1})
      commentEnd == Min({k \in i..(Len(t) - 1) : t[k] = 42 /\ t[k + 1] = 47})
  IN IF i > Len(t) THEN <<>>
     ELSE IF inside THEN
       IF c = BACKSLASH THEN <<c, d>> \o Minify(t, i + 2, TRUE)
       ELSE <<c>> \o Minify(t, i + 1, c # QUOTE)
     ELSE IF c \in {32, 9, 13, 10} THEN Minify(t, i + 1, FALSE)
     ELSE IF c = 47 /\ d = 47 THEN Minify(t, lineEnd, FALSE)
     ELSE IF c = 47 /\ d = 42 THEN Minify(t, commentEnd + 2, FALSE)
     ELSE <<c>> \o Minify(t, i + 1, c = QUOTE)
===============================================================================

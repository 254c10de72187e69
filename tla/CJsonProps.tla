------------------------------ MODULE CJsonProps ------------------------------
(***************************************************************************)
(* What cJSON.c and cJSON.h promise about items and texts.                 *)
(***************************************************************************)
EXTENDS CJson

CONSTANTS Samples,   \* texts with what they denote
          Faults     \* texts that are no JSON, with the index of the first byte at fault

\* What an item denotes: members have no order, elements are told by their place.
RECURSIVE Denotes(_, _)
Denotes(h, x) ==
  LET n == h.item[x]
      kids == Kids(h, x)
      Name(k) == IF h.item[k].string = NULL THEN <<>> ELSE h.item[k].string
  IN [type |-> n.type,
      value |-> IF n.type = "Number" THEN <<n.valuedouble, n.valueint>>
                ELSE IF n.type \in {"String", "Raw"} THEN n.valuestring ELSE <<>>,
      kids |-> {<<IF n.type = "Array" THEN <<i>> ELSE Name(kids[i]), Denotes(h, kids[i])>> :
                  i \in DOMAIN kids}]

RECURSIVE Depth(_)
Depth(x) == IF item[x].type \notin Containers THEN 0
            ELSE 1 + Max({0} \cup {Depth(Kids(H, x)[i]) : i \in DOMAIN Kids(H, x)})

NoItems == [item |-> [x \in Items |-> Invalid], strings |-> 0, left |-> 100, overrun |-> FALSE,
            wild |-> FALSE]
Untouched(h) == h.item = NoItems.item /\ h.strings = 0

\* Trees whose text can be parsed into the items there are.
Printable == {x \in held : \A y \in Reach(x) : ~item[y].isReference}

-----------------------------------------------------------------------------
\* The operations on items put, take, replace, make and delete whole trees as the
\* abstract forest says, whatever allocations fail: no operation loses, shares or
\* doubles a child.  The children of a reference belong to its origin.
Abstract == INSTANCE Forest WITH
  kids <- [x \in Live |-> IF item[x].isReference THEN <<>> ELSE Kids(H, x)],
  roots <- held
ImplementsForest == Abstract!Spec

\* Children are linked both ways, every allocated name and string has one owner
\* that will free it, and what a reference points to is still there: the lists of
\* cJSON_AddItemToArray, _DetachItemViaPointer, _ReplaceItemViaPointer and
\* _InsertItemInArray, and the ownership flags cJSON_Delete relies on.  The one
\* exception: a constant name an item keeps when cJSON_AddItemToObject finds no
\* memory for a new one is not marked as constant any more, and may be freed.
\* No mark is wrong the other way, which would lose an allocated name.
HeapSound == wild \/
  /\ \A x \in Live : \A i \in DOMAIN Kids(H, x) :
       /\ item[Kids(H, x)[i]].live
       /\ item[Kids(H, x)[i]].prev = IF i = 1 THEN NULL ELSE Kids(H, x)[i - 1]
  /\ \A x \in Live : item[x].stringIsConst /\ item[x].string # NULL => item[x].isConst
  /\ strings = Cardinality({x \in Live : item[x].string # NULL /\ ~item[x].isConst})
               + Cardinality({x \in Live : item[x].valuestring # NULL /\ ~item[x].isReference})
  /\ \A r \in Live : item[r].isReference =>
       /\ item[origin[r]].live
       /\ item[r].child = item[origin[r]].child
       /\ item[r].valuestring = item[origin[r]].valuestring

\* What cJSON_Print and cJSON_PrintUnformatted print, cJSON_Parse reads back: the
\* same value, which prints as the same text, unless it is nested deeper than
\* CJSON_NESTING_LIMIT; then nothing is left of it.  A text without format has no
\* control characters.
TextKeepsValue == \A x \in Printable, format \in BOOLEAN :
  LET Read(text, r) ==
        /\ (r.x # NULL) = (Depth(x) <= NestingLimit)
        /\ ~r.h.overrun
        /\ IF r.x = NULL THEN Untouched(r.h)
           ELSE Denotes(r.h, r.x) = Denotes(H, x) /\ Printed(r.h, r.x, format).text = text
      Fine(p) ==
        /\ p.ok /\ ~p.overrun
        /\ ~format => \A i \in DOMAIN p.text : p.text[i] > 31
        /\ Read(p.text, Parse(NoItems, p.text, TRUE))
  IN Fine(Printed(H, x, format))

\* cJSON_Compare says that two items are the same when they denote the same, for
\* objects that have every name once.
Unambiguous(x) == \A y \in Reach(x) : item[y].type = "Object" =>
  \A i, j \in DOMAIN Kids(H, y) :
    LET name == item[Kids(H, y)[i]].string IN
    name # NULL /\ (i # j => item[Kids(H, y)[j]].string # name)
CompareSeesValue == \A x, y \in {z \in held : Unambiguous(z)} :
  Compare(H, x, y, TRUE) = (Denotes(H, x) = Denotes(H, y))
\* An item keeps its value through its text, and cJSON_Compare sees that value.
ValuesAgree == TextKeepsValue /\ CompareSeesValue

\* cJSON_PrintPreallocated never writes behind its buffer, and succeeds if the
\* buffer has the five bytes more than needed that cJSON.h:152 asks for;
\* cJSON_PrintBuffered prints the same text from any prebuffer.  Whichever
\* allocation of ensure or of the printer fails, nothing is written to the freed
\* buffer, and what is returned in spite of it is the whole text.
BuffersSuffice == \A x \in Printable, format \in BOOLEAN :
  LET Given(text, len, p) == ~p.overrun /\ (p.ok => p.text = text)
                             /\ (len >= Len(text) + 1 + 5 => p.ok)
      Grown(text, p) == p.ok /\ ~p.overrun /\ p.text = text
      Failing(text, p) == ~p.overrun /\ (p.ok => p.text = text)
      All(text) ==
        /\ \A len \in (Len(text) - 1)..(Len(text) + 6) :
             Given(text, len, PrintPreallocated(H, x, len, format))
        /\ \A prebuffer \in 1..2 :
             Grown(text, PrintBuffered(H, x, prebuffer, format, IntMax))
        /\ \A grants \in 0..3 :
             /\ Failing(text, PrintBuffered(H, x, 1, format, grants))
             /\ Failing(text, PrintedWith(H, x, format, grants))
  IN All(Printed(H, x, format).text)

\* The texts mean what they should, minified or not; a text that is cut short is
\* refused, one with more behind it only if the end is required, and a faulty one
\* at its fault: parse_value and all it calls, and cJSON_Minify.
TextsMean == Live = {} =>
  LET Accepted(s, r) == r.x # NULL /\ ~r.h.overrun /\ Denotes(r.h, r.x) = s.denotes
      Refused(r) == r.x = NULL /\ Untouched(r.h)
      Text(s, more) ==
        /\ Accepted(s, Parse(NoItems, s.text, TRUE))
        /\ Accepted(s, Parse(NoItems, Minify(s.text, 1, FALSE), TRUE))
        /\ Accepted(s, Parse(NoItems, more, FALSE))
        /\ Refused(Parse(NoItems, more, TRUE))
        /\ Parse(NoItems, more, TRUE).error = Len(s.text)
        /\ \A n \in 0..(Len(s.text) - 1) : Refused(Parse(NoItems, SubSeq(s.text, 1, n), FALSE))
  IN /\ \A s \in Samples : Text(s, Append(s.text, Chr.u))
     /\ \A f \in Faults : /\ Refused(Parse(NoItems, f.text, FALSE))
                          /\ Parse(NoItems, f.text, FALSE).error = f.error

===============================================================================

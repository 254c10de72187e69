------------------------------ MODULE CJsonHeap ------------------------------
(***************************************************************************)
(* The items of cJSON.c on the heap, and the operations on them.  A heap h *)
(* is a record: the items, the number of allocated strings, how many more  *)
(* allocations malloc is going to grant, and whether free was given what   *)
(* malloc did not return.  An item's children are a doubly linked list     *)
(* that starts at child.  Names and strings are sequences of bytes; an     *)
(* item owns its name unless StringIsConst is set, and its valuestring and *)
(* children unless IsReference is set.  Whether a name really is a         *)
(* constant of the application is in isConst, which no code reads.         *)
(***************************************************************************)
EXTENDS Integers, Sequences, FiniteSetsExt

CONSTANTS Items,    \* where an item may be allocated
          NULL,
          IntMax    \* INT_MAX

Invalid == [live |-> FALSE, type |-> "Invalid", next |-> NULL, prev |-> NULL,
            child |-> NULL, isReference |-> FALSE, stringIsConst |-> FALSE,
            valuestring |-> NULL, valueint |-> 0, valuedouble |-> 0, string |-> NULL,
            isConst |-> FALSE]

Containers == {"Array", "Object"}

-----------------------------------------------------------------------------
\* cJSON_New_Item: the zeroed item and its address, or NULL.
New(h) ==
  LET free == {y \in Items : ~h.item[y].live}
      x == CHOOSE y \in free : TRUE
  IN IF h.left = 0 \/ free = {} THEN [h |-> h, x |-> NULL]
     ELSE [h |-> [h EXCEPT !.item[x] = [Invalid EXCEPT !.live = TRUE], !.left = @ - 1], x |-> x]

\* cJSON_strdup, as far as the heap is concerned.
Strdup(h) ==
  IF h.left = 0 THEN [h |-> h, ok |-> FALSE]
  ELSE [h |-> [h EXCEPT !.strings = @ + 1, !.left = @ - 1], ok |-> TRUE]

FreeIf(h, b) == IF b THEN [h EXCEPT !.strings = @ - 1] ELSE h

\* The name of an item n is freed unless it is marked as a constant.
FreeName(h, n) ==
  IF n.isConst /\ ~n.stringIsConst THEN [h EXCEPT !.wild = TRUE]
  ELSE FreeIf(h, ~n.stringIsConst /\ n.string # NULL)

\* Mutant of Delete: a reference is deleted like the item it refers to.
RECURSIVE DeleteShared(_, _)
DeleteShared(h, x) ==
  IF x = NULL THEN h
  ELSE LET n == h.item[x]
           h1 == DeleteShared(h, n.child)
           h2 == FreeIf(h1, n.valuestring # NULL)
           h3 == FreeName(h2, n)
       IN DeleteShared([h3 EXCEPT !.item[x] = Invalid], n.next)

\* cJSON_Delete of x and of the items that follow it in its list.
RECURSIVE Delete(_, _)
Delete(h, x) ==
  IF x = NULL THEN h
  ELSE LET n == h.item[x]
           h1 == IF n.isReference THEN h ELSE Delete(h, n.child)
           h2 == FreeIf(h1, ~n.isReference /\ n.valuestring # NULL)
           h3 == FreeName(h2, n)
       IN Delete([h3 EXCEPT !.item[x] = Invalid], n.next)

\* The items from x on, along next.
RECURSIVE Chain(_, _)
Chain(h, x) == IF x = NULL THEN <<>> ELSE <<x>> \o Chain(h, h.item[x].next)

Kids(h, x) == Chain(h, h.item[x].child)

-----------------------------------------------------------------------------
\* cJSON_CreateNumber and parse_number: valueint saturates.
Saturated(d) == IF d >= IntMax THEN IntMax ELSE IF d <= -IntMax - 1 THEN -IntMax - 1 ELSE d

\* cJSON_CreateNull, _True, _False, _Bool, _Number, _String, _Raw, _Array and
\* _Object: the type and the value are those of leaf.
Create(h, leaf) ==
  LET n == New(h)
      s == Strdup(n.h)
  IN IF n.x = NULL THEN n
     ELSE IF leaf.type \in {"String", "Raw"} /\ ~s.ok THEN [h |-> Delete(n.h, n.x), x |-> NULL]
     ELSE [h |-> [(IF leaf.type \in {"String", "Raw"} THEN s.h ELSE n.h) EXCEPT
                    !.item[n.x].type = leaf.type,
                    !.item[n.x].valuestring = leaf.valuestring,
                    !.item[n.x].valuedouble = leaf.valuedouble,
                    !.item[n.x].valueint = Saturated(leaf.valuedouble)],
           x |-> n.x]

\* suffix_object
Suffix(h, prev, x) == [h EXCEPT !.item[prev].next = x, !.item[x].prev = prev]

\* Mutant of AddItemToArray: the new item is linked forward only.
AddItemToArrayForward(h, a, x) ==
  LET kids == Kids(h, a) IN
  IF kids = <<>> THEN [h EXCEPT !.item[a].child = x]
  ELSE [h EXCEPT !.item[kids[Len(kids)]].next = x]

\* cJSON_AddItemToArray
AddItemToArray(h, a, x) ==
  LET kids == Kids(h, a) IN
  IF kids = <<>> THEN [h EXCEPT !.item[a].child = x]
  ELSE Suffix(h, kids[Len(kids)], x)

\* cJSON_CreateIntArray, _FloatArray, _DoubleArray and _StringArray.
RECURSIVE Fill(_, _, _)
Fill(h, a, leaves) ==
  IF leaves = <<>> THEN [h |-> h, x |-> a]
  ELSE LET n == Create(h, Head(leaves)) IN
       IF n.x = NULL THEN [h |-> Delete(n.h, a), x |-> NULL]
       ELSE Fill(AddItemToArray(n.h, a, n.x), a, Tail(leaves))

CreateArrayOf(h, leaves) ==
  LET a == New(h) IN
  IF a.x = NULL THEN a
  ELSE Fill([a.h EXCEPT !.item[a.x].type = "Array"], a.x, leaves)

-----------------------------------------------------------------------------
Lower(s) == [i \in DOMAIN s |-> IF s[i] \in 65..90 THEN s[i] + 32 ELSE s[i]]

\* case_insensitive_strcmp, strcmp: an item without a name equals none.
SameName(s, t, caseSensitive) ==
  /\ t # NULL
  /\ IF caseSensitive THEN s = t ELSE Lower(s) = Lower(t)

\* cJSON_GetArraySize, cJSON_GetArrayItem
GetArraySize(h, a) == Len(Kids(h, a))
GetArrayItem(h, a, which) ==
  IF which \in 0..(GetArraySize(h, a) - 1) THEN Kids(h, a)[which + 1] ELSE NULL

\* cJSON_GetObjectItem, cJSON_GetObjectItemCaseSensitive: the first item with
\* that name.
GetObjectItem(h, o, name, caseSensitive) ==
  LET kids == Kids(h, o)
      hits == {i \in DOMAIN kids : SameName(name, h.item[kids[i]].string, caseSensitive)}
  IN IF hits = {} THEN NULL ELSE kids[Min(hits)]

\* create_reference
CreateReference(h, x) ==
  LET n == New(h) IN
  IF n.x = NULL THEN n
  ELSE [h |-> [n.h EXCEPT !.item[n.x] =
                 [h.item[x] EXCEPT !.string = NULL, !.isConst = FALSE, !.isReference = TRUE,
                                   !.next = NULL, !.prev = NULL]],
        x |-> n.x]

\* cJSON_AddItemToObjectCS
AddItemToObjectCS(h, o, name, x) ==
  AddItemToArray([FreeName(h, h.item[x]) EXCEPT !.item[x].string = name,
                    !.item[x].stringIsConst = TRUE, !.item[x].isConst = TRUE], o, x)

\* cJSON_AddItemToObject: without memory for the name the item is not added and
\* the caller is not told; the item keeps its old name, and the mark that it is a
\* constant is removed all the same.
AddItemToObject(h, o, name, x) ==
  LET s == Strdup(h)
      h1 == [AddItemToObjectCS(s.h, o, name, x) EXCEPT !.item[x].isConst = FALSE]
      h2 == IF s.ok THEN h1 ELSE h
  IN [h |-> [h2 EXCEPT !.item[x].stringIsConst = FALSE], ok |-> s.ok]

\* cJSON_DetachItemViaPointer
Detach(h, p, x) ==
  IF x = NULL THEN h
  ELSE LET n == h.item[x]
           h1 == IF n.prev # NULL THEN [h EXCEPT !.item[n.prev].next = n.next] ELSE h
           h2 == IF n.next # NULL THEN [h1 EXCEPT !.item[n.next].prev = n.prev] ELSE h1
           h3 == IF h.item[p].child = x THEN [h2 EXCEPT !.item[p].child = n.next] ELSE h2
       IN [h3 EXCEPT !.item[x].prev = NULL, !.item[x].next = NULL]

\* cJSON_InsertItemInArray
Insert(h, a, which, x) ==
  LET after == GetArrayItem(h, a, which) IN
  IF after = NULL THEN AddItemToArray(h, a, x)
  ELSE LET h1 == [h EXCEPT !.item[x].next = after, !.item[x].prev = h.item[after].prev,
                           !.item[after].prev = x]
       IN IF h.item[a].child = after THEN [h1 EXCEPT !.item[a].child = x]
          ELSE [h1 EXCEPT !.item[h.item[after].prev].next = x]

\* cJSON_ReplaceItemViaPointer, for x # y
Replace(h, p, x, y) ==
  LET n == h.item[x]
      h1 == [h EXCEPT !.item[y].next = n.next, !.item[y].prev = n.prev]
      h2 == IF n.next # NULL THEN [h1 EXCEPT !.item[n.next].prev = y] ELSE h1
      h3 == IF n.prev # NULL THEN [h2 EXCEPT !.item[n.prev].next = y] ELSE h2
      h4 == IF h.item[p].child = x THEN [h3 EXCEPT !.item[p].child = y] ELSE h3
  IN Delete([h4 EXCEPT !.item[x].next = NULL, !.item[x].prev = NULL], x)

\* replace_item_in_object renames y first, whether or not its name is there and
\* memory for it: on a miss y is in no list, and the caller is not told.
Renamed(h, name, y) ==
  LET s == Strdup(FreeName(h, h.item[y]))
  IN [s.h EXCEPT !.item[y].string = IF s.ok THEN name ELSE NULL,
                 !.item[y].stringIsConst = FALSE, !.item[y].isConst = FALSE]

-----------------------------------------------------------------------------
\* cJSON_Duplicate: the copy owns its strings and its children.
RECURSIVE Duplicate(_, _, _), DuplicateKids(_, _, _)
Duplicate(h, x, recurse) ==
  LET n == h.item[x]
      new == New(h)
      y == new.x
      h1 == [new.h EXCEPT !.item[y].type = n.type, !.item[y].stringIsConst = n.stringIsConst,
                          !.item[y].valueint = n.valueint, !.item[y].valuedouble = n.valuedouble]
      v == IF n.valuestring = NULL THEN [h |-> h1, ok |-> TRUE] ELSE Strdup(h1)
      h2 == IF v.ok THEN [v.h EXCEPT !.item[y].valuestring = n.valuestring] ELSE v.h
      s == IF n.string = NULL \/ n.stringIsConst THEN [h |-> h2, ok |-> TRUE] ELSE Strdup(h2)
      h3 == IF s.ok THEN [s.h EXCEPT !.item[y].string = n.string,
                                     !.item[y].isConst = n.stringIsConst /\ n.isConst]
            ELSE s.h
  IN IF y = NULL THEN new
     ELSE IF ~v.ok THEN [h |-> Delete(h2, y), x |-> NULL]
     ELSE IF ~s.ok THEN [h |-> Delete(h3, y), x |-> NULL]
     ELSE IF recurse THEN DuplicateKids(h3, y, Kids(h3, x))
     ELSE [h |-> h3, x |-> y]
DuplicateKids(h, y, kids) ==
  IF kids = <<>> THEN [h |-> h, x |-> y]
  ELSE LET k == Duplicate(h, Head(kids), TRUE) IN
       IF k.x = NULL THEN [h |-> Delete(k.h, y), x |-> NULL]
       ELSE DuplicateKids(AddItemToArray(k.h, y, k.x), y, Tail(kids))

\* cJSON_Compare.  Objects are compared by name, both ways; the items of an
\* object have names.
RECURSIVE Compare(_, _, _, _)
Compare(h, a, b, caseSensitive) ==
  LET m == h.item[a]
      n == h.item[b]
      Within(o, p) == \A i \in 1..GetArraySize(h, o) :
        LET k == Kids(h, o)[i]
            l == GetObjectItem(h, p, h.item[k].string, caseSensitive)
        IN l # NULL /\ Compare(h, k, l, caseSensitive)
  IN /\ m.type = n.type
     /\ \/ a = b
        \/ m.type \in {"False", "True", "NULL"}
        \/ m.type = "Number" /\ m.valuedouble = n.valuedouble
        \/ m.type \in {"String", "Raw"} /\ m.valuestring = n.valuestring
        \/ /\ m.type = "Array"
           /\ GetArraySize(h, a) = GetArraySize(h, b)
           /\ \A i \in 1..GetArraySize(h, a) :
                Compare(h, Kids(h, a)[i], Kids(h, b)[i], caseSensitive)
        \/ m.type = "Object" /\ Within(a, b) /\ Within(b, a)
===============================================================================

-------------------------------- MODULE CJson --------------------------------
(***************************************************************************)
(* An application and the items of cJSON.c it builds, takes apart, copies, *)
(* parses and deletes, while malloc may fail at any allocation.  The       *)
(* application gives away and deletes items it holds, builds no cycles and *)
(* leaves an item alone as long as there are references to it.  Once free  *)
(* was given a constant name anything may happen, and the model stops.     *)
(***************************************************************************)
EXTENDS CJsonText

CONSTANTS Leaves,     \* the values items are created with
          Elements,   \* the sequences of values arrays are created from
          Names,
          Texts,      \* what the application parses
          MaxHeld,    \* most trees the application holds
          MaxSize,    \* most items; lost ones, ones referred to and unmarked ones count twice
          MaxGrants   \* most allocations malloc grants in one call, before it fails

VARIABLES item,      \* the items
          strings,   \* the number of allocated names and strings
          held,      \* the items without a parent the application knows of
          origin,    \* of a reference: the item it refers to
          wild       \* free was given a constant
vars == <<item, strings, held, origin, wild>>

Heap(left) == [item |-> item, strings |-> strings, left |-> left, overrun |-> FALSE,
               wild |-> wild]
H == Heap(0)
Live == {x \in Items : item[x].live}

Init ==
  /\ item = [x \in Items |-> Invalid]
  /\ strings = 0
  /\ held = {}
  /\ origin = [x \in Items |-> NULL]
  /\ wild = FALSE

-----------------------------------------------------------------------------
\* What can be reached from x; the children of a reference are those of its
\* origin.
RECURSIVE Reach(_)
Reach(x) == {x} \cup UNION {Reach(Kids(H, x)[i]) : i \in DOMAIN Kids(H, x)}

Referenced == {origin[r] : r \in {y \in Live : item[y].isReference}}

\* Items on a tree the application holds.
Known == UNION {Reach(x) : x \in held}

\* The items whose constant name has lost its mark.
Unmarked == {x \in Live : item[x].isConst /\ ~item[x].stringIsConst}

Size == Cardinality(Live) + Cardinality(Referenced) + Cardinality(Live \ Known)
        + Cardinality(Unmarked)

\* A case-sensitive search compares with strcmp, which takes no NULL.
Searchable(o, caseSensitive) ==
  caseSensitive => \A i \in DOMAIN Kids(H, o) : item[Kids(H, o)[i]].string # NULL

Free(c, type) ==
  item[c].type = type /\ ~item[c].isReference /\ c \notin Referenced /\ c \in Known
CanPut(c, type, x) == x \in held /\ Free(c, type) /\ c \notin Reach(x)

\* Nothing outside of the tree of x refers into it.
Unshared(x) ==
  LET own == {y \in Reach(x) : ~item[y].isReference} IN
  \A r \in Live \ Reach(x) : item[r].isReference => origin[r] \notin own

Become(h, given) ==
  /\ item' = h.item /\ strings' = h.strings /\ wild' = h.wild
  /\ held' = given /\ Cardinality(given) <= MaxHeld
  /\ origin' = [x \in Items |-> IF h.item[x].isReference THEN origin[x] ELSE NULL]
  /\ Size' <= MaxSize

\* A new item the application holds from now on.  A call that fails and leaves
\* nothing behind is not a step.
Get(r) == (r.x # NULL \/ r.h.item # item \/ r.h.strings # strings)
          /\ Become(r.h, IF r.x = NULL THEN held ELSE held \cup {r.x})

-----------------------------------------------------------------------------
CreateItem(leaf, m) == Get(Create(Heap(m), leaf))
CreateArray(leaves, m) == Get(CreateArrayOf(Heap(m), leaves))
Copy(x, recurse, m) == x \in Live /\ x \in Known /\ Get(Duplicate(Heap(m), x, recurse))
ParseText(t, m) == Get(Parse(Heap(m), t, FALSE))

Discard(x) == x \in held /\ Unshared(x) /\ Become(Delete(H, x), held \ {x})

\* cJSON_AddItemToArray, cJSON_AddItemToObject, cJSON_AddItemToObjectCS.  An
\* application that looks whether its item was added still holds one that was not.
PutInArray(a, x) == CanPut(a, "Array", x) /\ Become(AddItemToArray(H, a, x), held \ {x})
PutInObject(o, name, x, m) ==
  LET put == AddItemToObject(Heap(m), o, name, x) IN
  /\ CanPut(o, "Object", x)
  /\ \/ Become(put.h, held \ {x})
     \/ ~put.ok /\ Become(put.h, held)
PutInObjectCS(o, name, x) ==
  CanPut(o, "Object", x) /\ Become(AddItemToObjectCS(H, o, name, x), held \ {x})

\* cJSON_AddItemReferenceToArray, cJSON_AddItemReferenceToObject
PutReference(c, type, name, x, m) ==
  LET r == CreateReference(Heap(m), x)
      h == IF type = "Array" THEN AddItemToArray(r.h, c, r.x)
           ELSE AddItemToObject(r.h, c, name, r.x).h
  IN /\ x \in Live /\ Free(c, type) /\ x \in Known /\ c \notin Reach(x)
     /\ r.x # NULL
        /\ item' = h.item /\ strings' = h.strings /\ wild' = h.wild
     /\ origin' = [origin EXCEPT ![r.x] = IF item[x].isReference THEN origin[x] ELSE x]
     /\ UNCHANGED held
     /\ Size' <= MaxSize

\* cJSON_DetachItemFromArray, _FromObject, _FromObjectCaseSensitive
TakeOut(c, type, x) ==
  /\ Free(c, type) /\ x # NULL
  /\ Become(Detach(H, c, x), held \cup {x})

\* cJSON_DeleteItemFromArray, _FromObject, _FromObjectCaseSensitive
TakeOutAndDelete(c, type, x) ==
  /\ Free(c, type) /\ x # NULL /\ Unshared(x)
  /\ Become(Delete(Detach(H, c, x), x), held)

InsertInArray(a, which, x) ==
  CanPut(a, "Array", x) /\ Become(Insert(H, a, which, x), held \ {x})

\* cJSON_ReplaceItemInArray
ReplaceInArray(a, which, y) ==
  LET x == GetArrayItem(H, a, which) IN
  /\ CanPut(a, "Array", y)
  /\ x # NULL => Unshared(x) /\ y \notin Reach(x)
  /\ Become(IF x = NULL THEN H ELSE Replace(H, a, x, y), held \ {y})

\* cJSON_ReplaceItemInObject, cJSON_ReplaceItemInObjectCaseSensitive
ReplaceInObject(o, name, y, caseSensitive, m) ==
  LET x == GetObjectItem(H, o, name, caseSensitive)
      h == Renamed(Heap(m), name, y)
  IN /\ CanPut(o, "Object", y)
     /\ Searchable(o, caseSensitive)
     /\ x # NULL => Unshared(x)
     /\ Become(IF x = NULL THEN h ELSE Replace(h, o, x, y), held \ {y})

Step ==
  \/ \E m \in 0..MaxGrants :
       \/ \E leaves \in Elements : CreateArray(leaves, m)
       \/ \E x \in Live, recurse \in BOOLEAN : Copy(x, recurse, m)
       \/ \E t \in Texts : ParseText(t, m)
  \* These allocate at most twice.
  \/ \E m \in 0..2, name \in Names :
       \/ \E leaf \in Leaves : CreateItem(leaf, m)
       \/ \E o \in Live, x \in held : PutInObject(o, name, x, m)
       \/ \E c, x \in Live, type \in Containers : PutReference(c, type, name, x, m)
       \/ \E o \in Live, x \in held, caseSensitive \in BOOLEAN :
            ReplaceInObject(o, name, x, caseSensitive, m)
  \/ \E x \in held :
       \/ Discard(x)
       \/ \E a \in Live : PutInArray(a, x)
       \/ \E o \in Live, name \in Names : PutInObjectCS(o, name, x)
       \/ \E a \in Live : \E which \in 0..GetArraySize(H, a) :
            InsertInArray(a, which, x) \/ ReplaceInArray(a, which, x)
  \/ \E a \in Live : \E which \in 0..(GetArraySize(H, a) - 1) :
       LET x == GetArrayItem(H, a, which) IN
       TakeOut(a, "Array", x) \/ TakeOutAndDelete(a, "Array", x)
  \/ \E o \in Live, name \in Names, caseSensitive \in BOOLEAN :
       LET x == GetObjectItem(H, o, name, caseSensitive) IN
       /\ Searchable(o, caseSensitive)
       /\ TakeOut(o, "Object", x) \/ TakeOutAndDelete(o, "Object", x)

Next == ~wild /\ Step

Spec == Init /\ [][Next]_vars
===============================================================================

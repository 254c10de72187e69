------------------------------- MODULE Forest -------------------------------
(***************************************************************************)
(* What cJSON promises to do with the items an application builds: every   *)
(* item has a sequence of children, the application holds the roots, and   *)
(* each operation puts, takes or replaces one child, makes or deletes a    *)
(* whole tree, or, when memory is short or a name is not there, loses an   *)
(* item it was given.                                                      *)
(***************************************************************************)
EXTENDS Integers, SequencesExt

VARIABLES kids,   \* the children of every item there is
          roots   \* the items the application holds
vars == <<kids, roots>>

Init == kids = [x \in {} |-> <<>>] /\ roots = {}

RECURSIVE Tree(_, _)
Tree(f, x) == {x} \cup UNION {Tree(f, f[x][i]) : i \in DOMAIN f[x]}

Without(f, gone) == [x \in DOMAIN f \ gone |-> f[x]]

Make ==
  \E x \in DOMAIN kids' \ DOMAIN kids :
    /\ roots' = roots \cup {x}
    /\ Without(kids', Tree(kids', x)) = kids

Delete == \E x \in roots :
  /\ roots' = roots \ {x}
  /\ kids' = Without(kids, Tree(kids, x))

Put == \E x \in roots, c \in DOMAIN kids :
  /\ c \notin Tree(kids, x)
  /\ roots' = roots \ {x}
  /\ \E i \in 1..(Len(kids[c]) + 1) : kids' = [kids EXCEPT ![c] = InsertAt(@, i, x)]

\* A new item without children, that the application never holds.
PutNew == \E c \in DOMAIN kids, x \in DOMAIN kids' \ DOMAIN kids :
  /\ roots' = roots
  /\ kids' = [y \in DOMAIN kids \cup {x} |-> IF y = x THEN <<>>
                                             ELSE IF y = c THEN Append(kids[c], x) ELSE kids[y]]

Take == \E c \in DOMAIN kids : \E i \in DOMAIN kids[c] :
  /\ roots' = roots \cup {kids[c][i]}
  /\ kids' = [kids EXCEPT ![c] = RemoveAt(@, i)]

TakeAndDelete == \E c \in DOMAIN kids : \E i \in DOMAIN kids[c] :
  /\ roots' = roots
  /\ kids' = [Without(kids, Tree(kids, kids[c][i])) EXCEPT ![c] = RemoveAt(@, i)]

Replace == \E x \in roots, c \in DOMAIN kids : \E i \in DOMAIN kids[c] :
  /\ c \notin Tree(kids, x)
  /\ roots' = roots \ {x}
  /\ kids' = [Without(kids, Tree(kids, kids[c][i])) EXCEPT ![c][i] = x]

\* An item, new or of the application, that is on no list and is not held.
Lose == \/ \E x \in roots : roots' = roots \ {x} /\ kids' = kids
        \/ \E x \in DOMAIN kids' \ DOMAIN kids :
             roots' = roots /\ kids' = [y \in DOMAIN kids \cup {x} |-> IF y = x THEN <<>> ELSE kids[y]]

Next == Make \/ Delete \/ Put \/ PutNew \/ Take \/ TakeAndDelete \/ Replace \/ Lose
Spec == Init /\ [][Next]_vars
==============================================================================

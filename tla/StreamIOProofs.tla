---------------------------- MODULE StreamIOProofs ----------------------------
(***************************************************************************)
(* Proofs about what becomes of the messages and responses of a context,   *)
(* for any messages, bounds, and addresses of the list's nodes; and about   *)
(* the operations of the message list, for lists of any length.            *)
(***************************************************************************)
EXTENDS StreamIOProps, SequenceTheorems, WellFoundedInduction, TLAPS

-----------------------------------------------------------------------------
(* Induction over the natural numbers, with a set for the predicate.         *)

\* The order of the natural numbers as a relation, in the form the library has induction for.
LEMMA LessIsWellFounded ==
  \E R : IsWellFoundedOn(R, Nat) /\ \A x, y \in Nat : y < x => <<y, x>> \in R
  <1>1. \A x, y \in Nat : y < x => <<y, x>> \in OpToRel(<, Nat)
    BY DEF OpToRel
  <1> QED
    BY <1>1, NatLessThanWellFounded, Zenon

\* A set of natural numbers has a least element.
LEMMA LeastElement ==
  ASSUME NEW T, T \subseteq Nat, T # {}
  PROVE  \E x \in T : \A y \in T : x <= y
  <1>1. PICK R : IsWellFoundedOn(R, Nat) /\ \A x, y \in Nat : y < x => <<y, x>> \in R
    BY LessIsWellFounded
  <1>2. PICK x \in T : \A y \in T : ~(<<y, x>> \in R)
    BY <1>1, WFMin, Zenon
  <1>3. \A y \in T : ~(y < x)
    BY <1>1, <1>2
  <1> QED
    BY <1>3

\* A set with 0 and with the successor of each of its numbers has them all.
LEMMA SetInduction ==
  ASSUME NEW T, 0 \in T, \A n \in Nat : n \in T => n + 1 \in T
  PROVE  \A n \in Nat : n \in T
  <1> SUFFICES ASSUME Nat \ T # {} PROVE FALSE
    OBVIOUS
  <1>1. PICK x \in Nat \ T : \A y \in Nat \ T : x <= y
    BY LeastElement
  <1>2. x # 0 /\ x - 1 \in Nat
    BY <1>1
  <1>3. x - 1 \in T
    BY <1>1, <1>2
  <1> QED
    BY <1>1, <1>2, <1>3, x - 1 + 1 = x

-----------------------------------------------------------------------------
(* The operations of the message list.                                       *)

\* A sequence with one more element.
LEMMA AppendFacts ==
  ASSUME NEW S, NEW s \in Seq(S), NEW a \in S
  PROVE  /\ Len(s) \in Nat /\ DOMAIN s = 1..Len(s)
         /\ Append(s, a) \in Seq(S) /\ Len(Append(s, a)) = Len(s) + 1
         /\ DOMAIN Append(s, a) = 1..(Len(s) + 1)
         /\ \A i \in 1..Len(s) : Append(s, a)[i] = s[i]
         /\ Append(s, a)[Len(s) + 1] = a
  OBVIOUS

\* A sequence without its first element.
LEMMA TailFacts ==
  ASSUME NEW S, NEW s \in Seq(S), s # <<>>
  PROVE  /\ Len(s) \in Nat /\ Len(s) > 0 /\ DOMAIN s = 1..Len(s)
         /\ Tail(s) \in Seq(S) /\ Len(Tail(s)) = Len(s) - 1
         /\ DOMAIN Tail(s) = 1..(Len(s) - 1)
         /\ \A i \in 1..(Len(s) - 1) : Tail(s)[i] = s[i + 1]
  OBVIOUS

\* The nodes hold messages of M and addresses.
NodesOf(q, M) == \A b \in DOMAIN q.nodes : q.nodes[b] \in [msg : M, next : Addresses \cup {NULL}]

\* The list is empty for msg_empty exactly if it has no nodes.
LEMMA EmptyIffNoNodes ==
  ASSUME NEW q, NEW s \in Seq(Addresses), IsList(q, s)
  PROVE  msg_empty(q) <=> s = <<>>
  <1>1. s # <<>> => s[1] \in Addresses
    OBVIOUS
  <1> QED
    BY <1>1, MsgQueueAssumption DEF IsList, msg_empty

\* What is taken from a list is a sequence of messages.
LEMMA ContentsType ==
  ASSUME NEW q, NEW s \in Seq(Addresses), IsList(q, s), NEW M, NodesOf(q, M)
  PROVE  /\ Contents(q, s) \in Seq(M) /\ Len(Contents(q, s)) = Len(s)
         /\ \A i \in 1..Len(s) : Contents(q, s)[i] = q.nodes[s[i]].msg
  <1>1. Len(s) \in Nat /\ DOMAIN s = 1..Len(s)
    BY LenProperties
  <1>2. Contents(q, s) = [i \in 1..Len(s) |-> q.nodes[s[i]].msg]
    BY <1>1 DEF Contents
  <1>3. \A i \in 1..Len(s) : q.nodes[s[i]].msg \in M
    BY <1>1 DEF NodesOf, IsList
  <1> QED
    BY <1>1, <1>2, <1>3

\* xqc_cli_msg_queue_put appends a node: the list stays a list, its messages and
\* their order stay, and the new message is the last.
THEOREM PutAppends ==
  ASSUME NEW q, NEW s \in Seq(Addresses), IsList(q, s), NEW M, NodesOf(q, M),
         NEW a \in Addresses, a \notin DOMAIN q.nodes, NEW m \in M
  PROVE  /\ NodesOf(queue_put(q, a, m), M)
         /\ IsList(queue_put(q, a, m), Append(s, a))
         /\ Contents(queue_put(q, a, m), Append(s, a)) = Append(Contents(q, s), m)
  <1> DEFINE n == Len(s)
             t == Append(s, a)
             r == queue_put(q, a, m)
  <1>1. /\ n \in Nat /\ DOMAIN s = 1..n /\ DOMAIN t = 1..(n + 1) /\ Len(t) = n + 1
        /\ \A i \in 1..n : t[i] = s[i]
        /\ t[n + 1] = a /\ t # <<>> /\ t \in Seq(Addresses)
    BY AppendFacts
  <1>2. \A i \in 1..(n + 1) : i \in 1..n \/ i = n + 1
    BY <1>1
  <1>3. /\ DOMAIN q.nodes = {s[i] : i \in 1..n}
        /\ \A i, j \in 1..n : s[i] = s[j] => i = j
        /\ \A i \in 1..n : q.nodes[s[i]].next = IF i = n THEN NULL ELSE s[i + 1]
        /\ q.first_msg = IF s = <<>> THEN NULL ELSE s[1]
        /\ q.last_msg = IF s = <<>> THEN NULL ELSE s[n]
        /\ q.nb_messages = n
    BY <1>1 DEF IsList
  <1>4. a # NULL /\ \A i \in 1..n : s[i] # a /\ s[i] # NULL
    <2>1. \A i \in 1..n : s[i] \in Addresses
      BY <1>1, ElementOfSeq
    <2> QED
      BY <1>3, <2>1, MsgQueueAssumption
  <1>5. s = <<>> <=> n = 0
    BY DEF n
  <1>6. /\ DOMAIN r.nodes = DOMAIN q.nodes \cup {a}
        /\ r.nodes[a] = [msg |-> m, next |-> NULL]
        /\ \A b \in DOMAIN q.nodes :
             r.nodes[b] = IF b = q.last_msg THEN [q.nodes[b] EXCEPT !.next = a] ELSE q.nodes[b]
        /\ r.first_msg = IF q.last_msg = NULL THEN a ELSE q.first_msg
        /\ r.last_msg = a /\ r.nb_messages = q.nb_messages + 1
    BY DEF queue_put
  <1> HIDE DEF n, t, r
  <1>7. \A i \in 1..n : q.last_msg = s[i] <=> i = n
    BY <1>1, <1>3, <1>4, <1>5
  <1>8. DOMAIN r.nodes = {t[i] : i \in 1..(n + 1)}
    <2>1. \A i \in 1..n : i \in 1..(n + 1)
      BY <1>1
    <2>2. n + 1 \in 1..(n + 1)
      BY <1>1
    <2> QED
      BY <1>1, <1>2, <1>3, <1>6, <2>1, <2>2
  <1>9. \A i, j \in 1..(n + 1) : t[i] = t[j] => i = j
    BY <1>1, <1>2, <1>3, <1>4
  <1>10. ASSUME NEW i \in 1..(n + 1)
         PROVE  r.nodes[t[i]].next = IF i = n + 1 THEN NULL ELSE t[i + 1]
    <2>1. CASE i = n + 1
      BY <1>1, <1>6, <2>1
    <2>2. CASE i \in 1..n
      <3>1. /\ t[i] = s[i] /\ s[i] \in DOMAIN q.nodes /\ i # n + 1
        BY <1>1, <1>3, <2>2
      <3>2. CASE i = n
        <4>1. r.nodes[t[i]] = [q.nodes[s[i]] EXCEPT !.next = a]
          BY <1>6, <1>7, <2>2, <3>1, <3>2
        <4>2. r.nodes[t[i]].next = a
          BY <3>1, <4>1 DEF NodesOf
        <4>3. t[i + 1] = a
          BY <1>1, <3>2
        <4> QED
          BY <3>1, <4>2, <4>3
      <3>3. CASE i # n
        <4>1. i + 1 \in 1..n
          BY <1>1, <2>2, <3>3
        <4>2. r.nodes[t[i]] = q.nodes[s[i]]
          BY <1>6, <1>7, <2>2, <3>1, <3>3
        <4>3. q.nodes[s[i]].next = s[i + 1] /\ t[i + 1] = s[i + 1]
          BY <1>1, <1>3, <2>2, <3>3, <4>1
        <4> QED
          BY <3>1, <4>2, <4>3
      <3> QED
        BY <3>2, <3>3
    <2> QED
      BY <1>2, <2>1, <2>2
  <1>11. \A b \in DOMAIN q.nodes : r.nodes[b].msg = q.nodes[b].msg
    BY <1>6 DEF NodesOf
  <1>12. NodesOf(r, M)
    <2>1. ASSUME NEW b \in DOMAIN q.nodes
          PROVE  r.nodes[b] \in [msg : M, next : Addresses \cup {NULL}]
      <3>1. q.nodes[b] \in [msg : M, next : Addresses \cup {NULL}]
        BY DEF NodesOf
      <3>2. r.nodes[b] = q.nodes[b] \/ r.nodes[b] = [q.nodes[b] EXCEPT !.next = a]
        BY <1>6
      <3>3. \A x \in [msg : M, next : Addresses \cup {NULL}] :
              [x EXCEPT !.next = a] \in [msg : M, next : Addresses \cup {NULL}]
        OBVIOUS
      <3> QED
        BY <3>1, <3>2, <3>3
    <2> QED
      BY <1>6, <2>1 DEF NodesOf
  <1>13. IsList(r, t)
    <2>1. /\ r.first_msg = t[1]
          /\ r.last_msg = t[Len(t)]
          /\ r.nb_messages = Len(t)
      <3>1. CASE n = 0
        BY <1>1, <1>3, <1>5, <1>6, <3>1
      <3>2. CASE n # 0
        <4>1. 1 \in 1..n /\ n \in 1..n
          BY <1>1, <3>2
        <4>2. q.last_msg # NULL /\ q.first_msg = s[1] /\ t[1] = s[1]
          BY <1>1, <1>3, <1>4, <1>5, <3>2, <4>1
        <4> QED
          BY <1>1, <1>3, <1>6, <4>2
      <3> QED
        BY <3>1, <3>2
    <2> QED
      BY <1>1, <1>8, <1>9, <1>10, <2>1 DEF IsList
  <1>14. Contents(r, t) = Append(Contents(q, s), m)
    <2>1. Contents(q, s) \in Seq(M) /\ Len(Contents(q, s)) = n
      BY ContentsType DEF n
    <2>2. /\ Append(Contents(q, s), m) \in Seq(M) /\ Len(Append(Contents(q, s), m)) = n + 1
          /\ DOMAIN Append(Contents(q, s), m) = 1..(n + 1)
          /\ \A i \in 1..n : Append(Contents(q, s), m)[i] = Contents(q, s)[i]
          /\ Append(Contents(q, s), m)[n + 1] = m
      BY <2>1, AppendFacts
    <2>3. /\ Contents(r, t) \in Seq(M) /\ Len(Contents(r, t)) = n + 1
          /\ \A i \in 1..(n + 1) : Contents(r, t)[i] = r.nodes[t[i]].msg
      BY <1>1, <1>12, <1>13, ContentsType
    <2>4. ASSUME NEW i \in 1..(n + 1) PROVE r.nodes[t[i]].msg = Append(Contents(q, s), m)[i]
      <3>1. CASE i = n + 1
        BY <1>1, <1>6, <2>2, <3>1
      <3>2. CASE i \in 1..n
        <4>1. t[i] = s[i] /\ s[i] \in DOMAIN q.nodes
          BY <1>1, <1>3, <3>2
        <4>2. Contents(q, s)[i] = q.nodes[s[i]].msg
          BY <3>2, ContentsType DEF n
        <4> QED
          BY <1>11, <2>2, <3>2, <4>1, <4>2
      <3> QED
        BY <1>2, <3>1, <3>2
    <2> QED
      BY <2>2, <2>3, <2>4, SeqEqual
  <1> QED
    BY <1>12, <1>13, <1>14 DEF r, t

\* xqc_cli_msg_queue_get takes the first node: the list stays a list, and the other
\* messages and their order stay.
THEOREM GetTakesTheFirst ==
  ASSUME NEW q, NEW s \in Seq(Addresses), IsList(q, s), NEW M, NodesOf(q, M), s # <<>>
  PROVE  /\ NodesOf(queue_get(q), M)
         /\ IsList(queue_get(q), Tail(s))
         /\ first_message(q) = Contents(q, s)[1]
         /\ Contents(queue_get(q), Tail(s)) = Tail(Contents(q, s))
  <1> DEFINE n == Len(s)
             t == Tail(s)
             r == queue_get(q)
  <1>1. /\ n \in Nat /\ n > 0 /\ DOMAIN s = 1..n /\ DOMAIN t = 1..(n - 1) /\ Len(t) = n - 1
        /\ \A i \in 1..(n - 1) : t[i] = s[i + 1]
        /\ t \in Seq(Addresses)
    BY TailFacts
  <1>2. \A i \in 1..n : s[i] \in Addresses /\ s[i] # NULL
    BY <1>1, MsgQueueAssumption
  <1>3. /\ DOMAIN q.nodes = {s[i] : i \in 1..n}
        /\ \A i, j \in 1..n : s[i] = s[j] => i = j
        /\ \A i \in 1..n : q.nodes[s[i]].next = IF i = n THEN NULL ELSE s[i + 1]
        /\ q.first_msg = s[1] /\ q.last_msg = s[n] /\ q.nb_messages = n
    BY <1>1 DEF IsList
  <1>4. /\ DOMAIN r.nodes = DOMAIN q.nodes \ {s[1]}
        /\ \A b \in DOMAIN q.nodes \ {s[1]} : r.nodes[b] = q.nodes[b]
        /\ r.first_msg = q.nodes[s[1]].next
        /\ r.last_msg = IF q.nodes[s[1]].next = NULL THEN NULL ELSE s[n]
        /\ r.nb_messages = n - 1
    BY <1>3 DEF queue_get
  <1>5. t = <<>> <=> n = 1
    <2>1. t = <<>> => Len(t) = 0
      BY EmptySeq
    <2>2. t # <<>> => Len(t) \in Nat \ {0}
      BY <1>1, EmptySeq
    <2> HIDE DEF n, t
    <2> QED
      BY <1>1, <2>1, <2>2
  <1> HIDE DEF n, t, r
  <1>6. \A i \in 1..(n - 1) : i \in 1..n /\ i + 1 \in 1..n /\ i + 1 # 1
    BY <1>1
  <1>7. 1 \in 1..n /\ n \in 1..n
    BY <1>1
  <1>8. \A i \in 1..n : i = 1 \/ \E j \in 1..(n - 1) : i = j + 1
    <2>1. \A i \in 1..n : i # 1 => i - 1 \in 1..(n - 1) /\ i = (i - 1) + 1
      BY <1>1
    <2> QED
      BY <2>1
  <1>9. DOMAIN r.nodes = {t[i] : i \in 1..(n - 1)}
    <2>1. \A i \in 1..(n - 1) : t[i] \in DOMAIN r.nodes
      BY <1>1, <1>3, <1>4, <1>6, <1>7
    <2>2. ASSUME NEW b \in DOMAIN r.nodes PROVE \E i \in 1..(n - 1) : b = t[i]
      <3>1. PICK i \in 1..n : b = s[i] /\ i # 1
        BY <1>3, <1>4
      <3> QED
        BY <1>1, <1>8, <3>1
    <2> QED
      BY <2>1, <2>2
  <1>10. \A i, j \in 1..(n - 1) : t[i] = t[j] => i = j
    <2>1. ASSUME NEW i \in 1..(n - 1), NEW j \in 1..(n - 1), t[i] = t[j] PROVE i = j
      <3>1. i + 1 = j + 1
        BY <1>1, <1>3, <1>6, <2>1
      <3> QED
        BY <1>1, <3>1
    <2> QED
      BY <2>1
  <1>11. ASSUME NEW i \in 1..(n - 1)
         PROVE  r.nodes[t[i]].next = IF i = n - 1 THEN NULL ELSE t[i + 1]
    <2>1. r.nodes[t[i]] = q.nodes[s[i + 1]]
      BY <1>1, <1>3, <1>4, <1>6, <1>7
    <2>2. q.nodes[s[i + 1]].next = IF i + 1 = n THEN NULL ELSE s[i + 1 + 1]
      BY <1>3, <1>6
    <2>3. i + 1 = n <=> i = n - 1
      BY <1>1
    <2>4. i # n - 1 => i + 1 \in 1..(n - 1)
      BY <1>1
    <2> QED
      BY <1>1, <2>1, <2>2, <2>3, <2>4
  <1>12. IsList(r, t)
    <2>1. CASE n = 1
      <3>1. t = <<>> /\ q.nodes[s[1]].next = NULL
        BY <1>3, <1>5, <1>7, <2>1
      <3> QED
        BY <1>1, <1>4, <1>9, <1>10, <1>11, <3>1 DEF IsList
    <2>2. CASE n # 1
      <3>1. t # <<>> /\ q.nodes[s[1]].next = s[2] /\ s[2] # NULL /\ 1 \in 1..(n - 1)
            /\ n - 1 \in 1..(n - 1) /\ s[2] = t[1] /\ s[n] = t[n - 1]
        <4>1. 1 + 1 = 2 /\ 1 \in 1..(n - 1) /\ n - 1 \in 1..(n - 1) /\ (n - 1) + 1 = n
          BY <1>1, <2>2
        <4>2. q.nodes[s[1]].next = s[2]
          BY <1>3, <1>7, <2>2, <4>1
        <4> QED
          BY <1>1, <1>2, <1>5, <1>6, <2>2, <4>1, <4>2
      <3>2. r.first_msg = t[1] /\ r.last_msg = t[Len(t)] /\ r.nb_messages = Len(t)
        BY <1>1, <1>4, <3>1
      <3>3. \A i \in DOMAIN t : r.nodes[t[i]].next = IF i = Len(t) THEN NULL ELSE t[i + 1]
        BY <1>1, <1>11
      <3> QED
        BY <1>1, <1>9, <1>10, <3>1, <3>2, <3>3 DEF IsList
    <2> QED
      BY <2>1, <2>2
  <1>13. NodesOf(r, M)
    BY <1>4 DEF NodesOf
  <1>14. /\ Contents(q, s) \in Seq(M) /\ Len(Contents(q, s)) = n /\ Contents(q, s) # <<>>
         /\ \A i \in 1..n : Contents(q, s)[i] = q.nodes[s[i]].msg
    <2>1. /\ Contents(q, s) \in Seq(M) /\ Len(Contents(q, s)) = n
          /\ \A i \in 1..n : Contents(q, s)[i] = q.nodes[s[i]].msg
      BY ContentsType DEF n
    <2> QED
      BY <1>1, <2>1, EmptySeq
  <1>15. first_message(q) = Contents(q, s)[1]
    BY <1>3, <1>7, <1>14 DEF first_message
  <1>16. Contents(r, t) = Tail(Contents(q, s))
    <2>1. /\ Tail(Contents(q, s)) \in Seq(M) /\ Len(Tail(Contents(q, s))) = n - 1
          /\ DOMAIN Tail(Contents(q, s)) = 1..(n - 1)
          /\ \A i \in 1..(n - 1) : Tail(Contents(q, s))[i] = Contents(q, s)[i + 1]
      BY <1>14, TailFacts
    <2>2. /\ Contents(r, t) \in Seq(M) /\ Len(Contents(r, t)) = n - 1
          /\ \A i \in 1..(n - 1) : Contents(r, t)[i] = r.nodes[t[i]].msg
      <3>1. t \in Seq(Addresses) /\ IsList(r, t) /\ NodesOf(r, M)
        BY <1>1, <1>12, <1>13
      <3>2. /\ Contents(r, t) \in Seq(M) /\ Len(Contents(r, t)) = Len(t)
            /\ \A i \in 1..Len(t) : Contents(r, t)[i] = r.nodes[t[i]].msg
        BY <3>1, ContentsType
      <3> QED
        BY <1>1, <3>2
    <2>3. ASSUME NEW i \in 1..(n - 1) PROVE r.nodes[t[i]].msg = Tail(Contents(q, s))[i]
      <3>1. r.nodes[t[i]] = q.nodes[s[i + 1]]
        BY <1>1, <1>3, <1>4, <1>6, <1>7
      <3> QED
        BY <1>6, <1>14, <2>1, <3>1
    <2>4. /\ Len(Contents(r, t)) = Len(Tail(Contents(q, s)))
          /\ \A i \in 1..Len(Contents(r, t)) : Contents(r, t)[i] = Tail(Contents(q, s))[i]
      BY <2>1, <2>2, <2>3
    <2> QED
      BY <2>1, <2>2, <2>4, SeqEqual
  <1> QED
    BY <1>12, <1>13, <1>15, <1>16 DEF r, t

-----------------------------------------------------------------------------
(* The list of a context.                                                    *)

\* Going from node to node one meets the list.
LEMMA WalkIsTheList ==
  ASSUME NEW q, NEW s \in Seq(Addresses), IsList(q, s)
  PROVE  Walk(q) = s
  <1> DEFINE n == Len(s)
             After(f, k) == IF k = 1 THEN q.first_msg
                            ELSE IF f[k - 1] \in DOMAIN q.nodes THEN q.nodes[f[k - 1]].next
                            ELSE NULL
             Steps(f) == f = [k \in 1..n |-> After(f, k)]
             w == CHOOSE f : Steps(f)
  <1>1. /\ n \in Nat /\ s = [k \in 1..n |-> s[k]] /\ q.nb_messages = n
        /\ DOMAIN q.nodes = {s[i] : i \in 1..n} /\ (n > 0 => q.first_msg = s[1])
        /\ \A i \in 1..n : q.nodes[s[i]].next = IF i = n THEN NULL ELSE s[i + 1]
    BY DEF IsList
  <1>2. ASSUME NEW k \in 1..n PROVE After(s, k) = s[k]
    <2>1. k # 1 => k - 1 \in 1..n /\ k - 1 # n /\ k - 1 + 1 = k
      BY <1>1
    <2> QED
      BY <1>1, <2>1
  <1>3. Steps(s)
    <2>1. \A k \in 1..n : After(s, k) = s[k]
      BY <1>2
    <2> HIDE DEF After
    <2> QED
      BY <1>1, <2>1
  <1>4. Steps(w)
    <2> HIDE DEF Steps
    <2> QED
      BY <1>3, Zenon
  <1>5. w = [k \in 1..n |-> After(w, k)]
    BY <1>4
  <1> HIDE DEF w
  <1>6. ASSUME NEW k \in Nat, k + 1 \in 1..n, k = 0 \/ w[k] = s[k]
        PROVE  w[k + 1] = s[k + 1]
    <2>1. w[k + 1] = After(w, k + 1)
      BY <1>5, <1>6
    <2>2. k # 0 => k + 1 - 1 = k /\ k \in 1..n /\ s[k] \in DOMAIN q.nodes
      BY <1>1, <1>6
    <2> QED
      BY <1>1, <1>6, <2>1, <2>2
  <1>7. \A k \in Nat : k \in {m \in Nat : m \in 1..n => w[m] = s[m]}
    <2> DEFINE T == {m \in Nat : m \in 1..n => w[m] = s[m]}
    <2>1. 0 \in T
      OBVIOUS
    <2>2. ASSUME NEW k \in Nat, k \in T PROVE k + 1 \in T
      BY <1>1, <1>6, <2>2
    <2> HIDE DEF T
    <2>3. \A k \in Nat : k \in T
      BY <2>1, <2>2, SetInduction
    <2> QED
      BY <2>3 DEF T
  <1>8. w = s
    <2>1. w = [k \in 1..n |-> w[k]]
      BY <1>5
    <2>2. \A k \in 1..n : w[k] = s[k]
      BY <1>1, <1>7
    <2> QED
      BY <1>1, <2>1, <2>2
  <1>9. Walk(q) = [k \in 1..n |-> w[k]]
    BY <1>1 DEF Walk, w
  <1> QED
    BY <1>1, <1>8, <1>9

-----------------------------------------------------------------------------
(* The units of bodies of what was sent.                                     *)

SentUnit == [what : {"body", "headers", "freed"}, of : Nat, unit : Nat]

\* The recursive function of Bodies: what it has after unit i, and up to unit n.
AfterUnit(s, f, i) ==
  IF i = 0 THEN <<>>
  ELSE IF s[i].what = "body" THEN Append(f[i - 1], s[i]) ELSE f[i - 1]
UpTo(s, f, n) == f = [i \in 0..n |-> AfterUnit(s, f, i)]

\* The function exists: it is extended unit by unit.
LEMMA UpToExists ==
  ASSUME NEW s
  PROVE  \A n \in Nat : \E f : UpTo(s, f, n)
  <1> DEFINE T == {n \in Nat : \E f : UpTo(s, f, n)}
  <1>1. 0 \in T
    <2> DEFINE f == [i \in 0..0 |-> <<>>]
    <2>1. UpTo(s, f, 0)
      BY DEF UpTo, AfterUnit
    <2> QED
      BY <2>1
  <1>2. ASSUME NEW n \in Nat, n \in T PROVE n + 1 \in T
    <2>1. PICK f : UpTo(s, f, n)
      BY <1>2
    <2> DEFINE g == [i \in 0..(n + 1) |-> IF i <= n THEN f[i] ELSE AfterUnit(s, f, n + 1)]
    <2>2. DOMAIN f = 0..n /\ \A i \in 0..n : f[i] = AfterUnit(s, f, i) /\ g[i] = f[i]
      BY <2>1 DEF UpTo
    <2>3. ASSUME NEW i \in 0..(n + 1) PROVE g[i] = AfterUnit(s, g, i)
      <3>1. i # 0 => i - 1 \in 0..n /\ g[i - 1] = f[i - 1]
        BY <2>2
      <3>2. AfterUnit(s, g, i) = AfterUnit(s, f, i)
        BY <3>1 DEF AfterUnit
      <3>3. i \in 0..n \/ i = n + 1
        OBVIOUS
      <3> QED
        BY <2>2, <3>2, <3>3
    <2>4. UpTo(s, g, n + 1)
      <3>1. g = [i \in 0..(n + 1) |-> g[i]]
        OBVIOUS
      <3> HIDE DEF g
      <3> QED
        BY <2>3, <3>1 DEF UpTo
    <2> QED
      BY <2>4
  <1> HIDE DEF T
  <1>3. \A n \in Nat : n \in T
    BY <1>1, <1>2, SetInduction
  <1> QED
    BY <1>3 DEF T

\* What the function has after a unit depends on the units up to it only.
LEMMA UpToUnique ==
  ASSUME NEW s, NEW f, NEW n \in Nat, UpTo(s, f, n),
         NEW t, NEW g, NEW m \in Nat, UpTo(t, g, m),
         NEW k \in Nat, k <= n, k <= m, \A i \in 1..k : s[i] = t[i]
  PROVE  f[k] = g[k]
  <1> DEFINE T == {i \in Nat : i <= k => f[i] = g[i]}
  <1>1. 0 \in T
    BY DEF UpTo, AfterUnit
  <1>2. ASSUME NEW i \in Nat, i \in T PROVE i + 1 \in T
    <2> SUFFICES ASSUME i + 1 <= k PROVE f[i + 1] = g[i + 1]
      OBVIOUS
    <2>1. f[i] = g[i] /\ i + 1 - 1 = i /\ i + 1 # 0 /\ s[i + 1] = t[i + 1]
      BY <1>2
    <2>2. f[i + 1] = AfterUnit(s, f, i + 1) /\ g[i + 1] = AfterUnit(t, g, i + 1)
      <3>1. i + 1 \in 0..n /\ i + 1 \in 0..m
        OBVIOUS
      <3>2. f = [j \in 0..n |-> AfterUnit(s, f, j)] /\ g = [j \in 0..m |-> AfterUnit(t, g, j)]
        BY DEF UpTo
      <3> QED
        BY <3>1, <3>2
    <2> QED
      BY <2>1, <2>2 DEF AfterUnit
  <1> HIDE DEF T
  <1>3. \A i \in Nat : i \in T
    BY <1>1, <1>2, SetInduction
  <1> QED
    BY <1>3 DEF T

\* The function has sequences of units.
LEMMA UpToType ==
  ASSUME NEW s \in Seq(SentUnit), NEW f, UpTo(s, f, Len(s))
  PROVE  \A i \in 0..Len(s) : f[i] \in Seq(SentUnit)
  <1> DEFINE T == {i \in Nat : i <= Len(s) => f[i] \in Seq(SentUnit)}
  <1>1. 0 \in T
    BY DEF UpTo, AfterUnit
  <1>2. ASSUME NEW i \in Nat, i \in T PROVE i + 1 \in T
    <2> SUFFICES ASSUME i + 1 <= Len(s) PROVE f[i + 1] \in Seq(SentUnit)
      OBVIOUS
    <2>1. f[i] \in Seq(SentUnit) /\ i + 1 - 1 = i /\ i + 1 # 0 /\ s[i + 1] \in SentUnit
      BY <1>2
    <2>2. f[i + 1] = AfterUnit(s, f, i + 1)
      BY DEF UpTo
    <2> QED
      BY <2>1, <2>2 DEF AfterUnit
  <1> HIDE DEF T
  <1>3. \A i \in Nat : i \in T
    BY <1>1, <1>2, SetInduction
  <1> QED
    BY <1>3 DEF T

\* Bodies is what the function has in the end.
LEMMA BodiesIsUpTo ==
  ASSUME NEW s
  PROVE  Len(s) \in Nat => \E f : UpTo(s, f, Len(s)) /\ Bodies(s) = f[Len(s)]
  <1> SUFFICES ASSUME Len(s) \in Nat PROVE \E f : UpTo(s, f, Len(s)) /\ Bodies(s) = f[Len(s)]
    OBVIOUS
  <1> DEFINE f == CHOOSE g : UpTo(s, g, Len(s))
  <1>1. UpTo(s, f, Len(s))
    BY UpToExists, Zenon
  <1>2. Bodies(s) = f[Len(s)]
    BY DEF Bodies, UpTo, AfterUnit
  <1> QED
    BY <1>1, <1>2

\* Where nothing was sent, there are no bodies.
LEMMA BodiesOfNothing == Bodies(<<>>) = <<>>
  <1>1. PICK f : UpTo(<<>>, f, Len(<<>>)) /\ Bodies(<<>>) = f[Len(<<>>)]
    BY BodiesIsUpTo
  <1> QED
    BY <1>1 DEF UpTo, AfterUnit

\* One more unit sent is one more of the bodies, if it is one.
LEMMA BodiesOfAppend ==
  ASSUME NEW s \in Seq(SentUnit), NEW x \in SentUnit
  PROVE  /\ Bodies(s) \in Seq(SentUnit)
         /\ Bodies(Append(s, x)) =
              IF x.what = "body" THEN Append(Bodies(s), x) ELSE Bodies(s)
  <1> DEFINE t == Append(s, x)
             n == Len(s)
  <1>1. /\ n \in Nat /\ Len(t) = n + 1 /\ t[n + 1] = x /\ \A i \in 1..n : s[i] = t[i]
    BY AppendFacts
  <1> HIDE DEF t
  <1>2. PICK f : UpTo(s, f, n) /\ Bodies(s) = f[n]
    BY <1>1, BodiesIsUpTo
  <1>3. PICK g : UpTo(t, g, n + 1) /\ Bodies(t) = g[n + 1]
    BY <1>1, BodiesIsUpTo
  <1>4. f[n] = g[n]
    BY <1>1, <1>2, <1>3, UpToUnique
  <1>5. g[n + 1] = AfterUnit(t, g, n + 1)
    BY <1>1, <1>3 DEF UpTo
  <1>6. AfterUnit(t, g, n + 1) = IF x.what = "body" THEN Append(g[n], x) ELSE g[n]
    BY <1>1, n + 1 - 1 = n, n + 1 # 0 DEF AfterUnit
  <1>7. f[n] \in Seq(SentUnit)
    BY <1>1, <1>2, UpToType
  <1> QED
    BY <1>2, <1>3, <1>4, <1>5, <1>6, <1>7 DEF t

\* Concatenation and appending one element can change places.
LEMMA ConcatAppend ==
  ASSUME NEW S, NEW s \in Seq(S), NEW t \in Seq(S), NEW x \in S
  PROVE  s \o Append(t, x) = Append(s \o t, x)
  OBVIOUS

\* Some units of a body more: the bodies before stay, and these follow.
LEMMA BodiesOfUnits ==
  ASSUME NEW s \in Seq(SentUnit), NEW m \in Nat, NEW from \in Nat, NEW n \in Nat
  PROVE  LET t == s \o Units(m, from, n) IN
         /\ t \in Seq(SentUnit)
         /\ Bodies(t) \in Seq(SentUnit) /\ Len(Bodies(t)) = Len(Bodies(s)) + n
         /\ \A i \in 1..Len(Bodies(s)) : Bodies(t)[i] = Bodies(s)[i]
         /\ \A i \in 1..n : Bodies(t)[Len(Bodies(s)) + i] =
                              [what |-> "body", of |-> m, unit |-> from + i]
  <1> DEFINE B == Bodies(s)
             Sent(k) == s \o Units(m, from, k)
             Unit(i) == [what |-> "body", of |-> m, unit |-> from + i]
             P(k) == /\ Sent(k) \in Seq(SentUnit)
                     /\ Bodies(Sent(k)) \in Seq(SentUnit)
                     /\ Len(Bodies(Sent(k))) = Len(B) + k
                     /\ \A i \in 1..Len(B) : Bodies(Sent(k))[i] = B[i]
                     /\ \A i \in 1..k : Bodies(Sent(k))[Len(B) + i] = Unit(i)
             T == {k \in Nat : P(k)}
  <1>1. B \in Seq(SentUnit) /\ Len(B) \in Nat
    <2>1. [what |-> "body", of |-> 0, unit |-> 0] \in SentUnit
      BY DEF SentUnit
    <2> QED
      BY <2>1, BodiesOfAppend
  <1>2. Sent(0) = s
    <2>1. Units(m, from, 0) = <<>>
      BY DEF Units
    <2> QED
      BY <2>1
  <1>3. 0 \in T
    <2> HIDE DEF Sent, Unit
    <2>1. P(0)
      BY <1>1, <1>2
    <2> HIDE DEF P
    <2> QED
      BY <2>1
  <1>4. ASSUME NEW k \in Nat, k \in T PROVE k + 1 \in T
    <2>1. Unit(k + 1) \in SentUnit
      BY DEF SentUnit
    <2>2. Sent(k + 1) = Append(Sent(k), Unit(k + 1))
      <3>1. Units(m, from, k + 1) = Append(Units(m, from, k), Unit(k + 1))
        BY DEF Units
      <3>2. Units(m, from, k) \in Seq(SentUnit)
        BY DEF Units, SentUnit
      <3> DEFINE x == Unit(k + 1)
                 t == Units(m, from, k)
      <3>3. x \in SentUnit /\ t \in Seq(SentUnit) /\ Units(m, from, k + 1) = Append(t, x)
        BY <2>1, <3>1, <3>2
      <3> HIDE DEF x, t
      <3>4. s \o Units(m, from, k + 1) = Append(s \o t, x)
        BY <3>3, ConcatAppend
      <3> QED
        BY <3>4 DEF x, t
    <2>3. P(k)
      BY <1>4
    <2>4. Unit(k + 1).what = "body"
      OBVIOUS
    <2> HIDE DEF B, Sent, Unit
    <2> DEFINE C == Bodies(Sent(k))
               D == Bodies(Sent(k + 1))
    <2>5. D = Append(C, Unit(k + 1)) /\ Sent(k + 1) \in Seq(SentUnit) /\ C \in Seq(SentUnit)
      <3>1. Sent(k) \in Seq(SentUnit)
        BY <2>3
      <3> DEFINE z == Sent(k)
                 x == Unit(k + 1)
      <3>2. z \in Seq(SentUnit) /\ x \in SentUnit /\ x.what = "body"
            /\ Sent(k + 1) = Append(z, x)
        BY <2>1, <2>2, <2>4, <3>1
      <3> HIDE DEF z, x
      <3>3. Bodies(z) \in Seq(SentUnit) /\ Bodies(Append(z, x)) = Append(Bodies(z), x)
        BY <3>2, BodiesOfAppend
      <3>4. Append(z, x) \in Seq(SentUnit)
        BY <3>2
      <3> QED
        BY <3>2, <3>3, <3>4 DEF z, x
    <2>6. Len(C) = Len(B) + k /\ (\A i \in 1..Len(B) : C[i] = B[i])
          /\ \A i \in 1..k : C[Len(B) + i] = Unit(i)
      BY <2>3
    <2> HIDE DEF C, D, P
    <2>7. /\ D \in Seq(SentUnit) /\ Len(D) = Len(B) + (k + 1)
          /\ \A i \in 1..(Len(B) + k) : D[i] = C[i]
          /\ D[Len(B) + (k + 1)] = Unit(k + 1)
      BY <1>1, <2>1, <2>5, <2>6, AppendFacts
    <2>8. \A i \in 1..Len(B) : D[i] = B[i]
      BY <1>1, <2>6, <2>7
    <2>9. ASSUME NEW i \in 1..(k + 1) PROVE D[Len(B) + i] = Unit(i)
      <3>1. CASE i = k + 1
        BY <2>7, <3>1
      <3>2. CASE i # k + 1
        <4>1. i \in 1..k /\ Len(B) + i \in 1..(Len(B) + k)
          BY <1>1, <3>2
        <4> QED
          BY <2>6, <2>7, <4>1
      <3> QED
        BY <3>1, <3>2
    <2>10. P(k + 1)
      BY <2>5, <2>7, <2>8, <2>9 DEF P, D
    <2> QED
      BY <2>10
  <1> HIDE DEF T
  <1>5. n \in T
    BY <1>3, <1>4, SetInduction
  <1> QED
    BY <1>5 DEF T

-----------------------------------------------------------------------------
(* What the read loop keeps.                                                 *)

\* What is told and then what is kept count the units up to n.
Counts(told, buf, n) ==
  /\ told \in Seq(Nat) /\ buf \in Seq(Nat) /\ Len(told) + Len(buf) = n
  /\ \A i \in 1..Len(told) : told[i] = i
  /\ \A i \in 1..Len(buf) : buf[i] = Len(told) + i

\* The recursive function of Kept: what it has after the unit n, and up to b.
AfterRead(f, buf, a, n) ==
  IF n = a THEN [told |-> <<>>, buf |-> buf]
  ELSE IF Len(f[n - 1].buf) + 1 < MaxRecv
       THEN [told |-> f[n - 1].told, buf |-> Append(f[n - 1].buf, n)]
       ELSE [told |-> f[n - 1].told \o f[n - 1].buf, buf |-> <<n>>]
KeptTo(f, buf, a, b) == f = [n \in a..b |-> AfterRead(f, buf, a, n)]

\* The function exists: it is extended unit by unit.
LEMMA KeptToExists ==
  ASSUME NEW buf, NEW a \in Nat
  PROVE  \A n \in Nat : \E f : KeptTo(f, buf, a, a + n)
  <1> DEFINE T == {n \in Nat : \E f : KeptTo(f, buf, a, a + n)}
  <1>1. 0 \in T
    <2> DEFINE f == [i \in a..(a + 0) |-> [told |-> <<>>, buf |-> buf]]
    <2>1. f = [i \in a..(a + 0) |-> f[i]] /\ \A i \in a..(a + 0) : f[i] = AfterRead(f, buf, a, i)
      BY DEF AfterRead
    <2> HIDE DEF f
    <2>2. KeptTo(f, buf, a, a + 0)
      BY <2>1 DEF KeptTo
    <2> QED
      BY <2>2
  <1>2. ASSUME NEW n \in Nat, n \in T PROVE n + 1 \in T
    <2>1. PICK f : KeptTo(f, buf, a, a + n)
      BY <1>2
    <2> DEFINE g == [i \in a..(a + (n + 1)) |->
                       IF i <= a + n THEN f[i] ELSE AfterRead(f, buf, a, a + (n + 1))]
    <2>2. DOMAIN f = a..(a + n) /\ \A i \in a..(a + n) : f[i] = AfterRead(f, buf, a, i)
                                                        /\ g[i] = f[i]
      BY <2>1 DEF KeptTo
    <2>3. ASSUME NEW i \in a..(a + (n + 1)) PROVE g[i] = AfterRead(g, buf, a, i)
      <3>1. i # a => i - 1 \in a..(a + n) /\ g[i - 1] = f[i - 1]
        BY <2>2
      <3>2. AfterRead(g, buf, a, i) = AfterRead(f, buf, a, i)
        BY <3>1 DEF AfterRead
      <3>3. i \in a..(a + n) \/ i = a + (n + 1)
        OBVIOUS
      <3> QED
        BY <2>2, <3>2, <3>3
    <2>4. KeptTo(g, buf, a, a + (n + 1))
      <3>1. g = [i \in a..(a + (n + 1)) |-> g[i]]
        OBVIOUS
      <3> HIDE DEF g
      <3> QED
        BY <2>3, <3>1 DEF KeptTo
    <2> QED
      BY <2>4
  <1> HIDE DEF T
  <1>3. \A n \in Nat : n \in T
    BY <1>1, <1>2, SetInduction
  <1> QED
    BY <1>3 DEF T

\* One unit more: what is told and kept goes on counting.
LEMMA CountsGoOn ==
  ASSUME NEW told \in Seq(Nat), NEW more \in Seq(Nat), NEW buf \in Seq(Nat), NEW n \in Nat,
         Counts(told \o more, buf, n)
  PROVE  /\ Counts(told \o more, Append(buf, n + 1), n + 1)
         /\ Counts(told \o (more \o buf), <<n + 1>>, n + 1)
  <1> DEFINE s == told \o more
             t == told \o (more \o buf)
  <1>1. /\ s \in Seq(Nat) /\ t = s \o buf
        /\ Len(s) \in Nat /\ Len(buf) \in Nat /\ Len(s) + Len(buf) = n
        /\ \A i \in 1..Len(s) : s[i] = i
        /\ \A i \in 1..Len(buf) : buf[i] = Len(s) + i
    BY DEF Counts
  <1> HIDE DEF s, t
  <1>2. Counts(s, Append(buf, n + 1), n + 1)
    <2> DEFINE x == Append(buf, n + 1)
    <2>1. /\ x \in Seq(Nat) /\ Len(x) = Len(buf) + 1
          /\ \A i \in 1..Len(buf) : x[i] = buf[i]
          /\ x[Len(buf) + 1] = n + 1
      BY <1>1, AppendFacts
    <2> HIDE DEF x
    <2>3. Len(s) + Len(x) = n + 1
      BY <1>1, <2>1
    <2>4. ASSUME NEW i \in 1..Len(x) PROVE x[i] = Len(s) + i
      <3>1. i \in 1..Len(buf) \/ i = Len(buf) + 1
        BY <1>1, <2>1
      <3>2. CASE i \in 1..Len(buf)
        BY <1>1, <2>1, <3>2
      <3>3. CASE i = Len(buf) + 1
        <4>1. x[i] = n + 1
          BY <2>1, <3>3
        <4>2. Len(s) + i = n + 1
          <5>1. Len(s) \in Nat /\ Len(buf) \in Nat /\ Len(s) + Len(buf) = n
            BY <1>1
          <5> DEFINE l == Len(s)
                     b == Len(buf)
          <5> HIDE DEF l, b
          <5>2. l \in Nat /\ b \in Nat /\ l + b = n /\ i = b + 1
            BY <3>3, <5>1 DEF l, b
          <5>3. l + i = n + 1
            BY <5>2
          <5> QED
            BY <5>3 DEF l
        <4> QED
          BY <4>1, <4>2
      <3> QED
        BY <3>1, <3>2, <3>3
    <2>5. Counts(s, x, n + 1)
      BY <1>1, <2>1, <2>3, <2>4 DEF Counts
    <2> QED
      BY <2>5 DEF x
  <1>3. Counts(t, <<n + 1>>, n + 1)
    <2>1. t \in Seq(Nat) /\ Len(t) = n
      BY <1>1
    <2>2. ASSUME NEW i \in 1..Len(t) PROVE t[i] = i
      <3>1. CASE i \in 1..Len(s)
        BY <1>1, <3>1
      <3>2. CASE i \notin 1..Len(s)
        <4>1. i - Len(s) \in 1..Len(buf) /\ t[i] = buf[i - Len(s)]
          BY <1>1, <2>1, <3>2
        <4> QED
          BY <1>1, <4>1
      <3> QED
        BY <3>1, <3>2
    <2>3. /\ <<n + 1>> \in Seq(Nat) /\ Len(<<n + 1>>) = 1 /\ <<n + 1>>[1] = n + 1
          /\ \A i \in 1..1 : i = 1
      OBVIOUS
    <2> QED
      BY <2>1, <2>2, <2>3 DEF Counts
  <1> QED
    BY <1>2, <1>3 DEF s, t

\* What the loop tells and keeps after the units up to b.
LEMMA KeptCounts ==
  ASSUME NEW buf \in Seq(Nat), NEW a \in Nat, NEW b \in Nat, a <= b
  PROVE  LET k == Kept(buf, a, b) IN
         /\ k.told \in Seq(Nat) /\ k.buf \in Seq(Nat)
         /\ \A told \in Seq(Nat) : Counts(told, buf, a) => Counts(told \o k.told, k.buf, b)
  <1> DEFINE f == CHOOSE g : KeptTo(g, buf, a, b)
             P(r, n) == /\ r.told \in Seq(Nat) /\ r.buf \in Seq(Nat)
                        /\ \A told \in Seq(Nat) :
                             Counts(told, buf, a) => Counts(told \o r.told, r.buf, n)
             T == {n \in Nat : a + n <= b => P(f[a + n], a + n)}
  <1>1. KeptTo(f, buf, a, b)
    <2>1. b - a \in Nat /\ a + (b - a) = b
      OBVIOUS
    <2>2. \E g : KeptTo(g, buf, a, b)
      BY <2>1, KeptToExists
    <2> QED
      BY <2>2, Zenon
  <1>2. Kept(buf, a, b) = f[b]
    BY DEF Kept, KeptTo, AfterRead
  <1> HIDE DEF f
  <1>3. 0 \in T
    <2>1. f[a + 0] = [told |-> <<>>, buf |-> buf]
      BY <1>1 DEF KeptTo, AfterRead
    <2>2. \A told \in Seq(Nat) : told \o <<>> = told
      OBVIOUS
    <2>3. P(f[a + 0], a + 0)
      BY <2>1, <2>2
    <2> QED
      BY <2>3
  <1>4. ASSUME NEW n \in Nat, n \in T PROVE n + 1 \in T
    <2> SUFFICES ASSUME a + (n + 1) <= b PROVE P(f[a + (n + 1)], a + (n + 1))
      OBVIOUS
    <2> DEFINE r == f[a + n]
               q == f[a + (n + 1)]
    <2>1. P(r, a + n)
      BY <1>4
    <2>2. q = IF Len(r.buf) + 1 < MaxRecv
              THEN [told |-> r.told, buf |-> Append(r.buf, a + n + 1)]
              ELSE [told |-> r.told \o r.buf, buf |-> <<a + n + 1>>]
      <3> DEFINE z == a + (n + 1)
      <3>1. z \in a..b /\ z # a /\ z - 1 = a + n /\ a + n + 1 = z
        OBVIOUS
      <3> HIDE DEF z
      <3>2. f[z] = AfterRead(f, buf, a, z)
        BY <1>1, <3>1 DEF KeptTo
      <3>3. f[z] = q
        BY DEF z
      <3> QED
        BY <3>1, <3>2, <3>3 DEF AfterRead
    <2> HIDE DEF r, q
    <2>3. q.told \in Seq(Nat) /\ q.buf \in Seq(Nat)
      BY <2>1, <2>2
    <2>4. ASSUME NEW told \in Seq(Nat), Counts(told, buf, a)
          PROVE  Counts(told \o q.told, q.buf, a + (n + 1))
      <3>1. a + n \in Nat /\ a + (n + 1) = (a + n) + 1
        OBVIOUS
      <3>2. Counts(told \o r.told, r.buf, a + n)
        BY <2>1, <2>4
      <3>3. /\ Counts(told \o r.told, Append(r.buf, a + n + 1), a + n + 1)
            /\ Counts(told \o (r.told \o r.buf), <<a + n + 1>>, a + n + 1)
        <4> DEFINE x == r.told
                   y == r.buf
                   z == a + n
        <4>1. x \in Seq(Nat) /\ y \in Seq(Nat) /\ z \in Nat /\ Counts(told \o x, y, z)
          BY <2>1, <3>1, <3>2
        <4> HIDE DEF x, y, z
        <4>2. /\ Counts(told \o x, Append(y, z + 1), z + 1)
              /\ Counts(told \o (x \o y), <<z + 1>>, z + 1)
          BY <4>1, CountsGoOn
        <4> QED
          BY <4>2 DEF x, y, z
      <3> QED
        BY <2>2, <3>1, <3>3
    <2> QED
      BY <2>3, <2>4 DEF q
  <1> HIDE DEF T
  <1>5. \A n \in Nat : n \in T
    BY <1>3, <1>4, SetInduction
  <1>6. P(f[b], b)
    <2> DEFINE d == b - a
    <2>1. d \in Nat /\ a + d = b
      OBVIOUS
    <2> HIDE DEF d, P
    <2>2. d \in T /\ a + d <= b
      BY <1>5, <2>1
    <2>3. d \in T => (a + d <= b => P(f[a + d], a + d))
      BY Zenon DEF T
    <2> QED
      BY <2>1, <2>2, <2>3
  <1> QED
    BY <1>2, <1>6

-----------------------------------------------------------------------------
(* The list holds the last messages.                                         *)

\* q is the list of the last messages of n, in their order.
Numbered(q, n) ==
  \E s \in Seq(Addresses) :
    /\ IsList(q, s) /\ Len(s) <= n
    /\ \A i \in 1..Len(s) : q.nodes[s[i]].msg = n - Len(s) + i
Queued(q) == {q.nodes[a].msg : a \in DOMAIN q.nodes}

\* What the count and the end of such a list say.
LEMMA NumberedFacts ==
  ASSUME NEW q, NEW n \in Nat, Numbered(q, n)
  PROVE  /\ q.nb_messages \in 0..n
         /\ Queued(q) = (n - q.nb_messages + 1)..n
         /\ msg_empty(q) <=> q.nb_messages = 0
         /\ ~msg_empty(q) => first_message(q) = n - q.nb_messages + 1
  <1>1. PICK s \in Seq(Addresses) :
          /\ IsList(q, s) /\ Len(s) <= n
          /\ \A i \in 1..Len(s) : q.nodes[s[i]].msg = n - Len(s) + i
    BY DEF Numbered
  <1> DEFINE l == Len(s)
  <1>2. /\ l \in Nat /\ l <= n /\ q.nb_messages = l /\ DOMAIN s = 1..l
        /\ DOMAIN q.nodes = {s[i] : i \in 1..l}
        /\ \A i \in 1..l : q.nodes[s[i]].msg = n - l + i
        /\ s # <<>> => l # 0 /\ q.first_msg = s[1]
        /\ s = <<>> => l = 0
    BY <1>1 DEF IsList
  <1>3. msg_empty(q) <=> s = <<>>
    BY <1>1, EmptyIffNoNodes
  <1> HIDE DEF l
  <1>4. Queued(q) = (n - l + 1)..n
    <2>1. ASSUME NEW a \in DOMAIN q.nodes PROVE q.nodes[a].msg \in (n - l + 1)..n
      <3>1. PICK i \in 1..l : a = s[i]
        BY <1>2
      <3> QED
        BY <1>2, <3>1
    <2>2. ASSUME NEW m \in (n - l + 1)..n PROVE \E a \in DOMAIN q.nodes : q.nodes[a].msg = m
      <3> DEFINE i == m - (n - l)
      <3>1. i \in 1..l /\ n - l + i = m
        BY <1>2
      <3> HIDE DEF i
      <3>2. s[i] \in DOMAIN q.nodes /\ q.nodes[s[i]].msg = m
        BY <1>2, <3>1
      <3> QED
        BY <3>2
    <2> QED
      BY <2>1, <2>2 DEF Queued
  <1>5. s # <<>> => first_message(q) = n - l + 1
    BY <1>2 DEF first_message
  <1> QED
    BY <1>2, <1>3, <1>4, <1>5

\* The list of a new queue.
LEMMA EmptyNumbered ==
  ASSUME NEW n \in Nat
  PROVE  Numbered(EmptyQueue, n) /\ NodesOf(EmptyQueue, Nat) /\ Queued(EmptyQueue) = {}
  <1> DEFINE q == EmptyQueue
  <1>1. DOMAIN q.nodes = {} /\ q.first_msg = NULL /\ q.last_msg = NULL /\ q.nb_messages = 0
    BY DEF EmptyQueue
  <1> HIDE DEF q
  <1>2. IsList(q, <<>>) /\ <<>> \in Seq(Addresses) /\ Len(<<>>) = 0 /\ 0 <= n
    BY <1>1 DEF IsList
  <1>3. Numbered(q, n)
    <2>1. \A i \in 1..0 : q.nodes[<<>>[i]].msg = n - 0 + i
      OBVIOUS
    <2> QED
      BY <1>2, <2>1 DEF Numbered
  <1>4. NodesOf(q, Nat) /\ Queued(q) = {}
    BY <1>1 DEF NodesOf, Queued
  <1> QED
    BY <1>3, <1>4 DEF q

\* client_long_send puts the next message.
LEMMA PutNumbered ==
  ASSUME NEW q, NEW n \in Nat, Numbered(q, n), NodesOf(q, Nat),
         NEW a \in Addresses, a \notin DOMAIN q.nodes
  PROVE  /\ Numbered(queue_put(q, a, n + 1), n + 1)
         /\ NodesOf(queue_put(q, a, n + 1), Nat)
         /\ queue_put(q, a, n + 1).nb_messages = q.nb_messages + 1
  <1>1. PICK s \in Seq(Addresses) :
          /\ IsList(q, s) /\ Len(s) <= n
          /\ \A i \in 1..Len(s) : q.nodes[s[i]].msg = n - Len(s) + i
    BY DEF Numbered
  <1> DEFINE r == queue_put(q, a, n + 1)
             t == Append(s, a)
  <1>2. NodesOf(r, Nat) /\ IsList(r, t) /\ Contents(r, t) = Append(Contents(q, s), n + 1)
    BY <1>1, PutAppends
  <1>3. /\ Contents(q, s) \in Seq(Nat) /\ Len(Contents(q, s)) = Len(s)
        /\ \A i \in 1..Len(s) : Contents(q, s)[i] = q.nodes[s[i]].msg
    BY <1>1, ContentsType
  <1>4. r.nb_messages = q.nb_messages + 1
    BY DEF queue_put
  <1>5. t \in Seq(Addresses) /\ Len(t) = Len(s) + 1
    BY AppendFacts
  <1> HIDE DEF r, t
  <1>6. \A i \in 1..Len(t) : Contents(r, t)[i] = r.nodes[t[i]].msg
    BY <1>2, <1>5, ContentsType
  <1> DEFINE l == Len(s)
  <1>7. l \in Nat /\ l <= n
    BY <1>1
  <1>8. ASSUME NEW i \in 1..(l + 1) PROVE r.nodes[t[i]].msg = (n + 1) - (l + 1) + i
    <2>1. /\ \A j \in 1..l : Contents(r, t)[j] = Contents(q, s)[j]
          /\ Contents(r, t)[l + 1] = n + 1
      BY <1>2, <1>3, AppendFacts
    <2>2. r.nodes[t[i]].msg = Contents(r, t)[i]
      BY <1>5, <1>6
    <2>3. i \in 1..l => Contents(q, s)[i] = n - l + i
      BY <1>1, <1>3
    <2> HIDE DEF l
    <2> QED
      BY <1>7, <2>1, <2>2, <2>3
  <1>9. Len(t) <= n + 1 /\ \A i \in 1..Len(t) : r.nodes[t[i]].msg = (n + 1) - Len(t) + i
    BY <1>5, <1>7, <1>8
  <1>10. Numbered(r, n + 1)
    BY <1>2, <1>5, <1>9 DEF Numbered
  <1> QED
    BY <1>2, <1>4, <1>10 DEF r

\* client_long_send_requests takes the first.
LEMMA GetNumbered ==
  ASSUME NEW q, NEW n \in Nat, Numbered(q, n), NodesOf(q, Nat), ~msg_empty(q)
  PROVE  /\ Numbered(queue_get(q), n) /\ NodesOf(queue_get(q), Nat)
         /\ queue_get(q).nb_messages = q.nb_messages - 1
  <1>1. PICK s \in Seq(Addresses) :
          /\ IsList(q, s) /\ Len(s) <= n
          /\ \A i \in 1..Len(s) : q.nodes[s[i]].msg = n - Len(s) + i
    BY DEF Numbered
  <1> DEFINE r == queue_get(q)
             t == Tail(s)
             l == Len(s)
  <1>2. s # <<>>
    BY <1>1, EmptyIffNoNodes
  <1>3. IsList(r, t) /\ NodesOf(r, Nat) /\ Contents(r, t) = Tail(Contents(q, s))
    BY <1>1, <1>2, GetTakesTheFirst
  <1>4. t \in Seq(Addresses) /\ Len(t) = l - 1 /\ l \in Nat /\ l > 0 /\ l <= n
    BY <1>1, <1>2, TailFacts
  <1>5. /\ Contents(q, s) \in Seq(Nat) /\ Len(Contents(q, s)) = l
        /\ \A i \in 1..l : Contents(q, s)[i] = n - l + i
    BY <1>1, ContentsType
  <1>6. r.nb_messages = q.nb_messages - 1
    BY DEF queue_get
  <1> HIDE DEF r, t, l
  <1>7. \A i \in 1..(l - 1) : Contents(r, t)[i] = Contents(q, s)[i + 1]
    <2> DEFINE C == Contents(q, s)
    <2>1. C \in Seq(Nat) /\ C # <<>> /\ Len(C) = l
      BY <1>4, <1>5
    <2> HIDE DEF C
    <2>2. \A i \in 1..(l - 1) : Tail(C)[i] = C[i + 1]
      BY <2>1, TailFacts
    <2> QED
      BY <1>3, <2>2 DEF C
  <1>8. \A i \in 1..Len(t) : Contents(r, t)[i] = r.nodes[t[i]].msg
    BY <1>3, <1>4, ContentsType
  <1>9. ASSUME NEW i \in 1..Len(t) PROVE r.nodes[t[i]].msg = n - Len(t) + i
    <2>1. i + 1 \in 1..l /\ i \in 1..(l - 1)
      BY <1>4
    <2>2. Contents(q, s)[i + 1] = n - l + (i + 1)
      BY <1>5, <2>1
    <2>3. n - l + (i + 1) = n - Len(t) + i
      BY <1>4
    <2> QED
      BY <1>7, <1>8, <2>1, <2>2, <2>3
  <1>10. Numbered(r, n)
    <2>1. Len(t) <= n
      BY <1>4
    <2> QED
      BY <1>3, <1>4, <1>9, <2>1 DEF Numbered
  <1> QED
    BY <1>3, <1>6, <1>10 DEF r

\* The messages that are left are destroyed with the list.
LEMMA DestroyNumbered ==
  ASSUME NEW q, NEW n \in Nat, Numbered(q, n)
  PROVE  LET r == queue_destroy(q) IN
         Numbered(r, n) /\ NodesOf(r, Nat) /\ r.nb_messages = 0 /\ Queued(r) = {}
  <1>1. PICK s \in Seq(Addresses) : IsList(q, s)
    BY DEF Numbered
  <1>2. Walk(q) = s
    BY <1>1, WalkIsTheList
  <1> DEFINE r == queue_destroy(q)
  <1>3. DOMAIN r.nodes = {} /\ r.first_msg = NULL /\ r.last_msg = NULL /\ r.nb_messages = 0
    BY <1>1, <1>2 DEF queue_destroy, EmptyQueue, IsList
  <1> HIDE DEF r
  <1>4. IsList(r, <<>>) /\ <<>> \in Seq(Addresses) /\ Len(<<>>) = 0 /\ 0 <= n
    BY <1>3 DEF IsList
  <1>5. Numbered(r, n)
    <2>1. \A i \in 1..0 : r.nodes[<<>>[i]].msg = n - 0 + i
      OBVIOUS
    <2> QED
      BY <1>4, <2>1 DEF Numbered
  <1>6. NodesOf(r, Nat) /\ Queued(r) = {}
    BY <1>3 DEF NodesOf, Queued
  <1> QED
    BY <1>3, <1>5, <1>6 DEF r

-----------------------------------------------------------------------------
(* What the send functions return.                                           *)

UserRec == [body : Nat, len : Nat, offset : Nat, hdr_sent : BOOLEAN, request : Nat,
            recv : Seq(Nat)]
StreamRec == [user : Nat, open : BOOLEAN, sent : Seq(SentUnit), fin : BOOLEAN,
              blocked : BOOLEAN, begun : BOOLEAN,
              flags : SUBSET {"HEADER", "BODY", "EMPTY_FIN"}, arrived : Nat, read : Nat,
              finIn : BOOLEAN, failed : BOOLEAN, told : Seq(Nat), final : Nat]
HeadersRec == [of : Nat, live : BOOLEAN]
MsgRec == [what : {"JSON", "BYTE"}, len : Nat]

\* What a send function leaves alone.
SameUser(u, v) ==
  /\ v \in UserRec
  /\ v.body = u.body /\ v.len = u.len /\ v.request = u.request /\ v.recv = u.recv
SameStream(s, t) ==
  /\ t \in StreamRec
  /\ t.user = s.user /\ t.open = s.open /\ t.begun = s.begun /\ t.flags = s.flags
  /\ t.arrived = s.arrived /\ t.read = s.read /\ t.finIn = s.finIn /\ t.failed = s.failed
  /\ t.told = s.told /\ t.final = s.final

\* It sends n units of the body after what was sent, and the stream is ended
\* with the last unit of the body, or was to end without one.
Sends(u, pre, r, n) ==
  /\ r.s.sent = pre.sent \o Units(u.body, u.offset, n)
  /\ n = 0 \/ u.offset + n <= u.len
  /\ r.s.fin => pre.fin \/ (n > 0 /\ u.offset + n = u.len)

\* What was sent stays a sequence of units.
LEMMA UnitsType ==
  ASSUME NEW m \in Nat, NEW from \in Nat, NEW n \in Nat
  PROVE  Units(m, from, n) \in Seq(SentUnit)
  BY DEF Units, SentUnit

\* The stream object a body was offered with, and the stream.
LEMMA BodyResultsAre ==
  ASSUME NEW u \in UserRec, NEW s \in StreamRec, u.offset < u.len, NEW fin \in BOOLEAN,
         NEW r \in BodyResults(u, s, fin)
  PROVE  /\ SameUser(u, r.u) /\ SameStream(s, r.s) /\ r.ret \in Int
         /\ r = [u |-> r.u, s |-> r.s, ret |-> r.ret]
         /\ \E n \in Nat : /\ Sends(u, s, r, n) /\ r.u.offset = u.offset + n
                           /\ r.ret <= 0 => n = 0
  <1> DEFINE rest == u.len - u.offset
  <1>0. /\ u.body \in Nat /\ u.len \in Nat /\ u.offset \in Nat /\ rest \in Nat
        /\ s.sent \in Seq(SentUnit) /\ s.fin \in BOOLEAN
        /\ SameUser(u, u) /\ SameStream(s, s)
    BY DEF UserRec, StreamRec, SameUser, SameStream
  <1> DEFINE none == Units(u.body, u.offset, 0)
             w == s.sent
  <1>1. w \o none = w
    <2>1. none = <<>>
      BY DEF Units
    <2>2. w \in Seq(SentUnit)
      BY <1>0
    <2> HIDE DEF none, w
    <2> QED
      BY <2>1, <2>2
  <1> HIDE DEF none
  <1>6. u.offset + 0 = u.offset /\ u.offset + 0 <= u.len
    BY <1>0
  <1>2. CASE r = [u |-> u, s |-> [s EXCEPT !.blocked = TRUE], ret |-> 0]
    <2> DEFINE t == [s EXCEPT !.blocked = TRUE]
    <2>1. SameStream(s, t) /\ t.sent = s.sent /\ t.fin = s.fin
      BY DEF StreamRec, SameStream
    <2> HIDE DEF t
    <2>2. r.u = u /\ r.s = t /\ r.ret = 0
      BY <1>2 DEF t
    <2>3. Sends(u, s, r, 0) /\ r.u.offset = u.offset + 0
      <3>1. r.s.sent = w \o none /\ (r.s.fin => s.fin)
        BY <1>1, <2>1, <2>2
      <3> QED
        BY <1>6, <2>2, <3>1 DEF Sends, none
    <2>4. SameUser(u, r.u) /\ SameStream(s, r.s) /\ r.ret \in Int
          /\ r = [u |-> r.u, s |-> r.s, ret |-> r.ret]
      BY <1>0, <1>2, <2>1, <2>2 DEF t
    <2> QED
      BY <2>3, <2>4
  <1>3. CASE r = [u |-> u, s |-> s, ret |-> -1]
    <2>1. r.u = u /\ r.s = s /\ r.ret = -1
      BY <1>3
    <2>2. Sends(u, s, r, 0) /\ r.u.offset = u.offset + 0
      <3>1. r.s.sent = w \o none /\ (r.s.fin => s.fin)
        BY <1>1, <2>1
      <3> QED
        BY <1>6, <2>1, <3>1 DEF Sends, none
    <2>3. SameUser(u, r.u) /\ SameStream(s, r.s) /\ r.ret \in Int
          /\ r = [u |-> r.u, s |-> r.s, ret |-> r.ret]
      BY <1>0, <1>3, <2>1
    <2> QED
      BY <2>2, <2>3
  <1>4. ASSUME NEW n \in 1..rest,
               r = [u |-> [u EXCEPT !.offset = @ + n, !.hdr_sent = (n = rest)],
                    s |-> [s EXCEPT !.sent = @ \o Units(u.body, u.offset, n),
                                    !.fin = fin /\ n = rest,
                                    !.blocked = n < rest],
                    ret |-> n]
        PROVE  /\ SameUser(u, r.u) /\ SameStream(s, r.s) /\ r.ret \in Int
               /\ r = [u |-> r.u, s |-> r.s, ret |-> r.ret]
               /\ Sends(u, s, r, n) /\ r.u.offset = u.offset + n
               /\ r.ret > 0
    <2> DEFINE v == [u EXCEPT !.offset = @ + n, !.hdr_sent = (n = rest)]
               more == Units(u.body, u.offset, n)
               t == [s EXCEPT !.sent = @ \o more, !.fin = fin /\ n = rest, !.blocked = n < rest]
    <2>1. n \in Nat /\ n > 0 /\ u.offset + n <= u.len /\ (n = rest <=> u.offset + n = u.len)
      BY <1>0
    <2>2. more \in Seq(SentUnit)
      BY <1>0, <2>1, UnitsType
    <2> HIDE DEF more, rest
    <2>3. SameUser(u, v) /\ v.offset = u.offset + n
      <3>1. (n = rest) \in BOOLEAN /\ u.offset + n \in Nat
        BY <1>0, <2>1
      <3> QED
        BY <3>1 DEF UserRec, SameUser
    <2>4. SameStream(s, t) /\ t.sent = s.sent \o more /\ t.fin = (fin /\ n = rest)
      <3>1. s.sent \o more \in Seq(SentUnit) /\ (n < rest) \in BOOLEAN
            /\ (fin /\ n = rest) \in BOOLEAN
        BY <1>0, <2>2
      <3> QED
        BY <3>1 DEF StreamRec, SameStream
    <2> HIDE DEF v, t
    <2>5. r.u = v /\ r.s = t /\ r.ret = n /\ r = [u |-> v, s |-> t, ret |-> n]
      BY <1>4 DEF v, t, more
    <2>6. Sends(u, s, r, n)
      BY <2>1, <2>4, <2>5 DEF Sends, more
    <2> QED
      BY <2>1, <2>3, <2>4, <2>5, <2>6
  <1>5. \/ r = [u |-> u, s |-> [s EXCEPT !.blocked = TRUE], ret |-> 0]
        \/ r = [u |-> u, s |-> s, ret |-> -1]
        \/ \E n \in 1..rest :
             r = [u |-> [u EXCEPT !.offset = @ + n, !.hdr_sent = (n = rest)],
                  s |-> [s EXCEPT !.sent = @ \o Units(u.body, u.offset, n),
                                  !.fin = fin /\ n = rest,
                                  !.blocked = n < rest],
                  ret |-> n]
    BY DEF BodyResults
  <1>7. CASE \E n \in 1..rest :
             r = [u |-> [u EXCEPT !.offset = @ + n, !.hdr_sent = (n = rest)],
                  s |-> [s EXCEPT !.sent = @ \o Units(u.body, u.offset, n),
                                  !.fin = fin /\ n = rest,
                                  !.blocked = n < rest],
                  ret |-> n]
    <2>1. PICK n \in 1..rest :
             r = [u |-> [u EXCEPT !.offset = @ + n, !.hdr_sent = (n = rest)],
                  s |-> [s EXCEPT !.sent = @ \o Units(u.body, u.offset, n),
                                  !.fin = fin /\ n = rest,
                                  !.blocked = n < rest],
                  ret |-> n]
      BY <1>7
    <2>2. n \in Nat
      BY <1>0
    <2>3. /\ SameUser(u, r.u) /\ SameStream(s, r.s) /\ r.ret \in Int
          /\ r = [u |-> r.u, s |-> r.s, ret |-> r.ret]
          /\ Sends(u, s, r, n) /\ r.u.offset = u.offset + n
          /\ r.ret > 0
      BY <1>4, <2>1
    <2>4. ~(r.ret <= 0)
      BY <2>3
    <2> QED
      BY <2>2, <2>3, <2>4
  <1> QED
    BY <1>2, <1>3, <1>5, <1>7

\* A header section is sent first, or not.
Headed(u, s, hs, pre) ==
  /\ pre \in StreamRec
  /\ \/ pre.sent = s.sent /\ pre.fin = s.fin
     \/ /\ cfg.alpn = "H3"
        /\ pre.sent = Append(s.sent, Section(hs)) /\ pre.fin = (u.body = 0)

\* What client_send_h3_content and client_send_hq_content return.
LEMMA ContentIs ==
  ASSUME cfg \in Configs, NEW u \in UserRec, NEW s \in StreamRec, NEW hs \in HeadersRec,
         NEW r \in Content(u, s, hs)
  PROVE  /\ SameUser(u, r.u) /\ SameStream(s, r.s) /\ r.ret \in Int
         /\ \E n \in Nat : \E pre \in StreamRec :
              /\ Headed(u, s, hs, pre) /\ Sends(u, pre, r, n)
              /\ ~Reused => r.u.offset = u.offset + n
              /\ Reused /\ u.offset = 0 => r.u.offset = 0
  <1> DEFINE Goal(x) ==
               /\ SameUser(u, x.u) /\ SameStream(s, x.s) /\ x.ret \in Int
               /\ \E n \in Nat : \E pre \in StreamRec :
                    /\ Headed(u, s, hs, pre) /\ Sends(u, pre, x, n)
                    /\ ~Reused => x.u.offset = u.offset + n
                    /\ Reused /\ u.offset = 0 => x.u.offset = 0
             none == Units(u.body, u.offset, 0)
  <1>0. /\ u.body \in Nat /\ u.len \in Nat /\ u.offset \in Nat
        /\ s.sent \in Seq(SentUnit) /\ s.fin \in BOOLEAN
        /\ SameUser(u, u) /\ SameStream(s, s)
        /\ cfg.alpn \in {"H3", "HQ"} /\ cfg.finish \in BOOLEAN /\ (cfg.alpn = "H3" => cfg.finish)
    BY DEF UserRec, StreamRec, SameUser, SameStream, Configs
  <1>1. \A w \in Seq(SentUnit) : w \o none = w
    <2>1. none = <<>>
      BY DEF Units
    <2> HIDE DEF none
    <2> QED
      BY <2>1
  <1> HIDE DEF none
  \* Nothing more is sent after pre.
  <1>2. ASSUME NEW pre \in StreamRec, Headed(u, s, hs, pre), SameStream(s, pre), NEW x,
               SameUser(u, x.u), x.s = pre, x.ret \in Int, x.u.offset = u.offset
        PROVE  Goal(x)
    <2>1. pre.sent \o none = pre.sent
      BY <1>1 DEF StreamRec
    <2>2. Sends(u, pre, x, 0)
      BY <1>2, <2>1 DEF Sends, none
    <2>3. u.offset + 0 = u.offset
      BY <1>0
    <2> QED
      BY <1>2, <2>2, <2>3
  \* Some of the body is sent after pre.
  <1>3. ASSUME NEW pre \in StreamRec, Headed(u, s, hs, pre), SameStream(s, pre),
               NEW x \in BodyResults(u, pre, TRUE), u.offset < u.len, ~Reused
        PROVE  Goal(x)
    <2>1. /\ SameUser(u, x.u) /\ SameStream(pre, x.s) /\ x.ret \in Int
          /\ \E n \in Nat : Sends(u, pre, x, n) /\ x.u.offset = u.offset + n
      BY <1>3, BodyResultsAre
    <2>2. SameStream(s, x.s)
      BY <1>3, <2>1 DEF SameStream
    <2> QED
      BY <1>3, <2>1, <2>2
  <1>4. Headed(u, s, hs, s)
    BY DEF Headed
  <1>5. CASE cfg.alpn = "H3"
    <2>1. ~Reused /\ r \in h3_content(u, s, hs)
      BY <1>5 DEF Reused, Content
    <2>2. CASE u.hdr_sent
      <3>1. r.u = u /\ r.s = s /\ r.ret = 0
        BY <2>1, <2>2 DEF h3_content
      <3>2. Goal(r)
        BY <1>0, <1>2, <1>4, <3>1
      <3> QED
        BY <3>2
    <2>3. CASE ~u.hdr_sent
      <3>1. PICK h \in HeaderResults(u, s, hs) :
               r \in IF h.ok /\ u.body = 0
                     THEN {[u |-> [u EXCEPT !.hdr_sent = TRUE], s |-> h.s, ret |-> 1]}
                     ELSE IF u.offset < u.len THEN BodyResults(u, h.s, TRUE)
                     ELSE {[u |-> u, s |-> h.s, ret |-> IF h.ok THEN 1 ELSE -1]}
        BY <2>1, <2>3, Zenon DEF h3_content
      <3>2. h.s \in StreamRec /\ Headed(u, s, hs, h.s) /\ SameStream(s, h.s)
        <4> DEFINE x == Section(hs)
                   t == [s EXCEPT !.sent = Append(@, x), !.fin = (u.body = 0)]
        <4>1. h.s = s \/ h.s = t
          BY DEF HeaderResults
        <4>2. x \in SentUnit
          BY DEF Section, SentUnit, HeadersRec
        <4> HIDE DEF x
        <4>3. SameStream(s, t) /\ t.sent = Append(s.sent, x) /\ t.fin = (u.body = 0)
          <5>1. Append(s.sent, x) \in Seq(SentUnit) /\ (u.body = 0) \in BOOLEAN
            BY <1>0, <4>2
          <5> QED
            BY <5>1 DEF StreamRec, SameStream
        <4> HIDE DEF t
        <4> QED
          BY <1>0, <1>4, <1>5, <4>1, <4>3 DEF Headed, SameStream, x
      <3>3. CASE h.ok /\ u.body = 0
        <4>1. r.u = [u EXCEPT !.hdr_sent = TRUE] /\ r.s = h.s /\ r.ret = 1
          BY <3>1, <3>3
        <4>2. SameUser(u, r.u) /\ r.u.offset = u.offset
          BY <4>1 DEF UserRec, SameUser
        <4>3. r.s = h.s /\ r.ret \in Int
          BY <4>1
        <4> HIDE DEF Goal
        <4>4. Goal(r)
          BY <1>2, <3>2, <4>2, <4>3
        <4> QED
          BY <4>4 DEF Goal
      <3>4. CASE ~(h.ok /\ u.body = 0) /\ u.offset < u.len
        <4>1. r \in BodyResults(u, h.s, TRUE)
          BY <3>1, <3>4
        <4>2. Goal(r)
          BY <1>3, <2>1, <3>2, <3>4, <4>1
        <4> QED
          BY <4>2
      <3>5. CASE ~(h.ok /\ u.body = 0) /\ ~(u.offset < u.len)
        <4>1. r.u = u /\ r.s = h.s /\ r.ret \in Int
          BY <3>1, <3>5
        <4>2. Goal(r)
          BY <1>0, <1>2, <3>2, <4>1
        <4> QED
          BY <4>2
      <3> QED
        BY <3>3, <3>4, <3>5
    <2> QED
      BY <2>2, <2>3
  <1>6. CASE cfg.alpn = "HQ"
    <2>1. r \in hq_content(u, s)
      BY <1>6 DEF Content
    <2>2. ASSUME NEW v \in UserRec
          PROVE  SameUser(v, Reset(v)) /\ (Reset(v).offset = IF cfg.finish THEN v.offset ELSE 0)
      BY <2>2 DEF Reset, UserRec, SameUser
    <2>3. CASE u.hdr_sent \/ u.offset >= u.len
      <3>1. r.u = Reset(u) /\ r.s = s /\ r.ret = 0
        BY <2>1, <2>3 DEF hq_content
      <3>2. /\ SameUser(u, r.u)
            /\ ~Reused => r.u.offset = u.offset
            /\ Reused => r.u.offset = 0
        BY <1>0, <1>6, <2>2, <3>1 DEF Reused
      <3>3. s.sent \o none = s.sent
        BY <1>0, <1>1
      <3>4. Sends(u, s, r, 0)
        BY <3>1, <3>3 DEF Sends, none
      <3>5. u.offset + 0 = u.offset
        BY <1>0
      <3> QED
        BY <1>0, <1>4, <3>1, <3>2, <3>4, <3>5
    <2>4. CASE ~(u.hdr_sent \/ u.offset >= u.len)
      <3>1. PICK x \in BodyResults(u, s, cfg.finish) :
               r = [x EXCEPT !.u = IF x.ret > 0 THEN Reset(@) ELSE @]
        BY <2>1, <2>4, Zenon DEF hq_content
      <3>2. u.offset < u.len
        BY <1>0, <2>4
      <3>3. /\ SameUser(u, x.u) /\ SameStream(s, x.s) /\ x.ret \in Int
            /\ x = [u |-> x.u, s |-> x.s, ret |-> x.ret]
        BY <1>0, <3>2, BodyResultsAre
      <3>4. PICK n \in Nat : /\ Sends(u, s, x, n) /\ x.u.offset = u.offset + n
                             /\ x.ret <= 0 => n = 0
        BY <1>0, <3>2, BodyResultsAre
      <3>5. /\ r.u = IF x.ret > 0 THEN Reset(x.u) ELSE x.u
            /\ r.s = x.s /\ r.ret = x.ret
        <4> DEFINE v == IF x.ret > 0 THEN Reset(x.u) ELSE x.u
        <4>1. r = [x EXCEPT !.u = v]
          BY <3>1
        <4> HIDE DEF v
        <4>2. r.u = v /\ r.s = x.s /\ r.ret = x.ret
          BY <3>3, <4>1
        <4> QED
          BY <4>2 DEF v
      <3>6. /\ SameUser(u, r.u)
            /\ ~Reused => r.u.offset = u.offset + n
            /\ Reused /\ u.offset = 0 => r.u.offset = 0
        <4>1. x.u \in UserRec
          BY <3>3 DEF SameUser
        <4>2. /\ SameUser(x.u, Reset(x.u))
              /\ Reset(x.u).offset = IF cfg.finish THEN x.u.offset ELSE 0
          BY <2>2, <4>1
        <4>3. SameUser(u, r.u)
          BY <3>3, <3>5, <4>2 DEF SameUser
        <4> QED
          BY <1>0, <1>6, <3>3, <3>4, <3>5, <4>2, <4>3 DEF Reused
      <3>7. Sends(u, s, r, n)
        BY <3>4, <3>5 DEF Sends
      <3> QED
        BY <1>4, <3>3, <3>4, <3>5, <3>6, <3>7
    <2> QED
      BY <2>3, <2>4
  <1> QED
    BY <1>0, <1>5, <1>6

-----------------------------------------------------------------------------
(* The invariant: the list, the copies, and who has which object.            *)

TypeInv ==
  /\ cfg \in Configs
  /\ NodesOf(queue, Nat)
  /\ msgs \in Seq(MsgRec)
  /\ held \subseteq Nat
  /\ pc \in {"idle", "drain"} /\ active \in {1, -1}
  /\ headers \in HeadersRec
  /\ DOMAIN us \subseteq Nat /\ \A u \in DOMAIN us : us[u] \in UserRec
  /\ streams \in Seq(StreamRec)
  /\ process \in {"up", "closing", "crashed", "freed"}

\* The list has the messages that were not taken yet.
ListInv == Numbered(queue, Len(msgs))

\* Their copies are allocated, and no other as long as no request failed.
HeldInv == Queued(queue) \subseteq held /\ (held # Queued(queue) => active < 0)

\* One object and at most one stream, if the stream is kept; or each stream has
\* its own object, which has no other stream.
UsersInv ==
  /\ process # "freed" => 0 \in DOMAIN us
  /\ Shared => /\ Len(streams) <= 1 /\ DOMAIN us \subseteq {0}
               /\ process # "freed" => us[0].request = Len(streams)
  /\ \A e \in 1..Len(streams) :
       /\ streams[e].user = IF Shared THEN 0 ELSE e
       /\ streams[e].open => /\ process # "freed" /\ streams[e].user \in DOMAIN us
                             /\ us[streams[e].user].request = e
  /\ \A u \in DOMAIN us \ {0} :
       \/ u \in 1..Len(streams) /\ streams[u].open
       \/ us[u].request = 0 /\ active < 0

\* A short call has one message, which is never in the list.  Without a failure
\* each message that was taken got a stream.
StepInv ==
  /\ cfg.type = "SHORT" => /\ queue.nb_messages = 0 /\ pc = "idle"
                           /\ Len(msgs) = 1 /\ msgs[1].what = "BYTE"
  /\ Running /\ active > 0 /\ ~Shared => Len(streams) = Len(msgs) - queue.nb_messages

\* What was told of a stream, and with what its object keeps, counts what was read.
ToldOk(s) ==
  /\ \A i \in 1..Len(s.told) : s.told[i] = i
  /\ Len(s.told) <= s.read /\ s.read <= s.arrived
  /\ s.final <= 1 /\ (s.final = 1 => s.finIn /\ Len(s.told) = s.arrived)
  /\ s.failed => s.flags = {}
KeepsOk(s, recv) ==
  ~s.failed => /\ cfg.alpn = "HQ" => recv = <<>>
               /\ s.final = 0 => Counts(s.told, recv, s.read)

RecvInv ==
  /\ Shared /\ streams = <<>> /\ process # "freed" => us[0].recv = <<>>
  /\ \A e \in 1..Len(streams) :
       /\ ToldOk(streams[e])
       /\ streams[e].open => KeepsOk(streams[e], us[streams[e].user].recv)

BaseInv == TypeInv /\ ListInv /\ HeldInv /\ UsersInv /\ StepInv /\ RecvInv

\* One element of a sequence is replaced.
LEMMA ReplaceFacts ==
  ASSUME NEW R, NEW s \in Seq(R), NEW e \in DOMAIN s, NEW x \in R
  PROVE  LET t == [s EXCEPT ![e] = x] IN
         /\ t \in Seq(R) /\ Len(t) = Len(s) /\ DOMAIN t = 1..Len(s) /\ DOMAIN s = 1..Len(s)
         /\ t[e] = x /\ \A i \in 1..Len(s) : i # e => t[i] = s[i]
  OBVIOUS

\* What is allocated and who has it: the streams and objects stay.
LEMMA UsersStay ==
  ASSUME UsersInv, cfg' = cfg, active' \in {active, -1},
         process # "freed", process' # "freed",
         Len(streams') = Len(streams), Len(streams) \in Nat,
         \A e \in 1..Len(streams) : /\ streams'[e].user = streams[e].user
                                    /\ streams'[e].open = streams[e].open,
         DOMAIN us' = DOMAIN us, \A u \in DOMAIN us : us'[u].request = us[u].request
  PROVE  UsersInv'
  <1>1. Shared' = Shared
    BY DEF Shared
  <1>2. active < 0 => active' < 0
    OBVIOUS
  <1>3. (0 \in DOMAIN us)' /\ (Shared => (us[0].request)' = us[0].request)
    BY <1>1 DEF UsersInv
  <1>4. ASSUME NEW e \in 1..Len(streams)
        PROVE  /\ streams'[e].user = IF Shared THEN 0 ELSE e
               /\ streams'[e].open => /\ streams'[e].user \in DOMAIN us
                                      /\ us'[streams'[e].user].request = e
    BY DEF UsersInv
  <1>5. ASSUME NEW u \in DOMAIN us \ {0}
        PROVE  \/ u \in 1..Len(streams) /\ streams'[u].open
               \/ us'[u].request = 0 /\ active' < 0
    BY <1>2 DEF UsersInv
  <1> QED
    BY <1>1, <1>3, <1>4, <1>5 DEF UsersInv

\* A stream is opened for the object t.
LEMMA UsersOpen ==
  ASSUME UsersInv, cfg' = cfg, active' \in {active, -1},
         process # "freed", process' = process, streams \in Seq(StreamRec),
         NEW s \in StreamRec, NEW t, t = IF Shared THEN 0 ELSE Len(streams) + 1,
         streams' = Append(streams, s), s.user = t, s.open,
         Shared => streams = <<>>,
         DOMAIN us' = DOMAIN us \cup {t}, us'[t].request = Len(streams) + 1,
         \A u \in DOMAIN us : u # t => us'[u] = us[u]
  PROVE  UsersInv'
  <1> DEFINE n == Len(streams)
             S == streams'
  <1>1. /\ n \in Nat /\ Len(S) = n + 1 /\ S[n + 1] = s
        /\ \A e \in 1..n : S[e] = streams[e]
    BY AppendFacts
  <1>2. Shared' = Shared /\ (active < 0 => active' < 0)
    BY DEF Shared
  <1>3. Shared => n = 0 /\ DOMAIN us' = {0}
    BY DEF UsersInv
  <1> HIDE DEF n, S
  <1>4. ASSUME NEW e \in 1..Len(S)
        PROVE  /\ S[e].user = IF Shared THEN 0 ELSE e
               /\ S[e].open => S[e].user \in DOMAIN us' /\ us'[S[e].user].request = e
    <2>1. CASE e = n + 1
      BY <1>1, <1>3, <2>1 DEF n
    <2>2. CASE e # n + 1
      <3>1. e \in 1..n /\ S[e] = streams[e] /\ ~Shared
        BY <1>1, <1>3, <2>2
      <3>2. e # t
        BY <1>1, <2>2, <3>1 DEF n
      <3> QED
        BY <3>1, <3>2 DEF UsersInv, n
    <2> QED
      BY <2>1, <2>2
  <1>5. ASSUME NEW u \in DOMAIN us' \ {0}
        PROVE  \/ u \in 1..Len(S) /\ S[u].open
               \/ us'[u].request = 0 /\ active' < 0
    <2>1. ~Shared
      BY <1>3
    <2>2. CASE u = n + 1
      BY <1>1, <2>2
    <2>3. CASE u # n + 1
      <3>1. u \in DOMAIN us \ {0} /\ us'[u] = us[u]
        BY <2>1, <2>3 DEF n
      <3>2. u \in 1..n => u \in 1..Len(S) /\ S[u] = streams[u]
        BY <1>1
      <3> QED
        BY <1>2, <3>1, <3>2 DEF UsersInv, n
    <2> QED
      BY <2>2, <2>3
  <1>6. Shared => Len(S) <= 1 /\ DOMAIN us' \subseteq {0} /\ us'[0].request = Len(S)
    BY <1>1, <1>3 DEF n
  <1>7. 0 \in DOMAIN us'
    BY DEF UsersInv
  <1> QED
    BY <1>2, <1>4, <1>5, <1>6, <1>7 DEF UsersInv, S

\* Stream e and what its object v holds are replaced.
Replaces(e, t, v) ==
  /\ streams' = [streams EXCEPT ![e] = t]
  /\ DOMAIN us' = DOMAIN us
  /\ us'[streams[e].user] = v
  /\ \A u \in DOMAIN us : u # streams[e].user => us'[u] = us[u]

\* An action on an open stream keeps the types and who has what.
LEMMA ReplacesKeeps ==
  ASSUME TypeInv, UsersInv, cfg' = cfg, active' \in {active, -1},
         process # "freed", process' # "freed",
         NEW e \in DOMAIN streams, streams[e].open,
         NEW t \in StreamRec, t.user = streams[e].user, t.open,
         NEW v \in UserRec, v.request = us[streams[e].user].request,
         Replaces(e, t, v)
  PROVE  /\ streams' \in Seq(StreamRec) /\ Len(streams') = Len(streams)
         /\ \A u \in DOMAIN us' : us'[u] \in UserRec
         /\ UsersInv'
  <1>1. /\ streams' \in Seq(StreamRec) /\ Len(streams') = Len(streams)
        /\ DOMAIN streams = 1..Len(streams) /\ Len(streams) \in Nat
        /\ streams'[e] = t /\ \A d \in 1..Len(streams) : d # e => streams'[d] = streams[d]
    BY ReplaceFacts DEF Replaces, TypeInv
  <1>2. \A u \in DOMAIN us' : us'[u] \in UserRec
    BY DEF Replaces, TypeInv
  <1>3. \A u \in DOMAIN us : us'[u].request = us[u].request
    BY DEF Replaces
  <1>4. \A d \in 1..Len(streams) : /\ streams'[d].user = streams[d].user
                                   /\ streams'[d].open = streams[d].open
    BY <1>1 DEF TypeInv, StreamRec
  <1>5. DOMAIN us' = DOMAIN us
    BY DEF Replaces
  <1>6. UsersInv'
    BY <1>1, <1>3, <1>4, <1>5, UsersStay
  <1> QED
    BY <1>1, <1>2, <1>6

-----------------------------------------------------------------------------
(* The engine's callbacks, as a change of one stream and its object.         *)

\* A stream that is open has its object.
LEMMA ObjectOf ==
  ASSUME TypeInv, UsersInv, NEW e \in DOMAIN streams, streams[e].open
  PROVE  /\ e \in 1..Len(streams) /\ DOMAIN streams = 1..Len(streams) /\ Len(streams) \in Nat
         /\ streams[e] \in StreamRec /\ streams[e].user \in DOMAIN us /\ User(e) \in UserRec
         /\ User(e).request = e /\ process # "freed"
  <1>1. DOMAIN streams = 1..Len(streams) /\ Len(streams) \in Nat /\ streams[e] \in StreamRec
    BY DEF TypeInv
  <1> QED
    BY <1>1 DEF UsersInv, User, TypeInv

\* The write callback: one call of the send function.
LEMMA WriteNotifyIs ==
  ASSUME TypeInv, UsersInv, NEW e \in DOMAIN streams, WriteNotify(e)
  PROVE  LET s == [streams[e] EXCEPT !.blocked = FALSE] IN
         /\ streams[e].open /\ Running /\ pc = "idle" /\ ~streams[e].fin
         /\ SameStream(streams[e], s) /\ s.sent = streams[e].sent /\ s.fin = streams[e].fin
         /\ \E r \in Content(User(e), s, headers) : Replaces(e, r.s, r.u)
         /\ UNCHANGED <<cfg, queue, msgs, held, pc, active, headers, process>>
  <1> DEFINE s == [streams[e] EXCEPT !.blocked = FALSE]
  <1>1. streams[e].open /\ Running /\ pc = "idle" /\ ~streams[e].fin
    BY DEF WriteNotify, Called
  <1>2. streams[e] \in StreamRec /\ streams[e].user \in DOMAIN us
    BY <1>1, ObjectOf
  <1>3. SameStream(streams[e], s) /\ s.sent = streams[e].sent /\ s.fin = streams[e].fin
    BY <1>2 DEF SameStream, StreamRec
  <1>4. PICK r \in Content(User(e), s, headers) :
          /\ streams' = [streams EXCEPT ![e] = r.s]
          /\ us' = [us EXCEPT ![streams[e].user] = r.u]
    BY DEF WriteNotify
  <1>5. Replaces(e, r.s, r.u)
    BY <1>2, <1>4 DEF Replaces
  <1> QED
    BY <1>1, <1>3, <1>5 DEF WriteNotify

\* The peer changes what the stream says of the response.
LEMMA PeerIs ==
  ASSUME TypeInv, UsersInv, NEW e \in DOMAIN streams, Peer(e)
  PROVE  /\ streams[e].open /\ Running /\ pc = "idle"
         /\ ~streams[e].finIn /\ ~streams[e].failed
         /\ \E t \in StreamRec :
              /\ Replaces(e, t, User(e))
              /\ t.user = streams[e].user /\ t.open /\ t.sent = streams[e].sent
              /\ t.fin = streams[e].fin /\ t.final = streams[e].final
              /\ t.read = streams[e].read /\ t.told = streams[e].told /\ ~t.failed
              /\ t.arrived >= streams[e].arrived
         /\ UNCHANGED <<cfg, queue, msgs, held, pc, active, headers, us, process>>
  <1> DEFINE s == streams[e]
             Result(t) == /\ t \in StreamRec
                          /\ t.user = s.user /\ t.open = s.open /\ t.sent = s.sent
                          /\ t.fin = s.fin /\ t.final = s.final
                          /\ t.read = s.read /\ t.told = s.told /\ t.failed = s.failed
                          /\ t.arrived >= s.arrived
  <1>1. s.open /\ Running /\ pc = "idle" /\ ~s.finIn /\ ~s.failed /\ us' = us
    BY DEF Peer, Called
  <1>2. /\ s \in StreamRec /\ s.user \in DOMAIN us /\ e \in DOMAIN streams
        /\ s.flags \subseteq {"HEADER", "BODY", "EMPTY_FIN"} /\ s.arrived \in Nat
        /\ s.arrived >= s.arrived
    BY <1>1, ObjectOf DEF StreamRec
  <1>3. \E t : Result(t) /\ streams' = [streams EXCEPT ![e] = t]
    <2>1. CASE streams' = [streams EXCEPT ![e].begun = TRUE, ![e].flags = @ \cup {"HEADER"}]
      <3> DEFINE f == s.flags \cup {"HEADER"}
                 t == [s EXCEPT !.begun = TRUE, !.flags = f]
      <3>1. streams' = [streams EXCEPT ![e] = t]
        BY <1>2, <2>1
      <3>2. f \subseteq {"HEADER", "BODY", "EMPTY_FIN"}
        BY <1>2
      <3> HIDE DEF f
      <3>3. Result(t)
        BY <1>2, <3>2 DEF StreamRec
      <3> QED
        BY <3>1, <3>3
    <2>2. CASE streams' = [streams EXCEPT ![e].arrived = @ + 1, ![e].flags = @ \cup {"BODY"}]
      <3> DEFINE f == s.flags \cup {"BODY"}
                 a == s.arrived + 1
                 t == [s EXCEPT !.arrived = a, !.flags = f]
      <3>1. streams' = [streams EXCEPT ![e] = t]
        BY <1>2, <2>2
      <3>2. f \subseteq {"HEADER", "BODY", "EMPTY_FIN"} /\ a \in Nat /\ a >= s.arrived
        BY <1>2
      <3> HIDE DEF f, a
      <3>3. Result(t)
        BY <1>2, <3>2 DEF StreamRec
      <3> QED
        BY <3>1, <3>3
    <2>3. CASE streams' = [streams EXCEPT ![e].finIn = TRUE,
                                          ![e].flags = IF @ # {} THEN @
                                                       ELSE IF cfg.alpn = "H3" THEN {"EMPTY_FIN"}
                                                       ELSE {"BODY"}]
      <3> DEFINE f == IF s.flags # {} THEN s.flags
                      ELSE IF cfg.alpn = "H3" THEN {"EMPTY_FIN"} ELSE {"BODY"}
                 t == [s EXCEPT !.finIn = TRUE, !.flags = f]
      <3>1. streams' = [streams EXCEPT ![e] = t]
        BY <1>2, <2>3
      <3>2. f \subseteq {"HEADER", "BODY", "EMPTY_FIN"}
        BY <1>2
      <3> HIDE DEF f
      <3>3. Result(t)
        BY <1>2, <3>2 DEF StreamRec
      <3> QED
        BY <3>1, <3>3
    <2> QED
      BY <2>1, <2>2, <2>3 DEF Peer
  <1>4. PICK t : Result(t) /\ streams' = [streams EXCEPT ![e] = t]
    BY <1>3
  <1>5. Replaces(e, t, User(e))
    BY <1>1, <1>4 DEF Replaces, User
  <1>6. UNCHANGED <<cfg, queue, msgs, held, pc, active, headers, us, process>>
    BY DEF Peer
  <1> QED
    BY <1>1, <1>2, <1>4, <1>5, <1>6

\* What is told and kept is told together.
LEMMA CountsAll ==
  ASSUME NEW told, NEW buf, NEW n \in Nat, Counts(told, buf, n)
  PROVE  Counts(told \o buf, <<>>, n)
  <1> DEFINE t == told \o buf
             l == Len(told)
             b == Len(buf)
  <1>1. told \in Seq(Nat) /\ buf \in Seq(Nat) /\ l \in Nat /\ b \in Nat /\ l + b = n
        /\ (\A i \in 1..l : told[i] = i) /\ \A i \in 1..b : buf[i] = l + i
    BY DEF Counts
  <1>2. t \in Seq(Nat) /\ Len(t) = l + b
    BY <1>1
  <1>3. /\ \A i \in 1..l : t[i] = told[i]
        /\ \A i \in (l + 1)..(l + b) : t[i] = buf[i - l]
    BY <1>1
  <1> HIDE DEF l, b, t
  <1>4. ASSUME NEW i \in 1..Len(t) PROVE t[i] = i
    <2>1. CASE i <= l
      BY <1>1, <1>2, <1>3, <2>1
    <2>2. CASE i > l
      <3>1. i \in (l + 1)..(l + b) /\ i - l \in 1..b /\ l + (i - l) = i
        BY <1>1, <1>2, <2>2
      <3> QED
        BY <1>1, <1>3, <3>1
    <2> QED
      BY <1>1, <1>2, <2>1, <2>2
  <1>5. <<>> \in Seq(Nat) /\ Len(<<>>) = 0 /\ Len(t) + 0 = n /\ \A i \in 1..0 : <<>>[i] = Len(t) + i
    BY <1>1, <1>2
  <1>6. Counts(t, <<>>, n)
    BY <1>2, <1>4, <1>5 DEF Counts
  <1> QED
    BY <1>6 DEF t

\* What the read callback leaves of the stream s and of what its object kept.
ReadResult(s, t, recv) ==
  /\ t \in StreamRec /\ recv \in Seq(Nat)
  /\ t.user = s.user /\ t.open = s.open /\ t.sent = s.sent
  /\ t.fin /\ t.final = 0 => s.fin
  /\ ToldOk(t) /\ KeepsOk(t, recv)

\* After what was read up to n was told or kept.
LEMMA ReadOn ==
  ASSUME NEW s \in StreamRec, s.final = 0, ToldOk(s),
         NEW told, NEW recv, NEW n \in s.read..s.arrived, Counts(told, recv, n),
         NEW t \in StreamRec, t.user = s.user, t.open = s.open, t.sent = s.sent, t.fin = s.fin,
         t.final = s.final, t.arrived = s.arrived, t.finIn = s.finIn, t.flags = {},
         t.read = n, t.told = told,
         t.failed \/ (cfg.alpn = "HQ" => recv = <<>>)
  PROVE  ReadResult(s, t, recv)
  <1>1. /\ Len(told) \in Nat /\ Len(recv) \in Nat /\ Len(told) + Len(recv) = n /\ n \in Nat
        /\ recv \in Seq(Nat) /\ \A i \in 1..Len(told) : told[i] = i
    BY DEF Counts, StreamRec
  <1>2. Len(told) <= n /\ n <= s.arrived
    BY <1>1 DEF StreamRec
  <1>3. ToldOk(t)
    BY <1>1, <1>2 DEF ToldOk
  <1>4. KeepsOk(t, recv)
    BY DEF KeepsOk
  <1> QED
    BY <1>1, <1>3, <1>4 DEF ReadResult

\* The last report is of all that arrived.
LEMMA ReadAll ==
  ASSUME NEW s \in StreamRec, s.final = 0, ToldOk(s), s.finIn,
         NEW told, Counts(told, <<>>, s.arrived), NEW recv \in Seq(Nat),
         cfg.alpn = "HQ" => recv = <<>>,
         NEW t \in StreamRec, t.user = s.user, t.open = s.open, t.sent = s.sent,
         t.final = s.final + 1, t.arrived = s.arrived, t.finIn = s.finIn, t.flags = {},
         t.read = s.arrived, t.told = told
  PROVE  ReadResult(s, t, recv)
  <1>1. /\ Len(told) \in Nat /\ Len(<<>>) = 0 /\ Len(told) + Len(<<>>) = s.arrived
        /\ \A i \in 1..Len(told) : told[i] = i
    BY DEF Counts, StreamRec
  <1>2. Len(told) = s.arrived /\ t.final = 1 /\ s.arrived \in Nat
    BY <1>1 DEF StreamRec
  <1>3. ToldOk(t)
    BY <1>1, <1>2 DEF ToldOk
  <1>4. KeepsOk(t, recv)
    BY <1>2 DEF KeepsOk
  <1> QED
    BY <1>2, <1>3, <1>4 DEF ReadResult

\* The stream as the read loop leaves it, when it read up to n.
ReadTo(s, more, n, f) == [s EXCEPT !.read = n, !.told = @ \o more, !.flags = {}, !.failed = f]

\* The fields of the two.
IsReadTo(s, t, told, n) ==
  /\ t \in StreamRec
  /\ t.user = s.user /\ t.open = s.open /\ t.sent = s.sent /\ t.fin = s.fin
  /\ t.final = s.final /\ t.arrived = s.arrived /\ t.finIn = s.finIn /\ t.flags = {}
  /\ t.read = n /\ t.told = told
IsFinished(s, t, told) ==
  /\ t \in StreamRec
  /\ t.user = s.user /\ t.open = s.open /\ t.sent = s.sent /\ t.fin
  /\ t.final = s.final + 1 /\ t.arrived = s.arrived /\ t.finIn = s.finIn /\ t.flags = {}
  /\ t.read = s.read /\ t.told = told

\* What the read loop leaves in the stream object is a stream object.
LEMMA ReadToRec ==
  ASSUME NEW s \in StreamRec, NEW more \in Seq(Nat), NEW n \in Nat, NEW f \in BOOLEAN
  PROVE  /\ IsReadTo(s, ReadTo(s, more, n, f), s.told \o more, n)
         /\ ReadTo(s, more, n, f).failed = f
  <1>1. s.told \o more \in Seq(Nat)
    BY DEF StreamRec
  <1> DEFINE x == s.told \o more
  <1>2. x \in Seq(Nat) /\ {} \subseteq {"HEADER", "BODY", "EMPTY_FIN"}
    BY <1>1
  <1> QED
    BY <1>2 DEF StreamRec, ReadTo, IsReadTo

\* The stream as Finish leaves it.
Finished(s, more) ==
  [s EXCEPT !.told = @ \o more, !.final = @ + 1, !.fin = TRUE, !.flags = {}]

\* What the end of a response leaves in the stream object is one, too.
LEMMA FinishedRec ==
  ASSUME NEW s \in StreamRec, NEW more \in Seq(Nat)
  PROVE  IsFinished(s, Finished(s, more), s.told \o more)
  <1> DEFINE x == s.told \o more
             f == s.final + 1
  <1>1. x \in Seq(Nat) /\ {} \subseteq {"HEADER", "BODY", "EMPTY_FIN"} /\ f \in Nat
    BY DEF StreamRec
  <1> QED
    BY <1>1 DEF StreamRec, Finished, IsFinished

\* A stream that is read and finished.
LEMMA ReadFinished ==
  ASSUME NEW s \in StreamRec, s.final = 0, s.failed = FALSE, ToldOk(s), s.finIn,
         NEW kt \in Seq(Nat), NEW kb \in Seq(Nat), Counts(s.told \o kt, kb, s.arrived),
         NEW recv \in Seq(Nat), cfg.alpn = "HQ" => recv = <<>>,
         NEW t, t = Finished(ReadTo(s, kt, s.arrived, FALSE), kb)
  PROVE  ReadResult(s, t, recv)
  <1> DEFINE q == ReadTo(s, kt, s.arrived, FALSE)
             x == s.told \o kt
  <1>0. s.arrived \in Nat /\ s.told \in Seq(Nat)
    BY DEF StreamRec
  <1>1. IsReadTo(s, q, x, s.arrived)
    BY <1>0, ReadToRec
  <1> HIDE DEF q, x
  <1>2. IsFinished(q, t, x \o kb)
    <2>1. q \in StreamRec /\ q.told = x
      BY <1>1 DEF IsReadTo
    <2>2. t = Finished(q, kb)
      BY DEF q
    <2>3. IsFinished(q, t, q.told \o kb)
      BY <2>1, <2>2, FinishedRec
    <2> QED
      BY <2>1, <2>3
  <1>3. Counts(x, kb, s.arrived)
    BY DEF x
  <1>4. Counts(x \o kb, <<>>, s.arrived)
    BY <1>0, <1>3, CountsAll
  <1>5. /\ t \in StreamRec
        /\ t.user = s.user /\ t.open = s.open /\ t.sent = s.sent
        /\ t.final = s.final + 1 /\ t.arrived = s.arrived /\ t.finIn = s.finIn /\ t.flags = {}
        /\ t.read = s.arrived /\ t.told = x \o kb
    BY <1>1, <1>2 DEF IsReadTo, IsFinished
  <1> QED
    BY <1>4, <1>5, ReadAll

\* The read callback of H3, for a stream s and what its object kept.
LEMMA H3ReadIs ==
  ASSUME NEW e, NEW s \in StreamRec, streams[e] = s, s.final = 0, s.failed = FALSE, ToldOk(s),
         NEW v \in Seq(Nat), User(e).recv = v, Counts(s.told, v, s.read),
         cfg.alpn = "H3", e \in DOMAIN streams, H3Read(e)
  PROVE  \E t \in StreamRec : \E recv \in Seq(Nat) :
           /\ streams' = [streams EXCEPT ![e] = t]
           /\ us' = [us EXCEPT ![s.user].recv = recv] \/ (UNCHANGED us /\ recv = v)
           /\ ReadResult(s, t, recv)
  <1> DEFINE kt == Kept(v, s.read, s.arrived).told
             kb == Kept(v, s.read, s.arrived).buf
             onlyHeaders == "HEADER" \in s.flags /\ s.finIn /\ s.arrived = 0
  <1>1. s.read \in Nat /\ s.arrived \in Nat /\ s.read <= s.arrived /\ s.told \in Seq(Nat)
    BY DEF ToldOk, StreamRec
  <1>2. kt \in Seq(Nat) /\ kb \in Seq(Nat) /\ Counts(s.told \o kt, kb, s.arrived)
    <2> DEFINE k == Kept(v, s.read, s.arrived)
    <2>1. /\ k.told \in Seq(Nat) /\ k.buf \in Seq(Nat)
          /\ \A told \in Seq(Nat) :
               Counts(told, v, s.read) => Counts(told \o k.told, k.buf, s.arrived)
      BY <1>1, KeptCounts
    <2> HIDE DEF k
    <2>2. Counts(s.told \o k.told, k.buf, s.arrived)
      BY <1>1, <2>1
    <2> QED
      BY <2>1, <2>2 DEF k
  <1>3. \/ onlyHeaders /\ streams' = [streams EXCEPT ![e] = Finished(s, v)] /\ UNCHANGED us
        \/ streams' = [streams EXCEPT ![e] = [s EXCEPT !.flags = {}]] /\ UNCHANGED us
        \/ /\ us' = [us EXCEPT ![s.user].recv = kb]
           /\ LET read == [s EXCEPT !.read = s.arrived, !.told = @ \o kt, !.flags = {}] IN
              streams' = [streams EXCEPT ![e] = IF s.finIn THEN Finished(read, kb) ELSE read]
    <2>1. CASE onlyHeaders /\ Finish(e, s, v) /\ UNCHANGED us
      BY <2>1 DEF Finish, Finished
    <2>2. CASE streams' = [streams EXCEPT ![e].flags = {}] /\ UNCHANGED us
      BY <2>2
    <2>3. CASE /\ us' = [us EXCEPT ![s.user].recv = kb]
               /\ LET read == [s EXCEPT !.read = s.arrived, !.told = @ \o kt, !.flags = {}] IN
                  IF s.finIn THEN Finish(e, read, kb)
                  ELSE streams' = [streams EXCEPT ![e] = read]
      BY <2>3 DEF Finish, Finished
    <2> QED
      BY <2>1, <2>2, <2>3 DEF H3Read
  <1> HIDE DEF kt, kb
  <1>4. ReadTo(s, kt, s.arrived, FALSE)
          = [s EXCEPT !.read = s.arrived, !.told = @ \o kt, !.flags = {}]
    BY DEF StreamRec, ReadTo
  <1>5. CASE onlyHeaders /\ streams' = [streams EXCEPT ![e] = Finished(s, v)] /\ UNCHANGED us
    <2> DEFINE t == Finished(s, v)
    <2>1. /\ t \in StreamRec
          /\ t.user = s.user /\ t.open = s.open /\ t.sent = s.sent
          /\ t.final = s.final + 1 /\ t.arrived = s.arrived /\ t.finIn = s.finIn
          /\ t.flags = {} /\ t.read = s.read /\ t.told = s.told \o v
      BY FinishedRec DEF IsFinished
    <2>2. s.read = s.arrived /\ s.finIn
      BY <1>1, <1>5
    <2>3. Counts(s.told \o v, <<>>, s.arrived)
      BY <1>1, <2>2, CountsAll
    <2> HIDE DEF t
    <2>4. ReadResult(s, t, v)
      BY <2>1, <2>2, <2>3, ReadAll
    <2> QED
      BY <1>5, <2>1, <2>4 DEF t
  <1>6. CASE streams' = [streams EXCEPT ![e] = [s EXCEPT !.flags = {}]] /\ UNCHANGED us
    <2> DEFINE t == [s EXCEPT !.flags = {}]
    <2>1. /\ t \in StreamRec
          /\ t.user = s.user /\ t.open = s.open /\ t.sent = s.sent /\ t.fin = s.fin
          /\ t.final = s.final /\ t.arrived = s.arrived /\ t.finIn = s.finIn
          /\ t.flags = {} /\ t.read = s.read /\ t.told = s.told
      BY DEF StreamRec
    <2> HIDE DEF t
    <2>2. s.read \in s.read..s.arrived
      BY <1>1
    <2>3. ReadResult(s, t, v)
      BY <2>1, <2>2, ReadOn
    <2> QED
      BY <1>6, <2>1, <2>3 DEF t
  <1>7. CASE /\ us' = [us EXCEPT ![s.user].recv = kb]
             /\ LET read == [s EXCEPT !.read = s.arrived, !.told = @ \o kt, !.flags = {}] IN
                streams' = [streams EXCEPT ![e] = IF s.finIn THEN Finished(read, kb) ELSE read]
    <2> DEFINE q == ReadTo(s, kt, s.arrived, FALSE)
               t == IF s.finIn THEN Finished(q, kb) ELSE q
    <2>1. streams' = [streams EXCEPT ![e] = t] /\ us' = [us EXCEPT ![s.user].recv = kb]
      BY <1>4, <1>7
    <2>2. CASE s.finIn
      <3>1. ReadResult(s, Finished(q, kb), kb)
        BY <1>2, <2>2, ReadFinished
      <3>2. ReadResult(s, t, kb)
        BY <2>2, <3>1
      <3> HIDE DEF t
      <3> QED
        BY <1>2, <2>1, <3>2 DEF ReadResult
    <2>3. CASE ~s.finIn
      <3>1. IsReadTo(s, q, s.told \o kt, s.arrived) /\ q.failed = FALSE
        BY <1>1, <1>2, ReadToRec
      <3>2. s.arrived \in s.read..s.arrived /\ t = q
        BY <1>1, <2>3
      <3> HIDE DEF q, t
      <3>3. ReadResult(s, q, kb)
        BY <1>2, <3>1, <3>2, ReadOn DEF IsReadTo
      <3> QED
        BY <1>2, <2>1, <3>1, <3>2, <3>3 DEF IsReadTo
    <2> QED
      BY <2>2, <2>3
  <1> QED
    BY <1>3, <1>5, <1>6, <1>7

\* The read callback of HQ: what the object kept is nothing.
LEMMA HQReadIs ==
  ASSUME NEW e, NEW s \in StreamRec, streams[e] = s, s.final = 0, s.failed = FALSE, ToldOk(s),
         User(e).recv = <<>>, Counts(s.told, <<>>, s.read), e \in DOMAIN streams, HQRead(e)
  PROVE  \E t \in StreamRec :
           /\ streams' = [streams EXCEPT ![e] = t]
           /\ us' = [us EXCEPT ![s.user].recv = <<>>]
           /\ ReadResult(s, t, <<>>)
  <1> DEFINE kt == Kept(<<>>, s.read, s.arrived).told
             kb == Kept(<<>>, s.read, s.arrived).buf
             q == ReadTo(s, kt, s.arrived, FALSE)
             x == s.told \o kt
             t == IF s.finIn THEN Finished(q, kb) ELSE [q EXCEPT !.told = @ \o kb]
  <1>1. /\ s.read \in Nat /\ s.arrived \in Nat /\ s.read <= s.arrived /\ s.told \in Seq(Nat)
        /\ <<>> \in Seq(Nat)
    BY DEF ToldOk, StreamRec
  <1>2. kt \in Seq(Nat) /\ kb \in Seq(Nat) /\ Counts(s.told \o kt, kb, s.arrived)
    <2> DEFINE k == Kept(<<>>, s.read, s.arrived)
    <2>1. /\ k.told \in Seq(Nat) /\ k.buf \in Seq(Nat)
          /\ \A told \in Seq(Nat) :
               Counts(told, <<>>, s.read) => Counts(told \o k.told, k.buf, s.arrived)
      BY <1>1, KeptCounts
    <2> HIDE DEF k
    <2>2. Counts(s.told \o k.told, k.buf, s.arrived)
      BY <1>1, <2>1
    <2> QED
      BY <2>1, <2>2 DEF k
  <1>3. /\ us' = [us EXCEPT ![s.user].recv = <<>>]
        /\ LET read == [s EXCEPT !.read = s.arrived, !.told = @ \o kt, !.flags = {}] IN
           streams' = [streams EXCEPT ![e] = IF s.finIn THEN Finished(read, kb)
                                             ELSE [read EXCEPT !.told = @ \o kb]]
    <2>1. [i \in DOMAIN User(e).recv |-> 0] = <<>>
      OBVIOUS
    <2> QED
      BY <2>1 DEF HQRead, Finish, Finished
  <1> HIDE DEF kt, kb
  <1>4. q = [s EXCEPT !.read = s.arrived, !.told = @ \o kt, !.flags = {}]
    BY DEF StreamRec, ReadTo
  <1>5. streams' = [streams EXCEPT ![e] = t]
    <2> DEFINE z == [s EXCEPT !.read = s.arrived, !.told = @ \o kt, !.flags = {}]
    <2>1. streams' = [streams EXCEPT ![e] = IF s.finIn THEN Finished(z, kb)
                                            ELSE [z EXCEPT !.told = @ \o kb]]
      BY <1>3
    <2>2. q = z
      BY <1>4
    <2> HIDE DEF q, z
    <2> QED
      BY <2>1, <2>2, Zenon
  <1>6. ReadResult(s, t, <<>>)
    <2>1. CASE s.finIn
      <3>1. ReadResult(s, Finished(q, kb), <<>>)
        BY <1>1, <1>2, <2>1, ReadFinished
      <3> QED
        BY <2>1, <3>1
    <2>2. CASE ~s.finIn
      <3>1. IsReadTo(s, q, x, s.arrived)
        BY <1>1, <1>2, ReadToRec
      <3>2. Counts(x \o kb, <<>>, s.arrived)
        BY <1>1, <1>2, CountsAll
      <3>3. t = [q EXCEPT !.told = @ \o kb]
        BY <2>2
      <3> HIDE DEF q, t, x
      <3>4. q \in StreamRec /\ q.told = x /\ x \o kb \in Seq(Nat)
        BY <3>1, <3>2 DEF IsReadTo, Counts
      <3> DEFINE y == x \o kb
      <3>5. t = [q EXCEPT !.told = y] /\ y \in Seq(Nat)
        BY <3>3, <3>4
      <3> HIDE DEF y
      <3>6. IsReadTo(s, t, y, s.arrived)
        BY <3>1, <3>5 DEF IsReadTo, StreamRec
      <3>7. s.arrived \in s.read..s.arrived /\ Counts(y, <<>>, s.arrived)
        BY <1>1, <3>2 DEF y
      <3> QED
        BY <3>6, <3>7, ReadOn DEF IsReadTo
    <2> QED
      BY <2>1, <2>2
  <1>7. t \in StreamRec
    BY <1>6 DEF ReadResult
  <1> HIDE DEF t
  <1> QED
    BY <1>3, <1>5, <1>6, <1>7

\* A read that fails.
LEMMA ReadFailsIs ==
  ASSUME NEW e, NEW s \in StreamRec, streams[e] = s, s.final = 0, ToldOk(s),
         NEW v \in Seq(Nat), User(e).recv = v, Counts(s.told, v, s.read),
         e \in DOMAIN streams, ReadFails(e)
  PROVE  \E t \in StreamRec : \E recv \in Seq(Nat) :
           /\ streams' = [streams EXCEPT ![e] = t]
           /\ us' = [us EXCEPT ![s.user].recv = recv]
           /\ ReadResult(s, t, recv)
  <1>1. /\ s.read \in Nat /\ s.arrived \in Nat /\ s.read <= s.arrived /\ s.told \in Seq(Nat)
    BY DEF ToldOk, StreamRec
  <1>2. PICK n \in s.read..s.arrived :
           LET k == Kept(v, s.read, n) IN
           /\ us' = [us EXCEPT ![s.user].recv = k.buf]
           /\ streams' = [streams EXCEPT ![e].read = n, ![e].told = @ \o k.told,
                                         ![e].flags = {}, ![e].failed = TRUE]
    BY DEF ReadFails
  <1> DEFINE kt == Kept(v, s.read, n).told
             kb == Kept(v, s.read, n).buf
             t == ReadTo(s, kt, n, TRUE)
  <1>3. n \in Nat /\ s.read <= n
    BY <1>1
  <1>4. kt \in Seq(Nat) /\ kb \in Seq(Nat) /\ Counts(s.told \o kt, kb, n)
    <2> DEFINE k == Kept(v, s.read, n)
    <2>1. /\ k.told \in Seq(Nat) /\ k.buf \in Seq(Nat)
          /\ \A told \in Seq(Nat) : Counts(told, v, s.read) => Counts(told \o k.told, k.buf, n)
      BY <1>1, <1>3, KeptCounts
    <2> HIDE DEF k
    <2>2. Counts(s.told \o k.told, k.buf, n)
      BY <1>1, <2>1
    <2> QED
      BY <2>1, <2>2 DEF k
  <1>5. us' = [us EXCEPT ![s.user].recv = kb]
    BY <1>2
  <1>6. streams' = [streams EXCEPT ![e] = t]
    <2>1. streams' = [streams EXCEPT ![e].read = n, ![e].told = @ \o kt,
                                     ![e].flags = {}, ![e].failed = TRUE]
      BY <1>2
    <2> HIDE DEF kt
    <2> QED
      BY <2>1 DEF ReadTo
  <1> HIDE DEF kt, kb
  <1>7. IsReadTo(s, t, s.told \o kt, n) /\ t.failed = TRUE
    BY <1>3, <1>4, ReadToRec
  <1> HIDE DEF t
  <1>8. ReadResult(s, t, kb)
    BY <1>4, <1>7, ReadOn DEF IsReadTo
  <1> QED
    BY <1>4, <1>5, <1>6, <1>7, <1>8 DEF IsReadTo

\* The read callback.
LEMMA ReadNotifyIs ==
  ASSUME TypeInv, UsersInv, NEW e \in DOMAIN streams, ReadNotify(e),
         ToldOk(streams[e]), KeepsOk(streams[e], User(e).recv)
  PROVE  /\ streams[e].open /\ Running /\ pc = "idle"
         /\ \E t \in StreamRec : \E recv \in Seq(Nat) :
              /\ Replaces(e, t, [User(e) EXCEPT !.recv = recv])
              /\ ReadResult(streams[e], t, recv)
         /\ process' \in {process, "closing"}
         /\ UNCHANGED <<cfg, queue, msgs, held, pc, active, headers>>
  <1>1. PICK s : s = streams[e]
    OBVIOUS
  <1>2. PICK u : u = User(e)
    OBVIOUS
  <1>3. /\ s.open /\ Running /\ pc = "idle" /\ s.flags # {} /\ s.final = 0
        /\ UNCHANGED <<cfg, queue, msgs, held, pc, active, headers>>
    BY <1>1 DEF ReadNotify, Called
  <1>4. /\ s \in StreamRec /\ s.user \in DOMAIN us /\ u \in UserRec /\ us[s.user] = u
    BY <1>1, <1>2, <1>3, ObjectOf DEF User
  <1>5. ToldOk(s) /\ KeepsOk(s, u.recv)
    BY <1>1, <1>2
  <1>6. /\ u.recv \in Seq(Nat) /\ s.failed = FALSE
        /\ Counts(s.told, u.recv, s.read) /\ (cfg.alpn = "HQ" => u.recv = <<>>)
    BY <1>3, <1>4, <1>5 DEF StreamRec, UserRec, ToldOk, KeepsOk
  <1>7. PICK v : v = u.recv
    OBVIOUS
  <1>8. \E t \in StreamRec : \E recv \in Seq(Nat) :
           /\ streams' = [streams EXCEPT ![e] = t]
           /\ us' = [us EXCEPT ![s.user].recv = recv] \/ (UNCHANGED us /\ recv = v)
           /\ ReadResult(s, t, recv)
    <2>1. streams[e] = s /\ v \in Seq(Nat) /\ User(e).recv = v /\ Counts(s.told, v, s.read)
      BY <1>1, <1>2, <1>6, <1>7
    <2>2. CASE cfg.alpn = "H3" /\ H3Read(e)
      BY <1>3, <1>4, <1>5, <1>6, <2>1, <2>2, H3ReadIs
    <2>3. CASE cfg.alpn = "HQ" /\ HQRead(e)
      <3>1. User(e).recv = <<>> /\ Counts(s.told, <<>>, s.read)
        BY <1>6, <1>7, <2>1, <2>3
      <3>2. \E t \in StreamRec :
              /\ streams' = [streams EXCEPT ![e] = t]
              /\ us' = [us EXCEPT ![s.user].recv = <<>>]
              /\ ReadResult(s, t, <<>>)
        BY <1>3, <1>4, <1>5, <1>6, <2>1, <2>3, <3>1, HQReadIs
      <3>3. <<>> \in Seq(Nat)
        OBVIOUS
      <3> QED
        BY <3>2, <3>3
    <2>4. CASE ReadFails(e)
      <3>1. \E t \in StreamRec : \E recv \in Seq(Nat) :
              /\ streams' = [streams EXCEPT ![e] = t]
              /\ us' = [us EXCEPT ![s.user].recv = recv]
              /\ ReadResult(s, t, recv)
        BY <1>3, <1>4, <1>5, <2>1, <2>4, ReadFailsIs
      <3> QED
        BY <3>1
    <2> QED
      BY <2>2, <2>3, <2>4 DEF ReadNotify
  <1>9. PICK t \in StreamRec, recv \in Seq(Nat) :
           /\ streams' = [streams EXCEPT ![e] = t]
           /\ us' = [us EXCEPT ![s.user].recv = recv] \/ (UNCHANGED us /\ recv = v)
           /\ ReadResult(s, t, recv)
    BY <1>8
  <1>10. Replaces(e, t, [u EXCEPT !.recv = recv])
    <2>1. CASE us' = [us EXCEPT ![s.user].recv = recv]
      BY <1>1, <1>4, <1>9, <2>1 DEF Replaces
    <2>2. CASE UNCHANGED us /\ recv = v
      <3>1. [u EXCEPT !.recv = v] = u
        BY <1>4, <1>7 DEF UserRec
      <3> QED
        BY <1>1, <1>4, <1>9, <2>2, <3>1 DEF Replaces
    <2> QED
      BY <1>9, <2>1, <2>2
  <1>11. process' \in {process, "closing"}
    BY DEF ReadNotify, H3Read, HQRead, ReadFails, Finish
  <1>12. Replaces(e, t, [User(e) EXCEPT !.recv = recv]) /\ ReadResult(streams[e], t, recv)
    BY <1>1, <1>2, <1>9, <1>10
  <1> QED
    BY <1>1, <1>3, <1>11, <1>12

-----------------------------------------------------------------------------
(* The steps keep the invariant.                                             *)

\* What is read of the other streams is kept by other objects.
LEMMA RecvReplaces ==
  ASSUME TypeInv, UsersInv, RecvInv, cfg' = cfg, process # "freed",
         NEW e \in DOMAIN streams, streams[e].open,
         NEW t \in StreamRec, t.user = streams[e].user,
         NEW v, Replaces(e, t, v), ToldOk(t), KeepsOk(t, v.recv)
  PROVE  RecvInv'
  <1>1. /\ Len(streams') = Len(streams) /\ DOMAIN streams = 1..Len(streams)
        /\ Len(streams) \in Nat
        /\ streams'[e] = t /\ \A d \in 1..Len(streams) : d # e => streams'[d] = streams[d]
    BY ReplaceFacts DEF Replaces, TypeInv
  <1>2. Shared' = Shared /\ cfg' = cfg
    BY DEF Shared
  <1>3. streams' # <<>>
    BY <1>1
  <1>4. ASSUME NEW d \in 1..Len(streams)
        PROVE  /\ ToldOk(streams'[d])
               /\ streams'[d].open => KeepsOk(streams'[d], us'[streams'[d].user].recv)
    <2>1. CASE d = e
      BY <1>1, <2>1 DEF Replaces
    <2>2. CASE d # e
      <3>1. streams'[d] = streams[d] /\ ToldOk(streams[d])
        BY <1>1, <2>2 DEF RecvInv
      <3>2. ASSUME streams[d].open PROVE us'[streams[d].user] = us[streams[d].user]
        <4>1. ~Shared
          BY <1>1, <2>2 DEF UsersInv
        <4>2. streams[d].user = d /\ streams[e].user = e /\ d \in DOMAIN us
          BY <1>1, <3>2, <4>1 DEF UsersInv
        <4> QED
          BY <2>2, <4>2 DEF Replaces
      <3> QED
        BY <3>1, <3>2 DEF RecvInv
    <2> QED
      BY <2>1, <2>2
  <1>5. \A d \in 1..Len(streams') :
           /\ ToldOk(streams[d])'
           /\ (streams[d].open => KeepsOk(streams[d], us[streams[d].user].recv))'
    BY <1>1, <1>2, <1>4 DEF ToldOk, KeepsOk
  <1> QED
    BY <1>2, <1>3, <1>5 DEF RecvInv

\* An action on an open stream keeps the invariant.
LEMMA ReplacesStep ==
  ASSUME BaseInv, Running, process' \in {process, "closing"},
         UNCHANGED <<cfg, queue, msgs, held, pc, active, headers>>,
         NEW e \in DOMAIN streams, streams[e].open,
         NEW t \in StreamRec, t.user = streams[e].user, t.open,
         NEW v \in UserRec, v.request = User(e).request,
         Replaces(e, t, v), ToldOk(t), KeepsOk(t, v.recv)
  PROVE  BaseInv'
  <1>1. process # "freed" /\ process' \in {"up", "closing"} /\ active' \in {active, -1}
    BY DEF Running
  <1>2. TypeInv /\ UsersInv /\ RecvInv
    BY DEF BaseInv
  <1>3. /\ streams' \in Seq(StreamRec) /\ Len(streams') = Len(streams)
        /\ \A u \in DOMAIN us' : us'[u] \in UserRec
        /\ UsersInv'
    BY <1>1, <1>2, ReplacesKeeps DEF User
  <1>4. RecvInv'
    BY <1>1, <1>2, RecvReplaces
  <1>5. TypeInv'
    BY <1>1, <1>2, <1>3 DEF TypeInv, Replaces
  <1>6. ListInv' /\ HeldInv'
    BY DEF BaseInv, ListInv, HeldInv
  <1>7. StepInv'
    BY <1>3 DEF BaseInv, StepInv, Shared, Running
  <1> QED
    BY <1>3, <1>4, <1>5, <1>6, <1>7 DEF BaseInv

\* What the read callbacks did stays true when something is sent.
LEMMA SameKeeps ==
  ASSUME NEW s, NEW t, SameStream(s, t), NEW recv
  PROVE  (ToldOk(s) => ToldOk(t)) /\ (KeepsOk(s, recv) => KeepsOk(t, recv))
  BY DEF SameStream, ToldOk, KeepsOk

\* client_h3_request_write_notify, xqc_client_stream_write_notify.
LEMMA WriteNotifyBase ==
  ASSUME BaseInv, NEW e \in DOMAIN streams, WriteNotify(e)
  PROVE  BaseInv'
  <1> DEFINE s == [streams[e] EXCEPT !.blocked = FALSE]
             u == User(e)
  <1>1. TypeInv /\ UsersInv /\ RecvInv /\ cfg \in Configs /\ headers \in HeadersRec
    BY DEF BaseInv, TypeInv
  <1>2. /\ streams[e].open /\ Running
        /\ SameStream(streams[e], s)
        /\ UNCHANGED <<cfg, queue, msgs, held, pc, active, headers, process>>
    BY <1>1, WriteNotifyIs
  <1>3. PICK r \in Content(u, s, headers) : Replaces(e, r.s, r.u)
    BY <1>1, WriteNotifyIs
  <1>4. u \in UserRec /\ e \in 1..Len(streams)
    BY <1>1, <1>2, ObjectOf
  <1>5. s \in StreamRec
    BY <1>2 DEF SameStream
  <1> HIDE DEF s, u
  <1>6. SameUser(u, r.u) /\ SameStream(s, r.s)
    BY <1>1, <1>4, <1>5, ContentIs
  <1>7. SameStream(streams[e], r.s) /\ r.s \in StreamRec
    BY <1>2, <1>6 DEF SameStream
  <1>8. ToldOk(r.s) /\ KeepsOk(r.s, r.u.recv)
    <2>1. ToldOk(streams[e]) /\ KeepsOk(streams[e], u.recv)
      BY <1>1, <1>2, <1>4 DEF RecvInv, u, User
    <2>2. r.u.recv = u.recv
      BY <1>6 DEF SameUser
    <2> QED
      BY <1>7, <2>1, <2>2, SameKeeps
  <1>9. r.u \in UserRec /\ r.u.request = User(e).request
        /\ r.s.user = streams[e].user /\ r.s.open
    BY <1>2, <1>6, <1>7 DEF SameUser, SameStream, u
  <1> QED
    BY <1>2, <1>3, <1>7, <1>8, <1>9, ReplacesStep

\* The peer answers, or resets a stream.
LEMMA PeerBase ==
  ASSUME BaseInv, NEW e \in DOMAIN streams, Peer(e)
  PROVE  BaseInv'
  <1>1. TypeInv /\ UsersInv /\ RecvInv
    BY DEF BaseInv
  <1>2. /\ streams[e].open /\ Running /\ ~streams[e].finIn /\ ~streams[e].failed
        /\ UNCHANGED <<cfg, queue, msgs, held, pc, active, headers, process>>
    BY <1>1, PeerIs
  <1>3. PICK t \in StreamRec :
              /\ Replaces(e, t, User(e))
              /\ t.user = streams[e].user /\ t.open /\ t.sent = streams[e].sent
              /\ t.fin = streams[e].fin /\ t.final = streams[e].final
              /\ t.read = streams[e].read /\ t.told = streams[e].told /\ ~t.failed
              /\ t.arrived >= streams[e].arrived
    BY <1>1, PeerIs
  <1>4. User(e) \in UserRec /\ e \in 1..Len(streams) /\ streams[e] \in StreamRec
    BY <1>1, <1>2, ObjectOf
  <1>5. ToldOk(streams[e]) /\ KeepsOk(streams[e], User(e).recv)
    BY <1>1, <1>2, <1>4 DEF RecvInv, User
  <1>6. ToldOk(t)
    <2>1. streams[e].final # 1 /\ streams[e].read \in Nat /\ streams[e].arrived \in Nat
          /\ t.arrived \in Nat /\ streams[e].read <= streams[e].arrived
      BY <1>2, <1>4, <1>5 DEF ToldOk, StreamRec
    <2> QED
      BY <1>3, <1>5, <2>1 DEF ToldOk
  <1>7. KeepsOk(t, User(e).recv)
    BY <1>2, <1>3, <1>5 DEF KeepsOk
  <1> QED
    BY <1>2, <1>3, <1>4, <1>6, <1>7, ReplacesStep

\* client_h3_request_read_notify, xqc_client_stream_read_notify.
LEMMA ReadNotifyBase ==
  ASSUME BaseInv, NEW e \in DOMAIN streams, ReadNotify(e)
  PROVE  BaseInv'
  <1>1. TypeInv /\ UsersInv /\ RecvInv
    BY DEF BaseInv
  <1>2. streams[e].open
    BY DEF ReadNotify, Called
  <1>3. User(e) \in UserRec /\ e \in 1..Len(streams) /\ streams[e] \in StreamRec
    BY <1>1, <1>2, ObjectOf
  <1>4. ToldOk(streams[e]) /\ KeepsOk(streams[e], User(e).recv)
    BY <1>1, <1>2, <1>3 DEF RecvInv, User
  <1>5. /\ Running /\ process' \in {process, "closing"}
        /\ UNCHANGED <<cfg, queue, msgs, held, pc, active, headers>>
    BY <1>1, <1>4, ReadNotifyIs
  <1>6. PICK t \in StreamRec, recv \in Seq(Nat) :
              /\ Replaces(e, t, [User(e) EXCEPT !.recv = recv])
              /\ ReadResult(streams[e], t, recv)
    BY <1>1, <1>4, ReadNotifyIs
  <1>7. PICK v : v = [User(e) EXCEPT !.recv = recv]
    OBVIOUS
  <1>8. v \in UserRec /\ v.request = User(e).request /\ v.recv = recv
    BY <1>3, <1>7 DEF UserRec
  <1>9. t.user = streams[e].user /\ t.open /\ ToldOk(t) /\ KeepsOk(t, v.recv)
    BY <1>2, <1>6, <1>8 DEF ReadResult
  <1> QED
    BY <1>2, <1>5, <1>6, <1>7, <1>8, <1>9, ReplacesStep

-----------------------------------------------------------------------------
(* The send functions of H3 and HQ requests.                                 *)

\* A stream that was just opened.
LEMMA OpenStreamIs ==
  ASSUME NEW t \in Nat
  PROVE  /\ OpenStream(t) \in StreamRec /\ OpenStream(t).user = t /\ OpenStream(t).open
         /\ ToldOk(OpenStream(t)) /\ KeepsOk(OpenStream(t), <<>>)
         /\ OpenStream(t).sent = <<>> /\ OpenStream(t).fin = FALSE
         /\ OpenStream(t).final = 0
  <1> DEFINE s == OpenStream(t)
  <1>1. /\ s.user = t /\ s.open = TRUE /\ s.sent = <<>> /\ s.fin = FALSE /\ s.blocked = FALSE
        /\ s.begun = FALSE /\ s.flags = {} /\ s.arrived = 0 /\ s.read = 0 /\ s.finIn = FALSE
        /\ s.failed = FALSE /\ s.told = <<>> /\ s.final = 0
    BY DEF OpenStream
  <1>2. s \in StreamRec
    BY DEF OpenStream, StreamRec
  <1> HIDE DEF s
  <1>3. <<>> \in Seq(Nat) /\ Len(<<>>) = 0
    OBVIOUS
  <1>4. ToldOk(s)
    BY <1>1, <1>3 DEF ToldOk
  <1>5. Counts(<<>>, <<>>, 0)
    BY <1>3 DEF Counts
  <1>6. KeepsOk(s, <<>>)
    BY <1>1, <1>5 DEF KeepsOk
  <1> QED
    BY <1>1, <1>2, <1>4, <1>6 DEF s

\* The outcomes of sending a request: a stream is opened, or it cannot be
\* created, or the one that is kept is used, or it was freed.
Opened(u, t, hs, r) ==
  /\ NeedsStream(u)
  /\ \E x \in Content([u EXCEPT !.request = Len(streams) + 1], OpenStream(t), hs) :
       r.streams = Append(streams, x.s) /\ r.u = x.u /\ r.ret = x.ret
NotCreated(u, r) ==
  NeedsStream(u) /\ r.streams = streams /\ r.u = [u EXCEPT !.request = 0] /\ r.ret = -1
Continued(u, hs, r) ==
  /\ ~NeedsStream(u) /\ streams[u.request].open
  /\ \E x \in Content(u, streams[u.request], hs) :
       /\ r.streams = [streams EXCEPT ![u.request] = x.s]
       /\ r.u = x.u /\ r.ret = x.ret
NotThere(u, r) ==
  /\ ~NeedsStream(u) /\ ~streams[u.request].open
  /\ r.streams = streams /\ r.u \in {u, Reset(u)} /\ r.ret \in {-1, 0}

\* client_send_h3_requests, client_send_hq_requests: the outcomes of a request.
LEMMA RequestsAre ==
  ASSUME NEW u, NEW t, NEW hs, NEW r \in Requests(u, t, hs)
  PROVE  Opened(u, t, hs, r) \/ NotCreated(u, r) \/ Continued(u, hs, r) \/ NotThere(u, r)
  <1>1. CASE NeedsStream(u)
    <2>1. CASE r \in {[streams |-> Append(streams, x.s), u |-> x.u, ret |-> x.ret] :
                    x \in Content([u EXCEPT !.request = Len(streams) + 1], OpenStream(t), hs)}
      <3>1. PICK x \in Content([u EXCEPT !.request = Len(streams) + 1], OpenStream(t), hs) :
               r = [streams |-> Append(streams, x.s), u |-> x.u, ret |-> x.ret]
        BY <2>1, Zenon
      <3>2. r.streams = Append(streams, x.s) /\ r.u = x.u /\ r.ret = x.ret
        BY <3>1
      <3> QED
        BY <1>1, <3>2 DEF Opened
    <2>2. CASE r = [streams |-> streams, u |-> [u EXCEPT !.request = 0], ret |-> -1]
      <3>1. r.streams = streams /\ r.u = [u EXCEPT !.request = 0] /\ r.ret = -1
        BY <2>2
      <3> QED
        BY <1>1, <3>1 DEF NotCreated
    <2> QED
      BY <1>1, <2>1, <2>2 DEF Requests
  <1>2. CASE ~NeedsStream(u) /\ streams[u.request].open
    <2>1. r \in {[streams |-> [streams EXCEPT ![u.request] = x.s], u |-> x.u, ret |-> x.ret] :
                   x \in Content(u, streams[u.request], hs)}
      BY <1>2 DEF Requests
    <2>2. PICK x \in Content(u, streams[u.request], hs) :
             r = [streams |-> [streams EXCEPT ![u.request] = x.s], u |-> x.u, ret |-> x.ret]
      BY <2>1, Zenon
    <2>3. r.streams = [streams EXCEPT ![u.request] = x.s] /\ r.u = x.u /\ r.ret = x.ret
      BY <2>2
    <2> QED
      BY <1>2, <2>3 DEF Continued
  <1>3. CASE ~NeedsStream(u) /\ ~streams[u.request].open
    <2>1. PICK ret \in {-1, 0} :
             r = [streams |-> streams, u |-> IF ret < 0 THEN u ELSE Reset(u), ret |-> ret]
      BY <1>3 DEF Requests
    <2>2. r.streams = streams /\ r.u \in {u, Reset(u)} /\ r.ret \in {-1, 0}
      BY <2>1
    <2> QED
      BY <1>3, <2>2 DEF NotThere
  <1> QED
    BY <1>1, <1>2, <1>3

\* The object u is that of args, or a new one for a new stream.
ObjectFor(u, t) ==
  /\ u \in UserRec
  /\ t = IF Shared THEN 0 ELSE Len(streams) + 1
  /\ Shared => u.request = us[0].request /\ u.recv = us[0].recv
  /\ ~Shared => u.request = 0 /\ u.recv = <<>>

\* A stream is created for a new object, or the first time.
LEMMA NeedsStreamIs ==
  ASSUME TypeInv, UsersInv, process # "freed", NEW u, NEW t, ObjectFor(u, t),
         cfg.type = "SHORT" => streams = <<>>
  PROVE  /\ NeedsStream(u) => (Shared => streams = <<>>)
         /\ ~NeedsStream(u) => /\ Shared /\ u.request = 1 /\ Len(streams) = 1
                               /\ streams # <<>> /\ 1 \in DOMAIN streams
                               /\ Reused /\ streams[1].user = 0
  <1>1. /\ cfg.alpn \in {"H3", "HQ"} /\ cfg.finish \in BOOLEAN
        /\ Len(streams) \in Nat /\ DOMAIN streams = 1..Len(streams)
        /\ streams \in Seq(StreamRec) /\ u.request \in Nat
    BY DEF TypeInv, Configs, ObjectFor, UserRec
  <1>2. Shared => Len(streams) <= 1 /\ u.request = Len(streams)
    BY DEF UsersInv, ObjectFor
  <1>3. Len(streams) = 0 => streams = <<>>
    BY <1>1
  <1>4. CASE NeedsStream(u)
    <2>1. Shared => streams = <<>>
      BY <1>1, <1>2, <1>3, <1>4 DEF NeedsStream, Shared
    <2> QED
      BY <1>4, <2>1
  <1>5. CASE ~NeedsStream(u)
    <2>1. Shared /\ u.request # 0 /\ Reused
      BY <1>1, <1>5 DEF NeedsStream, Shared, Reused
    <2>2. Len(streams) = 1 /\ u.request = 1 /\ streams # <<>> /\ 1 \in DOMAIN streams
      BY <1>1, <1>2, <2>1
    <2>3. streams[1].user = 0
      BY <1>1, <2>1, <2>2 DEF UsersInv
    <2> QED
      BY <1>5, <2>1, <2>2, <2>3
  <1> QED
    BY <1>4, <1>5

\* After a request was handled, whatever it did.
LEMMA RequestsKeep ==
  ASSUME TypeInv, UsersInv, RecvInv, Running, process' = process, cfg' = cfg,
         NEW u, NEW t, ObjectFor(u, t), cfg.type = "SHORT" => streams = <<>>,
         NEW hs \in HeadersRec, NEW r \in Requests(u, t, hs), Handled(t, r)
  PROVE  /\ streams' \in Seq(StreamRec)
         /\ DOMAIN us' \subseteq Nat /\ \A v \in DOMAIN us' : us'[v] \in UserRec
         /\ UsersInv' /\ RecvInv' /\ active' \in {1, -1} /\ (active' > 0 => active > 0)
         /\ active' > 0 /\ ~Shared => Len(streams') = Len(streams) + 1
  <1> DEFINE n == Len(streams)
  <1>1. /\ process # "freed" /\ cfg \in Configs /\ active \in {1, -1}
        /\ streams \in Seq(StreamRec) /\ n \in Nat /\ DOMAIN streams = 1..n
        /\ 0 \in DOMAIN us /\ DOMAIN us \subseteq Nat /\ \A v \in DOMAIN us : us[v] \in UserRec
    BY DEF Running, TypeInv, UsersInv
  <1>2. /\ u \in UserRec /\ t = (IF Shared THEN 0 ELSE n + 1) /\ t \in Nat
        /\ Shared => u.request = us[0].request /\ u.recv = us[0].recv
        /\ ~Shared => u.request = 0 /\ u.recv = <<>>
    BY <1>1 DEF ObjectFor
  <1>3. /\ streams' = r.streams
        /\ DOMAIN us' = DOMAIN us \cup {t} /\ us'[t] = r.u
        /\ \A v \in DOMAIN us : v # t => us'[v] = us[v]
        /\ active' = IF r.ret < 0 THEN -1 ELSE active
    BY DEF Handled
  <1>4. active' \in {active, -1} /\ active' \in {1, -1} /\ (active' > 0 => active > 0)
    BY <1>1, <1>3
  <1>5. Shared' = Shared
    BY DEF Shared
  <1>6. ASSUME r.u \in UserRec
        PROVE  DOMAIN us' \subseteq Nat /\ \A v \in DOMAIN us' : us'[v] \in UserRec
    BY <1>1, <1>2, <1>3, <1>6
  <1>7. Shared => DOMAIN us' = DOMAIN us /\ t = 0
    BY <1>1, <1>2, <1>3
  <1>8. CASE Opened(u, t, hs, r)
    <2> DEFINE w == [u EXCEPT !.request = n + 1]
               o == OpenStream(t)
    <2>1. PICK x \in Content(w, o, hs) : r.streams = Append(streams, x.s) /\ r.u = x.u
      BY <1>8 DEF Opened
    <2>2. w \in UserRec /\ w.request = n + 1 /\ w.recv = u.recv
      <3> DEFINE k == n + 1
      <3>1. k \in Nat
        BY <1>1
      <3> HIDE DEF k
      <3>2. [u EXCEPT !.request = k] \in UserRec /\ [u EXCEPT !.request = k].request = k
            /\ [u EXCEPT !.request = k].recv = u.recv
        BY <1>2, <3>1 DEF UserRec
      <3> QED
        BY <3>2 DEF k
    <2>3. o \in StreamRec /\ o.user = t /\ o.open /\ ToldOk(o) /\ KeepsOk(o, <<>>)
      BY <1>2, OpenStreamIs
    <2> HIDE DEF w, o
    <2>4. SameUser(w, x.u) /\ SameStream(o, x.s)
      BY <1>1, <2>2, <2>3, ContentIs
    <2>5. /\ x.s \in StreamRec /\ x.s.user = t /\ x.s.open /\ x.u \in UserRec
          /\ x.u.request = n + 1 /\ x.u.recv = u.recv
          /\ ToldOk(x.s) /\ KeepsOk(x.s, <<>>)
      BY <2>2, <2>3, <2>4, SameKeeps DEF SameUser, SameStream
    <2>6. Shared => streams = <<>>
      BY <1>1, <1>8, NeedsStreamIs DEF Opened
    <2>7. u.recv = <<>>
      BY <1>1, <1>2, <2>6 DEF RecvInv
    <2>8. streams' = Append(streams, x.s) /\ us'[t].request = n + 1
      BY <1>3, <2>1, <2>5
    <2>9. UsersInv'
      <3>1. PICK z : z = x.s
        OBVIOUS
      <3>2. z \in StreamRec /\ z.user = t /\ z.open /\ streams' = Append(streams, z)
        BY <2>5, <2>8, <3>1
      <3> QED
        BY <1>1, <1>2, <1>3, <1>4, <2>6, <2>8, <3>2, UsersOpen
    <2>10. /\ streams' \in Seq(StreamRec) /\ Len(streams') = n + 1 /\ streams'[n + 1] = x.s
           /\ \A e \in 1..n : streams'[e] = streams[e]
      BY <1>1, <2>5, <2>8, AppendFacts
    <2>11. RecvInv'
      <3>1. streams' # <<>>
        BY <2>10, <1>1
      <3>2. ASSUME NEW e \in 1..(n + 1)
            PROVE  /\ ToldOk(streams'[e])
                   /\ streams'[e].open => KeepsOk(streams'[e], us'[streams'[e].user].recv)
        <4>1. CASE e = n + 1
          BY <1>3, <2>1, <2>5, <2>7, <2>10, <4>1
        <4>2. CASE e # n + 1
          <5>1. e \in 1..n /\ streams'[e] = streams[e] /\ ~Shared
            BY <1>1, <2>6, <2>10, <4>2
          <5>2. streams[e].open => streams[e].user = e /\ e \in DOMAIN us /\ e # t
            BY <1>1, <1>2, <4>2, <5>1 DEF UsersInv
          <5> QED
            BY <1>3, <5>1, <5>2 DEF RecvInv
        <4> QED
          BY <4>1, <4>2
      <3>3. \A e \in 1..Len(streams') :
               /\ ToldOk(streams[e])'
               /\ (streams[e].open => KeepsOk(streams[e], us[streams[e].user].recv))'
        BY <2>10, <3>2 DEF ToldOk, KeepsOk
      <3> QED
        BY <1>5, <3>1, <3>3 DEF RecvInv
    <2> QED
      BY <1>4, <1>6, <2>1, <2>5, <2>9, <2>10, <2>11
  <1>9. CASE NotCreated(u, r)
    <2>1. /\ r.u = [u EXCEPT !.request = 0] /\ streams' = streams /\ active' = -1
          /\ Shared => streams = <<>>
      BY <1>1, <1>3, <1>9, NeedsStreamIs DEF NotCreated
    <2>2. r.u \in UserRec /\ r.u.request = 0 /\ r.u.recv = u.recv
      BY <1>2, <2>1 DEF UserRec
    <2>3. UsersInv'
      <3>1. Shared => /\ Len(streams) = 0 /\ DOMAIN us' \subseteq {0}
                      /\ us'[0].request = Len(streams)
        BY <1>2, <1>3, <1>7, <2>1, <2>2 DEF UsersInv
      <3>2. ASSUME NEW e \in 1..n
            PROVE  /\ streams[e].user = IF Shared THEN 0 ELSE e
                   /\ streams[e].open => /\ streams[e].user \in DOMAIN us'
                                         /\ us'[streams[e].user].request = e
        <4>1. ~Shared /\ e # t /\ streams[e].user = e
          BY <1>1, <1>2, <3>1 DEF UsersInv
        <4> QED
          BY <1>3, <4>1 DEF UsersInv
      <3>3. ASSUME NEW v \in DOMAIN us' \ {0}
            PROVE  \/ v \in 1..n /\ streams[v].open
                   \/ us'[v].request = 0 /\ active' < 0
        <4>1. active' < 0
          BY <2>1
        <4>2. CASE v = t
          BY <1>3, <2>2, <4>1, <4>2
        <4>3. CASE v # t
          BY <1>3, <4>1, <4>3 DEF UsersInv
        <4> QED
          BY <4>2, <4>3
      <3> QED
        BY <1>1, <1>3, <1>5, <2>1, <3>1, <3>2, <3>3 DEF UsersInv
    <2>4. RecvInv'
      <3>1. Shared => us'[0].recv = us[0].recv
        BY <1>2, <1>3, <1>7, <2>2
      <3>2. ASSUME NEW e \in 1..n, streams[e].open
            PROVE  us'[streams[e].user].recv = us[streams[e].user].recv
        <4>1. Shared => streams[e].user = 0
          BY DEF UsersInv
        <4>2. ~Shared => streams[e].user = e /\ e # t /\ e \in DOMAIN us
          BY <1>1, <1>2, <3>2 DEF UsersInv
        <4> QED
          BY <1>3, <3>1, <4>1, <4>2
      <3>3. \A e \in 1..Len(streams') :
               /\ ToldOk(streams[e])'
               /\ (streams[e].open => KeepsOk(streams[e], us[streams[e].user].recv))'
        BY <2>1, <3>2 DEF RecvInv, ToldOk, KeepsOk
      <3> QED
        BY <1>5, <2>1, <3>1, <3>3 DEF RecvInv
    <2> QED
      BY <1>1, <1>4, <1>6, <2>1, <2>2, <2>3, <2>4
  <1>10. CASE Continued(u, hs, r)
    <2>1. /\ Shared /\ u.request = 1 /\ 1 \in DOMAIN streams /\ streams[1].user = 0
          /\ streams[1].open
      BY <1>1, <1>10, NeedsStreamIs DEF Continued
    <2>2. PICK x \in Content(u, streams[1], hs) :
             r.streams = [streams EXCEPT ![1] = x.s] /\ r.u = x.u
      BY <1>10, <2>1 DEF Continued
    <2>3. streams[1] \in StreamRec /\ 1 \in 1..n
      BY <1>1, <2>1
    <2>4. SameUser(u, x.u) /\ SameStream(streams[1], x.s)
      <3>1. PICK s : s = streams[1]
        OBVIOUS
      <3>2. s \in StreamRec /\ x \in Content(u, s, hs)
        BY <2>2, <2>3, <3>1
      <3>3. SameUser(u, x.u) /\ SameStream(s, x.s)
        BY <1>1, <1>2, <3>2, ContentIs
      <3> QED
        BY <3>1, <3>3
    <2>5. Replaces(1, x.s, x.u)
      BY <1>1, <1>2, <1>3, <1>7, <2>1, <2>2 DEF Replaces
    <2>6. /\ x.s \in StreamRec /\ x.s.user = streams[1].user /\ x.s.open
          /\ x.u \in UserRec /\ x.u.request = us[streams[1].user].request
          /\ x.u.recv = us[0].recv
      BY <1>2, <2>1, <2>4 DEF SameUser, SameStream
    <2>7. ToldOk(x.s) /\ KeepsOk(x.s, x.u.recv)
      <3>1. ToldOk(streams[1]) /\ KeepsOk(streams[1], us[0].recv)
        BY <2>1, <2>3 DEF RecvInv
      <3> QED
        BY <2>4, <2>6, <3>1, SameKeeps
    <2>8. /\ streams' \in Seq(StreamRec) /\ Len(streams') = n /\ UsersInv'
      BY <1>1, <1>4, <2>1, <2>5, <2>6, ReplacesKeeps
    <2>9. RecvInv'
      BY <1>1, <2>1, <2>5, <2>6, <2>7, RecvReplaces
    <2> QED
      BY <1>4, <1>6, <2>1, <2>2, <2>6, <2>8, <2>9
  <1>11. CASE NotThere(u, r)
    <2>1. /\ Shared /\ u.request = 1 /\ 1 \in DOMAIN streams /\ n = 1
          /\ streams # <<>> /\ streams' = streams
      BY <1>1, <1>3, <1>11, NeedsStreamIs DEF NotThere
    <2>2. r.u \in UserRec /\ r.u.request = u.request /\ r.u.recv = u.recv
      BY <1>2, <1>11 DEF NotThere, UserRec, Reset
    <2>3. /\ \A v \in DOMAIN us : us'[v].request = us[v].request /\ us'[v].recv = us[v].recv
          /\ DOMAIN us' = DOMAIN us
      BY <1>2, <1>3, <1>7, <2>1, <2>2
    <2>4. UsersInv'
      BY <1>1, <1>4, <2>1, <2>3, UsersStay
    <2>5. RecvInv'
      <3>1. \A e \in 1..Len(streams') :
               /\ ToldOk(streams[e])'
               /\ (streams[e].open => KeepsOk(streams[e], us[streams[e].user].recv))'
        <4>1. \A e \in 1..n : streams[e].open => streams[e].user \in DOMAIN us
          BY DEF UsersInv
        <4> QED
          BY <2>1, <2>3, <4>1 DEF RecvInv, ToldOk, KeepsOk
      <3> QED
        BY <2>1, <3>1 DEF RecvInv
    <2>6. /\ streams' \in Seq(StreamRec) /\ DOMAIN us' \subseteq Nat
          /\ \A v \in DOMAIN us' : us'[v] \in UserRec
      BY <1>1, <1>6, <2>1, <2>2
    <2> QED
      BY <1>4, <2>1, <2>4, <2>5, <2>6
  <1> QED
    BY <1>8, <1>9, <1>10, <1>11, RequestsAre

\* The object for a message is that of args or a new one.
LEMMA PreparedIs ==
  ASSUME TypeInv, UsersInv, process # "freed", NEW m \in 1..Len(msgs)
  PROVE  /\ ObjectFor(Prepared(m), Target)
         /\ Prepared(m).body = m /\ Prepared(m).len = msgs[m].len
         /\ Prepared(m).offset = IF Shared THEN us[0].offset ELSE 0
  <1> DEFINE old == IF Shared THEN us[0] ELSE NewStream
             l == msgs[m].len
  <1>1. m \in Nat /\ l \in Nat
    <2>1. msgs[m] \in MsgRec
      BY DEF TypeInv
    <2> QED
      BY <2>1 DEF MsgRec
  <1>2. old \in UserRec
    BY DEF TypeInv, UsersInv, NewStream, UserRec
  <1>3. Prepared(m) = [old EXCEPT !.body = m, !.len = l]
    BY DEF Prepared
  <1>4. /\ ~Shared => old.request = 0 /\ old.recv = <<>> /\ old.offset = 0
        /\ Shared => old = us[0]
    BY DEF NewStream
  <1> HIDE DEF old, l
  <1>5. /\ Prepared(m) \in UserRec /\ Prepared(m).body = m /\ Prepared(m).len = l
        /\ Prepared(m).request = old.request /\ Prepared(m).recv = old.recv
        /\ Prepared(m).offset = old.offset
    BY <1>1, <1>2, <1>3 DEF UserRec
  <1> QED
    BY <1>4, <1>5 DEF ObjectFor, Target, l

\* The header section of a message.
LEMMA HeadersForIs ==
  ASSUME TypeInv, NEW m \in Nat
  PROVE  HeadersFor(m) \in HeadersRec
  BY DEF TypeInv, HeadersFor, HeadersRec

\* client_long_send_requests, one iteration of its loop.
LEMMA SendNextBase ==
  ASSUME BaseInv, SendNext
  PROVE  BaseInv'
  <1> DEFINE m == first_message(queue)
             hs == HeadersFor(m)
             n == Len(msgs)
             nb == queue.nb_messages
  <1>1. /\ TypeInv /\ UsersInv /\ RecvInv /\ ListInv /\ HeldInv /\ StepInv
        /\ n \in Nat /\ NodesOf(queue, Nat) /\ Numbered(queue, n)
        /\ Len(streams) \in Nat
    BY DEF BaseInv, TypeInv, ListInv
  <1>2. /\ Running /\ process # "freed" /\ pc = "drain" /\ ~msg_empty(queue) /\ active > 0
        /\ queue' = queue_get(queue) /\ held' = held \ {m}
        /\ headers' \in {hs, [hs EXCEPT !.live = FALSE]}
        /\ UNCHANGED <<cfg, msgs, pc, process>>
    BY DEF SendNext, Running
  <1>3. PICK r \in Requests(Prepared(m), Target, hs) : Handled(Target, r)
    BY DEF SendNext
  <1>4. /\ nb \in 0..n /\ Queued(queue) = (n - nb + 1)..n /\ nb # 0 /\ m = n - nb + 1
    BY <1>1, <1>2, NumberedFacts
  <1>5. m \in 1..n /\ m \in Nat
    BY <1>1, <1>4
  <1> HIDE DEF m
  <1>6. hs \in HeadersRec
    BY <1>1, <1>5, HeadersForIs
  <1> HIDE DEF hs
  <1>7. ObjectFor(Prepared(m), Target)
    BY <1>1, <1>2, <1>5, PreparedIs
  <1>8. cfg.type # "SHORT"
    BY <1>1, <1>2 DEF StepInv
  <1>9. /\ streams' \in Seq(StreamRec)
        /\ DOMAIN us' \subseteq Nat /\ \A v \in DOMAIN us' : us'[v] \in UserRec
        /\ UsersInv' /\ RecvInv' /\ active' \in {1, -1}
        /\ active' > 0 /\ ~Shared => Len(streams') = Len(streams) + 1
    <2>1. PICK u : u = Prepared(m)
      OBVIOUS
    <2>2. PICK t : t = Target
      OBVIOUS
    <2>3. ObjectFor(u, t) /\ r \in Requests(u, t, hs) /\ Handled(t, r)
      BY <1>3, <1>7, <2>1, <2>2
    <2> QED
      BY <1>1, <1>2, <1>6, <1>8, <2>3, RequestsKeep
  <1>10. /\ Numbered(queue', n) /\ NodesOf(queue', Nat) /\ queue'.nb_messages = nb - 1
    BY <1>1, <1>2, GetNumbered
  <1>11. Queued(queue') = (n - nb + 2)..n
    <2>1. Queued(queue') = (n - (nb - 1) + 1)..n
      BY <1>1, <1>10, NumberedFacts
    <2>2. n - (nb - 1) + 1 = n - nb + 2
      BY <1>1, <1>4
    <2> QED
      BY <2>1, <2>2
  <1>12. HeldInv'
    <2>1. held = (n - nb + 1)..n
      BY <1>1, <1>2, <1>4 DEF HeldInv, TypeInv
    <2>2. held' = (n - nb + 2)..n
      BY <1>1, <1>2, <1>4, <2>1
    <2> QED
      BY <1>11, <2>2 DEF HeldInv, Queued
  <1>13. TypeInv'
    <2>1. headers' \in HeadersRec
      BY <1>2, <1>6 DEF HeadersRec
    <2> QED
      BY <1>1, <1>2, <1>9, <1>10, <2>1 DEF TypeInv
  <1>14. ListInv'
    BY <1>2, <1>10 DEF ListInv
  <1>15. StepInv'
    <2>1. Running /\ active' > 0 /\ ~Shared => Len(streams') = n - (nb - 1)
      <3>1. active > 0 /\ ~Shared => Len(streams) = n - nb
        BY <1>1, <1>2 DEF StepInv
      <3>2. n - (nb - 1) = (n - nb) + 1
        BY <1>1, <1>4
      <3> QED
        BY <1>2, <1>9, <3>1, <3>2
    <2> QED
      BY <1>2, <1>8, <1>10, <2>1 DEF StepInv, Shared, Running
  <1> QED
    BY <1>9, <1>12, <1>13, <1>14, <1>15 DEF BaseInv

\* client_send_requests of a short call.
LEMMA SendShortBase ==
  ASSUME BaseInv, SendShort
  PROVE  BaseInv'
  <1>1. /\ TypeInv /\ UsersInv /\ RecvInv /\ ListInv /\ HeldInv /\ StepInv /\ headers \in HeadersRec
    BY DEF BaseInv, TypeInv
  <1>2. /\ process = "up" /\ cfg.type = "SHORT" /\ streams = <<>> /\ active = 1 /\ Running
        /\ UNCHANGED <<cfg, queue, msgs, held, pc, headers, process>> /\ Shared
    BY DEF SendShort, Running, Shared
  <1>3. PICK r \in Requests(us[0], 0, headers) : Handled(0, r)
    BY DEF SendShort
  <1>4. PICK u : u = us[0]
    OBVIOUS
  <1>5. ObjectFor(u, 0)
    BY <1>1, <1>2, <1>4 DEF ObjectFor, TypeInv, UsersInv
  <1>6. /\ streams' \in Seq(StreamRec)
        /\ DOMAIN us' \subseteq Nat /\ \A v \in DOMAIN us' : us'[v] \in UserRec
        /\ UsersInv' /\ RecvInv' /\ active' \in {1, -1}
    BY <1>1, <1>2, <1>3, <1>4, <1>5, RequestsKeep
  <1>7. TypeInv'
    BY <1>1, <1>2, <1>6 DEF TypeInv
  <1>8. ListInv' /\ HeldInv' /\ StepInv'
    <2>1. HeldInv'
      BY <1>1, <1>2, <1>6 DEF HeldInv, Queued, TypeInv
    <2>2. ListInv'
      BY <1>1, <1>2 DEF ListInv
    <2>3. StepInv'
      BY <1>1, <1>2 DEF StepInv, Shared
    <2> QED
      BY <2>1, <2>2, <2>3
  <1> QED
    BY <1>6, <1>7, <1>8 DEF BaseInv

\* client_h3_request_close_notify, xqc_client_stream_close_notify.
LEMMA CloseNotifyBase ==
  ASSUME BaseInv, NEW e \in DOMAIN streams, CloseNotify(e)
  PROVE  BaseInv'
  <1> DEFINE s == streams[e]
             t == [s EXCEPT !.open = FALSE, !.blocked = FALSE, !.flags = {}]
             n == Len(streams)
  <1>1. /\ TypeInv /\ UsersInv /\ RecvInv /\ ListInv /\ HeldInv /\ StepInv
        /\ cfg \in Configs /\ streams \in Seq(StreamRec) /\ n \in Nat
    BY DEF BaseInv, TypeInv
  <1>2. /\ s.open /\ Running /\ process # "freed"
        /\ UNCHANGED <<cfg, queue, msgs, held, pc, active, headers, process>>
    BY DEF CloseNotify, Called, Running
  <1>3. /\ e \in 1..n /\ DOMAIN streams = 1..n /\ s \in StreamRec
        /\ s.user \in DOMAIN us /\ us[s.user] \in UserRec
        /\ s.user = (IF Shared THEN 0 ELSE e)
    BY <1>1, <1>2, ObjectOf DEF UsersInv, User
  <1>4. streams' = [streams EXCEPT ![e] = t]
    BY <1>3 DEF CloseNotify
  <1>5. /\ t \in StreamRec /\ t.user = s.user /\ t.open = FALSE /\ t.flags = {}
        /\ t.told = s.told /\ t.read = s.read /\ t.arrived = s.arrived /\ t.final = s.final
        /\ t.finIn = s.finIn
    BY <1>3 DEF StreamRec
  <1> HIDE DEF t
  <1>6. /\ streams' \in Seq(StreamRec) /\ Len(streams') = n
        /\ streams'[e] = t /\ \A d \in 1..n : d # e => streams'[d] = streams[d]
    BY <1>1, <1>3, <1>4, <1>5, ReplaceFacts
  \* The object goes if it has a stream of its own; it stays if it is shared.
  <1>7. /\ ~Shared => us' = [v \in DOMAIN us \ {e} |-> us[v]]
        /\ Shared => us' = us \/ us' = [us EXCEPT ![0].body = 0]
    <2>1. cfg.alpn \in {"H3", "HQ"} /\ cfg.type \in {"LONG", "SHORT"} /\ cfg.finish \in BOOLEAN
          /\ (cfg.alpn = "H3" => cfg.finish)
      BY <1>1 DEF Configs
    <2>2. us' = IF cfg.alpn = "H3" THEN client_on_stream_fin(s.user) ELSE stream_fin_hq(s.user)
      BY DEF CloseNotify
    <2> QED
      BY <1>3, <2>1, <2>2 DEF client_on_stream_fin, stream_fin_hq, Shared
  <1>8. /\ ~Shared => DOMAIN us' = DOMAIN us \ {e} /\ \A v \in DOMAIN us' : us'[v] = us[v]
        /\ Shared => /\ DOMAIN us' = DOMAIN us
                     /\ \A v \in DOMAIN us : /\ us'[v] \in UserRec
                                             /\ us'[v].request = us[v].request
                                             /\ us'[v].recv = us[v].recv
    <2>1. CASE ~Shared
      BY <1>7, <2>1
    <2>2. CASE us' = us
      BY <1>1, <1>7, <2>2 DEF TypeInv
    <2>3. CASE Shared /\ us' = [us EXCEPT ![0].body = 0]
      <3>1. \A v \in DOMAIN us : us[v] \in UserRec
        BY <1>1 DEF TypeInv
      <3>2. \A v \in DOMAIN us : us'[v] = us[v] \/ us'[v] = [us[v] EXCEPT !.body = 0]
        BY <2>3
      <3>3. DOMAIN us' = DOMAIN us
        BY <2>3
      <3> QED
        BY <2>3, <3>1, <3>2, <3>3 DEF UserRec
    <2> QED
      BY <1>7, <2>1, <2>2, <2>3
  <1>9. /\ DOMAIN us' \subseteq Nat /\ \A v \in DOMAIN us' : us'[v] \in UserRec
    BY <1>1, <1>8 DEF TypeInv
  <1>10. Shared' = Shared
    BY <1>2 DEF Shared
  <1>11. UsersInv'
    <2>1. Shared => /\ Len(streams') <= 1 /\ DOMAIN us' \subseteq {0}
                    /\ us'[0].request = Len(streams')
      BY <1>1, <1>2, <1>6, <1>8 DEF UsersInv
    <2>2. 0 \in DOMAIN us'
      BY <1>1, <1>2, <1>3, <1>8 DEF UsersInv
    <2>3. ASSUME NEW d \in 1..n
          PROVE  /\ streams'[d].user = IF Shared THEN 0 ELSE d
                 /\ streams'[d].open => /\ streams'[d].user \in DOMAIN us'
                                        /\ us'[streams'[d].user].request = d
      <3>1. CASE d = e
        BY <1>3, <1>5, <1>6, <3>1
      <3>2. CASE d # e
        <4>1. streams'[d] = streams[d] /\ ~Shared
          BY <1>1, <1>3, <1>6, <3>2 DEF UsersInv
        <4> QED
          BY <1>1, <1>8, <3>2, <4>1 DEF UsersInv
      <3> QED
        BY <3>1, <3>2
    <2>4. ASSUME NEW v \in DOMAIN us' \ {0}
          PROVE  \/ v \in 1..n /\ streams'[v].open
                 \/ us'[v].request = 0 /\ active < 0
      <3>1. ~Shared /\ v # e /\ us'[v] = us[v] /\ v \in DOMAIN us \ {0}
        BY <1>8, <2>1
      <3>2. v \in 1..n => streams'[v] = streams[v]
        BY <1>6, <3>1
      <3> QED
        BY <1>1, <3>1, <3>2 DEF UsersInv
    <2> QED
      BY <1>2, <1>6, <1>10, <2>1, <2>2, <2>3, <2>4 DEF UsersInv
  <1>12. RecvInv'
    <2>1. streams' # <<>>
      BY <1>3, <1>6
    <2>2. ASSUME NEW d \in 1..n
          PROVE  /\ ToldOk(streams'[d])
                 /\ streams'[d].open => KeepsOk(streams'[d], us'[streams'[d].user].recv)
      <3>1. CASE d = e
        <4>1. ToldOk(s)
          BY <1>1, <1>3 DEF RecvInv
        <4>2. ToldOk(t)
          BY <1>5, <4>1 DEF ToldOk
        <4> QED
          BY <1>5, <1>6, <3>1, <4>2
      <3>2. CASE d # e
        <4>1. streams'[d] = streams[d] /\ ~Shared
          BY <1>1, <1>3, <1>6, <3>2 DEF UsersInv
        <4>2. streams[d].open => streams[d].user = d /\ d \in DOMAIN us
          BY <1>1, <4>1 DEF UsersInv
        <4> QED
          BY <1>1, <1>8, <3>2, <4>1, <4>2 DEF RecvInv
      <3> QED
        BY <3>1, <3>2
    <2>3. \A d \in 1..Len(streams') :
             /\ ToldOk(streams[d])'
             /\ (streams[d].open => KeepsOk(streams[d], us[streams[d].user].recv))'
      BY <1>2, <1>6, <2>2 DEF ToldOk, KeepsOk
    <2> QED
      BY <2>1, <2>3 DEF RecvInv
  <1>13. TypeInv' /\ ListInv' /\ HeldInv' /\ StepInv'
    <2>1. TypeInv'
      BY <1>1, <1>2, <1>6, <1>9 DEF TypeInv
    <2>2. ListInv' /\ HeldInv'
      BY <1>1, <1>2 DEF ListInv, HeldInv
    <2>3. StepInv'
      BY <1>1, <1>2, <1>6 DEF StepInv, Shared, Running
    <2> QED
      BY <2>1, <2>2, <2>3
  <1> QED
    BY <1>11, <1>12, <1>13 DEF BaseInv

\* client_long_send: a message into the list.
LEMMA LongSendBase ==
  ASSUME BaseInv, NEW message \in Messages, client_long_send(message)
  PROVE  BaseInv'
  <1> DEFINE n == Len(msgs)
             nb == queue.nb_messages
             a == FreeAddress
  <1>1. /\ TypeInv /\ UsersInv /\ RecvInv /\ ListInv /\ HeldInv /\ StepInv
        /\ n \in Nat /\ NodesOf(queue, Nat) /\ Numbered(queue, n)
        /\ message \in MsgRec
    BY StreamIOAssumption DEF BaseInv, TypeInv, ListInv, MsgRec
  <1>2. /\ process = "up" /\ cfg.type = "LONG" /\ active = 1 /\ FreeAddresses # {}
        /\ msgs' = Append(msgs, message)
        /\ queue' = queue_put(queue, a, n + 1)
        /\ held' = held \cup {n + 1}
        /\ UNCHANGED <<cfg, pc, active, headers, us, streams, process>>
    BY DEF client_long_send
  <1>3. a \in Addresses /\ a \notin DOMAIN queue.nodes
    BY <1>2 DEF FreeAddress, FreeAddresses
  <1> HIDE DEF a
  <1>4. Len(msgs') = n + 1 /\ msgs' \in Seq(MsgRec)
    BY <1>1, <1>2 DEF TypeInv
  <1>5. /\ Numbered(queue', n + 1) /\ NodesOf(queue', Nat) /\ queue'.nb_messages = nb + 1
    BY <1>1, <1>2, <1>3, PutNumbered
  <1>6. TypeInv'
    <2>1. held' \subseteq Nat
      <3>1. held \subseteq Nat /\ n + 1 \in Nat
        BY <1>1 DEF TypeInv
      <3> QED
        BY <1>2, <3>1
    <2> QED
      BY <1>1, <1>2, <1>4, <1>5, <2>1 DEF TypeInv
  <1>7. ListInv'
    BY <1>4, <1>5 DEF ListInv
  <1>8. HeldInv'
    <2>1. nb \in 0..n /\ Queued(queue) = (n - nb + 1)..n
      BY <1>1, NumberedFacts
    <2>2. Queued(queue') = ((n + 1) - (nb + 1) + 1)..(n + 1)
      BY <1>1, <1>5, NumberedFacts
    <2>3. held = Queued(queue)
      BY <1>1, <1>2 DEF HeldInv
    <2>4. (n - nb + 1)..n \cup {n + 1} = ((n + 1) - (nb + 1) + 1)..(n + 1)
      BY <1>1, <2>1
    <2>5. held' = Queued(queue')
      BY <1>2, <2>1, <2>2, <2>3, <2>4
    <2> QED
      BY <2>5 DEF HeldInv, Queued
  <1>9. UsersInv' /\ RecvInv'
    BY <1>1, <1>2 DEF UsersInv, RecvInv, Shared, ToldOk, KeepsOk
  <1>10. StepInv'
    <2>1. (n + 1) - (nb + 1) = n - nb
      <3>1. nb \in 0..n
        BY <1>1, NumberedFacts
      <3> QED
        BY <1>1, <3>1
    <2> QED
      BY <1>1, <1>2, <1>4, <1>5, <2>1 DEF StepInv, Shared, Running
  <1> QED
    BY <1>6, <1>7, <1>8, <1>9, <1>10 DEF BaseInv

\* client_long_send_requests: a message of a connection that is not active.
LEMMA DropMessageBase ==
  ASSUME BaseInv, DropMessage
  PROVE  BaseInv'
  <1> DEFINE n == Len(msgs)
             nb == queue.nb_messages
  <1>1. /\ TypeInv /\ UsersInv /\ RecvInv /\ ListInv /\ HeldInv /\ StepInv
        /\ n \in Nat /\ NodesOf(queue, Nat) /\ Numbered(queue, n)
    BY DEF BaseInv, TypeInv, ListInv
  <1>2. /\ pc = "drain" /\ ~msg_empty(queue) /\ active < 0
        /\ queue' = queue_get(queue) /\ pc' = "idle"
        /\ UNCHANGED <<cfg, msgs, held, active, headers, us, streams, process>>
    BY DEF DropMessage
  <1>3. /\ Numbered(queue', n) /\ NodesOf(queue', Nat) /\ queue'.nb_messages = nb - 1
    BY <1>1, <1>2, GetNumbered
  <1>4. TypeInv'
    BY <1>1, <1>2, <1>3 DEF TypeInv
  <1>5. ListInv'
    BY <1>2, <1>3 DEF ListInv
  <1>6. HeldInv'
    <2>1. nb \in 0..n /\ Queued(queue) = (n - nb + 1)..n
      BY <1>1, NumberedFacts
    <2>2. Queued(queue') = (n - (nb - 1) + 1)..n
      BY <1>1, <1>3, NumberedFacts
    <2>3. Queued(queue') \subseteq Queued(queue)
      BY <1>1, <2>1, <2>2
    <2> QED
      BY <1>1, <1>2, <2>3 DEF HeldInv, Queued
  <1>7. UsersInv' /\ RecvInv'
    BY <1>1, <1>2 DEF UsersInv, RecvInv, Shared, ToldOk, KeepsOk
  <1>8. StepInv'
    <2>1. ~(active' > 0)
      BY <1>1, <1>2 DEF TypeInv
    <2> QED
      BY <1>1, <1>2, <2>1 DEF StepInv
  <1> QED
    BY <1>4, <1>5, <1>6, <1>7, <1>8 DEF BaseInv

\* Steps that change pc and process only.
LEMMA QuietBase ==
  ASSUME BaseInv, Running, pc' \in {"idle", "drain"}, process' \in {"up", "closing", "crashed"},
         process' = "crashed" \/ process' = process,
         UNCHANGED <<cfg, queue, msgs, held, active, headers, us, streams>>,
         cfg.type = "SHORT" => pc' = "idle"
  PROVE  BaseInv'
  <1>1. process # "freed" /\ process' # "freed"
    BY DEF Running
  <1>2. TypeInv' /\ ListInv' /\ HeldInv'
    BY DEF BaseInv, TypeInv, ListInv, HeldInv
  <1>3. UsersInv' /\ RecvInv'
    BY <1>1 DEF BaseInv, UsersInv, RecvInv, Shared, ToldOk, KeepsOk
  <1>4. StepInv'
    BY DEF BaseInv, StepInv, Shared, Running
  <1> QED
    BY <1>2, <1>3, <1>4 DEF BaseInv

\* client_long_send_requests: its loop begins, ends, or the process crashes.
LEMMA RequestsBase ==
  ASSUME BaseInv, BeginRequests \/ EndRequests \/ Crash
  PROVE  BaseInv'
  <1>1. TypeInv /\ StepInv /\ ListInv /\ Len(msgs) \in Nat
    BY DEF BaseInv, TypeInv
  <1>2. CASE BeginRequests
    <2>1. cfg.type # "SHORT"
      BY <1>1, <1>2, NumberedFacts DEF BeginRequests, StepInv, ListInv
    <2>2. /\ Running /\ process' \in {"up", "closing"} /\ process' = process
          /\ pc' = "drain" /\ UNCHANGED <<cfg, queue, msgs, held, active, headers, us, streams>>
      BY <1>2 DEF BeginRequests, Running
    <2> QED
      BY <2>1, <2>2, QuietBase
  <1>3. CASE EndRequests
    <2>1. /\ Running /\ process' \in {"up", "closing"} /\ process' = process
          /\ pc' = "idle" /\ UNCHANGED <<cfg, queue, msgs, held, active, headers, us, streams>>
      BY <1>3 DEF EndRequests, Running
    <2> QED
      BY <2>1, QuietBase
  <1>4. CASE Crash
    <2>1. /\ Running /\ process' = "crashed" /\ pc' = pc
          /\ UNCHANGED <<cfg, queue, msgs, held, active, headers, us, streams>>
      BY <1>4 DEF Crash
    <2>2. pc' \in {"idle", "drain"} /\ (cfg.type = "SHORT" => pc' = "idle")
      BY <1>1, <2>1 DEF TypeInv, StepInv
    <2> QED
      BY <2>1, <2>2, QuietBase
  <1> QED
    BY <1>2, <1>3, <1>4

\* client_long_free_ctx: the list and what its nodes hold go.
LEMMA FreeCtxBase ==
  ASSUME BaseInv, free_ctx
  PROVE  BaseInv'
  <1> DEFINE n == Len(msgs)
  <1>1. /\ TypeInv /\ UsersInv /\ RecvInv /\ ListInv /\ HeldInv /\ StepInv
        /\ n \in Nat /\ Numbered(queue, n) /\ DOMAIN streams = 1..Len(streams)
    BY DEF BaseInv, TypeInv, ListInv
  <1>2. /\ process # "freed" /\ pc = "idle" /\ \A e \in 1..Len(streams) : ~streams[e].open
        /\ process' = "freed" /\ queue' = queue_destroy(queue)
        /\ held' = held \ {m \in held : \E a \in DOMAIN queue.nodes : queue.nodes[a].msg = m}
        /\ us' = [u \in DOMAIN us \ {0} |-> us[u]]
        /\ UNCHANGED <<cfg, msgs, pc, active, headers, streams>>
    BY <1>1 DEF free_ctx, Running
  <1>3. Numbered(queue', n) /\ NodesOf(queue', Nat) /\ queue'.nb_messages = 0 /\ Queued(queue') = {}
    BY <1>1, <1>2, DestroyNumbered
  <1>4. TypeInv'
    BY <1>1, <1>2, <1>3 DEF TypeInv
  <1>5. ListInv'
    BY <1>2, <1>3 DEF ListInv
  <1>6. HeldInv'
    <2>1. held' = held \ Queued(queue)
      BY <1>2 DEF Queued
    <2>2. held' # {} => active' < 0
      BY <1>1, <1>2, <2>1 DEF HeldInv
    <2> QED
      BY <1>3, <2>2 DEF HeldInv, Queued
  <1>7. UsersInv'
    <2>1. DOMAIN us' = DOMAIN us \ {0} /\ \A u \in DOMAIN us' : us'[u] = us[u]
      BY <1>2
    <2>2. Shared' = Shared
      BY <1>2 DEF Shared
    <2>3. Shared => Len(streams) <= 1 /\ DOMAIN us' \subseteq {0}
      BY <1>1, <2>1 DEF UsersInv
    <2>4. \A e \in 1..Len(streams) :
            streams[e].user = (IF Shared THEN 0 ELSE e) /\ ~streams[e].open
      BY <1>1, <1>2 DEF UsersInv
    <2>5. \A u \in DOMAIN us' \ {0} : us'[u].request = 0 /\ active < 0
      BY <1>1, <1>2, <2>1 DEF UsersInv
    <2> QED
      BY <1>2, <2>2, <2>3, <2>4, <2>5 DEF UsersInv
  <1>8. RecvInv' /\ StepInv'
    <2>1. RecvInv'
      BY <1>1, <1>2 DEF RecvInv, ToldOk
    <2>2. StepInv'
      BY <1>1, <1>2, <1>3 DEF StepInv, Running
    <2> QED
      BY <2>1, <2>2
  <1> QED
    BY <1>4, <1>5, <1>6, <1>7, <1>8 DEF BaseInv

\* The invariant holds in the beginning.
LEMMA InitBase == Init => BaseInv
  <1> SUFFICES ASSUME Init PROVE BaseInv
    OBVIOUS
  <1>1. PICK k \in {x.len : x \in Messages} :
          /\ msgs = IF cfg.type = "LONG" THEN <<>> ELSE <<[what |-> "BYTE", len |-> k]>>
          /\ us = [u \in {0} |-> IF cfg.type = "LONG" \/ k = 0 THEN NewStream
                                 ELSE [NewStream EXCEPT !.body = 1, !.len = k]]
    BY DEF Init
  <1>2. k \in Nat
    BY StreamIOAssumption
  <1>3. /\ cfg \in Configs /\ queue = EmptyQueue /\ held = {} /\ pc = "idle" /\ active = 1
        /\ headers = [of |-> 0, live |-> TRUE] /\ streams = <<>> /\ process = "up"
    BY DEF Init
  <1>4. /\ DOMAIN us = {0} /\ us[0] \in UserRec /\ us[0].request = 0 /\ us[0].recv = <<>>
    <2>1. us[0] = NewStream \/ us[0] = [NewStream EXCEPT !.body = 1, !.len = k]
      BY <1>1
    <2>2. NewStream \in UserRec /\ NewStream.request = 0 /\ NewStream.recv = <<>>
      BY DEF NewStream, UserRec
    <2>3. DOMAIN us = {0}
      BY <1>1
    <2>4. \A v \in UserRec : LET w == [v EXCEPT !.body = 1, !.len = k] IN
            w \in UserRec /\ w.request = v.request /\ w.recv = v.recv
      BY <1>2 DEF UserRec
    <2> QED
      BY <2>1, <2>2, <2>3, <2>4
  <1>5. /\ msgs \in Seq(MsgRec) /\ Len(msgs) \in Nat
        /\ cfg.type = "SHORT" => Len(msgs) = 1 /\ msgs[1].what = "BYTE"
    <2> DEFINE x == [what |-> "BYTE", len |-> k]
    <2>1. x \in MsgRec /\ x.what = "BYTE"
      BY <1>2 DEF MsgRec
    <2>2. msgs = IF cfg.type = "LONG" THEN <<>> ELSE <<x>>
      BY <1>1
    <2> HIDE DEF x
    <2> QED
      BY <2>1, <2>2
  <1>6. Numbered(queue, Len(msgs)) /\ NodesOf(queue, Nat) /\ Queued(queue) = {}
    BY <1>3, <1>5, EmptyNumbered
  <1>7. TypeInv
    <2>1. headers \in HeadersRec
      BY <1>3 DEF HeadersRec
    <2>2. streams \in Seq(StreamRec)
      BY <1>3
    <2> QED
      BY <1>3, <1>4, <1>5, <1>6, <2>1, <2>2 DEF TypeInv
  <1>8. ListInv /\ HeldInv
    BY <1>3, <1>6 DEF ListInv, HeldInv
  <1>9. Len(streams) = 0 /\ 1..0 = {}
    BY <1>3
  <1>10. UsersInv /\ RecvInv
    BY <1>3, <1>4, <1>9 DEF UsersInv, RecvInv
  <1>11. StepInv
    <2>1. queue.nb_messages = 0
      BY <1>3 DEF EmptyQueue
    <2>2. ~Shared => Len(msgs) = 0
      BY <1>1, <1>3 DEF Shared, Configs
    <2> QED
      BY <1>3, <1>5, <1>9, <2>1, <2>2 DEF StepInv
  <1> QED
    BY <1>7, <1>8, <1>10, <1>11 DEF BaseInv

\* Every step keeps the base invariant.
LEMMA NextBase == BaseInv /\ [Next]_vars => BaseInv'
  <1> SUFFICES ASSUME BaseInv, [Next]_vars PROVE BaseInv'
    OBVIOUS
  <1>1. CASE UNCHANGED vars
    BY <1>1 DEF vars, BaseInv, TypeInv, ListInv, HeldInv, UsersInv, StepInv, RecvInv, Shared,
                Running, ToldOk, KeepsOk
  <1>2. CASE Next
    BY <1>2, LongSendBase, RequestsBase, DropMessageBase, SendNextBase, SendShortBase,
       WriteNotifyBase, PeerBase, ReadNotifyBase, CloseNotifyBase, FreeCtxBase DEF Next
  <1> QED
    BY <1>1, <1>2

\* The list, the copies, the objects and what was read are as the code means
\* them to be, whatever the messages and the bounds.
THEOREM BaseInvariant == Spec => []BaseInv
  BY InitBase, NextBase, PTL DEF Spec

\* The list is a list of the last messages in their order.
LEMMA BaseIsInOrder == BaseInv => QueueInOrder
  <1> SUFFICES ASSUME BaseInv PROVE QueueInOrder
    OBVIOUS
  <1> DEFINE n == Len(msgs)
  <1>1. PICK s \in Seq(Addresses) :
          /\ IsList(queue, s) /\ Len(s) <= n
          /\ \A i \in 1..Len(s) : queue.nodes[s[i]].msg = n - Len(s) + i
    BY DEF BaseInv, ListInv, Numbered
  <1>2. Walk(queue) = s
    BY <1>1, WalkIsTheList
  <1>3. DOMAIN s = 1..Len(s)
    OBVIOUS
  <1>4. Contents(queue, s) = [i \in 1..Len(s) |-> n - Len(s) + i]
    BY <1>1, <1>3 DEF Contents
  <1> QED
    BY <1>1, <1>2, <1>4 DEF QueueInOrder

\* A callback finds its object, no object but that of a request that failed
\* outlives its stream, and no copy of a message is lost before that.
THEOREM NothingIsLost == Spec => []Accounted
  <1>1. BaseInv => Accounted
    <2> SUFFICES ASSUME BaseInv PROVE Accounted
      OBVIOUS
    <2>1. UsersInv /\ HeldInv /\ DOMAIN streams = 1..Len(streams)
      BY DEF BaseInv, TypeInv
    <2>2. \A u \in DOMAIN us \ {0} :
             \/ u \in DOMAIN streams /\ streams[u].open /\ streams[u].user = u
             \/ us[u].request = 0 /\ active < 0
      BY <2>1 DEF UsersInv
    <2>3. \A e \in DOMAIN streams :
             streams[e].open => /\ streams[e].user \in DOMAIN us
                                /\ us[streams[e].user].request = e
      BY <2>1 DEF UsersInv
    <2>4. process # "freed" => 0 \in DOMAIN us
      BY <2>1 DEF UsersInv
    <2>5. QueueInOrder
      BY BaseIsInOrder
    <2> QED
      BY <2>1, <2>2, <2>3, <2>4, <2>5 DEF Accounted, HeldInv, Queued
  <1> QED
    BY <1>1, BaseInvariant, PTL

\* What is reported of a response is its beginning, each unit once, and the final
\* report comes once, with all of it, whatever the size of the receive memory.
THEOREM ReportsAreInOrder == Spec => []ReceivedInOrder
  <1>1. BaseInv => ReceivedInOrder
    <2> SUFFICES ASSUME BaseInv, NEW e \in DOMAIN streams
                 PROVE  LET s == streams[e] IN
                        /\ \A i \in DOMAIN s.told : s.told[i] = i
                        /\ Len(s.told) <= s.read
                        /\ s.final <= 1
                        /\ s.final = 1 => s.finIn /\ Len(s.told) = s.arrived
                        /\ s.open /\ ~s.failed /\ s.final = 0 /\ process # "freed" =>
                             s.told \o us[s.user].recv = [i \in 1..s.read |-> i]
      BY DEF ReceivedInOrder
    <2>1. PICK s : s = streams[e]
      OBVIOUS
    <2>2. s \in StreamRec /\ ToldOk(s) /\ (s.open => KeepsOk(s, us[s.user].recv))
      BY <2>1 DEF BaseInv, TypeInv, RecvInv
    <2>3. s.told \in Seq(Nat) /\ DOMAIN s.told = 1..Len(s.told) /\ s.read \in Nat
      BY <2>2 DEF StreamRec
    <2>4. ASSUME s.open, ~s.failed, s.final = 0
          PROVE  s.told \o us[s.user].recv = [i \in 1..s.read |-> i]
      <3>1. PICK v : v = us[s.user].recv
        OBVIOUS
      <3>2. Counts(s.told, v, s.read)
        BY <2>2, <2>4, <3>1 DEF KeepsOk
      <3>3. Counts(s.told \o v, <<>>, s.read)
        BY <2>3, <3>2, CountsAll
      <3> DEFINE x == s.told \o v
      <3>4. x \in Seq(Nat) /\ Len(x) + Len(<<>>) = s.read /\ \A i \in 1..Len(x) : x[i] = i
        BY <3>3 DEF Counts
      <3> HIDE DEF x
      <3>5. Len(x) = s.read
        BY <2>3, <3>4
      <3>6. x = [i \in 1..s.read |-> i]
        BY <2>3, <3>4, <3>5
      <3> QED
        BY <3>1, <3>6 DEF x
    <2> QED
      BY <2>1, <2>2, <2>3, <2>4 DEF ToldOk
  <1> QED
    BY <1>1, BaseInvariant, PTL

-----------------------------------------------------------------------------
(* What is sent on a stream.  The configuration and the messages are         *)
(* parameters here: c is cfg, ms is msgs.                                    *)

\* The HQ stream that is kept; a short call without a body.
IsKept(c) == c.alpn = "HQ" /\ ~c.finish
NothingToSend(c, ms) == c.type = "SHORT" /\ ms[1].len = 0

\* The units of one body from the first on; those of one or several messages.
OneBody(b) == \A i \in 1..Len(b) : b[i].of = b[1].of /\ b[i].unit = i
Follows(y, x) == (x.of = y.of /\ x.unit = y.unit + 1) \/ (x.of >= y.of /\ x.unit = 1)
Chained(b) == \A i \in 2..Len(b) : Follows(b[i - 1], b[i])

\* An object's body is that of one of the first k messages.
UserOk(ms, k, u) ==
  /\ u.body \in 0..k /\ (u.body # 0 => u.len = ms[u.body].len)
  /\ u.offset <= u.len
NoBody(c, ms, u) == u.body = 0 => NothingToSend(c, ms) /\ u.len = 0

\* What was sent on the stream s; and what its object says of it.
SentOk(c, ms, s) ==
  LET b == Bodies(s.sent) IN
  /\ IsKept(c) => Chained(b)
  /\ ~IsKept(c) => /\ OneBody(b) /\ (b # <<>> => b[1].of \in 1..Len(ms))
                   /\ s.fin /\ s.final = 0 => \/ b # <<>> /\ Len(b) = ms[b[1].of].len
                                              \/ NothingToSend(c, ms)
SentBy(c, ms, s, u) ==
  LET b == Bodies(s.sent) IN
  /\ IsKept(c) => u.offset = 0 /\ (b # <<>> => b[Len(b)].of <= u.body)
  /\ ~IsKept(c) => /\ u.offset = Len(b) /\ (b # <<>> => b[1].of = u.body)
                   /\ NoBody(c, ms, u)

\* The units of bodies are units.
LEMMA BodiesType ==
  ASSUME NEW s \in Seq(SentUnit)
  PROVE  Bodies(s) \in Seq(SentUnit) /\ Len(Bodies(s)) \in Nat
  <1>1. [what |-> "body", of |-> 0, unit |-> 0] \in SentUnit
    BY DEF SentUnit
  <1> QED
    BY <1>1, BodiesOfAppend

\* A header section is none of them.
LEMMA HeadedBodies ==
  ASSUME NEW u, NEW s \in StreamRec, NEW hs \in HeadersRec, NEW pre, Headed(u, s, hs, pre)
  PROVE  pre.sent \in Seq(SentUnit) /\ Bodies(pre.sent) = Bodies(s.sent)
  <1>1. s.sent \in Seq(SentUnit) /\ pre.sent \in Seq(SentUnit)
    BY DEF Headed, StreamRec
  <1>2. Section(hs) \in SentUnit /\ Section(hs).what # "body"
    BY DEF Section, HeadersRec, SentUnit
  <1> QED
    BY <1>1, <1>2, BodiesOfAppend DEF Headed

\* t is b with n more units of the body m.
Extends(b, t, m, from, n) ==
  /\ Len(t) = Len(b) + n /\ \A i \in 1..Len(b) : t[i] = b[i]
  /\ \A i \in 1..n : t[Len(b) + i] = [what |-> "body", of |-> m, unit |-> from + i]

\* What the units that are sent do to those of the bodies.
LEMMA BodiesExtend ==
  ASSUME NEW s \in Seq(SentUnit), NEW m \in Nat, NEW from \in Nat, NEW n \in Nat,
         NEW z, z = s \o Units(m, from, n)
  PROVE  Bodies(z) \in Seq(SentUnit) /\ Extends(Bodies(s), Bodies(z), m, from, n)
  <1>1. /\ Bodies(s \o Units(m, from, n)) \in Seq(SentUnit)
        /\ Len(Bodies(s \o Units(m, from, n))) = Len(Bodies(s)) + n
        /\ \A i \in 1..Len(Bodies(s)) : Bodies(s \o Units(m, from, n))[i] = Bodies(s)[i]
        /\ \A i \in 1..n : Bodies(s \o Units(m, from, n))[Len(Bodies(s)) + i] =
                             [what |-> "body", of |-> m, unit |-> from + i]
    BY BodiesOfUnits, Zenon
  <1> QED
    BY <1>1 DEF Extends

\* The next units of the body follow those that were sent.
LEMMA OneBodyGrows ==
  ASSUME NEW b \in Seq(SentUnit), NEW t \in Seq(SentUnit), NEW n \in Nat, NEW m \in Nat,
         OneBody(b), b # <<>> => b[1].of = m, Extends(b, t, m, Len(b), n)
  PROVE  OneBody(t) /\ (t # <<>> => t[1].of = m)
  <1> DEFINE l == Len(b)
             Unit(i) == [what |-> "body", of |-> m, unit |-> i]
  <1>1. l \in Nat /\ (b = <<>> <=> l = 0) /\ (t = <<>> <=> Len(t) = 0) /\ Len(t) = l + n
    BY DEF Extends
  <1>2. \A i \in 1..l : t[i] = b[i] /\ b[i].of = b[1].of /\ b[i].unit = i
    BY DEF OneBody, Extends
  <1>3. \A i \in 1..n : t[l + i] = Unit(l + i)
    BY DEF Extends
  <1> HIDE DEF l
  <1>4. \A i \in 1..(l + n) : t[i].of = m /\ t[i].unit = i
    <2> SUFFICES ASSUME NEW i \in 1..(l + n) PROVE t[i].of = m /\ t[i].unit = i
      OBVIOUS
    <2>1. CASE i <= l
      <3>1. i \in 1..l /\ 1 \in 1..l /\ b # <<>>
        BY <1>1, <2>1
      <3> QED
        BY <1>2, <3>1
    <2>2. CASE i > l
      <3>1. i - l \in 1..n /\ l + (i - l) = i
        BY <1>1, <2>2
      <3>2. t[i] = Unit(i)
        BY <1>3, <3>1
      <3> QED
        BY <3>2
    <2> QED
      BY <1>1, <2>1, <2>2
  <1>5. \A i \in 1..(l + n) : 1 \in 1..(l + n)
    BY <1>1
  <1>6. \A i \in 1..(l + n) : t[i].of = t[1].of /\ t[i].unit = i
    BY <1>4, <1>5
  <1>7. OneBody(t)
    BY <1>1, <1>6 DEF OneBody
  <1>8. t # <<>> => 1 \in 1..(l + n)
    BY <1>1
  <1> QED
    BY <1>4, <1>7, <1>8

\* On the stream that is kept a body starts with its first unit.
LEMMA ChainedGrows ==
  ASSUME NEW b \in Seq(SentUnit), NEW t \in Seq(SentUnit), NEW n \in Nat, NEW m \in Nat,
         Chained(b), b # <<>> => b[Len(b)].of <= m,
         Extends(b, t, m, 0, n)
  PROVE  Chained(t) /\ (t # <<>> => t[Len(t)].of <= m)
  <1> DEFINE l == Len(b)
             Unit(i) == [what |-> "body", of |-> m, unit |-> i]
  <1>1. l \in Nat /\ (b = <<>> <=> l = 0) /\ (t = <<>> <=> Len(t) = 0) /\ Len(t) = l + n
    BY DEF Extends
  <1>2. \A i \in 1..l : t[i] = b[i]
    BY DEF Extends
  <1>3. ASSUME NEW i \in 1..n PROVE t[l + i].of = m /\ t[l + i].unit = i
    <2>1. t[l + i] = [what |-> "body", of |-> m, unit |-> 0 + i]
      BY DEF Extends
    <2>2. 0 + i = i
      OBVIOUS
    <2> QED
      BY <2>1, <2>2
  <1>4. \A i \in 2..l : Follows(b[i - 1], b[i])
    BY DEF Chained
  <1>5. l # 0 => b[l].of <= m /\ b[l].of \in Nat
    <2>1. l # 0 => b[l] \in SentUnit
      BY <1>1
    <2> QED
      BY <1>1, <2>1 DEF SentUnit
  <1> HIDE DEF l
  <1>6. \A i \in 2..(l + n) : Follows(t[i - 1], t[i])
    <2> SUFFICES ASSUME NEW i \in 2..(l + n) PROVE Follows(t[i - 1], t[i])
      OBVIOUS
    <2>1. CASE i <= l
      <3>1. i \in 2..l /\ i \in 1..l /\ i - 1 \in 1..l
        BY <1>1, <2>1
      <3> QED
        BY <1>2, <1>4, <3>1
    <2>2. CASE i = l + 1
      <3>1. 1 \in 1..n /\ l # 0 /\ i - 1 = l /\ l \in 1..l
        BY <1>1, <2>2
      <3>2. t[i].of = m /\ t[i].unit = 1 /\ t[i - 1] = b[l]
        BY <1>2, <1>3, <2>2, <3>1
      <3> QED
        BY <1>5, <3>1, <3>2 DEF Follows
    <2>3. CASE i > l + 1
      <3> DEFINE j == i - l
                 k == i - l - 1
      <3>1. j \in 1..n /\ k \in 1..n /\ j = k + 1 /\ l + j = i /\ l + k = i - 1
        <4>1. \A x, y, z \in Nat : x > y + 1 /\ x <= y + z =>
                 /\ x - y \in 1..z /\ x - y - 1 \in 1..z /\ x - y = (x - y - 1) + 1
                 /\ y + (x - y) = x /\ y + (x - y - 1) = x - 1
          OBVIOUS
        <4>2. i \in Nat /\ l \in Nat /\ n \in Nat /\ i > l + 1 /\ i <= l + n
          BY <1>1, <2>3
        <4> QED
          BY <4>1, <4>2, Zenon
      <3> HIDE DEF j, k
      <3>2. t[i].of = m /\ t[i].unit = j /\ t[i - 1].of = m /\ t[i - 1].unit = k
        BY <1>3, <3>1
      <3> QED
        BY <3>1, <3>2 DEF Follows
    <2> QED
      BY <1>1, <2>1, <2>2, <2>3
  <1>7. ASSUME l + n # 0 PROVE t[l + n].of <= m
    <2>1. CASE n = 0
      <3>1. l + n = l /\ l \in 1..l
        BY <1>1, <1>7, <2>1
      <3> QED
        BY <1>2, <1>5, <3>1, <1>7, <2>1, <1>1
    <2>2. CASE n # 0
      BY <1>3, <2>2
    <2> QED
      BY <2>1, <2>2
  <1> QED
    BY <1>1, <1>6, <1>7 DEF Chained

\* Whatever a send function does with a stream and its object, what was sent
\* stays in order.
LEMMA ContentKeeps ==
  ASSUME cfg \in Configs, NEW u \in UserRec, NEW s \in StreamRec, NEW hs \in HeadersRec,
         NEW ms \in Seq(MsgRec), NEW k \in 0..Len(ms), UserOk(ms, k, u),
         SentOk(cfg, ms, s), SentBy(cfg, ms, s, u), IsKept(cfg) \/ ~s.fin,
         NEW r \in Content(u, s, hs)
  PROVE  UserOk(ms, k, r.u) /\ SentOk(cfg, ms, r.s) /\ SentBy(cfg, ms, r.s, r.u)
  <1>1. PICK n \in Nat, pre \in StreamRec :
              /\ Headed(u, s, hs, pre) /\ Sends(u, pre, r, n)
              /\ ~Reused => r.u.offset = u.offset + n
              /\ Reused /\ u.offset = 0 => r.u.offset = 0
    BY ContentIs
  <1>2. SameUser(u, r.u) /\ SameStream(s, r.s)
    BY ContentIs
  <1>3. Reused <=> IsKept(cfg)
    BY DEF Reused, IsKept
  <1> DEFINE b == Bodies(s.sent)
             t == Bodies(r.s.sent)
             m == u.body
  <1>4. /\ r.u.body = m /\ r.u.len = u.len /\ r.s.final = s.final
        /\ m \in Nat /\ u.len \in Nat /\ u.offset \in Nat /\ r.u \in UserRec /\ r.s \in StreamRec
    BY <1>2 DEF SameUser, SameStream, UserRec
  <1>5. b \in Seq(SentUnit) /\ Len(b) \in Nat
    BY BodiesType DEF StreamRec
  <1>6. t \in Seq(SentUnit) /\ Extends(b, t, m, u.offset, n) /\ Len(t) = Len(b) + n
    <2>1. pre.sent \in Seq(SentUnit) /\ Bodies(pre.sent) = b
      BY <1>1, HeadedBodies
    <2>2. r.s.sent = pre.sent \o Units(m, u.offset, n)
      BY <1>1 DEF Sends
    <2>3. t \in Seq(SentUnit) /\ Extends(b, t, m, u.offset, n)
      BY <1>4, <2>1, <2>2, BodiesExtend
    <2> QED
      BY <2>3 DEF Extends
  <1>7. (b = <<>> <=> Len(b) = 0) /\ (t = <<>> <=> Len(t) = 0)
    BY <1>5, <1>6
  <1>8. n = 0 \/ u.offset + n <= u.len
    BY <1>1 DEF Sends
  <1>9. u.offset <= u.len /\ m \in 0..k /\ (m # 0 => u.len = ms[m].len)
    BY DEF UserOk
  <1> HIDE DEF b, t, m
  <1>10. CASE IsKept(cfg)
    <2>1. u.offset = 0 /\ r.u.offset = 0 /\ Chained(b) /\ (b # <<>> => b[Len(b)].of <= m)
      BY <1>1, <1>3, <1>10 DEF SentOk, SentBy, b, m
    <2>2. Chained(t) /\ (t # <<>> => t[Len(t)].of <= m)
      <3>1. Extends(b, t, m, 0, n)
        BY <1>6, <2>1
      <3>2. Chained(b) /\ (b # <<>> => b[Len(b)].of <= m) /\ m \in Nat
            /\ b \in Seq(SentUnit) /\ t \in Seq(SentUnit) /\ n \in Nat
        BY <1>4, <1>5, <1>6, <2>1
      <3> QED
        BY <3>1, <3>2, ChainedGrows, Zenon
    <2>3. UserOk(ms, k, r.u)
      BY <1>4, <1>9, <2>1 DEF UserOk
    <2>4. SentOk(cfg, ms, r.s) /\ SentBy(cfg, ms, r.s, r.u)
      BY <1>4, <1>10, <2>1, <2>2 DEF SentOk, SentBy, t
    <2> QED
      BY <2>3, <2>4
  <1>11. CASE ~IsKept(cfg)
    <2>1. /\ u.offset = Len(b) /\ r.u.offset = Len(b) + n /\ OneBody(b)
          /\ (b # <<>> => b[1].of = m) /\ NoBody(cfg, ms, u) /\ ~s.fin
      BY <1>1, <1>3, <1>11 DEF SentOk, SentBy, b, m
    <2>2. Extends(b, t, m, Len(b), n)
      BY <1>6, <2>1
    <2>3. OneBody(t) /\ (t # <<>> => t[1].of = m)
      BY <1>4, <1>5, <1>6, <2>1, <2>2, OneBodyGrows
    <2>4. r.u.offset = Len(t) /\ r.u.offset <= r.u.len
      BY <1>4, <1>5, <1>6, <1>8, <1>9, <2>1
    <2>5. UserOk(ms, k, r.u)
      BY <1>4, <1>9, <2>4 DEF UserOk
    <2>6. NoBody(cfg, ms, r.u)
      BY <1>4, <2>1 DEF NoBody, m
    \* With a unit of a body the body is not empty.
    <2>7. m = 0 => t = <<>> /\ NothingToSend(cfg, ms)
      <3>1. m = 0 => u.len = 0 /\ NothingToSend(cfg, ms)
        BY <2>1 DEF NoBody, m
      <3> QED
        BY <1>4, <1>5, <1>6, <1>7, <1>8, <1>9, <2>1, <3>1
    <2>8. t # <<>> => t[1].of \in 1..Len(ms)
      BY <1>4, <1>9, <2>3, <2>7
    <2>9. ASSUME r.s.fin
          PROVE  \/ t # <<>> /\ Len(t) = ms[t[1].of].len
                 \/ NothingToSend(cfg, ms)
      <3>1. pre.fin => m = 0
        BY <1>1, <2>1 DEF Headed, m
      <3>2. pre.fin \/ (n > 0 /\ u.offset + n = u.len)
        BY <1>1, <2>9 DEF Sends
      <3>3. CASE m = 0
        BY <2>7, <3>3
      <3>4. CASE m # 0
        <4>1. n > 0 /\ Len(t) = u.len /\ u.len = ms[m].len /\ Len(t) # 0
          BY <1>5, <1>6, <1>9, <2>1, <3>1, <3>2, <3>4
        <4> QED
          BY <1>7, <2>3, <4>1
      <3> QED
        BY <3>3, <3>4
    <2>10. SentOk(cfg, ms, r.s)
      BY <1>11, <2>3, <2>8, <2>9 DEF SentOk, t
    <2>11. SentBy(cfg, ms, r.s, r.u)
      BY <1>4, <1>11, <2>3, <2>4, <2>6 DEF SentBy, t, m
    <2> QED
      BY <2>5, <2>10, <2>11
  <1> QED
    BY <1>10, <1>11

-----------------------------------------------------------------------------
(* The invariant of what is sent.                                            *)

\* The messages that were taken from the list.
Taken == Len(msgs) - queue.nb_messages

\* Objects have bodies of messages that were taken; the one that is kept starts
\* each body again; and what was sent is in order.
SentInv ==
  /\ \A v \in DOMAIN us : UserOk(msgs, Taken, us[v])
  /\ Shared /\ process # "freed" =>
       /\ cfg.type = "SHORT" => NoBody(cfg, msgs, us[0])
       /\ Reused \/ streams = <<>> => us[0].offset = 0
  /\ \A e \in 1..Len(streams) :
       /\ SentOk(cfg, msgs, streams[e])
       /\ streams[e].open => SentBy(cfg, msgs, streams[e], us[streams[e].user])

\* The count of the messages that were taken.
LEMMA TakenIs ==
  ASSUME BaseInv
  PROVE  Taken \in 0..Len(msgs) /\ Len(msgs) \in Nat /\ msgs \in Seq(MsgRec)
         /\ queue.nb_messages \in 0..Len(msgs)
  <1>1. Len(msgs) \in Nat /\ msgs \in Seq(MsgRec) /\ Numbered(queue, Len(msgs))
    BY DEF BaseInv, TypeInv, ListInv
  <1>2. queue.nb_messages \in 0..Len(msgs)
    BY <1>1, NumberedFacts
  <1> QED
    BY <1>1, <1>2 DEF Taken

\* More messages may be taken.
LEMMA UserGrows ==
  ASSUME NEW ms, NEW j \in Nat, NEW k \in Nat, j <= k, NEW u, UserOk(ms, j, u)
  PROVE  UserOk(ms, k, u)
  BY DEF UserOk

\* One more message is put.
LEMMA MessagesGrow ==
  ASSUME NEW ms \in Seq(MsgRec), NEW x \in MsgRec, NEW c, c.type # "SHORT",
         NEW k \in 0..Len(ms), NEW u, NEW s
  PROVE  /\ UserOk(ms, k, u) => UserOk(Append(ms, x), k, u)
         /\ SentOk(c, ms, s) => SentOk(c, Append(ms, x), s)
         /\ SentBy(c, ms, s, u) => SentBy(c, Append(ms, x), s, u)
  <1> DEFINE l == Append(ms, x)
  <1>1. Len(ms) \in Nat /\ Len(l) = Len(ms) + 1 /\ \A i \in 1..Len(ms) : l[i] = ms[i]
    BY AppendFacts
  <1> HIDE DEF l
  <1>2. \A i \in 1..Len(ms) : i \in 1..Len(l)
    BY <1>1
  <1>3. \A i \in 0..k : i # 0 => i \in 1..Len(ms)
    BY <1>1
  <1>4. UserOk(ms, k, u) => UserOk(l, k, u)
    BY <1>1, <1>3 DEF UserOk
  <1>5. SentOk(c, ms, s) => SentOk(c, l, s)
    BY <1>1, <1>2 DEF SentOk, NothingToSend
  <1>6. SentBy(c, ms, s, u) => SentBy(c, l, s, u)
    BY DEF SentBy, NoBody, NothingToSend
  <1> QED
    BY <1>4, <1>5, <1>6 DEF l

\* A callback of an open stream that keeps the stream's order.
LEMMA SentReplaces ==
  ASSUME TypeInv, UsersInv, SentInv, UNCHANGED <<cfg, queue, msgs>>,
         process # "freed", NEW e \in DOMAIN streams, streams[e].open,
         NEW t \in StreamRec, t.user = streams[e].user,
         NEW v, Replaces(e, t, v), v.body = User(e).body, v.len = User(e).len,
         UserOk(msgs, Taken, v), SentOk(cfg, msgs, t), SentBy(cfg, msgs, t, v)
  PROVE  SentInv'
  <1>1. /\ Len(streams') = Len(streams) /\ DOMAIN streams = 1..Len(streams)
        /\ Len(streams) \in Nat /\ e \in 1..Len(streams)
        /\ streams'[e] = t /\ \A d \in 1..Len(streams) : d # e => streams'[d] = streams[d]
    BY ReplaceFacts DEF Replaces, TypeInv
  <1>2. Shared' = Shared /\ Reused' = Reused /\ Taken' = Taken /\ (Reused <=> IsKept(cfg))
    BY DEF Shared, Reused, Taken, IsKept
  <1>3. streams' # <<>>
    BY <1>1
  <1>4. \A w \in DOMAIN us' : UserOk(msgs, Taken, us'[w])
    BY DEF Replaces, SentInv
  <1>5. ASSUME Shared
        PROVE  /\ cfg.type = "SHORT" => NoBody(cfg, msgs, us'[0])
               /\ Reused => us'[0].offset = 0
    <2>1. streams[e].user = 0 /\ us'[0] = v /\ User(e) = us[0]
      BY <1>1, <1>5 DEF UsersInv, Replaces, User
    <2>2. cfg.type = "SHORT" => NoBody(cfg, msgs, v)
      BY <1>5, <2>1 DEF SentInv, NoBody
    <2>3. Reused => v.offset = 0
      BY <1>2 DEF SentBy
    <2> QED
      BY <2>1, <2>2, <2>3
  <1>6. ASSUME NEW d \in 1..Len(streams)
        PROVE  /\ SentOk(cfg, msgs, streams'[d])
               /\ streams'[d].open => SentBy(cfg, msgs, streams'[d], us'[streams'[d].user])
    <2>1. CASE d = e
      BY <1>1, <2>1 DEF Replaces
    <2>2. CASE d # e
      <3>1. streams'[d] = streams[d]
        BY <1>1, <2>2
      <3>2. ASSUME streams[d].open PROVE us'[streams[d].user] = us[streams[d].user]
        <4>1. ~Shared
          BY <1>1, <2>2 DEF UsersInv
        <4>2. streams[d].user = d /\ streams[e].user = e /\ d \in DOMAIN us
          BY <1>1, <3>2, <4>1 DEF UsersInv
        <4> QED
          BY <2>2, <4>2 DEF Replaces
      <3> QED
        BY <3>1, <3>2 DEF SentInv
    <2> QED
      BY <2>1, <2>2
  <1> QED
    BY <1>1, <1>2, <1>3, <1>4, <1>5, <1>6 DEF SentInv

\* The write callback goes on with the body.
LEMMA WriteNotifySent ==
  ASSUME BaseInv, SentInv, NEW e \in DOMAIN streams, WriteNotify(e)
  PROVE  SentInv'
  <1> DEFINE s == [streams[e] EXCEPT !.blocked = FALSE]
  <1>1. TypeInv /\ UsersInv /\ cfg \in Configs /\ headers \in HeadersRec
    BY DEF BaseInv, TypeInv
  <1>2. /\ streams[e].open /\ process # "freed" /\ ~streams[e].fin
        /\ SameStream(streams[e], s) /\ s.sent = streams[e].sent /\ s.fin = streams[e].fin
        /\ UNCHANGED <<cfg, queue, msgs, process>>
    BY <1>1, WriteNotifyIs DEF Running
  <1>3. PICK r \in Content(User(e), s, headers) : Replaces(e, r.s, r.u)
    BY <1>1, WriteNotifyIs
  <1>4. PICK u : u = User(e)
    OBVIOUS
  <1>5. u \in UserRec /\ e \in 1..Len(streams) /\ s \in StreamRec /\ s.final = streams[e].final
        /\ streams[e].user \in DOMAIN us
    BY <1>1, <1>2, <1>4, ObjectOf DEF SameStream
  <1> HIDE DEF s
  <1>6. /\ UserOk(msgs, Taken, u) /\ SentOk(cfg, msgs, streams[e])
        /\ SentBy(cfg, msgs, streams[e], u)
    BY <1>2, <1>4, <1>5 DEF SentInv, User
  <1>7. SentOk(cfg, msgs, s) /\ SentBy(cfg, msgs, s, u)
    BY <1>2, <1>5, <1>6 DEF SentOk, SentBy
  <1>8. Taken \in 0..Len(msgs) /\ msgs \in Seq(MsgRec)
    BY TakenIs
  <1>9. UserOk(msgs, Taken, r.u) /\ SentOk(cfg, msgs, r.s) /\ SentBy(cfg, msgs, r.s, r.u)
    BY <1>1, <1>2, <1>3, <1>4, <1>5, <1>6, <1>7, <1>8, ContentKeeps
  <1>10. SameUser(u, r.u) /\ SameStream(s, r.s)
    BY <1>1, <1>3, <1>4, <1>5, ContentIs
  <1>11. r.s \in StreamRec /\ r.s.user = streams[e].user
         /\ r.u.body = User(e).body /\ r.u.len = User(e).len
    BY <1>2, <1>4, <1>10 DEF SameUser, SameStream
  <1> QED
    BY <1>1, <1>2, <1>3, <1>9, <1>11, SentReplaces

\* The peer and the read callback send nothing; the last report ends the stream
\* for good.
LEMMA AnswerSent ==
  ASSUME BaseInv, SentInv, NEW e \in DOMAIN streams, Peer(e) \/ ReadNotify(e)
  PROVE  SentInv'
  <1>1. TypeInv /\ UsersInv /\ RecvInv
    BY DEF BaseInv
  <1>2. streams[e].open /\ process # "freed"
    BY DEF Peer, ReadNotify, Called, Running
  <1>3. User(e) \in UserRec /\ e \in 1..Len(streams) /\ streams[e].user \in DOMAIN us
    BY <1>1, <1>2, ObjectOf
  <1>4. ToldOk(streams[e]) /\ KeepsOk(streams[e], User(e).recv)
    BY <1>1, <1>2, <1>3 DEF RecvInv, User
  <1>5. /\ UserOk(msgs, Taken, User(e)) /\ SentOk(cfg, msgs, streams[e])
        /\ SentBy(cfg, msgs, streams[e], User(e))
    BY <1>2, <1>3 DEF SentInv, User
  <1>6. PICK t \in StreamRec, v \in UserRec :
          /\ Replaces(e, t, v) /\ t.user = streams[e].user /\ t.sent = streams[e].sent
          /\ t.fin /\ t.final = 0 => streams[e].fin /\ streams[e].final = 0
          /\ v.body = User(e).body /\ v.len = User(e).len /\ v.offset = User(e).offset
    <2>1. CASE Peer(e)
      BY <1>1, <1>3, <2>1, PeerIs
    <2>2. CASE ReadNotify(e)
      <3>1. PICK t \in StreamRec, recv \in Seq(Nat) :
                /\ Replaces(e, t, [User(e) EXCEPT !.recv = recv])
                /\ ReadResult(streams[e], t, recv)
        BY <1>1, <1>4, <2>2, ReadNotifyIs
      <3>2. PICK v : v = [User(e) EXCEPT !.recv = recv]
        OBVIOUS
      <3>3. /\ v \in UserRec /\ v.body = User(e).body /\ v.len = User(e).len
            /\ v.offset = User(e).offset
        BY <1>3, <3>2 DEF UserRec
      <3>4. streams[e].final = 0
        BY <2>2 DEF ReadNotify
      <3> QED
        BY <3>1, <3>2, <3>3, <3>4 DEF ReadResult
    <2> QED
      BY <2>1, <2>2
  <1>7. UserOk(msgs, Taken, v) /\ SentOk(cfg, msgs, t) /\ SentBy(cfg, msgs, t, v)
    BY <1>5, <1>6 DEF UserOk, SentOk, SentBy, NoBody
  <1>8. UNCHANGED <<cfg, queue, msgs>>
    BY DEF Peer, ReadNotify
  <1> QED
    BY <1>1, <1>2, <1>6, <1>7, <1>8, SentReplaces

\* A request that is handled with the object u, of one of the first k messages.
LEMMA RequestsSent ==
  ASSUME TypeInv, UsersInv, SentInv, Running, process' = process, cfg' = cfg, msgs' = msgs,
         NEW u, NEW t, ObjectFor(u, t), cfg.type = "SHORT" => streams = <<>>,
         NEW hs \in HeadersRec, NEW r \in Requests(u, t, hs), Handled(t, r),
         NEW j \in Nat, Taken = j, NEW k \in 0..Len(msgs), Taken' = k, j <= k,
         UserOk(msgs, k, u), u.offset = 0, NoBody(cfg, msgs, u),
         Shared => us[0].body <= u.body
  PROVE  SentInv'
  <1> DEFINE n == Len(streams)
  <1>1. /\ process # "freed" /\ cfg \in Configs /\ msgs \in Seq(MsgRec)
        /\ streams \in Seq(StreamRec) /\ n \in Nat /\ DOMAIN streams = 1..n
        /\ 0 \in DOMAIN us /\ DOMAIN us \subseteq Nat /\ \A v \in DOMAIN us : us[v] \in UserRec
    BY DEF Running, TypeInv, UsersInv
  <1>2. u \in UserRec /\ t = (IF Shared THEN 0 ELSE n + 1) /\ t \in Nat
    BY <1>1 DEF ObjectFor
  <1>3. /\ streams' = r.streams
        /\ DOMAIN us' = DOMAIN us \cup {t} /\ us'[t] = r.u
        /\ \A v \in DOMAIN us : v # t => us'[v] = us[v]
    BY DEF Handled
  <1>4. Shared' = Shared /\ Reused' = Reused /\ (Reused <=> IsKept(cfg))
    BY DEF Shared, Reused, IsKept
  <1>5. ASSUME UserOk(msgs, k, r.u)
        PROVE  \A v \in DOMAIN us' : UserOk(msgs, k, us'[v])
    <2>1. \A v \in DOMAIN us : UserOk(msgs, k, us[v])
      <3>1. k \in Nat
        BY <1>1
      <3> QED
        BY <3>1, UserGrows DEF SentInv
    <2> QED
      BY <1>3, <1>5, <2>1
  \* What remains to be shown of an outcome.
  <1>6. ASSUME UserOk(msgs, k, r.u), r.u.body = u.body, r.u.len = u.len,
               Shared /\ (Reused \/ streams' = <<>>) => r.u.offset = 0,
               \A e \in 1..Len(streams') :
                  /\ SentOk(cfg, msgs, streams'[e])
                  /\ streams'[e].open => SentBy(cfg, msgs, streams'[e], us'[streams'[e].user])
        PROVE  SentInv'
    <2>1. Shared => us'[0] = r.u
      BY <1>2, <1>3
    <2>2. NoBody(cfg, msgs, r.u)
      BY <1>6 DEF NoBody
    <2> QED
      BY <1>4, <1>5, <1>6, <2>1, <2>2 DEF SentInv
  \* The streams there were, if only the object t changes.
  <1>7. ASSUME NEW e \in 1..n, streams[e].open, ~Shared
        PROVE  SentBy(cfg, msgs, streams[e], us'[streams[e].user])
    <2>1. streams[e].user = e /\ e \in DOMAIN us /\ e # t
      BY <1>1, <1>2, <1>7 DEF UsersInv
    <2> QED
      BY <1>3, <1>7, <2>1 DEF SentInv
  <1>8. CASE Opened(u, t, hs, r)
    <2> DEFINE w == [u EXCEPT !.request = n + 1]
               o == OpenStream(t)
    <2>1. PICK x \in Content(w, o, hs) : r.streams = Append(streams, x.s) /\ r.u = x.u
      BY <1>8 DEF Opened
    <2>2. w \in UserRec /\ w.body = u.body /\ w.len = u.len /\ w.offset = u.offset
      <3> DEFINE l == n + 1
      <3>1. l \in Nat
        BY <1>1
      <3> HIDE DEF l
      <3>2. LET v == [u EXCEPT !.request = l] IN
              v \in UserRec /\ v.body = u.body /\ v.len = u.len /\ v.offset = u.offset
        BY <1>2, <3>1 DEF UserRec
      <3> QED
        BY <3>2 DEF l
    <2>3. o \in StreamRec /\ o.user = t /\ o.open /\ o.fin = FALSE /\ Bodies(o.sent) = <<>>
      BY <1>2, OpenStreamIs, BodiesOfNothing
    <2> HIDE DEF w, o
    <2>4. UserOk(msgs, k, w) /\ NoBody(cfg, msgs, w) /\ w.offset = 0
      BY <2>2 DEF UserOk, NoBody
    <2>5. SentOk(cfg, msgs, o) /\ SentBy(cfg, msgs, o, w)
      <3>1. PICK b : b = Bodies(o.sent)
        OBVIOUS
      <3>2. b = <<>> /\ Len(b) = 0
        BY <2>3, <3>1
      <3>3. OneBody(b) /\ Chained(b)
        BY <3>2 DEF OneBody, Chained
      <3> QED
        BY <2>3, <2>4, <3>1, <3>2, <3>3 DEF SentOk, SentBy
    <2>6. UserOk(msgs, k, x.u) /\ SentOk(cfg, msgs, x.s) /\ SentBy(cfg, msgs, x.s, x.u)
      BY <1>1, <2>1, <2>2, <2>3, <2>4, <2>5, ContentKeeps
    <2>7. SameUser(w, x.u) /\ SameStream(o, x.s)
      BY <1>1, <2>1, <2>2, <2>3, ContentIs
    <2>8. /\ x.s \in StreamRec /\ x.s.user = t /\ x.s.open
          /\ x.u.body = u.body /\ x.u.len = u.len
      BY <2>2, <2>3, <2>7 DEF SameUser, SameStream
    <2>9. Shared => streams = <<>>
      BY <1>1, <1>8, NeedsStreamIs DEF Opened
    <2>10. /\ streams' # <<>> /\ Len(streams') = n + 1 /\ streams'[n + 1] = x.s
           /\ \A e \in 1..n : streams'[e] = streams[e]
      BY <1>1, <1>3, <2>1, <2>8, AppendFacts
    <2>11. ASSUME NEW e \in 1..(n + 1)
           PROVE  /\ SentOk(cfg, msgs, streams'[e])
                  /\ streams'[e].open => SentBy(cfg, msgs, streams'[e], us'[streams'[e].user])
      <3>1. CASE e = n + 1
        BY <1>3, <2>1, <2>6, <2>8, <2>10, <3>1
      <3>2. CASE e # n + 1
        <4>1. e \in 1..n /\ streams'[e] = streams[e] /\ ~Shared
          BY <1>1, <2>9, <2>10, <3>2
        <4> QED
          BY <1>7, <4>1 DEF SentInv
      <3> QED
        BY <3>1, <3>2
    <2>12. Reused => r.u.offset = 0
      BY <1>4, <2>1, <2>6 DEF SentBy
    <2> QED
      BY <1>6, <2>1, <2>6, <2>8, <2>10, <2>11, <2>12
  <1>9. CASE NotCreated(u, r)
    <2>1. /\ r.u = [u EXCEPT !.request = 0] /\ streams' = streams
          /\ Shared => streams = <<>>
      BY <1>1, <1>3, <1>9, NeedsStreamIs DEF NotCreated
    <2>2. r.u.body = u.body /\ r.u.len = u.len /\ r.u.offset = u.offset
      BY <1>2, <2>1 DEF UserRec
    <2>3. UserOk(msgs, k, r.u)
      BY <2>2 DEF UserOk
    <2>4. \A e \in 1..Len(streams') :
             /\ SentOk(cfg, msgs, streams'[e])
             /\ streams'[e].open => SentBy(cfg, msgs, streams'[e], us'[streams'[e].user])
      <3>1. Shared => n = 0
        BY <2>1
      <3> QED
        BY <1>1, <1>7, <2>1, <3>1 DEF SentInv
    <2> QED
      BY <1>6, <2>2, <2>3, <2>4
  <1>10. CASE Continued(u, hs, r)
    <2>1. /\ Shared /\ Reused /\ u.request = 1 /\ 1 \in DOMAIN streams /\ streams[1].user = 0
          /\ streams[1].open /\ n = 1
      BY <1>1, <1>10, NeedsStreamIs DEF Continued
    <2>2. PICK s : s = streams[1]
      OBVIOUS
    <2>3. s \in StreamRec
      <3>1. 1 \in DOMAIN streams /\ streams \in Seq(StreamRec)
        BY <1>1, <2>1
      <3> QED
        BY <2>2, <3>1
    <2>4. PICK x \in Content(u, s, hs) :
             r.streams = [streams EXCEPT ![1] = x.s] /\ r.u = x.u
      BY <1>10, <2>1, <2>2 DEF Continued
    <2>5. SentOk(cfg, msgs, s) /\ SentBy(cfg, msgs, s, us[0])
      BY <2>1, <2>2 DEF SentInv
    <2>6. SentBy(cfg, msgs, s, u)
      <3> DEFINE b == Bodies(s.sent)
      <3>1. b \in Seq(SentUnit)
        BY <2>3, BodiesType DEF StreamRec
      <3>2. us[0].body \in Nat /\ u.body \in Nat
        BY <1>1, <1>2 DEF UserRec
      <3> HIDE DEF b
      <3>3. b # <<>> => b[Len(b)].of \in Nat
        <4>1. b # <<>> => b[Len(b)] \in SentUnit
          BY <3>1
        <4> QED
          BY <4>1 DEF SentUnit
      <3>4. b # <<>> => b[Len(b)].of <= us[0].body
        BY <1>4, <2>1, <2>5 DEF SentBy, b
      <3>5. b # <<>> => b[Len(b)].of <= u.body
        BY <2>1, <3>2, <3>3, <3>4
      <3> QED
        BY <1>4, <2>1, <3>5 DEF SentBy, b
    <2>7. UserOk(msgs, k, x.u) /\ SentOk(cfg, msgs, x.s) /\ SentBy(cfg, msgs, x.s, x.u)
      BY <1>1, <1>2, <1>4, <2>1, <2>3, <2>4, <2>5, <2>6, ContentKeeps
    <2>8. SameUser(u, x.u) /\ SameStream(s, x.s)
      BY <1>1, <1>2, <2>3, <2>4, ContentIs
    <2>9. x.s \in StreamRec /\ x.s.user = 0 /\ x.u.body = u.body /\ x.u.len = u.len
      BY <2>1, <2>2, <2>8 DEF SameUser, SameStream
    <2>10. Len(streams') = 1 /\ streams'[1] = x.s
      BY <1>1, <1>3, <2>1, <2>4, <2>9, ReplaceFacts
    <2>11. us'[0] = x.u /\ x.u.offset = 0
      BY <1>2, <1>3, <1>4, <2>1, <2>4, <2>7 DEF SentBy
    <2>12. \A e \in 1..Len(streams') :
              /\ SentOk(cfg, msgs, streams'[e])
              /\ streams'[e].open => SentBy(cfg, msgs, streams'[e], us'[streams'[e].user])
      <3>1. \A e \in 1..Len(streams') : e = 1
        BY <2>10
      <3> QED
        BY <2>7, <2>9, <2>10, <2>11, <3>1
    <2> QED
      BY <1>6, <2>4, <2>7, <2>9, <2>11, <2>12
  <1>11. CASE NotThere(u, r)
    <2>1. /\ Shared /\ Reused /\ u.request = 1 /\ n = 1 /\ ~streams[1].open /\ streams' = streams
      BY <1>1, <1>3, <1>11, NeedsStreamIs DEF NotThere
    <2>2. r.u.body = u.body /\ r.u.len = u.len /\ r.u.offset = 0
      BY <1>2, <1>11 DEF NotThere, UserRec, Reset
    <2>3. UserOk(msgs, k, r.u)
      BY <2>2 DEF UserOk
    <2>4. \A e \in 1..Len(streams') : SentOk(cfg, msgs, streams'[e]) /\ ~streams'[e].open
      <3>1. \A e \in 1..Len(streams) : e = 1 /\ SentOk(cfg, msgs, streams[e])
        BY <2>1 DEF SentInv
      <3> QED
        BY <2>1, <3>1
    <2> QED
      BY <1>6, <2>2, <2>3, <2>4
  <1> QED
    BY <1>8, <1>9, <1>10, <1>11, RequestsAre

\* The next message goes to a stream of its own, or after those before.
LEMMA SendNextSent ==
  ASSUME BaseInv, SentInv, SendNext
  PROVE  SentInv'
  <1> DEFINE m == first_message(queue)
             hs == HeadersFor(m)
             n == Len(msgs)
             nb == queue.nb_messages
  <1>1. /\ TypeInv /\ UsersInv /\ StepInv /\ n \in Nat /\ NodesOf(queue, Nat)
        /\ Numbered(queue, n) /\ cfg \in Configs
    BY DEF BaseInv, TypeInv, ListInv
  <1>2. /\ Running /\ process # "freed" /\ pc = "drain" /\ ~msg_empty(queue)
        /\ queue' = queue_get(queue)
        /\ UNCHANGED <<cfg, msgs, pc, process>>
    BY DEF SendNext, Running
  <1>3. PICK r \in Requests(Prepared(m), Target, hs) : Handled(Target, r)
    BY DEF SendNext
  <1>4. nb \in 0..n /\ nb # 0 /\ m = n - nb + 1
    BY <1>1, <1>2, NumberedFacts
  <1>5. /\ m \in 1..n /\ m \in Nat /\ m - 1 \in Nat /\ Taken = m - 1
    BY <1>1, <1>4 DEF Taken
  <1>6. Taken' = m
    <2>1. queue'.nb_messages = nb - 1
      BY <1>1, <1>2, GetNumbered
    <2> QED
      BY <1>1, <1>2, <1>4, <2>1 DEF Taken
  <1> HIDE DEF m
  <1>7. hs \in HeadersRec
    BY <1>1, <1>5, HeadersForIs
  <1> HIDE DEF hs
  <1>8. PICK u : u = Prepared(m)
    OBVIOUS
  <1>9. PICK t : t = Target
    OBVIOUS
  <1>10. /\ ObjectFor(u, t) /\ u.body = m /\ u.len = msgs[m].len
         /\ u.offset = IF Shared THEN us[0].offset ELSE 0
    BY <1>1, <1>2, <1>5, <1>8, <1>9, PreparedIs
  <1>11. cfg.type # "SHORT"
    BY <1>1, <1>2 DEF StepInv
  <1>12. u.offset = 0
    <2>1. Shared => Reused
      BY <1>1, <1>11 DEF Shared, Reused, Configs
    <2> QED
      BY <1>2, <1>10, <2>1 DEF SentInv
  <1>13. msgs[m].len \in Nat
    <2>1. msgs[m] \in MsgRec
      BY <1>1, <1>5 DEF TypeInv
    <2> QED
      BY <2>1 DEF MsgRec
  <1>14. UserOk(msgs, m, u) /\ NoBody(cfg, msgs, u)
    BY <1>5, <1>10, <1>12, <1>13 DEF UserOk, NoBody
  <1>15. Shared => us[0].body <= u.body
    <2>1. 0 \in DOMAIN us /\ us[0].body \in 0..(m - 1)
      BY <1>1, <1>2, <1>5 DEF UsersInv, SentInv, UserOk
    <2> QED
      BY <1>5, <1>10, <2>1
  <1>16. r \in Requests(u, t, hs) /\ Handled(t, r)
    BY <1>3, <1>8, <1>9
  <1>17. m \in 0..Len(msgs) /\ m - 1 <= m
    BY <1>5
  <1> QED
    BY <1>1, <1>2, <1>5, <1>6, <1>7, <1>10, <1>11, <1>12, <1>14, <1>15, <1>16, <1>17,
       RequestsSent

\* The request of a short call.
LEMMA SendShortSent ==
  ASSUME BaseInv, SentInv, SendShort
  PROVE  SentInv'
  <1>1. TypeInv /\ UsersInv /\ headers \in HeadersRec
    BY DEF BaseInv, TypeInv
  <1>2. /\ process # "freed" /\ cfg.type = "SHORT" /\ streams = <<>> /\ Running /\ Shared
        /\ UNCHANGED <<cfg, queue, msgs, process>>
    BY DEF SendShort, Running, Shared
  <1>3. PICK u : u = us[0]
    OBVIOUS
  <1>4. PICK r \in Requests(u, 0, headers) : Handled(0, r)
    BY <1>3 DEF SendShort
  <1>5. ObjectFor(u, 0) /\ u \in UserRec /\ u.body \in Nat /\ 0 \in DOMAIN us
    BY <1>1, <1>2, <1>3 DEF ObjectFor, TypeInv, UsersInv, UserRec
  <1>6. Taken \in 0..Len(msgs) /\ Taken \in Nat /\ Taken' = Taken
    BY <1>2, TakenIs DEF Taken
  <1>7. u.offset = 0 /\ NoBody(cfg, msgs, u) /\ UserOk(msgs, Taken, u)
    BY <1>2, <1>3, <1>5 DEF SentInv
  <1>8. us[0].body <= u.body /\ Taken <= Taken
    BY <1>3, <1>5, <1>6
  <1>9. PICK k : k = Taken
    OBVIOUS
  <1>10. k \in Nat /\ k \in 0..Len(msgs) /\ Taken' = k /\ k <= k /\ UserOk(msgs, k, u)
    BY <1>6, <1>7, <1>9
  <1> QED
    BY <1>1, <1>2, <1>4, <1>5, <1>7, <1>8, <1>9, <1>10, RequestsSent

\* Nothing is sent, and maybe a message is taken.
LEMMA SentStays ==
  ASSUME SentInv, UNCHANGED <<cfg, msgs, us, streams>>, process # "freed",
         NEW j \in Nat, Taken = j, NEW k \in Nat, Taken' = k, j <= k
  PROVE  SentInv'
  <1>1. Shared' = Shared /\ Reused' = Reused
    BY DEF Shared, Reused
  <1>2. \A v \in DOMAIN us : UserOk(msgs, k, us[v])
    BY UserGrows DEF SentInv
  <1> QED
    BY <1>1, <1>2 DEF SentInv

\* A message is taken and forgotten.
LEMMA QuietSent ==
  ASSUME BaseInv, SentInv, BeginRequests \/ EndRequests \/ Crash \/ DropMessage
  PROVE  SentInv'
  <1>1. /\ Taken \in Nat /\ process # "freed" /\ Len(msgs) \in Nat
        /\ queue.nb_messages \in 0..Len(msgs)
    BY TakenIs DEF BeginRequests, EndRequests, Crash, DropMessage, Running
  <1>2. CASE BeginRequests \/ EndRequests \/ Crash
    <2>1. UNCHANGED <<cfg, msgs, us, streams>> /\ Taken' = Taken
      BY <1>2 DEF BeginRequests, EndRequests, Crash, Taken
    <2>2. PICK k : k = Taken
      OBVIOUS
    <2>3. k \in Nat /\ k <= k /\ Taken' = k
      BY <1>1, <2>1, <2>2
    <2> QED
      BY <1>1, <2>1, <2>2, <2>3, SentStays
  <1>3. CASE DropMessage
    <2>1. UNCHANGED <<cfg, msgs, us, streams>> /\ queue' = queue_get(queue)
      BY <1>3 DEF DropMessage
    <2>2. queue'.nb_messages = queue.nb_messages - 1
      BY <2>1 DEF queue_get
    <2>3. PICK j : j = Taken
      OBVIOUS
    <2>4. PICK k : k = j + 1
      OBVIOUS
    <2>5. j \in Nat /\ k \in Nat /\ j <= k
      BY <1>1, <2>3, <2>4
    <2>6. Taken' = k
      BY <1>1, <2>1, <2>2, <2>3, <2>4 DEF Taken
    <2> QED
      BY <1>1, <2>1, <2>3, <2>5, <2>6, SentStays
  <1> QED
    BY <1>2, <1>3

\* A message more does not change what was sent.
LEMMA LongSendSent ==
  ASSUME BaseInv, SentInv, NEW message \in Messages, client_long_send(message)
  PROVE  SentInv'
  <1>1. /\ Taken \in 0..Len(msgs) /\ Len(msgs) \in Nat /\ msgs \in Seq(MsgRec)
        /\ queue.nb_messages \in 0..Len(msgs)
    BY TakenIs
  <1>2. message \in MsgRec
    BY StreamIOAssumption DEF MsgRec
  <1>3. /\ process # "freed" /\ cfg.type # "SHORT"
        /\ msgs' = Append(msgs, message)
        /\ UNCHANGED <<cfg, us, streams, process>>
    BY DEF client_long_send
  <1>4. queue'.nb_messages = queue.nb_messages + 1
    BY DEF client_long_send, queue_put
  <1>5. Len(msgs') = Len(msgs) + 1
    BY <1>1, <1>2, <1>3
  <1>6. Taken' = Taken
    BY <1>1, <1>4, <1>5 DEF Taken
  <1>7. Shared' = Shared /\ Reused' = Reused
    BY <1>3 DEF Shared, Reused
  <1>8. \A v \in DOMAIN us : UserOk(msgs', Taken, us[v])
    BY <1>1, <1>2, <1>3, MessagesGrow DEF SentInv
  <1>9. \A e \in 1..Len(streams) :
           /\ SentOk(cfg, msgs', streams[e])
           /\ streams[e].open => SentBy(cfg, msgs', streams[e], us[streams[e].user])
    BY <1>1, <1>2, <1>3, MessagesGrow DEF SentInv
  <1> QED
    BY <1>3, <1>6, <1>7, <1>8, <1>9 DEF SentInv

\* The object of a stream that is closed goes, or loses its body.
LEMMA CloseNotifySent ==
  ASSUME BaseInv, SentInv, NEW e \in DOMAIN streams, CloseNotify(e)
  PROVE  SentInv'
  <1> DEFINE s == streams[e]
             t == [s EXCEPT !.open = FALSE, !.blocked = FALSE, !.flags = {}]
             n == Len(streams)
  <1>1. /\ TypeInv /\ UsersInv /\ cfg \in Configs /\ streams \in Seq(StreamRec) /\ n \in Nat
        /\ \A v \in DOMAIN us : us[v] \in UserRec
    BY DEF BaseInv, TypeInv
  <1>2. /\ s.open /\ process # "freed" /\ UNCHANGED <<cfg, queue, msgs, process>>
        /\ streams' = [streams EXCEPT ![e] = t]
        /\ us' = IF cfg.alpn = "H3" THEN client_on_stream_fin(s.user)
                                    ELSE stream_fin_hq(s.user)
    BY DEF CloseNotify, Called, Running
  <1>3. /\ e \in 1..n /\ DOMAIN streams = 1..n /\ s \in StreamRec
        /\ s.user = (IF Shared THEN 0 ELSE e) /\ s.user \in DOMAIN us
    BY <1>1, <1>2, ObjectOf DEF UsersInv
  <1>4. t \in StreamRec /\ t.open = FALSE /\ t.sent = s.sent /\ t.fin = s.fin /\ t.final = s.final
    BY <1>3 DEF StreamRec
  <1> HIDE DEF t
  <1>5. Len(streams') = n /\ streams'[e] = t /\ \A d \in 1..n : d # e => streams'[d] = streams[d]
    BY <1>1, <1>2, <1>3, <1>4, ReplaceFacts
  <1>6. Shared' = Shared /\ Reused' = Reused /\ Taken' = Taken
    BY <1>2 DEF Shared, Reused, Taken
  <1>7. cfg.alpn \in {"H3", "HQ"} /\ cfg.type \in {"LONG", "SHORT"} /\ cfg.finish \in BOOLEAN
        /\ (cfg.alpn = "H3" => cfg.finish)
    BY <1>1 DEF Configs
  \* An object that is left has its body, or none.
  <1>8. /\ cfg.type = "SHORT" => us' = us
        /\ \A v \in DOMAIN us' : v \in DOMAIN us /\ us'[v].offset = us[v].offset
                                 /\ us'[v].len = us[v].len /\ us'[v].body \in {0, us[v].body}
        /\ \A v \in DOMAIN us' : v # s.user => us'[v] = us[v]
    <2>1. CASE cfg.type = "SHORT"
      <3>1. us' = us
        BY <1>2, <2>1 DEF client_on_stream_fin, stream_fin_hq
      <3> QED
        BY <3>1
    <2>2. CASE cfg.type = "LONG" /\ (cfg.alpn = "H3" \/ cfg.finish)
      <3>1. us' = [v \in DOMAIN us \ {s.user} |-> us[v]]
        BY <1>2, <2>2 DEF client_on_stream_fin, stream_fin_hq
      <3> QED
        BY <2>2, <3>1
    <2>3. CASE cfg.type = "LONG" /\ ~(cfg.alpn = "H3" \/ cfg.finish)
      <3>1. us' = [us EXCEPT ![s.user].body = 0]
        BY <1>2, <2>3 DEF stream_fin_hq
      <3>2. us[s.user] \in UserRec
        BY <1>1, <1>3
      <3> QED
        BY <2>3, <3>1, <3>2 DEF UserRec
    <2> QED
      BY <1>7, <2>1, <2>2, <2>3
  <1>9. \A v \in DOMAIN us' : UserOk(msgs, Taken, us'[v])
    <2>1. Taken \in Nat
      BY TakenIs
    <2> QED
      BY <1>8, <2>1 DEF SentInv, UserOk
  <1>10. ASSUME Shared
         PROVE  /\ cfg.type = "SHORT" => NoBody(cfg, msgs, us'[0])
                /\ Reused \/ streams' = <<>> => us'[0].offset = 0
    <2>1. cfg.type = "SHORT" => NoBody(cfg, msgs, us'[0])
      BY <1>2, <1>8, <1>10 DEF SentInv
    <2>2. streams' # <<>>
      BY <1>1, <1>3, <1>5
    <2>3. ASSUME Reused PROVE us'[0].offset = 0
      <3>1. us[0].offset = 0
        BY <1>2, <1>10, <2>3 DEF SentInv
      <3>2. 0 \in DOMAIN us'
        <4>1. CASE cfg.type = "SHORT"
          BY <1>1, <1>2, <1>8, <4>1 DEF UsersInv
        <4>2. CASE cfg.type = "LONG"
          <5>1. us' = [us EXCEPT ![s.user].body = 0]
            BY <1>2, <2>3, <4>2 DEF stream_fin_hq, Reused
          <5> QED
            BY <1>1, <1>2, <5>1 DEF UsersInv
        <4> QED
          BY <1>7, <4>1, <4>2
      <3> QED
        BY <1>8, <3>1, <3>2
    <2> QED
      BY <2>1, <2>2, <2>3
  <1>11. ASSUME NEW d \in 1..n
         PROVE  /\ SentOk(cfg, msgs, streams'[d])
                /\ streams'[d].open => SentBy(cfg, msgs, streams'[d], us'[streams'[d].user])
    <2>1. CASE d = e
      <3>1. SentOk(cfg, msgs, s)
        BY <1>3 DEF SentInv
      <3>2. SentOk(cfg, msgs, t)
        BY <1>4, <3>1 DEF SentOk
      <3> QED
        BY <1>4, <1>5, <2>1, <3>2
    <2>2. CASE d # e
      <3>1. streams'[d] = streams[d]
        BY <1>5, <2>2
      <3>2. ASSUME streams[d].open PROVE us'[streams[d].user] = us[streams[d].user]
        <4>1. ~Shared
          BY <1>1, <1>3, <2>2 DEF UsersInv
        <4>2. streams[d].user = d /\ s.user = e /\ d \in DOMAIN us
          BY <1>1, <1>3, <3>2, <4>1 DEF UsersInv
        <4>3. us' = [v \in DOMAIN us \ {s.user} |-> us[v]]
          BY <1>2, <1>7, <4>1 DEF client_on_stream_fin, stream_fin_hq, Shared
        <4> QED
          BY <2>2, <4>2, <4>3
      <3> QED
        BY <3>1, <3>2 DEF SentInv
    <2> QED
      BY <2>1, <2>2
  <1> QED
    BY <1>2, <1>5, <1>6, <1>9, <1>10, <1>11 DEF SentInv

\* The context is freed after its streams.
LEMMA FreeCtxSent ==
  ASSUME BaseInv, SentInv, free_ctx
  PROVE  SentInv'
  <1>1. /\ \A e \in 1..Len(streams) : ~streams[e].open
        /\ process' = "freed" /\ queue' = queue_destroy(queue)
        /\ us' = [u \in DOMAIN us \ {0} |-> us[u]]
        /\ UNCHANGED <<cfg, msgs, streams>>
    <2>1. DOMAIN streams = 1..Len(streams)
      BY DEF BaseInv, TypeInv
    <2> QED
      BY <2>1 DEF free_ctx
  <1>2. /\ Taken \in 0..Len(msgs) /\ Len(msgs) \in Nat
    BY TakenIs
  <1>3. queue'.nb_messages = 0
    BY <1>1 DEF queue_destroy, EmptyQueue
  <1>4. Taken' = Len(msgs)
    BY <1>1, <1>2, <1>3 DEF Taken
  <1>5. \A v \in DOMAIN us' : UserOk(msgs, Len(msgs), us'[v])
    <2>1. PICK j \in Nat : j = Taken
      BY <1>2
    <2>2. PICK k \in Nat : k = Len(msgs)
      BY <1>2
    <2>3. j <= k
      BY <1>2, <2>1, <2>2
    <2>4. \A v \in DOMAIN us : UserOk(msgs, j, us[v])
      BY <2>1 DEF SentInv
    <2>5. \A v \in DOMAIN us : UserOk(msgs, k, us[v])
      BY <2>3, <2>4, UserGrows
    <2> QED
      BY <1>1, <2>2, <2>5
  <1> QED
    BY <1>1, <1>4, <1>5 DEF SentInv

\* Nothing was sent in the beginning; a short call has its body.
LEMMA InitSent == Init => SentInv
  <1> SUFFICES ASSUME Init PROVE SentInv
    OBVIOUS
  <1>1. PICK k \in {x.len : x \in Messages} :
          /\ msgs = IF cfg.type = "LONG" THEN <<>> ELSE <<[what |-> "BYTE", len |-> k]>>
          /\ us = [u \in {0} |-> IF cfg.type = "LONG" \/ k = 0 THEN NewStream
                                 ELSE [NewStream EXCEPT !.body = 1, !.len = k]]
    BY DEF Init
  <1>2. k \in Nat
    BY StreamIOAssumption
  <1>3. cfg \in Configs /\ queue.nb_messages = 0 /\ streams = <<>> /\ Len(streams) = 0
    BY DEF Init, EmptyQueue
  <1>4. cfg.type # "LONG" => msgs[1].len = k /\ Len(msgs) = 1
    BY <1>1
  <1>5. Len(msgs) \in Nat /\ (cfg.type # "LONG" => Len(msgs) = 1)
    BY <1>1
  <1>6. Taken \in Nat /\ (cfg.type # "LONG" => Taken = 1)
    BY <1>3, <1>5 DEF Taken
  <1>7. DOMAIN us = {0} /\ us[0].offset = 0
    BY <1>1 DEF NewStream
  <1>8. \/ us[0].body = 0 /\ us[0].len = 0 /\ (cfg.type # "LONG" => k = 0)
        \/ us[0].body = 1 /\ us[0].len = k /\ cfg.type # "LONG"
    BY <1>1 DEF NewStream
  <1>9. UserOk(msgs, Taken, us[0])
    BY <1>2, <1>4, <1>6, <1>7, <1>8 DEF UserOk
  <1>10. cfg.type = "SHORT" => NoBody(cfg, msgs, us[0])
    BY <1>4, <1>8 DEF NoBody, NothingToSend
  <1> QED
    BY <1>3, <1>7, <1>9, <1>10 DEF SentInv

\* Every step keeps what is known of the units that were sent.
LEMMA NextSent == BaseInv /\ SentInv /\ [Next]_vars => SentInv'
  <1> SUFFICES ASSUME BaseInv, SentInv, [Next]_vars PROVE SentInv'
    OBVIOUS
  <1>1. CASE UNCHANGED vars
    <2>1. Shared' = Shared /\ Reused' = Reused /\ Taken' = Taken
      BY <1>1 DEF vars, Shared, Reused, Taken
    <2> QED
      BY <1>1, <2>1 DEF vars, SentInv
  <1>2. CASE Next
    BY <1>2, LongSendSent, QuietSent, SendNextSent, SendShortSent, WriteNotifySent,
       AnswerSent, CloseNotifySent, FreeCtxSent DEF Next
  <1> QED
    BY <1>1, <1>2

\* Objects have the bodies of messages that were taken, and what was sent agrees
\* with them, whatever the engine takes of it.
THEOREM SentInvariant == Spec => [](BaseInv /\ SentInv)
  <1>1. Spec => []BaseInv
    BY BaseInvariant
  <1> QED
    BY <1>1, InitSent, NextSent, PTL DEF Spec

\* A stream of its own carries the body of its message in order, each unit once,
\* and ends with it.  On the HQ stream that is kept a message may be cut after any
\* unit, when the engine takes only a part (xquic_hq_ctrl.c:38-41): what follows
\* is then the first unit of that message or of a later one, never the rest of a
\* message behind another.
THEOREM WhatIsSentIsInOrder == Spec => []SentInOrder
  <1>1. BaseInv /\ SentInv => SentInOrder
    <2> SUFFICES ASSUME BaseInv, SentInv PROVE SentInOrder
      OBVIOUS
    <2>1. (Reused <=> IsKept(cfg)) /\ DOMAIN streams = 1..Len(streams)
      BY DEF Reused, IsKept, BaseInv, TypeInv
    <2>2. ASSUME NEW e \in 1..Len(streams)
          PROVE  /\ SentOk(cfg, msgs, streams[e]) /\ Body(e) = Bodies(streams[e].sent)
                 /\ DOMAIN Body(e) = 1..Len(Body(e))
                 /\ streams[e].open => SentBy(cfg, msgs, streams[e], us[streams[e].user])
      <3>1. streams[e].sent \in Seq(SentUnit)
        <4>1. streams[e] \in StreamRec
          BY DEF BaseInv, TypeInv
        <4> QED
          BY <4>1 DEF StreamRec
      <3>2. Body(e) \in Seq(SentUnit)
        BY <3>1, BodiesType DEF Body
      <3> QED
        BY <3>2 DEF SentInv, Body
    <2> HIDE DEF Body
    <2>3. ASSUME ~Reused, NEW e \in 1..Len(streams)
          PROVE  /\ \A i \in DOMAIN Body(e) : Body(e)[i].of = Body(e)[1].of /\ Body(e)[i].unit = i
                 /\ streams[e].open /\ process # "freed" =>
                      us[streams[e].user].offset = Len(Body(e))
                 /\ streams[e].fin /\ streams[e].final = 0 =>
                      \/ Body(e) # <<>> /\ Len(Body(e)) = msgs[Body(e)[1].of].len
                      \/ cfg.type = "SHORT" /\ msgs[1].len = 0
      BY <2>1, <2>2, <2>3 DEF SentOk, SentBy, OneBody, NothingToSend
    <2>4. ASSUME Reused, NEW e \in 1..Len(streams), NEW i \in 2..Len(Body(e))
          PROVE  LET x == Body(e)[i] y == Body(e)[i - 1] IN
                 \/ x.of = y.of /\ x.unit = y.unit + 1
                 \/ x.of >= y.of /\ x.unit = 1
      BY <2>1, <2>2, <2>4 DEF SentOk, Chained, Follows
    <2> QED
      BY <2>1, <2>3, <2>4 DEF SentInOrder
  <1> QED
    BY <1>1, SentInvariant, PTL

-----------------------------------------------------------------------------
(* Whose header section is sent.                                             *)

\* The header section that is not freed is that of no message; the other one was
\* that of a JSON message that was taken.
HeadInv ==
  /\ headers.live => headers.of = 0
  /\ ~headers.live => headers.of \in 1..Taken /\ msgs[headers.of].what = "JSON"

\* The section for the next message, and what is left of it.
LEMMA HeadersNext ==
  ASSUME BaseInv, SendNext, NEW m, m = first_message(queue)
  PROVE  /\ m = Taken + 1 /\ m \in 1..Len(msgs) /\ Taken' = m
         /\ headers' = IF msgs[m].what = "JSON" THEN [HeadersFor(m) EXCEPT !.live = FALSE]
                                               ELSE HeadersFor(m)
         /\ \E r \in Requests(Prepared(m), Target, HeadersFor(m)) : Handled(Target, r)
         /\ Running /\ active > 0 /\ cfg.type # "SHORT"
         /\ UNCHANGED <<cfg, msgs, process>>
  <1> DEFINE n == Len(msgs)
             nb == queue.nb_messages
  <1>1. /\ TypeInv /\ n \in Nat /\ NodesOf(queue, Nat) /\ Numbered(queue, n) /\ StepInv
    BY DEF BaseInv, TypeInv, ListInv
  <1>2. /\ ~msg_empty(queue) /\ queue' = queue_get(queue) /\ msgs' = msgs
        /\ Running /\ active > 0 /\ cfg.type # "SHORT"
        /\ UNCHANGED <<cfg, msgs, process>>
    BY <1>1 DEF SendNext, StepInv
  <1>3. nb \in 0..n /\ nb # 0 /\ m = n - nb + 1
    BY <1>1, <1>2, NumberedFacts
  <1>4. queue'.nb_messages = nb - 1
    BY <1>1, <1>2, GetNumbered
  <1>5. m = Taken + 1 /\ m \in 1..n /\ Taken' = m
    BY <1>1, <1>2, <1>3, <1>4 DEF Taken
  <1>6. /\ \E r \in Requests(Prepared(m), Target, HeadersFor(m)) : Handled(Target, r)
        /\ headers' = IF msgs[m].what = "JSON" THEN [HeadersFor(m) EXCEPT !.live = FALSE]
                                               ELSE HeadersFor(m)
    BY DEF SendNext
  <1> QED
    BY <1>2, <1>5, <1>6

\* A step that leaves headers and the messages already taken alone keeps HeadInv.
LEMMA HeadStays ==
  ASSUME HeadInv, headers' = headers, NEW j \in Nat, Taken = j, NEW k \in Nat, Taken' = k, j <= k,
         \A i \in 1..j : msgs'[i] = msgs[i]
  PROVE  HeadInv'
  BY DEF HeadInv

\* Every step keeps what is known of the header sections.
LEMMA NextHead == BaseInv /\ HeadInv /\ [Next]_vars => HeadInv'
  <1> SUFFICES ASSUME BaseInv, HeadInv, [Next]_vars PROVE HeadInv'
    OBVIOUS
  <1>1. /\ Taken \in 0..Len(msgs) /\ Len(msgs) \in Nat /\ msgs \in Seq(MsgRec)
        /\ queue.nb_messages \in 0..Len(msgs)
    BY TakenIs
  <1>2. PICK j \in Nat : j = Taken
    BY <1>1
  <1>3. CASE SendNext
    <2>1. PICK m : m = first_message(queue)
      OBVIOUS
    <2>2. /\ m = Taken + 1 /\ m \in 1..Len(msgs) /\ Taken' = m /\ msgs' = msgs
          /\ headers' = IF msgs[m].what = "JSON" THEN [HeadersFor(m) EXCEPT !.live = FALSE]
                                                ELSE HeadersFor(m)
      BY <1>3, <2>1, HeadersNext
    <2>3. CASE msgs[m].what = "JSON"
      <3>1. headers' = [of |-> m, live |-> FALSE]
        BY <2>2, <2>3 DEF HeadersFor
      <3>2. m \in 1..m
        BY <2>2
      <3> QED
        BY <2>2, <2>3, <3>1, <3>2 DEF HeadInv
    <2>4. CASE msgs[m].what # "JSON"
      <3>1. headers' = headers
        BY <2>2, <2>4 DEF HeadersFor
      <3>2. m \in Nat /\ j <= m
        BY <1>2, <2>2
      <3> QED
        BY <1>2, <2>2, <3>1, <3>2, HeadStays
    <2> QED
      BY <2>3, <2>4
  <1>4. CASE \E message \in Messages : client_long_send(message)
    <2>1. PICK message \in Messages : client_long_send(message)
      BY <1>4
    <2>2. message \in MsgRec
      BY StreamIOAssumption DEF MsgRec
    <2>3. headers' = headers /\ msgs' = Append(msgs, message)
      BY <2>1 DEF client_long_send
    <2>4. queue'.nb_messages = queue.nb_messages + 1
      BY <2>1 DEF client_long_send, queue_put
    <2>5. Len(msgs') = Len(msgs) + 1 /\ \A i \in 1..Len(msgs) : msgs'[i] = msgs[i]
      BY <1>1, <2>2, <2>3, AppendFacts
    <2>6. Taken' = j
      BY <1>1, <1>2, <2>4, <2>5 DEF Taken
    <2>7. \A i \in 1..j : i \in 1..Len(msgs)
      BY <1>1, <1>2
    <2>8. j <= j
      OBVIOUS
    <2> QED
      BY <1>2, <2>3, <2>5, <2>6, <2>7, <2>8, HeadStays
  <1>5. CASE DropMessage \/ free_ctx
    <2>1. headers' = headers /\ msgs' = msgs
      BY <1>5 DEF DropMessage, free_ctx
    <2>2. queue'.nb_messages \in {queue.nb_messages - 1, 0}
      BY <1>5 DEF DropMessage, free_ctx, queue_get, queue_destroy, EmptyQueue
    <2>3. Taken' \in {Taken + 1, Len(msgs)}
      BY <1>1, <2>1, <2>2 DEF Taken
    <2>4. PICK k : k = Taken'
      OBVIOUS
    <2>5. k \in Nat /\ j <= k
      BY <1>1, <1>2, <2>3, <2>4
    <2> QED
      BY <1>2, <2>1, <2>4, <2>5, HeadStays
  <1>6. ASSUME UNCHANGED <<headers, queue, msgs>> PROVE HeadInv'
    <2>1. Taken' = j /\ j <= j
      BY <1>2, <1>6 DEF Taken
    <2> QED
      BY <1>2, <1>6, <2>1, HeadStays
  <1>7. CASE UNCHANGED vars \/ BeginRequests \/ EndRequests \/ SendShort \/ Crash
    BY <1>6, <1>7 DEF vars, BeginRequests, EndRequests, SendShort, Crash
  <1>8. CASE \E e \in DOMAIN streams :
               WriteNotify(e) \/ Peer(e) \/ ReadNotify(e) \/ CloseNotify(e)
    BY <1>6, <1>8 DEF WriteNotify, Peer, ReadNotify, CloseNotify
  <1> QED
    BY <1>3, <1>4, <1>5, <1>7, <1>8 DEF Next

\* The only unit of what was sent that is not of a body is the header section.
SectionOnly(s, t, hs) ==
  \A i \in DOMAIN t.sent :
    i > Len(s.sent) /\ t.sent[i].what # "body" => cfg.alpn = "H3" /\ t.sent[i] = Section(hs)

\* Where the elements of two sequences are in the one of both.
LEMMA ConcatFacts ==
  ASSUME NEW S, NEW s \in Seq(S), NEW t \in Seq(S)
  PROVE  /\ DOMAIN (s \o t) = 1..(Len(s) + Len(t)) /\ Len(s) \in Nat /\ Len(t) \in Nat
         /\ \A i \in 1..Len(s) : (s \o t)[i] = s[i]
         /\ \A i \in 1..Len(t) : (s \o t)[Len(s) + i] = t[i]
  OBVIOUS

\* A send function sends a section of H3 and units of the body.
LEMMA ContentSection ==
  ASSUME cfg \in Configs, NEW u \in UserRec, NEW s \in StreamRec, NEW hs \in HeadersRec,
         NEW r \in Content(u, s, hs)
  PROVE  SectionOnly(s, r.s, hs)
  <1>1. PICK n \in Nat, pre \in StreamRec : Headed(u, s, hs, pre) /\ Sends(u, pre, r, n)
    BY ContentIs
  <1> DEFINE m == u.body
             o == u.offset
             x == Units(m, o, n)
             p == pre.sent
             z == s.sent
  <1>2. m \in Nat /\ o \in Nat
    BY DEF UserRec
  <1>3. z \in Seq(SentUnit) /\ p \in Seq(SentUnit) /\ r.s.sent = p \o x
    BY <1>1 DEF StreamRec, Sends
  <1>4. x \in Seq(SentUnit) /\ Len(x) = n /\ \A i \in 1..n : x[i].what = "body"
    <2>1. x \in Seq(SentUnit)
      BY <1>2, UnitsType
    <2>2. Len(x) = n /\ \A i \in 1..n : x[i].what = "body"
      BY <1>2 DEF Units
    <2> QED
      BY <2>1, <2>2
  <1>5. p = z \/ (cfg.alpn = "H3" /\ p = Append(z, Section(hs)))
    BY <1>1 DEF Headed
  <1>6. Section(hs) \in SentUnit
    BY DEF Section, HeadersRec, SentUnit
  <1> HIDE DEF x, p, z
  <1>7. \A i \in 1..Len(p) : i > Len(z) => cfg.alpn = "H3" /\ p[i] = Section(hs)
    <2>1. CASE p = z
      BY <1>3, <2>1
    <2>2. CASE cfg.alpn = "H3" /\ p = Append(z, Section(hs))
      <3>1. Len(z) \in Nat /\ Len(p) = Len(z) + 1 /\ p[Len(z) + 1] = Section(hs)
        BY <1>3, <1>6, <2>2, AppendFacts
      <3>2. \A i \in 1..Len(p) : i > Len(z) => i = Len(z) + 1
        BY <3>1
      <3> QED
        BY <2>2, <3>1, <3>2
    <2> QED
      BY <1>5, <2>1, <2>2
  <1> DEFINE t == p \o x
  <1>8. DOMAIN t = 1..(Len(p) + n) /\ Len(p) \in Nat
        /\ (\A i \in 1..Len(p) : t[i] = p[i])
        /\ \A i \in 1..n : t[Len(p) + i] = x[i]
    BY <1>3, <1>4, ConcatFacts
  <1> HIDE DEF t
  <1>9. ASSUME NEW i \in DOMAIN t, i > Len(z), t[i].what # "body"
        PROVE  cfg.alpn = "H3" /\ t[i] = Section(hs)
    <2>1. CASE i <= Len(p)
      <3>1. i \in 1..Len(p)
        BY <1>8, <2>1
      <3> QED
        BY <1>7, <1>8, <1>9, <3>1
    <2>2. CASE i > Len(p)
      <3>1. i - Len(p) \in 1..n /\ Len(p) + (i - Len(p)) = i
        BY <1>8, <2>2
      <3> QED
        BY <1>4, <1>8, <1>9, <3>1
    <2> QED
      BY <1>8, <2>1, <2>2
  <1> QED
    BY <1>3, <1>9 DEF SectionOnly, t, z

\* A unit of what a stream carries after the step that it did not carry before.
NewUnit(e, i) ==
  /\ e \in DOMAIN streams' /\ i \in DOMAIN streams'[e].sent /\ New(e, i)
  /\ streams'[e].sent[i].what # "body"

\* Where the streams are the same or carry the same, there is none.
LEMMA NothingNew ==
  ASSUME TypeInv, NEW e, NEW i, NewUnit(e, i),
         DOMAIN streams' = DOMAIN streams,
         e \in DOMAIN streams => streams'[e].sent = streams[e].sent
  PROVE  FALSE
  <1>1. e \in DOMAIN streams /\ i \in DOMAIN streams[e].sent /\ i > Len(streams[e].sent)
    BY DEF NewUnit, New
  <1>2. streams[e] \in StreamRec
    BY <1>1 DEF TypeInv
  <1>3. DOMAIN streams[e].sent = 1..Len(streams[e].sent) /\ Len(streams[e].sent) \in Nat
    BY <1>2 DEF StreamRec
  <1> QED
    BY <1>1, <1>3

\* A request sends its section on the stream that it opens.
LEMMA RequestsSection ==
  ASSUME TypeInv, UsersInv, Running,
         NEW u, NEW t, ObjectFor(u, t), cfg.type = "SHORT" => streams = <<>>,
         NEW hs \in HeadersRec, NEW r \in Requests(u, t, hs), Handled(t, r),
         NEW e, NEW i, NewUnit(e, i)
  PROVE  cfg.alpn = "H3" /\ streams'[e].sent[i] = Section(hs) /\ e = Len(streams) + 1
  <1> DEFINE n == Len(streams)
  <1>1. /\ process # "freed" /\ cfg \in Configs
        /\ streams \in Seq(StreamRec) /\ n \in Nat /\ DOMAIN streams = 1..n
    BY DEF Running, TypeInv
  <1>2. u \in UserRec /\ t \in Nat /\ streams' = r.streams
    BY <1>1 DEF ObjectFor, Handled
  <1>3. CASE Opened(u, t, hs, r)
    <2> DEFINE w == [u EXCEPT !.request = n + 1]
               o == OpenStream(t)
    <2>1. PICK x \in Content(w, o, hs) : r.streams = Append(streams, x.s)
      BY <1>3 DEF Opened
    <2>2. w \in UserRec
      <3> DEFINE l == n + 1
      <3>1. l \in Nat
        BY <1>1
      <3> HIDE DEF l
      <3>2. [u EXCEPT !.request = l] \in UserRec
        BY <1>2, <3>1 DEF UserRec
      <3> QED
        BY <3>2 DEF l
    <2>3. o \in StreamRec /\ o.sent = <<>>
      BY <1>2, OpenStreamIs
    <2> HIDE DEF w, o
    <2>4. SectionOnly(o, x.s, hs)
      BY <1>1, <2>1, <2>2, <2>3, ContentSection
    <2>5. x.s \in StreamRec
      BY <1>1, <2>1, <2>2, <2>3, ContentIs DEF SameStream
    <2>6. /\ DOMAIN streams' = 1..(n + 1) /\ streams'[n + 1] = x.s
          /\ \A d \in 1..n : streams'[d] = streams[d]
      BY <1>1, <1>2, <2>1, <2>5, AppendFacts
    <2>7. e = n + 1
      <3>1. SUFFICES ASSUME e \in 1..n PROVE FALSE
        BY <1>1, <2>6 DEF NewUnit
      <3>2. i \in DOMAIN streams[e].sent /\ i > Len(streams[e].sent)
        BY <1>1, <2>6, <3>1 DEF NewUnit, New
      <3>3. streams[e] \in StreamRec
        BY <1>1, <3>1
      <3>4. DOMAIN streams[e].sent = 1..Len(streams[e].sent) /\ Len(streams[e].sent) \in Nat
        BY <3>3 DEF StreamRec
      <3> QED
        BY <3>2, <3>4
    <2>8. i \in DOMAIN x.s.sent /\ x.s.sent[i].what # "body"
      BY <2>6, <2>7 DEF NewUnit
    <2>9. i > Len(o.sent)
      <3>1. DOMAIN x.s.sent = 1..Len(x.s.sent)
        BY <2>5 DEF StreamRec
      <3>2. Len(<<>>) = 0
        OBVIOUS
      <3> QED
        BY <2>3, <2>8, <3>1, <3>2
    <2> QED
      BY <2>4, <2>6, <2>7, <2>8, <2>9 DEF SectionOnly
  <1>4. CASE NotCreated(u, r) \/ NotThere(u, r)
    <2>1. streams' = streams
      BY <1>2, <1>4 DEF NotCreated, NotThere
    <2> QED
      BY <2>1, NothingNew
  <1>5. CASE Continued(u, hs, r)
    <2>1. 1 \in DOMAIN streams /\ Reused
      BY <1>1, <1>5, NeedsStreamIs DEF Continued
    <2>2. u.request = 1
      BY <1>1, <1>5, NeedsStreamIs DEF Continued
    <2>3. PICK s : s = streams[1]
      OBVIOUS
    <2>4. s \in StreamRec
      BY <1>1, <2>1, <2>3
    <2>5. PICK x \in Content(u, s, hs) : r.streams = [streams EXCEPT ![1] = x.s]
      BY <1>5, <2>2, <2>3 DEF Continued
    <2>6. SectionOnly(s, x.s, hs)
      BY <1>1, <1>2, <2>4, <2>5, ContentSection
    <2>7. x.s \in StreamRec
      BY <1>1, <1>2, <2>4, <2>5, ContentIs DEF SameStream
    <2>8. DOMAIN streams' = DOMAIN streams /\ streams'[1] = x.s
          /\ \A d \in DOMAIN streams : d # 1 => streams'[d] = streams[d]
      BY <1>2, <2>1, <2>5
    <2>9. CASE e = 1
      <3>1. i \in DOMAIN x.s.sent /\ i > Len(s.sent) /\ x.s.sent[i].what # "body"
        BY <2>1, <2>3, <2>8, <2>9 DEF NewUnit, New
      <3> QED
        BY <2>1, <2>6, <3>1 DEF SectionOnly, Reused
    <2>10. CASE e # 1
      <3>1. e \in DOMAIN streams => streams'[e].sent = streams[e].sent
        BY <2>8, <2>10
      <3> QED
        BY <2>8, <3>1, NothingNew
    <2> QED
      BY <2>9, <2>10
  <1> QED
    BY <1>3, <1>4, <1>5, RequestsAre

\* The property of one step and one unit.
HeadersOf(e, x) ==
  IF x.what = "headers" THEN x.of \in {0, e}
  ELSE \/ e \in DOMAIN streams
       \/ msgs[e].what = "BYTE" /\ msgs[x.of].what = "JSON" /\ x.of < e

\* A request that leaves the list sends the headers of its own message.
LEMMA SendNextHeaders ==
  ASSUME BaseInv, HeadInv, SendNext, NEW e, NEW i, NewUnit(e, i)
  PROVE  HeadersOf(e, streams'[e].sent[i])
  <1>1. PICK m : m = first_message(queue)
    OBVIOUS
  <1>2. /\ m = Taken + 1 /\ m \in 1..Len(msgs) /\ Running /\ active > 0 /\ cfg.type # "SHORT"
        /\ \E r \in Requests(Prepared(m), Target, HeadersFor(m)) : Handled(Target, r)
    BY <1>1, HeadersNext
  <1>3. TypeInv /\ UsersInv /\ StepInv /\ cfg \in Configs /\ process # "freed"
        /\ Taken \in Nat /\ m \in Nat
    BY <1>2, TakenIs DEF BaseInv, TypeInv, Running
  <1>4. PICK hs : hs = HeadersFor(m)
    OBVIOUS
  <1>5. PICK u : u = Prepared(m)
    OBVIOUS
  <1>6. PICK t : t = Target
    OBVIOUS
  <1>7. PICK r \in Requests(u, t, hs) : Handled(t, r)
    BY <1>2, <1>4, <1>5, <1>6
  <1>8. ObjectFor(u, t) /\ hs \in HeadersRec
    BY <1>2, <1>3, <1>4, <1>5, <1>6, PreparedIs, HeadersForIs
  <1>9. cfg.alpn = "H3" /\ streams'[e].sent[i] = Section(hs) /\ e = Len(streams) + 1
    BY <1>2, <1>3, <1>7, <1>8, RequestsSection
  <1>10. e = m
    <2>1. ~Shared
      BY <1>2, <1>9 DEF Shared
    <2> QED
      BY <1>2, <1>3, <1>9, <2>1 DEF StepInv, Taken
  <1>11. msgs[m] \in MsgRec
    BY <1>2, <1>3 DEF TypeInv
  <1>12. CASE msgs[m].what = "JSON"
    <2>1. hs = [of |-> m, live |-> TRUE]
      BY <1>4, <1>12 DEF HeadersFor
    <2>2. Section(hs).what = "headers" /\ Section(hs).of = m
      BY <2>1 DEF Section
    <2> QED
      BY <1>9, <1>10, <2>2 DEF HeadersOf
  <1>13. CASE msgs[m].what = "BYTE"
    <2>1. hs = headers
      BY <1>4, <1>13 DEF HeadersFor
    <2>2. CASE headers.live
      <3>1. Section(hs).what = "headers" /\ Section(hs).of = 0
        BY <2>1, <2>2 DEF Section, HeadInv
      <3> QED
        BY <1>9, <3>1 DEF HeadersOf
    <2>3. CASE ~headers.live
      <3>1. /\ Section(hs).what # "headers" /\ Section(hs).of = headers.of
            /\ headers.of \in 1..Taken /\ msgs[headers.of].what = "JSON"
        BY <2>1, <2>3 DEF Section, HeadInv
      <3>2. headers.of < m
        BY <1>2, <1>3, <3>1
      <3> QED
        BY <1>9, <1>10, <1>13, <3>1, <3>2 DEF HeadersOf
    <2> QED
      BY <2>2, <2>3
  <1> QED
    BY <1>11, <1>12, <1>13 DEF MsgRec

\* A short call has one message, and sends its headers.
LEMMA SendShortHeaders ==
  ASSUME BaseInv, HeadInv, SendShort, NEW e, NEW i, NewUnit(e, i)
  PROVE  HeadersOf(e, streams'[e].sent[i])
  <1>1. TypeInv /\ UsersInv /\ StepInv /\ cfg \in Configs /\ headers \in HeadersRec
    BY DEF BaseInv, TypeInv
  <1>2. process # "freed" /\ cfg.type = "SHORT" /\ streams = <<>> /\ Running /\ Shared
    BY DEF SendShort, Running, Shared
  <1>3. PICK u : u = us[0]
    OBVIOUS
  <1>4. PICK r \in Requests(u, 0, headers) : Handled(0, r)
    BY <1>3 DEF SendShort
  <1>5. ObjectFor(u, 0)
    BY <1>1, <1>2, <1>3 DEF ObjectFor, TypeInv, UsersInv
  <1>6. streams'[e].sent[i] = Section(headers)
    BY <1>1, <1>2, <1>4, <1>5, RequestsSection
  \* The one message of a short call is no JSON message.
  <1>7. headers.live /\ headers.of = 0
    <2>1. queue.nb_messages = 0 /\ Len(msgs) = 1 /\ msgs[1].what = "BYTE"
      BY <1>1, <1>2 DEF StepInv
    <2>2. Taken = 1
      BY <2>1 DEF Taken
    <2> QED
      BY <1>1, <2>1, <2>2 DEF HeadInv, HeadersRec
  <1>8. Section(headers).what = "headers" /\ Section(headers).of = 0
    BY <1>7 DEF Section
  <1> QED
    BY <1>6, <1>8 DEF HeadersOf

\* The write callback may send the section again, freed or not.
LEMMA CallbackHeaders ==
  ASSUME BaseInv, HeadInv, NEW d \in DOMAIN streams,
         WriteNotify(d) \/ Peer(d) \/ ReadNotify(d) \/ CloseNotify(d),
         NEW e, NEW i, NewUnit(e, i)
  PROVE  HeadersOf(e, streams'[e].sent[i])
  <1>1. TypeInv /\ UsersInv /\ RecvInv /\ cfg \in Configs /\ headers \in HeadersRec
    BY DEF BaseInv, TypeInv
  <1>2. streams[d].open
    BY DEF WriteNotify, Peer, ReadNotify, CloseNotify, Called
  <1>3. /\ streams[d] \in StreamRec /\ User(d) \in UserRec
        /\ DOMAIN streams = 1..Len(streams) /\ d \in 1..Len(streams)
    BY <1>1, <1>2, ObjectOf
  \* An action that changes only stream d, and not what it carries.
  <1>4. ASSUME NEW t, streams' = [streams EXCEPT ![d] = t], t.sent = streams[d].sent
        PROVE  FALSE
    BY <1>1, <1>4, NothingNew
  <1>5. CASE Peer(d)
    <2>1. PICK t \in StreamRec : Replaces(d, t, User(d)) /\ t.sent = streams[d].sent
      BY <1>1, <1>5, PeerIs
    <2> QED
      BY <1>4, <2>1 DEF Replaces
  <1>6. CASE ReadNotify(d)
    <2>1. ToldOk(streams[d]) /\ KeepsOk(streams[d], User(d).recv)
      BY <1>1, <1>2, <1>3 DEF RecvInv, User
    <2>2. PICK t \in StreamRec, recv \in Seq(Nat) :
            /\ Replaces(d, t, [User(d) EXCEPT !.recv = recv])
            /\ ReadResult(streams[d], t, recv)
      BY <1>1, <1>6, <2>1, ReadNotifyIs
    <2> QED
      BY <1>4, <2>2 DEF Replaces, ReadResult
  <1>7. CASE CloseNotify(d)
    <2>1. PICK t : t = [streams[d] EXCEPT !.open = FALSE, !.blocked = FALSE, !.flags = {}]
      OBVIOUS
    <2>2. t.sent = streams[d].sent
      BY <1>3, <2>1 DEF StreamRec
    <2>3. streams' = [streams EXCEPT ![d] = t]
      BY <1>7, <2>1 DEF CloseNotify
    <2> QED
      BY <1>4, <2>2, <2>3
  <1>8. CASE WriteNotify(d)
    <2>1. PICK s : s = [streams[d] EXCEPT !.blocked = FALSE]
      OBVIOUS
    <2>2. s \in StreamRec /\ s.sent = streams[d].sent
      BY <1>3, <2>1 DEF StreamRec
    <2>3. PICK r \in Content(User(d), s, headers) : Replaces(d, r.s, r.u)
      BY <1>1, <1>8, <2>1, WriteNotifyIs
    <2>4. PICK u : u = User(d)
      OBVIOUS
    <2>5. SectionOnly(s, r.s, headers)
      BY <1>1, <1>3, <2>2, <2>3, <2>4, ContentSection
    <2>6. streams' = [streams EXCEPT ![d] = r.s]
      BY <2>3 DEF Replaces
    <2>7. CASE e = d
      <3>1. e \in DOMAIN streams /\ streams'[e] = r.s
        BY <1>3, <2>6, <2>7
      <3>2. i \in DOMAIN r.s.sent /\ i > Len(s.sent) /\ r.s.sent[i].what # "body"
        BY <2>2, <2>7, <3>1 DEF NewUnit, New
      <3>3. streams'[e].sent[i] = Section(headers)
        BY <2>5, <3>1, <3>2 DEF SectionOnly
      <3>4. Section(headers).what = "headers" => Section(headers).of = 0
        BY DEF Section, HeadInv
      <3> QED
        BY <3>1, <3>3, <3>4 DEF HeadersOf
    <2>8. CASE e # d
      <3>1. DOMAIN streams' = DOMAIN streams
            /\ (e \in DOMAIN streams => streams'[e].sent = streams[e].sent)
        BY <2>6, <2>8
      <3> QED
        BY <1>1, <3>1, NothingNew
    <2> QED
      BY <2>7, <2>8
  <1> QED
    BY <1>5, <1>6, <1>7, <1>8

\* A request's headers are those of its message, or of no message, except that a
\* freed section is read when a request is resumed, or for a BYTE message after a
\* JSON message.
THEOREM HeadersAreOfTheMessage == Spec => HeadersWindow
  <1>1. Init => HeadInv
    BY DEF Init, HeadInv
  <1>2. BaseInv /\ HeadInv /\ [Next]_vars =>
          [\A e \in DOMAIN streams' : \A i \in DOMAIN streams'[e].sent :
             LET x == streams'[e].sent[i] IN
             New(e, i) /\ x.what # "body" =>
               IF x.what = "headers" THEN x.of \in {0, e}
               ELSE \/ e \in DOMAIN streams
                    \/ msgs[e].what = "BYTE" /\ msgs[x.of].what = "JSON" /\ x.of < e]_vars
    <2> SUFFICES ASSUME BaseInv, HeadInv, Next,
                        NEW e \in DOMAIN streams', NEW i \in DOMAIN streams'[e].sent,
                        New(e, i), streams'[e].sent[i].what # "body"
                 PROVE  HeadersOf(e, streams'[e].sent[i])
      BY DEF HeadersOf
    <2>1. TypeInv /\ NewUnit(e, i)
      BY DEF BaseInv, NewUnit
    <2>2. CASE streams' = streams
      BY <2>1, <2>2, NothingNew
    <2>3. CASE SendNext
      BY <2>1, <2>3, SendNextHeaders
    <2>4. CASE SendShort
      BY <2>1, <2>4, SendShortHeaders
    <2>5. CASE \E d \in DOMAIN streams :
                 WriteNotify(d) \/ Peer(d) \/ ReadNotify(d) \/ CloseNotify(d)
      BY <2>1, <2>5, CallbackHeaders
    <2> QED
      BY <2>2, <2>3, <2>4, <2>5
         DEF Next, client_long_send, BeginRequests, EndRequests, DropMessage, Crash, free_ctx
  <1>3. BaseInv /\ HeadInv /\ [Next]_vars => HeadInv'
    BY NextHead
  <1>4. Spec => []BaseInv
    BY BaseInvariant
  <1> QED
    BY <1>1, <1>2, <1>3, <1>4, PTL DEF Spec, HeadersWindow

===============================================================================

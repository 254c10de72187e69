------------------------------ MODULE MsgQueue ------------------------------
(***************************************************************************)
(* The linked list of a context's messages (xquic_msg_queue.h), as         *)
(* operations on a record: the nodes on the heap, the two ends and the     *)
(* count.  A node holds a message and the address of the next node.  The   *)
(* file is compiled with XQUIC_CLIENT_MERGE: a node is freed when its      *)
(* message is taken; the list of recycled nodes is used by destroy only.   *)
(***************************************************************************)
EXTENDS Integers, Sequences

CONSTANTS Addresses,   \* where malloc may put a node
          NULL

ASSUME MsgQueueAssumption == NULL \notin Addresses

\* xqc_cli_msg_queue_init
EmptyQueue == [nodes |-> [a \in {} |-> 0], first_msg |-> NULL, last_msg |-> NULL,
               nb_messages |-> 0]

msg_empty(q) == q.first_msg = NULL

\* xqc_cli_msg_queue_put_private: a node at address a, which was free, becomes
\* the last one.
queue_put(q, a, m) ==
  LET new == [msg |-> m, next |-> NULL] IN
  [nodes |-> [b \in DOMAIN q.nodes \cup {a} |->
                IF b = a THEN new
                ELSE IF b = q.last_msg THEN [q.nodes[b] EXCEPT !.next = a]
                ELSE q.nodes[b]],
   first_msg |-> IF q.last_msg = NULL THEN a ELSE q.first_msg,
   last_msg |-> a,
   nb_messages |-> q.nb_messages + 1]

\* xqc_cli_msg_queue_get of a queue that is not empty; on an empty one it would
\* not return.
queue_get(q) ==
  LET n == q.nodes[q.first_msg] IN
  [nodes |-> [b \in DOMAIN q.nodes \ {q.first_msg} |-> q.nodes[b]],
   first_msg |-> n.next,
   last_msg |-> IF n.next = NULL THEN NULL ELSE q.last_msg,
   nb_messages |-> q.nb_messages - 1]

first_message(q) == q.nodes[q.first_msg].msg

\* The addresses met on the way from the first node, one after the other.
Walk(q) ==
  LET step[k \in 1..q.nb_messages] ==
        IF k = 1 THEN q.first_msg
        ELSE IF step[k - 1] \in DOMAIN q.nodes THEN q.nodes[step[k - 1]].next ELSE NULL
  IN [k \in 1..q.nb_messages |-> step[k]]

\* xqc_cli_msg_queue_flush and _destroy: the nodes that can be reached are moved
\* to the recycle list, which is freed with the messages.
queue_destroy(q) ==
  LET met == {Walk(q)[k] : k \in DOMAIN Walk(q)} IN
  [EmptyQueue EXCEPT !.nodes = [b \in DOMAIN q.nodes \ met |-> q.nodes[b]]]

-----------------------------------------------------------------------------
\* q is the list of the nodes at s[1], s[2], ...: every node is in it once, and
\* both ends and the count are right.
IsList(q, s) ==
  /\ DOMAIN q.nodes = {s[i] : i \in DOMAIN s}
  /\ \A i, j \in DOMAIN s : s[i] = s[j] => i = j
  /\ \A i \in DOMAIN s :
       q.nodes[s[i]].next = IF i = Len(s) THEN NULL ELSE s[i + 1]
  /\ q.first_msg = IF s = <<>> THEN NULL ELSE s[1]
  /\ q.last_msg = IF s = <<>> THEN NULL ELSE s[Len(s)]
  /\ q.nb_messages = Len(s)

\* The messages in the order in which they will be taken.
Contents(q, s) == [i \in DOMAIN s |-> q.nodes[s[i]].msg]
==============================================================================

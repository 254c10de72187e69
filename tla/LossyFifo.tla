------------------------------ MODULE LossyFifo ------------------------------
(***************************************************************************)
(* What the send side of a long connection promises its caller: messages   *)
(* are numbered in the order client_long_send accepts them; each is handed *)
(* to the engine at most once and in that order; a message that is not     *)
(* handed over may be lost, but it never comes back and never overtakes.   *)
(***************************************************************************)
EXTENDS Naturals, Sequences

VARIABLES accepted,     \* how many messages were accepted so far
          waiting,      \* the accepted messages still queued, oldest first
          handed        \* the messages handed to the engine, oldest first

vars == <<accepted, waiting, handed>>

Init == /\ accepted = 0
        /\ waiting = <<>>
        /\ handed = <<>>

Accept == /\ accepted' = accepted + 1
          /\ waiting' = Append(waiting, accepted + 1)
          /\ UNCHANGED handed

\* The first k of the messages in w are handed over, the following ones up to
\* the n-th are lost, the rest keeps waiting.
Take(w) == \E n \in 0..Len(w) : \E k \in 0..n :
              /\ handed' = handed \o SubSeq(w, 1, k)
              /\ waiting' = SubSeq(w, n + 1, Len(w))

Deliver == UNCHANGED accepted /\ Take(waiting)

\* A 0-RTT body is accepted and taken in one handler.
AcceptAndDeliver == /\ accepted' = accepted + 1
                    /\ Take(Append(waiting, accepted + 1))

Next == Accept \/ Deliver \/ AcceptAndDeliver

Spec == Init /\ [][Next]_vars
==============================================================================

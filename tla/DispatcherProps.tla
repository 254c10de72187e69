--------------------------- MODULE DispatcherProps ---------------------------
(* What the dispatcher guarantees, and what it does not. *)
EXTENDS Dispatcher

\* Both limits hold for the running calls, whatever is cancelled meanwhile.
LimitsRespected ==
  /\ Cardinality(running) <= MaxRequests
  /\ \A c \in running : Cardinality(SameUrl(running, c)) <= MaxPerHost

\* No call is stranded: one there is room for has a thread about to promote it.
NoneStranded ==
  (\E c \in ready : Room(running, c)) =>
     process = "crashed" \/ \E t \in Threads : pc[t] = "promote"

\* No slot leaks: a running call is about to be handed to the executor, is
\* executing, or its worker is about to remove it.
SlotsHeld == \A c \in running :
  \/ \E t \in Threads : c \in todo[t]
  \/ job[c] = "executing"
  \/ job[c] = "done" /\ pc[c] \in {"check", "remove"} /\ arg[c] = c

\* The slots are neither overbooked nor lost.
SlotsSound == LimitsRespected /\ SlotsHeld

\* A call is handed to the executor at most once, by a thread that took it out
\* of the queue: concurrent promotions never share a call.
StartedOnce ==
  [][\A t \in Threads : \A c \in todo[t] \ todo'[t] :
        job[c] = "new" /\ c \notin ready]_vars

\* Every enqueued call leaves the queue.
QueueMoves == \A c \in Calls : (c \in ready) ~> (c \notin ready \/ process = "crashed")

\* The assertion in finished: a call found in-flight still is when it is removed.
StillInFlight == \A t \in Threads :
  pc[t] = "remove" => arg[t] \in running
==============================================================================

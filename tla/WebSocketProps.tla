--------------------------- MODULE WebSocketProps ---------------------------
(* What XRealWebSocket guarantees, and what it does not. *)
EXTENDS WebSocket

\* t is waiting for a lock that u owns.
Waits(t, u) ==
  \/ pc[t] = "enter" /\ monitor = u
  \/ pc[t] \in {"tag", "pingtag"} /\ tag = u
  \/ pc[t] = "mutex" /\ mutex = u

\* The writer holds the monitor and waits in client_long_send for the mutex,
\* which the loop holds while it serves a command, INIT_TASK too, whose upcall, a
\* refused request or the destruction, waits for the monitor.
SendStuck ==
  /\ pc[Writer] = "mutex" /\ monitor = Writer
  /\ pc[Loop] = "enter" /\ mutex = Loop
  /\ loop \in {"first", "serve", "destroyed"}

\* The ping task holds TAG and waits for the monitor, which the loop holds in
\* an error upcall that waits for TAG.
PingStuck ==
  /\ pc[Writer] = "enter" /\ tag = Writer
  /\ pc[Loop] = "tag" /\ monitor = Loop

\* The locks are taken in no common order, and two threads can wait for each
\* other, but only in these two ways, and no application thread is one of them.
OnlyTwoInversions ==
  \A t, u \in Threads : t # u /\ Waits(t, u) /\ Waits(u, t) => SendStuck \/ PingStuck

\* Frames a job of the executor, a thread about to submit one, or the writer
\* on its way into the monitor is going to poll.
Backing == jobs + (IF \E t \in Threads : pc[t] \in {"submit", "execute"} THEN 1 ELSE 0)
                + (IF op[Writer] = "write" THEN 1 ELSE 0)

\* While the connection lives a queued frame is not stranded: at least as many
\* writers are to come as there are frames, though a message that does not fit
\* ends the writer that met it.  The exception is a close() before connect has
\* set clientCtx: the listener is told the socket is closed, and the frame
\* waits for the next send.
FramesBacked == Len(frames) <= Backing \/ "refused" \in told \/ loop \in Over

\* A message send accepted is lost only with the connection, after a failure the
\* listener was told of, or, silently, because it does not fit byteBuffer.
Lost == (1..accepted) \ ({frames[i] : i \in DOMAIN frames}
                         \cup {handed[i] : i \in DOMAIN handed})
LossExplained == Lost # {} => \/ enqueuedClose \/ loop \in Over
                              \/ "sendFailed" \in told \/ oversize

\* Of what send accepted nothing waits for ever and nothing disappears unnoticed.
SendsAccounted == FramesBacked /\ LossExplained

\* The frames of q that are messages, in their order.
MessagesOf(q) ==
  LET upTo[i \in 0..Len(q)] ==
        IF i = 0 THEN <<>> ELSE IF q[i] # 0 THEN Append(upTo[i - 1], q[i]) ELSE upTo[i - 1]
  IN upTo[Len(q)]

\* The messages behind a close frame are never handed over; the others go to
\* the native side in the order they were accepted, each at most once.
Fifo == INSTANCE LossyFifo WITH waiting <- MessagesOf(frames)
ImplementsFifo == Fifo!Spec

\* Undefined behaviour is confined to calls on a context whose event loop does
\* not exist yet, to a ping or a message that is served in place of INIT_TASK,
\* and to calls that race the end of connect.
CrashWindow == process = "crashed" => loop \in {"made", "first", "returned"} \cup Over

\* A close frame the writer got hold of ends the connection: start returns, and
\* the listener is told by the connect task.  It does not if two threads are
\* stuck, if a refused request made the native cancel return -1 (:1073), or if the
\* slot lost a command: CANCEL, written without the mutex (:1078), gave way to
\* INIT_TASK (:898) or was erased with the command served before it (:855), or
\* DESTROY was overwritten, by that CANCEL or by a ping (:1022) or a message (:1054)
\* that came before the close frame.
CloseFrameEnds ==
  enqueuedClose ~> \/ loop = "ended" \/ process = "crashed"
                   \/ SendStuck \/ PingStuck \/ ~active \/ lost
==============================================================================

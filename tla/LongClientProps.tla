--------------------------- MODULE LongClientProps ---------------------------
(* What a long-connection context guarantees, and what it does not. *)
EXTENDS LongClient

\* Lifetime of user_conn: as long as the engine holds a connection or the idle
\* timer is armed, both carry the pointer, so it is allocated.
ConnBacked == (conn \in Live \/ idle = 1) => userConn = "alloc"

\* Undefined behaviour is confined to two windows: calls that run before
\* INIT_TASK has set task->user_conn, and calls that run after the context is
\* freed but before XRealWebSocket forgets it.
CrashWindow == process = "crashed" => \/ EarlyCalls /\ userConn = "null"
                          \/ loop = "freed"

\* No lost wakeup: a command in the slot is being served, is announced by a
\* pending wakeup, or its writer is just about to send one.
NoMissedWake ==
  cmd # "NONE" => \/ loop # "poll"
                  \/ async = 1
                  \/ \E c \in Callers : pc[c] = "wake"

\* client_long_send returned 0 for every accepted message: one that is neither
\* queued nor turned into a request is lost only after a refused request was
\* reported to Java, or with the context.
Lost == (1..accepted) \ ({queue[i] : i \in DOMAIN queue}
                         \cup {created[i] : i \in DOMAIN created})
LossIsReported == Lost # {} => "send" \in told \/ loop = "freed"

\* MSG_TYPE_DESTROY, which deletes the global reference to the Java object, is
\* delivered at most once, and the context is not freed without it unless the
\* task never started.
DestroyedOnce ==
  /\ destroyed <= 1
  /\ loop = "freed" /\ process = "up" => destroyed = 1 \/ status = "waiting"

\* The pointers and references shared by the loop, the engine, the timer and the
\* Java callers: none is used after its end, outside the two windows.
LifetimesKept == ConnBacked /\ CrashWindow /\ DestroyedOnce

\* Nothing is reported to the Java object after its reference was deleted.
NoReportAfterDestroy == [][destroyed > 0 => told' = told]_vars

\* The send side implements the lossy FIFO promised to the caller.
Fifo == INSTANCE LossyFifo WITH waiting <- queue, handed <- created
ImplementsFifo == Fifo!Spec

\* Once the application has issued its last command, the close notification
\* releases the context: client_long_start returns.
UndisturbedCloseReleases ==
  (cmd = "DESTROY" /\ handle = "closed" /\ \A c \in Callers : pc[c] = "idle")
    ~> handle = "returned"

\* XRealWebSocket.close promises its result in onClosed, which follows the
\* return of client_long_start.
CloseIsAnswered == handle = "closed" ~> (handle = "returned" \/ process = "crashed")
==============================================================================

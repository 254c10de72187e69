---------------------------- MODULE ShortCallProps ----------------------------
(* What a call over its own connection guarantees, and what it does not. *)
EXTENDS ShortCall

\* Lifetime of user_conn: the engine's connection and the idle timer carry the
\* pointer, so it is allocated as long as either is alive.
ConnBacked == (conn \in Live \/ idle = 1) => userConn = "alloc"

\* Undefined behaviour is confined to the end of the call: the native context was
\* destroyed or freed while a cancellation was on its way to it.
CrashWindow == process = "crashed" => destroyed > 0 \/ Freed

\* MSG_TYPE_DESTROY deletes the reference to the XAsyncCall: it is delivered at
\* most once, and no answer is reported after it.
DestroyedLast ==
  /\ destroyed <= 1
  /\ destroyed = 1 /\ process = "up" => report = "none" /\ stage # "poll"

\* The pointers and references shared by the worker, the engine, the timer and
\* the cancelling threads: none is used after its end, outside that window.
LifetimesKept == ConnBacked /\ CrashWindow /\ DestroyedLast

\* Nobody is forgotten: when execute is over the application was told an end of
\* the call, or the looper is about to tell it.
Answered ==
  stage = "done" => finals + failures > 0 \/ pc[Looper] = "tell"

\* The worker answers once, however often errors are reported: at most one more
\* end of the call comes from the timeout.
EndsBounded == finals <= 1 /\ finals + failures <= 2

\* A connection that is being closed ends the call, unless a cancellation
\* overwrites the DESTROY of the close notification.
ClosingEnds ==
  conn = "closing" ~> \/ stage = "done" \/ process = "crashed"
                      \/ conn = "closed" /\ cmd = "CANCEL"
===============================================================================

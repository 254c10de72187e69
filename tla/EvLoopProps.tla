----------------------------- MODULE EvLoopProps -----------------------------
(* What is checked of the libev loop. *)
EXTENDS EvLoop

Started == {asyncs[i] : i \in DOMAIN asyncs}
Busy(where) == \E s \in Senders : sender[s] \in where

\* A signal is never left behind: a watcher marked as sent has the flag set, or
\* its sender is about to look at the flag, or pipecb is about to look at it.
SentIsFlagged ==
  pc # "done" =>
    \A a \in sent \cap Started :
      \/ async_pending
      \/ Busy({"flag", "set"})
      \/ \E i \in DOMAIN scan : scan[i] = a

\* The flag is never set without something that makes the loop look at it: a
\* skipped write, a byte, a sender on the way to either, or pipecb itself.
FlagIsAnnounced ==
  async_pending => \/ pipe_write_skipped \/ bytes > 0
                   \/ pc \in {"clear", "async"}
                   \/ Busy({"skip", "unskip", "write"})

\* The loop never waits in epoll_wait while the flag is set and no byte is or
\* will be in the pipe: the order of the two flags on either side decides.
NoSleepOverSignal ==
  pc = "poll" /\ block /\ async_pending =>
    bytes > 0 \/ Busy({"skip", "wanted", "unskip", "write"})

\* When the loop waits, the kernel knows every active watcher's mask, also
\* when the descriptor was closed and came back as another socket.
KernelInStep ==
  pc \in {"decide", "poll"} =>
    \A f \in active : kernel[f].mask = events[f]

\* The generation counter of a registration is the loop's: an event is never
\* taken for one of an older descriptor (postfork stays 0).
GenerationsAgree ==
  \A f \in Fds : kernel[f] # Unregistered => kernel[f].egen = anfds[f].egen

\* A callback is pending only for an active watcher, or to report an error: the
\* callback of a watcher that was stopped gets freed memory (close_task frees
\* user_conn right after ev_io_stop).
PendingActive ==
  \A p \in Priorities : \A i \in DOMAIN pendings[p] :
    LET e == pendings[p][i] IN
    e.w \in Fds => e.w \in active \/ "ERROR" \in e.revents

\* The loop implements what the contexts assume of ev_async_send: callbacks are
\* called for signals only, and a signal ends in a call of the callback.
Signalled == {a \in Started : a \in sent \/ Has(pendings["normal"], a)}
WakeupSpec == INSTANCE Wakeup WITH
  started <- Started, signals <- sends, signalled <- Signalled, over <- pc = "done"
ImplementsWakeup == WakeupSpec!Spec

\* A signal is answered without the help of any timeout, unless the loop returns.
SignalsHandled == WakeupSpec!Answered
==============================================================================

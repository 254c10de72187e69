------------------------------- MODULE Wakeup -------------------------------
(***************************************************************************)
(* What the contexts of this library rely on when they call ev_async_send: *)
(* the callback of a watcher is called only if it was signalled since the  *)
(* last call, one call may answer several signals, and no signal of a      *)
(* started watcher disappears without a call unless the loop is over.      *)
(***************************************************************************)
EXTENDS Naturals

CONSTANT Asyncs
VARIABLES started,      \* the watchers that are started
          signals,      \* how many signals were sent
          signalled,    \* the watchers with a call to come
          over          \* the loop has returned

vars == <<started, signals, signalled, over>>

Init == started = {} /\ signals = 0 /\ signalled = {} /\ over = FALSE

Begin(a) == /\ started' = started \cup {a}
            /\ UNCHANGED <<signals, signalled, over>>

\* A signal for a watcher that is not started is lost.
Signal(a) == /\ signals' = signals + 1
             /\ signalled' = signalled \cup ({a} \cap started)
             /\ UNCHANGED <<started, over>>

\* A signal that came in since the call became pending causes another one.
Handle(a) == /\ a \in signalled /\ ~over
             /\ signalled' \in {signalled \ {a}, signalled}
             /\ UNCHANGED <<started, signals, over>>

Return == over' = TRUE /\ UNCHANGED <<started, signals, signalled>>

End(a) == /\ over
          /\ started' = started \ {a}
          /\ signalled' = signalled \ {a}
          /\ UNCHANGED <<signals, over>>

Next == Return \/ \E a \in Asyncs : Begin(a) \/ Signal(a) \/ Handle(a) \/ End(a)

Spec == Init /\ [][Next]_vars

\* Every signal is answered unless the loop returns.
Answered == \A a \in Asyncs : a \in signalled ~> (a \notin signalled \/ over)
==============================================================================

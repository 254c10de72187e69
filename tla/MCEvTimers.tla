----------------------------- MODULE MCEvTimers -----------------------------
(* Instances of the timer heap for TLC. *)
EXTENDS EvTimers, TLC

CONSTANT pending_w

\* Six timers: a root with four children, and one more level.
SixTimers == 1..6
Engine == {1}
SomeDelays == {0, 1}

\* The watchers that are neither repeating nor active nor pending are
\* interchangeable: the first of them stands for all, and to stop one of them
\* changes nothing.
Unused == {w \in Timers \ Repeating : ev_active[w] = 0 /\ pending[w] = 0}
Candidates == {w \in Timers : w \in Unused => \A v \in Unused : w <= v}

SomeTimersNext ==
  \/ TimersTurn
  \/ ev_invoke_pending
  \/ \E w \in Candidates, d \in Delays : ev_timer_start(w, d)
  \/ \E w \in Timers \ Unused : ev_timer_stop(w)
  \/ \E w \in Repeating, r \in Delays : ev_timer_again(w, r)

SomeTimersSpec == TimersInit /\ [][SomeTimersNext]_timerVars
==============================================================================

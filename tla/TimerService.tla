---------------------------- MODULE TimerService ----------------------------
(***************************************************************************)
(* What a user of libev's timers relies on: an armed timer expires once    *)
(* its time has passed, never before; timers that expire in the same turn  *)
(* of the loop are called in the order of their times; a timer that is     *)
(* disarmed is not called any more.                                        *)
(***************************************************************************)
EXTENDS Integers, Sequences, SeqFilter

CONSTANT Timers
VARIABLES now,      \* the time the loop works with
          due,      \* due[t]: when an armed timer expires, Never for the others
          expired   \* the timers whose callbacks are to be called, next first

vars == <<now, due, expired>>
Never == -1

Init == now = 0 /\ due = [t \in Timers |-> Never] /\ expired = <<>>

Without(s, t) == Only(s, Timers \ {t})

\* A timer is armed for a time that is not yet over; a callback that is still
\* to come may be dropped.
Arm(t) == /\ due'[t] >= now
          /\ due' = [due EXCEPT ![t] = due'[t]]
          /\ expired' \in {expired, Without(expired, t)}
          /\ UNCHANGED now

Disarm(t) == /\ due' = [due EXCEPT ![t] = Never]
             /\ expired' = Without(expired, t)
             /\ UNCHANGED now

Call == /\ expired # <<>>
        /\ expired' = Tail(expired)
        /\ UNCHANGED <<now, due>>

\* A turn of the loop: every timer whose time is over expires, exactly once;
\* it is armed again for a time not before now, or disarmed.
Turn ==
  /\ expired = <<>>
  /\ now' >= now
  /\ LET over == {t \in Timers : due[t] # Never /\ due[t] < now'} IN
     /\ {expired'[i] : i \in DOMAIN expired'} = over
     /\ \A i, j \in DOMAIN expired' : i < j =>
          expired'[i] # expired'[j] /\ due[expired'[i]] <= due[expired'[j]]
     /\ \A t \in Timers : IF t \in over THEN due'[t] = Never \/ due'[t] >= now'
                                        ELSE due'[t] = due[t]

Next == Turn \/ Call \/ \E t \in Timers : Arm(t) \/ Disarm(t)

Spec == Init /\ [][Next]_vars
==============================================================================

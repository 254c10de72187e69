------------------------------ MODULE EvTimers ------------------------------
(***************************************************************************)
(* The timers of a libev loop: the 4-heap of armed timers, the position    *)
(* each keeps of itself, the list of pending callbacks, and the turn of    *)
(* the loop that makes expired timers pending.  Callbacks run one after    *)
(* the other on the loop's thread and start, stop and restart timers, as   *)
(* client_set_event_timer, client_long_idle_callback and the teardown do.  *)
(*                                                                         *)
(* A heap entry caches the time of its timer (EV_HEAP_CACHE_AT): the heap  *)
(* is ordered by the cached times.  Times are integers; at and repeat of a *)
(* watcher that is not active are not kept, for ev_timer_init sets them.   *)
(***************************************************************************)
EXTENDS Integers, Sequences, SequencesExt, FiniteSets, SeqFilter

CONSTANTS
  Timers,      \* the watchers, numbered
  Repeating,   \* those that ev_timer_again restarts, as it does ev_engine
  NoTimer,     \* pending_w: takes the place of a watcher that was stopped
  Delays,      \* the delays and repeat values given to timers
  MaxNow,      \* bound on the time
  MaxOps       \* bound on the calls that start, stop and restart timers

ASSUME EvTimersAssumption ==
  /\ Timers \subseteq Nat /\ IsFiniteSet(Timers) /\ NoTimer \notin Timers
  /\ Repeating \subseteq Timers
  /\ Delays \subseteq Nat
  /\ MaxNow \in Nat /\ MaxOps \in Nat

VARIABLES
  timers,         \* the heap: entries at HEAP0 .. HEAP0 + timercnt - 1
  ev_active,      \* ev_active (w): the position in the heap, 0 when not active
  at,             \* w->at
  repeat,         \* w->repeat
  pendingTimers,  \* pendings: the pending watchers, called from the last to the first
  pending,        \* w->pending: the position there, 0 when not pending
  mn_now,         \* the time of the loop
  ops             \* calls made so far

timerVars == <<timers, ev_active, at, repeat, pendingTimers, pending, mn_now, ops>>

HEAP0 == 3
DHEAP == 4

timercnt == Cardinality(DOMAIN timers)

TimersTypeOK ==
  /\ DOMAIN timers = HEAP0..(HEAP0 + timercnt - 1)
  /\ \A k \in DOMAIN timers : timers[k] \in [at : Int, w : Timers]
  /\ ev_active \in [Timers -> 0..(HEAP0 + Cardinality(Timers) - 1)]
  /\ at \in [Timers -> Int] /\ repeat \in [Timers -> Nat]
  /\ pendingTimers \in Seq(Timers \cup {NoTimer})
  /\ pending \in [Timers -> 0..Len(pendingTimers)]
  /\ mn_now \in 0..MaxNow /\ ops \in 0..MaxOps

TimersInit ==
  /\ timers = [k \in {} |-> 0]
  /\ ev_active = [w \in Timers |-> 0]
  /\ at = [w \in Timers |-> 0] /\ repeat = [w \in Timers |-> 0]
  /\ pendingTimers = <<>> /\ pending = [w \in Timers |-> 0]
  /\ mn_now = 0 /\ ops = 0

-----------------------------------------------------------------------------
(* The heap functions.  They work on the heap together with the positions  *)
(* the watchers keep: s has the fields heap and active.                    *)

\* Division in C truncates: the root is its own parent.
HPARENT(k) == IF k = HEAP0 THEN HEAP0 ELSE ((k - HEAP0 - 1) \div DHEAP) + HEAP0

Put(s, k, he) == [heap |-> [s.heap EXCEPT ![k] = he],
                  active |-> [s.active EXCEPT ![he.w] = k]]

\* The entry at j moves into the hole, and leaves one.
Moved(x, j) == [heap |-> Put(x, x.k, x.heap[j]).heap,
                active |-> Put(x, x.k, x.heap[j]).active,
                k |-> j]

\* A turn of upheap's loop: the entry he rises from the hole until its parent
\* is not later.
RiseTurn(x, he) ==
  LET p == HPARENT(x.k) IN
  IF p = x.k \/ x.heap[p].at <= he.at THEN x ELSE Moved(x, p)

upheap(s, k) ==
  LET turns[i \in 0..k] ==
        IF i = 0 THEN [heap |-> s.heap, active |-> s.active, k |-> k]
        ELSE RiseTurn(turns[i - 1], s.heap[k])
      x == turns[k]
  IN Put(x, x.k, s.heap[k])

\* The first of the earliest children of k among the N entries.
MinChild(heap, N, k) ==
  LET first == DHEAP * (k - HEAP0) + HEAP0 + 1
      children == first..(first + DHEAP - 1) \cap HEAP0..(HEAP0 + N - 1)
  IN {c \in children : /\ \A d \in children : heap[c].at <= heap[d].at
                       /\ \A d \in children : heap[c].at = heap[d].at => c <= d}

\* A turn of downheap's loop: he sinks from the hole until no child is earlier.
SinkTurn(x, N, he) ==
  LET below == {c \in MinChild(x.heap, N, x.k) : x.heap[c].at < he.at} IN
  IF below = {} THEN x ELSE Moved(x, CHOOSE c \in below : TRUE)

downheap(s, N, k) ==
  LET turns[i \in 0..N] ==
        IF i = 0 THEN [heap |-> s.heap, active |-> s.active, k |-> k]
        ELSE SinkTurn(turns[i - 1], N, s.heap[k])
      x == turns[N]
  IN Put(x, x.k, s.heap[k])

\* An entry whose time changed, or that took another's place, is moved.
adjustheap(s, N, k) ==
  IF k > HEAP0 /\ s.heap[k].at <= s.heap[HPARENT(k)].at
  THEN upheap(s, k) ELSE downheap(s, N, k)

-----------------------------------------------------------------------------
(* Pending callbacks.                                                      *)

\* clear_pending: the entry of w becomes one of pending_w.
WithoutEntry(w) == IF pending[w] = 0 THEN pendingTimers
                   ELSE [pendingTimers EXCEPT ![pending[w]] = NoTimer]

clear_pending(w) == /\ pendingTimers' = WithoutEntry(w)
                    /\ pending' = [pending EXCEPT ![w] = 0]

\* ev_feed_event for the watchers of s one after the other: one that is pending
\* already keeps its place.
Fed(s) ==
  LET new == Only(s, {w \in Timers : pending[w] = 0}) IN
  /\ pendingTimers' = pendingTimers \o new
  /\ pending' = [w \in Timers |->
       IF \E i \in DOMAIN new : new[i] = w
       THEN Len(pendingTimers) + (CHOOSE i \in DOMAIN new : new[i] = w) ELSE pending[w]]

\* The heap of s without the entry of w: the last entry takes its place.
Removed(s, w) ==
  LET k == s.active[w]
      N == Cardinality(DOMAIN s.heap)
      last == HEAP0 + N - 1
      shorter == [heap |-> [j \in DOMAIN s.heap \ {last} |->
                              IF j = k THEN s.heap[last] ELSE s.heap[j]],
                  active |-> s.active]
      t == IF k < last THEN adjustheap(shorter, N - 1, k) ELSE shorter
  IN [heap |-> t.heap, active |-> [t.active EXCEPT ![w] = 0]]

\* The heap with w, which is to expire at time d.
Added(w, d) ==
  LET k == HEAP0 + timercnt
  IN upheap([heap |-> [j \in DOMAIN timers \cup {k} |->
                         IF j = k THEN [at |-> d, w |-> w] ELSE timers[j]],
             active |-> [ev_active EXCEPT ![w] = k]], k)

SetHeap(s) == timers' = s.heap /\ ev_active' = s.active

\* The heap without w, whose time and repeat value are forgotten.
Stop(w) == /\ SetHeap(Removed([heap |-> timers, active |-> ev_active], w))
           /\ at' = [at EXCEPT ![w] = 0]
           /\ repeat' = [repeat EXCEPT ![w] = 0]

Start(w, d) == /\ SetHeap(Added(w, d))
               /\ at' = [at EXCEPT ![w] = d]

\* A call made from a callback, or before the loop runs.
Called == ops < MaxOps /\ ops' = ops + 1

\* ev_timer_init with delay d and no repeat value, then ev_timer_start.
ev_timer_start(w, d) ==
  /\ Called
  /\ ev_active[w] = 0
  /\ Start(w, mn_now + d)
  /\ UNCHANGED <<repeat, pendingTimers, pending, mn_now>>

ev_timer_stop(w) ==
  /\ Called
  /\ clear_pending(w)
  /\ IF ev_active[w] = 0 THEN UNCHANGED <<timers, ev_active, at, repeat>> ELSE Stop(w)
  /\ UNCHANGED mn_now

\* The repeat value is set to r, then ev_timer_again.
ev_timer_again(w, r) ==
  /\ Called
  /\ clear_pending(w)
  /\ \/ /\ ev_active[w] # 0 /\ r # 0
        /\ at' = [at EXCEPT ![w] = mn_now + r]
        /\ repeat' = [repeat EXCEPT ![w] = r]
        /\ SetHeap(adjustheap([heap |-> [timers EXCEPT ![ev_active[w]].at = mn_now + r],
                               active |-> ev_active], timercnt, ev_active[w]))
     \/ /\ ev_active[w] # 0 /\ r = 0
        /\ Stop(w)
     \/ /\ ev_active[w] = 0 /\ r # 0
        /\ Start(w, mn_now + r)
        /\ repeat' = [repeat EXCEPT ![w] = r]
     \/ /\ ev_active[w] = 0 /\ r = 0
        /\ UNCHANGED <<timers, ev_active, at, repeat>>
  /\ UNCHANGED mn_now

\* ev_invoke_pending: the last pending watcher is called; a callback that is
\* called for pending_w does nothing.
ev_invoke_pending ==
  /\ pendingTimers # <<>>
  /\ LET w == pendingTimers[Len(pendingTimers)] IN
     /\ pendingTimers' = SubSeq(pendingTimers, 1, Len(pendingTimers) - 1)
     /\ pending' = [v \in Timers |-> IF v = w THEN 0 ELSE pending[v]]
  /\ UNCHANGED <<timers, ev_active, at, repeat, mn_now, ops>>

-----------------------------------------------------------------------------
(* timers_reify: x stands for the loop's variables while it goes on.       *)

\* The root is taken: a repeating timer is moved behind now, another is
\* stopped.
Taken(x, now) ==
  LET w == x.heap[HEAP0].w
      later == IF x.at[w] + repeat[w] < now THEN now ELSE x.at[w] + repeat[w]
      again == downheap([heap |-> [x.heap EXCEPT ![HEAP0].at = later], active |-> x.active],
                        Cardinality(DOMAIN x.heap), HEAP0)
      gone == Removed([heap |-> x.heap, active |-> x.active], w)
      s == IF repeat[w] # 0 THEN again ELSE gone
  IN [heap |-> s.heap, active |-> s.active,
      at |-> [x.at EXCEPT ![w] = IF repeat[w] # 0 THEN later ELSE 0],
      fed |-> Append(x.fed, w)]

\* A turn of the loop of timers_reify.
ExpireTurn(x, now) ==
  IF DOMAIN x.heap # {} /\ x.heap[HEAP0].at < now THEN Taken(x, now) ELSE x

\* Every timer is taken once at most.
Expired(now) ==
  LET turns[i \in 0..timercnt] ==
        IF i = 0 THEN [heap |-> timers, active |-> ev_active, at |-> at, fed |-> <<>>]
        ELSE ExpireTurn(turns[i - 1], now)
  IN turns[timercnt]

\* Mutant of timers_reify: the expired timers are fed in the order they were
\* taken.
timers_reifyForward(now) ==
  LET x == Expired(now)
  IN /\ SetHeap(x)
     /\ at' = x.at
     /\ Fed(x.fed)
     /\ repeat' = [w \in Timers |-> IF x.active[w] = 0 THEN 0 ELSE repeat[w]]

\* timers_reify at the time now: expired timers are rescheduled or stopped
\* and fed in reverse, so that the earliest is called first.
timers_reify(now) ==
  LET x == Expired(now)
  IN /\ SetHeap(x)
     /\ at' = x.at
     /\ Fed(Reverse(x.fed))
     /\ repeat' = [w \in Timers |-> IF x.active[w] = 0 THEN 0 ELSE repeat[w]]

\* The loop has called what was pending, waited, and updated its time.
TimersTurn ==
  /\ pendingTimers = <<>>
  /\ mn_now' \in mn_now..MaxNow
  /\ \E now \in {mn_now'} : timers_reify(now)
  /\ UNCHANGED ops

TimersNext ==
  \/ TimersTurn
  \/ ev_invoke_pending
  \/ \E w \in Timers, d \in Delays : ev_timer_start(w, d)
  \/ \E w \in Timers : ev_timer_stop(w)
  \/ \E w \in Repeating, r \in Delays : ev_timer_again(w, r)

TimersSpec == TimersInit /\ [][TimersNext]_timerVars

-----------------------------------------------------------------------------
\* The heap and the pending list implement the timer service: expiry exactly
\* when the time is over, callbacks in the order of the times, and none after
\* ev_timer_stop or ev_timer_again.
Service == INSTANCE TimerService WITH
  now <- mn_now,
  due <- [w \in Timers |-> IF ev_active[w] = 0 THEN -1 ELSE at[w]],
  expired <- Only(Reverse(pendingTimers), Timers)
ImplementsService == Service!Spec
==============================================================================

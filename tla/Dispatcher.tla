----------------------------- MODULE Dispatcher -----------------------------
(***************************************************************************)
(* XDispatcher and the calls it schedules, the thread pool underneath and  *)
(* the threads that enqueue, cancel and complete calls.                    *)
(*                                                                         *)
(* A call waits in ready until promoteAndExecute finds room for it, moves  *)
(* to running, and is handed to the executor outside the monitor.  It      *)
(* leaves through finished, which every cancellation, every timeout and    *)
(* the end of execute() run, each on its own thread: the lookup that opens *)
(* finished takes no lock, what follows does.  A step is one critical      *)
(* section of the monitor or one unlocked access between two of them.      *)
(*                                                                         *)
(* Users are application threads and the main looper that delivers         *)
(* timeouts; the worker thread of a call is named by the call.             *)
(***************************************************************************)
EXTENDS Integers, FiniteSets

CONSTANTS
  Calls,            \* the calls the application makes
  Users,            \* the threads that enqueue and cancel
  NoCall,           \* not a call
  url,              \* url[c]: what runningCallsForHost compares
  MaxRequests,      \* maxRequests
  MaxPerHost,       \* maxRequestsPerHost
  MaxCancels        \* bound on the number of cancellations

ASSUME DispatcherAssumption ==
  /\ IsFiniteSet(Calls)
  /\ Users \cap Calls = {}
  /\ NoCall \notin Calls
  /\ MaxRequests \in Nat \ {0} /\ MaxPerHost \in Nat \ {0}
  /\ MaxCancels \in Nat

VARIABLES
  ready,      \* readyAsyncCalls; its order is that of the tickets
  ticket,     \* ticket[c]: when c was enqueued, 0 before
  arrivals,   \* calls enqueued so far
  running,    \* runningAsyncCalls
  pc,         \* where each thread is in XDispatcher
  arg,        \* the call it runs finished() for
  todo,       \* its executableCalls not yet handed to the executor
  job,        \* what the executor knows of a call
  cancels,    \* cancellations so far
  process     \* "crashed" once an AssertionError was thrown

vars == <<ready, ticket, arrivals, running, pc, arg, todo, job, cancels, process>>

Threads == Users \cup Calls

TypeOK ==
  /\ ready \in SUBSET Calls /\ running \in SUBSET Calls
  /\ ticket \in [Calls -> Nat] /\ arrivals \in Nat
  /\ pc \in [Threads -> {"idle", "promote", "launch", "check", "remove", "drop"}]
  /\ arg \in [Threads -> Calls \cup {NoCall}]
  /\ todo \in [Threads -> SUBSET Calls]
  /\ job \in [Calls -> {"new", "executing", "done"}]
  /\ cancels \in 0..MaxCancels
  /\ process \in {"up", "crashed"}
  /\ ready \cap running = {}
  /\ \A c \in ready \cup running : ticket[c] > 0
  /\ \A t \in Threads : /\ pc[t] = "launch" <=> todo[t] # {}
                        /\ pc[t] \in {"check", "remove", "drop"} <=> arg[t] # NoCall

Init ==
  /\ ready = {} /\ running = {}
  /\ ticket = [c \in Calls |-> 0] /\ arrivals = 0
  /\ pc = [t \in Threads |-> "idle"]
  /\ arg = [t \in Threads |-> NoCall]
  /\ todo = [t \in Threads |-> {}]
  /\ job = [c \in Calls |-> "new"]
  /\ cancels = 0 /\ process = "up"

Goto(t, where) == pc' = [pc EXCEPT ![t] = where]

\* enqueue: the call joins the queue, and room is looked for afterwards.
Enqueue(u, c) ==
  /\ pc[u] = "idle" /\ ticket[c] = 0
  /\ ready' = ready \cup {c}
  /\ ticket' = [ticket EXCEPT ![c] = arrivals + 1]
  /\ arrivals' = arrivals + 1
  /\ Goto(u, "promote")
  /\ UNCHANGED <<running, arg, todo, job, cancels, process>>

SameUrl(S, c) == {d \in S : url[d] = url[c]}

\* Neither limit keeps c out when the calls S are running.
Room(S, c) ==
  /\ Cardinality(S) < MaxRequests
  /\ Cardinality(SameUrl(S, c)) < MaxPerHost

\* The calls promoteAndExecute picks: it walks ready in order and takes each
\* call for which there is room next to the running and the taken ones.
Picked(S) == \A c \in ready :
  c \in S <=> Room(running \cup {d \in S : ticket[d] < ticket[c]}, c)

\* Mutant of Promote: i.remove() is forgotten.
PromoteKeeps(t) ==
  /\ pc[t] = "promote"
  /\ \E S \in SUBSET ready :
       /\ Picked(S)
       /\ running' = running \cup S
       /\ todo' = [todo EXCEPT ![t] = S]
       /\ Goto(t, IF S = {} THEN "idle" ELSE "launch")
  /\ UNCHANGED <<ready, ticket, arrivals, arg, job, cancels, process>>

Promote(t) ==
  /\ pc[t] = "promote"
  /\ \E S \in SUBSET ready :
       /\ Picked(S)
       /\ ready' = ready \ S
       /\ running' = running \cup S
       /\ todo' = [todo EXCEPT ![t] = S]
       /\ Goto(t, IF S = {} THEN "idle" ELSE "launch")
  /\ UNCHANGED <<ticket, arrivals, arg, job, cancels, process>>

\* executeOn, for the next picked call, outside the monitor.
Launch(t) ==
  /\ pc[t] = "launch"
  /\ \E c \in todo[t] :
       /\ \A d \in todo[t] : ticket[c] <= ticket[d]
       /\ todo' = [todo EXCEPT ![t] = @ \ {c}]
       /\ job' = [job EXCEPT ![c] = "executing"]
       /\ Goto(t, IF todo[t] = {c} THEN "idle" ELSE "launch")
  /\ UNCHANGED <<ready, ticket, arrivals, running, arg, cancels, process>>

\* XAsyncCallCommon.cancel calls finished: from XRealCall.cancel or the timeout
\* on a user thread, from callBackData on the worker thread.
Cancel(t, c) ==
  /\ pc[t] = "idle" /\ cancels < MaxCancels
  /\ \/ t \in Users /\ ticket[c] > 0
     \/ t = c /\ job[c] = "executing"
  /\ cancels' = cancels + 1
  /\ arg' = [arg EXCEPT ![t] = c]
  /\ Goto(t, "check")
  /\ UNCHANGED <<ready, ticket, arrivals, running, todo, job, process>>

\* Mutant of EndExecute: there is no finally block.
EndExecuteQuietly(c) ==
  /\ pc[c] = "idle" /\ job[c] = "executing"
  /\ job' = [job EXCEPT ![c] = "done"]
  /\ UNCHANGED <<ready, ticket, arrivals, running, pc, arg, todo, cancels, process>>

\* execute() is over: its finally block calls finished.
EndExecute(c) ==
  /\ pc[c] = "idle" /\ job[c] = "executing"
  /\ job' = [job EXCEPT ![c] = "done"]
  /\ arg' = [arg EXCEPT ![c] = c]
  /\ Goto(c, "check")
  /\ UNCHANGED <<ready, ticket, arrivals, running, todo, cancels, process>>

\* finished: the unlocked lookup.
Check(t) ==
  /\ pc[t] = "check"
  /\ Goto(t, IF arg[t] \in running THEN "remove" ELSE "drop")
  /\ UNCHANGED <<ready, ticket, arrivals, running, arg, todo, job, cancels, process>>

\* Mutant of Remove: promoteAndExecute is not called.
RemoveOnly(t) ==
  /\ pc[t] = "remove"
  /\ running' = running \ {arg[t]}
  /\ process' = IF arg[t] \in running THEN "up" ELSE "crashed"
  /\ arg' = [arg EXCEPT ![t] = NoCall]
  /\ Goto(t, "idle")
  /\ UNCHANGED <<ready, ticket, arrivals, todo, job, cancels>>

\* The call is removed, then room is looked for; if it is gone by now, the
\* AssertionError takes the thread, and with it the application, down.
Remove(t) ==
  /\ pc[t] = "remove"
  /\ running' = running \ {arg[t]}
  /\ process' = IF arg[t] \in running THEN "up" ELSE "crashed"
  /\ arg' = [arg EXCEPT ![t] = NoCall]
  /\ Goto(t, "promote")
  /\ UNCHANGED <<ready, ticket, arrivals, todo, job, cancels>>

\* A call that is not running is taken out of the queue.
Drop(t) ==
  /\ pc[t] = "drop"
  /\ ready' = ready \ {arg[t]}
  /\ arg' = [arg EXCEPT ![t] = NoCall]
  /\ Goto(t, "idle")
  /\ UNCHANGED <<ticket, arrivals, running, todo, job, cancels, process>>

Step(t) == Promote(t) \/ Launch(t) \/ Check(t) \/ Remove(t) \/ Drop(t)

Next == /\ process = "up"
        /\ \/ \E t \in Threads : Step(t)
           \/ \E t \in Threads, c \in Calls : Cancel(t, c)
           \/ \E u \in Users, c \in Calls : Enqueue(u, c)
           \/ \E c \in Calls : EndExecute(c)

Spec == Init /\ [][Next]_vars

\* Threads are scheduled, and every call is finished by its worker: executions
\* end.  After a connect that failed silently one may not; the read timeout,
\* which finishes the call as well, then takes the worker's place.
Fairness == /\ \A t \in Threads : WF_vars(process = "up" /\ Step(t))
            /\ \A c \in Calls : WF_vars(process = "up" /\ EndExecute(c))

FairSpec == Spec /\ Fairness
==============================================================================

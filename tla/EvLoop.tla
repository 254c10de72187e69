------------------------------- MODULE EvLoop -------------------------------
(***************************************************************************)
(* The libev loop under a context: ev_run, its async watchers with the     *)
(* pipe that wakes it, and the I/O watcher of the socket over epoll.       *)
(*                                                                         *)
(* Threads call ev_async_send, one step per access to a shared variable;   *)
(* the fences of the code make these accesses sequentially consistent.     *)
(* The loop's thread runs ev_run and the callbacks; the callback of an     *)
(* async watcher may stop and start the socket's watcher, close and reopen *)
(* the socket, and break the loop.  A callback that sends is a sender      *)
(* among others.                                                           *)
(*                                                                         *)
(* A file descriptor and its only watcher go by one name.  Timers are the  *)
(* subject of module EvTimers: here epoll_wait may time out at any time.   *)
(* Signals, forks, periodics, idle, prepare and check watchers are unused. *)
(***************************************************************************)
EXTENDS Integers, Sequences, FiniteSets

CONSTANTS
  Senders,      \* threads that call ev_async_send
  Asyncs,       \* async watchers
  Interests,    \* event masks the socket's watcher is started with
  PendingW,     \* pending_w
  MaxSends,     \* bound on the calls of ev_async_send
  MaxArrivals   \* bound on the changes of the socket's state

ASSUME EvLoopAssumption ==
  /\ IsFiniteSet(Asyncs) /\ IsFiniteSet(Senders)
  /\ Interests \subseteq SUBSET {"READ", "WRITE"} /\ {} \notin Interests
  /\ Asyncs \cap {"pipe", "sock"} = {}
  /\ PendingW \notin Asyncs \cup {"pipe", "sock"}
  /\ MaxSends \in Nat /\ MaxArrivals \in Nat

VARIABLES
  sent,         \* the async watchers with w->sent set
  async_pending, pipe_write_skipped, pipe_write_wanted,
  bytes,        \* in the pipe
  sender,       \* sender[s]: where s is in ev_async_send, and for which watcher
  sends,        \* calls of ev_async_send so far
  pc,           \* where the loop's thread is
  block,        \* waittime is not 0
  asyncs,       \* the array of active async watchers
  scan,         \* those pipecb still has to look at
  loop_done,
  pendings,     \* the pending watchers of either priority, last called first
  active,       \* the active I/O watchers
  events,       \* events[f]: w->events of the watcher of f
  anfds,        \* the loop's knowledge of a descriptor
  fdchanges,
  kernel,       \* the registrations of the epoll instance
  ready,        \* what the socket is ready for
  open,         \* the socket is open
  arrivals      \* changes of the socket's state, refusals and interruptions so far

flagVars == <<sent, async_pending, pipe_write_skipped, bytes>>
sendVars == <<sender, sends>>
loopVars == <<pc, block, asyncs, scan, loop_done, pendings, pipe_write_wanted>>
ioVars == <<active, events, anfds, fdchanges, kernel>>
envVars == <<ready, open, arrivals>>
vars == <<flagVars, sendVars, loopVars, ioVars, envVars>>

Fds == {"pipe", "sock"}
Masks == SUBSET {"READ", "WRITE"}
Unregistered == [mask |-> {}, egen |-> 0]
Priorities == {"max", "normal"}
Entries == [w : Asyncs \cup Fds \cup {PendingW}, revents : SUBSET {"READ", "WRITE", "CUSTOM", "ASYNC", "ERROR"}]

TypeOK ==
  /\ sent \subseteq Asyncs
  /\ async_pending \in BOOLEAN /\ pipe_write_skipped \in BOOLEAN
  /\ pipe_write_wanted \in BOOLEAN /\ bytes \in Nat
  /\ sender \in [Senders -> {"idle", "flag", "set", "skip", "wanted", "unskip", "write"}]
  /\ sends \in 0..MaxSends
  /\ pc \in {"init", "top", "decide", "poll", "unwant", "check", "invoke",
             "clear", "async", "scan", "done"}
  /\ block \in BOOLEAN /\ loop_done \in BOOLEAN
  /\ asyncs \in Seq(Asyncs) /\ scan \in Seq(Asyncs)
  /\ pendings \in [Priorities -> Seq(Entries)]
  /\ active \subseteq Fds /\ events \in [Fds -> Masks]
  /\ anfds \in [Fds -> [events : Masks, reify : SUBSET {"REIFY", "IOFDSET"},
                        emask : Masks, egen : Nat]]
  /\ fdchanges \in Seq(Fds)
  /\ kernel \in [Fds -> [mask : Masks, egen : Nat]]
  /\ ready \subseteq {"READ", "WRITE", "ERR"} /\ open \in BOOLEAN
  /\ arrivals \in 0..MaxArrivals

\* loop_init: ev_loop_new(EVFLAG_AUTO) with the epoll backend.
Init ==
  /\ sent = {} /\ async_pending = FALSE
  /\ pipe_write_skipped = FALSE /\ pipe_write_wanted = FALSE
  /\ bytes = 0
  /\ sender = [s \in Senders |-> "idle"] /\ sends = 0
  /\ pc = "init" /\ block = FALSE /\ loop_done = FALSE
  /\ asyncs = <<>> /\ scan = <<>>
  /\ pendings = [p \in Priorities |-> <<>>]
  /\ active = {} /\ events = [f \in Fds |-> {}]
  /\ anfds = [f \in Fds |-> [events |-> {}, reify |-> {}, emask |-> {}, egen |-> 0]]
  /\ fdchanges = <<>>
  /\ kernel = [f \in Fds |-> Unregistered]
  /\ ready = {} /\ open = FALSE
  /\ arrivals = 0

-----------------------------------------------------------------------------
(* ev_async_send and evpipe_write, on the thread s.                        *)

Goto(s, where) == sender' = [sender EXCEPT ![s] = where]

Sending == UNCHANGED <<sends, loopVars, ioVars, envVars>>

\* w->sent = 1, before the flag is looked at.
SetSent(s, a) ==
  /\ sender[s] = "idle" /\ sends < MaxSends /\ pc # "done"
  /\ sent' = sent \cup {a}
  /\ Goto(s, "flag")
  /\ sends' = sends + 1
  /\ UNCHANGED <<async_pending, pipe_write_skipped, bytes, loopVars, ioVars, envVars>>

\* If another thread has set the flag, that thread wakes the loop, or the loop
\* is awake.
ReadFlag(s) ==
  /\ sender[s] = "flag"
  /\ Goto(s, IF async_pending THEN "idle" ELSE "set")
  /\ UNCHANGED flagVars /\ Sending

SetFlag(s) ==
  /\ sender[s] = "set"
  /\ async_pending' = TRUE
  /\ Goto(s, "skip")
  /\ UNCHANGED <<sent, pipe_write_skipped, bytes>> /\ Sending

\* Mutant of SetSkipped: pipe_write_wanted is looked at first.
SetSkippedLate(s) ==
  /\ sender[s] = "skip"
  /\ \/ /\ pipe_write_wanted
        /\ Goto(s, "write") /\ UNCHANGED pipe_write_skipped
     \/ /\ ~pipe_write_wanted
        /\ Goto(s, "idle") /\ UNCHANGED pipe_write_skipped
  /\ UNCHANGED <<sent, async_pending, bytes>> /\ Sending

\* The loop is told that a write was skipped, before it is asked whether it
\* wants one.
SetSkipped(s) ==
  /\ sender[s] = "skip"
  /\ pipe_write_skipped' = TRUE
  /\ Goto(s, "wanted")
  /\ UNCHANGED <<sent, async_pending, bytes>> /\ Sending

ReadWanted(s) ==
  /\ sender[s] = "wanted"
  /\ Goto(s, IF pipe_write_wanted THEN "unskip" ELSE "idle")
  /\ UNCHANGED flagVars /\ Sending

ClearSkipped(s) ==
  /\ sender[s] = "unskip"
  /\ pipe_write_skipped' = FALSE
  /\ Goto(s, "write")
  /\ UNCHANGED <<sent, async_pending, bytes>> /\ Sending

WriteByte(s) ==
  /\ sender[s] = "write"
  /\ bytes' = bytes + 1
  /\ Goto(s, "idle")
  /\ UNCHANGED <<sent, async_pending, pipe_write_skipped>> /\ Sending

Send(s) == \/ ReadFlag(s) \/ SetFlag(s) \/ SetSkipped(s)
           \/ ReadWanted(s) \/ ClearSkipped(s) \/ WriteByte(s)

-----------------------------------------------------------------------------
(* Pending watchers.                                                       *)

Has(q, w) == \E i \in DOMAIN q : q[i].w = w

\* ev_feed_event: a watcher that is pending already gets more events.
Feed(q, w, revents) ==
  IF Has(q, w)
  THEN [i \in DOMAIN q |-> IF q[i].w = w THEN [w |-> w, revents |-> q[i].revents \cup revents]
                           ELSE q[i]]
  ELSE Append(q, [w |-> w, revents |-> revents])

\* Mutant of Cleared: the callback stays pending.
ClearedNot(q, w) == q

\* clear_pending
Cleared(q, w) == [i \in DOMAIN q |-> IF q[i].w = w THEN [q[i] EXCEPT !.w = PendingW] ELSE q[i]]

Priority(f) == IF f = "pipe" THEN "max" ELSE "normal"

-----------------------------------------------------------------------------
(* Watchers start and stop: before ev_run, or in a callback.               *)

\* fd_change: the descriptor is looked at before the loop waits again.
Changed(f, flags) ==
  /\ anfds' = [anfds EXCEPT ![f].reify = @ \cup flags]
  /\ fdchanges' = IF anfds[f].reify = {} THEN Append(fdchanges, f) ELSE fdchanges

\* Mutant of IoStart: the descriptor is not marked as a new one.
IoStartUnmarked(f, mask) ==
  /\ active' = active \cup {f}
  /\ events' = [events EXCEPT ![f] = mask]
  /\ Changed(f, {"REIFY"})

\* ev_io_init, then ev_io_start.  IOFDSET makes sure that the kernel is told even
\* if the mask is the old one: the descriptor may be a new socket.
IoStart(f, mask) ==
  /\ active' = active \cup {f}
  /\ events' = [events EXCEPT ![f] = mask]
  /\ Changed(f, {"IOFDSET", "REIFY"})

\* ev_async_start; the first one creates the pipe (evpipe_init).
AsyncStart(a) ==
  /\ pc = "init" /\ \A i \in DOMAIN asyncs : asyncs[i] # a
  /\ sent' = sent \ {a}
  /\ asyncs' = Append(asyncs, a)
  /\ IF "pipe" \in active THEN UNCHANGED ioVars
     ELSE IoStart("pipe", {"READ"}) /\ UNCHANGED kernel
  /\ UNCHANGED <<async_pending, pipe_write_skipped, bytes, sendVars, pc, block, scan,
                 loop_done, pendings, pipe_write_wanted, envVars>>

\* What a callback may do with the loop: nothing, ...
NoCall == UNCHANGED <<loop_done, ioVars, ready, open>>

\* ... open a socket and start its watcher, as client_long_handle_task does; the
\* new socket may get the number of an old one; or start the watcher again, ...
OpenSocket(mask) ==
  /\ "sock" \notin active
  /\ open' = TRUE
  /\ IoStart("sock", mask)
  /\ UNCHANGED <<kernel, loop_done, ready>>

StopWatcher ==
  /\ "sock" \in active
  /\ active' = active \ {"sock"}
  /\ Changed("sock", {"REIFY"})
  /\ UNCHANGED events

\* ... stop the watcher, ...
StopSocket == StopWatcher /\ UNCHANGED <<kernel, loop_done, ready, open>>

\* ... or close the socket behind it, as client_long_close_task does: the kernel
\* drops the registration; client_long_task_destroy then breaks the loop.
CloseSocket ==
  /\ StopWatcher
  /\ open' = FALSE /\ ready' = {}
  /\ kernel' = [kernel EXCEPT !["sock"] = Unregistered]
  /\ loop_done' \in {loop_done, TRUE}

\* The first task is started before ev_run.
OpenFirst(mask) ==
  /\ pc = "init"
  /\ OpenSocket(mask)
  /\ UNCHANGED <<flagVars, sendVars, pc, block, asyncs, scan, pendings, pipe_write_wanted,
                 arrivals>>

\* The network, and the kernel's answer to a registration.
Arrive(r) ==
  /\ open /\ arrivals < MaxArrivals
  /\ r \notin ready /\ ready' = ready \cup {r}
  /\ arrivals' = arrivals + 1
  /\ UNCHANGED <<open, flagVars, sendVars, loopVars, ioVars>>

-----------------------------------------------------------------------------
(* ev_run.                                                                 *)

Loop(here, there) == pc = here /\ pc' = there

\* ev_run is entered after client_long_start_task_manager has started ev_task.
Run ==
  /\ Loop("init", "top")
  /\ asyncs # <<>>
  /\ loop_done' = FALSE
  /\ UNCHANGED <<flagVars, sendVars, block, asyncs, scan, pendings, pipe_write_wanted,
                 ioVars, envVars>>

\* epoll_modify from oev to nev, when the kernel does what it is asked: the
\* registration is added, or modified when it exists with another mask.  What
\* EEXIST and ENOENT repair leaves two cases: a registration that exists and is
\* believed to have the mask already stays as it is, with its generation.
epoll_modify(f, oev, nev) ==
  LET a == anfds[f]
      add == oev = {} \/ a.emask = nev
      kept == nev = {} \/ (add /\ kernel[f] # Unregistered /\ a.emask = nev)
      egen == IF kept THEN a.egen ELSE a.egen + 1
  IN [emask |-> IF nev = {} THEN a.emask ELSE nev,
      egen |-> egen,
      kernel |-> IF kept THEN kernel[f] ELSE [mask |-> nev, egen |-> egen]]

\* fd_reify: what the watchers want now, against what they wanted before.  The
\* step ends with pipe_write_wanted = 1, which precedes the look at the skipped
\* writes.
Wanted(f) == IF f \in active THEN events[f] ELSE {}
Modify(f) == \/ "IOFDSET" \in anfds[f].reify
             \/ anfds[f].events # Wanted(f)
Touched == {fdchanges[i] : i \in DOMAIN fdchanges}
Reified(f) ==
  IF f \notin Touched THEN [anfd |-> anfds[f], kernel |-> kernel[f]]
  ELSE LET m == IF Modify(f) THEN epoll_modify(f, anfds[f].events, Wanted(f))
                ELSE [emask |-> anfds[f].emask, egen |-> anfds[f].egen, kernel |-> kernel[f]]
       IN [anfd |-> [events |-> Wanted(f), reify |-> {}, emask |-> m.emask, egen |-> m.egen],
           kernel |-> m.kernel]

fd_reify ==
  /\ Loop("top", "decide")
  /\ anfds' = [f \in Fds |-> Reified(f).anfd]
  /\ kernel' = [f \in Fds |-> Reified(f).kernel]
  /\ fdchanges' = <<>>
  /\ pipe_write_wanted' = TRUE
  /\ UNCHANGED <<flagVars, sendVars, block, asyncs, scan, loop_done, pendings,
                 active, events, envVars>>

\* The kernel refuses to add the socket: fd_kill stops its watcher and calls it
\* with EV_ERROR; the change this makes waits for the next turn.
fd_kill ==
  /\ Loop("top", "decide")
  /\ arrivals < MaxArrivals /\ arrivals' = arrivals + 1
  /\ "sock" \in Touched /\ Modify("sock") /\ Wanted("sock") # {}
  /\ kernel["sock"] = Unregistered
  /\ kernel' = [kernel EXCEPT !["pipe"] = Reified("pipe").kernel]
  /\ anfds' = [pipe |-> Reified("pipe").anfd,
               sock |-> [events |-> Wanted("sock"), reify |-> {"REIFY"},
                         emask |-> Wanted("sock"), egen |-> anfds["sock"].egen]]
  /\ fdchanges' = <<"sock">>
  /\ active' = active \ {"sock"}
  /\ pendings' = [pendings EXCEPT !["normal"] =
                    Feed(Cleared(@, "sock"), "sock", {"ERROR", "READ", "WRITE"})]
  /\ pipe_write_wanted' = TRUE
  /\ UNCHANGED <<flagVars, sendVars, block, asyncs, scan, loop_done, events, ready, open>>

\* pipe_w was unreferenced by evpipe_init.
activecnt == Len(asyncs) + Cardinality(active \ {"pipe"})

\* Mutant of Decide: skipped writes are not looked at.
DecideBlindly ==
  /\ Loop("decide", "poll")
  /\ block' = (activecnt > 0)
  /\ UNCHANGED <<flagVars, sendVars, asyncs, scan, loop_done, pendings, pipe_write_wanted,
                 ioVars, envVars>>

\* waittime: a write that was skipped forbids to wait.
Decide ==
  /\ Loop("decide", "poll")
  /\ block' = (activecnt > 0 /\ ~pipe_write_skipped)
  /\ UNCHANGED <<flagVars, sendVars, asyncs, scan, loop_done, pendings, pipe_write_wanted,
                 ioVars, envVars>>

\* epoll_wait reports what a registration asks for, and errors in any case.
Readiness(f) == IF f = "sock" THEN ready ELSE IF bytes > 0 THEN {"READ"} ELSE {}
Reported(f) == /\ kernel[f] # Unregistered
               /\ Readiness(f) \cap (kernel[f].mask \cup {"ERR"}) # {}
Got(f) == IF "ERR" \in Readiness(f) THEN {"READ", "WRITE"}
          ELSE Readiness(f) \cap kernel[f].mask

\* epoll_poll, for an event of f: one that is not wanted corrects the kernel's
\* mask or removes the registration.
Unwanted(f) == Reported(f) /\ ~(Got(f) \subseteq anfds[f].events)
Fired(f) == IF Reported(f) /\ anfds[f].reify = {} /\ f \in active
            THEN Got(f) \cap events[f] ELSE {}

PollReturns ==
  /\ Loop("poll", "unwant")
  /\ ~block \/ \E f \in Fds : Reported(f)
  /\ anfds' = [f \in Fds |-> IF Unwanted(f) THEN [anfds[f] EXCEPT !.emask = anfds[f].events]
                             ELSE anfds[f]]
  /\ kernel' = [f \in Fds |->
       IF ~Unwanted(f) THEN kernel[f]
       ELSE IF anfds[f].events = {} THEN Unregistered
       ELSE [kernel[f] EXCEPT !.mask = anfds[f].events]]
  /\ pendings' = [p \in Priorities |->
       LET f == CHOOSE f \in Fds : Priority(f) = p IN
       IF Fired(f) = {} THEN pendings[p] ELSE Feed(pendings[p], f, Fired(f))]
  /\ UNCHANGED <<flagVars, sendVars, block, asyncs, scan, loop_done, pipe_write_wanted,
                 active, events, fdchanges, envVars>>

\* epoll_wait times out for a timer, having found no event.
PollTimesOut ==
  /\ Loop("poll", "unwant")
  /\ \A f \in Fds : ~Reported(f)
  /\ UNCHANGED <<flagVars, sendVars, block, asyncs, scan, loop_done, pendings,
                 pipe_write_wanted, ioVars, envVars>>

\* epoll_wait is interrupted: the events stay where they are.
PollInterrupted ==
  /\ Loop("poll", "unwant")
  /\ arrivals < MaxArrivals /\ arrivals' = arrivals + 1
  /\ UNCHANGED <<flagVars, sendVars, block, asyncs, scan, loop_done, pendings,
                 pipe_write_wanted, ioVars, ready, open>>

Unwant ==
  /\ Loop("unwant", "check")
  /\ pipe_write_wanted' = FALSE
  /\ UNCHANGED <<flagVars, sendVars, block, asyncs, scan, loop_done, pendings, ioVars, envVars>>

\* Writes that were skipped make pipe_w pending as a byte would.
CheckSkipped ==
  /\ Loop("check", "invoke")
  /\ pendings' = IF pipe_write_skipped
                 THEN [pendings EXCEPT !["max"] = Feed(@, "pipe", {"CUSTOM"})]
                 ELSE pendings
  /\ UNCHANGED <<flagVars, sendVars, block, asyncs, scan, loop_done, pipe_write_wanted,
                 ioVars, envVars>>

-----------------------------------------------------------------------------
(* ev_invoke_pending: the higher priority first, from the last to the first. *)

Top(p) == pendings[p][Len(pendings[p])]
Popped(p) == [pendings EXCEPT ![p] = SubSeq(@, 1, Len(@) - 1)]

\* pipecb: up to four bytes are read.
InvokePipe ==
  /\ pc = "invoke" /\ pendings["max"] # <<>>
  /\ pendings' = Popped("max")
  /\ bytes' = IF "READ" \notin Top("max").revents THEN bytes
              ELSE IF bytes > 4 THEN bytes - 4 ELSE 0
  /\ pc' = "clear"
  /\ UNCHANGED <<sent, async_pending, pipe_write_skipped, sendVars, block, asyncs, scan,
                 loop_done, pipe_write_wanted, ioVars, envVars>>

PipeClear ==
  /\ Loop("clear", "async")
  /\ pipe_write_skipped' = FALSE
  /\ UNCHANGED <<sent, async_pending, bytes, sendVars, block, asyncs, scan, loop_done,
                 pendings, pipe_write_wanted, ioVars, envVars>>

\* async_pending is reset before the watchers are looked at.
PipeAsync ==
  /\ pc = "async"
  /\ IF async_pending
     THEN pc' = "scan" /\ scan' = asyncs
     ELSE pc' = "invoke" /\ scan' = <<>>
  /\ async_pending' = FALSE
  /\ UNCHANGED <<sent, pipe_write_skipped, bytes, sendVars, block, asyncs, loop_done,
                 pendings, pipe_write_wanted, ioVars, envVars>>

\* Mutant of PipeScan: the watcher is fed whatever its flag says.
PipeScanAll ==
  /\ pc = "scan" /\ scan # <<>>
  /\ sent' = sent \ {scan[Len(scan)]}
  /\ pendings' = [pendings EXCEPT !["normal"] = Feed(@, scan[Len(scan)], {"ASYNC"})]
  /\ scan' = SubSeq(scan, 1, Len(scan) - 1)
  /\ UNCHANGED <<pc, async_pending, pipe_write_skipped, bytes, sendVars, block, asyncs,
                 loop_done, pipe_write_wanted, ioVars, envVars>>

\* The last watcher that was not looked at.
PipeScan ==
  /\ pc = "scan" /\ scan # <<>>
  /\ LET a == scan[Len(scan)] IN
     /\ sent' = sent \ {a}
     /\ pendings' = IF a \in sent
                    THEN [pendings EXCEPT !["normal"] = Feed(@, a, {"ASYNC"})]
                    ELSE pendings
  /\ scan' = SubSeq(scan, 1, Len(scan) - 1)
  /\ UNCHANGED <<pc, async_pending, pipe_write_skipped, bytes, sendVars, block, asyncs,
                 loop_done, pipe_write_wanted, ioVars, envVars>>

PipeEnds ==
  /\ Loop("scan", "invoke") /\ scan = <<>>
  /\ UNCHANGED <<flagVars, sendVars, block, asyncs, scan, loop_done, pendings,
                 pipe_write_wanted, ioVars, envVars>>

Lowest == pc = "invoke" /\ pendings["max"] = <<>> /\ pendings["normal"] # <<>>

\* The callback of an async watcher; clear_pending leaves pending_w, whose
\* callback does nothing.
InvokeAsync ==
  /\ Lowest /\ Top("normal").w # "sock"
  /\ LET rest == Popped("normal") IN
     \/ NoCall /\ pendings' = rest
     \/ /\ Top("normal").w # PendingW
        /\ \/ \E mask \in Interests : OpenSocket(mask) /\ pendings' = rest
           \/ /\ StopSocket \/ CloseSocket
              /\ pendings' = [rest EXCEPT !["normal"] = Cleared(@, "sock")]
  /\ UNCHANGED <<flagVars, sendVars, pc, block, asyncs, scan, pipe_write_wanted, arrivals>>

\* client_long_socket_event_callback: reads until the socket has no more;
\* client_socket_write_handler does nothing.
InvokeSocket ==
  /\ Lowest /\ Top("normal").w = "sock"
  /\ pendings' = Popped("normal")
  /\ ready' = IF "READ" \in Top("normal").revents THEN ready \ {"READ", "ERR"} ELSE ready
  /\ UNCHANGED <<flagVars, sendVars, pc, block, asyncs, scan, loop_done, pipe_write_wanted,
                 ioVars, open, arrivals>>

EndTurn ==
  /\ pc = "invoke" /\ \A p \in Priorities : pendings[p] = <<>>
  /\ pc' = IF activecnt > 0 /\ ~loop_done THEN "top" ELSE "done"
  /\ UNCHANGED <<flagVars, sendVars, block, asyncs, scan, loop_done, pendings,
                 pipe_write_wanted, ioVars, envVars>>

\* ev_async_stop, after ev_run: the last watcher takes the place.
AsyncStop(i) ==
  /\ pc = "done" /\ i \in DOMAIN asyncs
  /\ pendings' = [pendings EXCEPT !["normal"] = Cleared(@, asyncs[i])]
  /\ asyncs' = SubSeq([asyncs EXCEPT ![i] = asyncs[Len(asyncs)]], 1, Len(asyncs) - 1)
  /\ UNCHANGED <<flagVars, sendVars, pc, block, scan, loop_done, pipe_write_wanted,
                 ioVars, envVars>>

Callbacks == \/ InvokePipe \/ PipeClear \/ PipeAsync \/ PipeScan \/ PipeEnds
             \/ InvokeAsync \/ InvokeSocket
Turn == \/ fd_reify \/ fd_kill \/ Decide \/ PollReturns
        \/ Unwant \/ CheckSkipped \/ Callbacks \/ EndTurn

Next ==
  \/ \E s \in Senders : Send(s) \/ \E a \in Asyncs : SetSent(s, a)
  \/ \E a \in Asyncs : AsyncStart(a)
  \/ Run \/ Turn \/ PollTimesOut \/ PollInterrupted
  \/ \E mask \in Interests : OpenFirst(mask)
  \/ \E r \in {"READ", "WRITE", "ERR"} : Arrive(r)
  \/ \E i \in DOMAIN asyncs : AsyncStop(i)

Spec == Init /\ [][Next]_vars

\* The loop's thread and the senders are scheduled.  Nothing is assumed of
\* timers: a wakeup must not depend on a timeout of epoll_wait.
Fairness == WF_vars(Run) /\ WF_vars(Turn) /\ \A s \in Senders : WF_vars(Send(s))

FairSpec == Spec /\ Fairness
==============================================================================

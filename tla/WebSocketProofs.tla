-------------------------- MODULE WebSocketProofs --------------------------
(***************************************************************************)
(* Proofs about the web socket for any number of application threads,      *)
(* calls, upcalls and pings.                                               *)
(***************************************************************************)
EXTENDS WebSocketProps, SequenceTheorems, WellFoundedInduction, TLAPS

USE DEF locks, java, queue, native, counts, vars, Threads, Owners, Holding, Over, Serving

(***************************************************************************)
(* The inductive invariant of the locks: which thread does what where, and *)
(* which lock it then holds.                                               *)
(***************************************************************************)
Roles ==
  /\ \A a \in Apps : op[a] \in {"none", "send", "close"}
  /\ op[Writer] \in {"none", "write", "net"}
  /\ op[Loop] \in {"none", "message", "error", "destroy"}
  /\ \A t \in Threads : op[t] = "none" <=> pc[t] \in {"idle", "ping", "pingtag"}
  /\ \A t \in Threads : pc[t] \in {"ping", "pingtag", "frames", "send", "mutex"} => t = Writer
  /\ \A t \in Threads : pc[t] = "tag" => t = Loop

Places ==
  /\ pc[Writer] \in {"frames", "send", "mutex"} => op[Writer] = "write"
  /\ pc[Writer] \in {"send", "mutex"} => frames # <<>>
  /\ op[Writer] = "write" => pc[Writer] \notin {"submit", "execute"}
  /\ pc[Loop] = "tag" => op[Loop] = "error"
  /\ pc[Loop] # "idle" => loop \in {"poll", "first", "serve", "destroyed"}

Locks ==
  /\ \A t \in Threads : monitor = t => pc[t] \in Holding
  /\ \A t \in Threads : tag = t =>
       \/ t = Writer /\ op[t] = "net" /\ pc[t] \in {"enter", "submit", "execute"}
       \/ t = Loop /\ op[t] = "error" /\ pc[t] \in {"submit", "execute"}

LockInv == TypeOK /\ Roles /\ Places /\ Locks

\* What a command written over the slot leaves in the native variables.
LEMMA CommandStep ==
  ASSUME TypeOK, NEW c \in {"ping", "data", "cancel"}, Command(c)
  PROVE  /\ process' \in {"up", "crashed"}
         /\ cmd' \in {cmd, c} /\ async' \in BOOLEAN /\ lost' \in BOOLEAN
  BY DEF Command, Touch, TypeOK

\* What a step that leaves the monitor does.
LEMMA LeaveStep ==
  ASSUME TypeOK, NEW t \in Threads, Leave(t), pc[t] \in Holding \/ pc[t] = "enter"
  PROVE  /\ monitor' = None
         /\ tag' \in {None, tag} /\ tag' # t
         /\ pc' = [pc EXCEPT ![t] = "idle"] /\ op' = [op EXCEPT ![t] = "none"]
         /\ mutex' = mutex
         /\ t # Loop \/ loop = "poll" => loop' = loop
         /\ t = Loop /\ loop # "poll" =>
              loop' = IF loop = "destroyed" THEN "last" ELSE "reset"
  BY WebSocketAssumption DEF Leave, Goto, TypeOK

\* The steps of a thread that leaves the monitor keep the order of the locks.
LEMMA LeaveKeeps ==
  ASSUME LockInv, NEW t \in Threads, Leave(t), pc[t] \in Holding \/ pc[t] = "enter",
         monitor \in {None, t}, frames' # <<>> \/ t = Writer \/ frames' = frames
  PROVE  /\ monitor' \in Owners /\ tag' \in Owners /\ mutex' \in {None, Loop}
         /\ pc' \in [Threads -> Holding \cup {"idle", "enter", "ping", "pingtag"}]
         /\ op' \in [Threads -> {"none", "send", "close", "write", "net",
                                 "message", "error", "destroy"}]
         /\ loop' \in {"queued", "made", "looped", "armed", "poll", "returned"}
                      \cup Serving \cup Over
         /\ \A u \in Threads : pc'[u] \in Holding => monitor' = u
         /\ mutex' = Loop <=> loop' \in Serving
         /\ Roles' /\ Places' /\ Locks'
  <1>1. /\ monitor' = None
        /\ tag' \in {None, tag} /\ tag' # t
        /\ pc' = [pc EXCEPT ![t] = "idle"] /\ op' = [op EXCEPT ![t] = "none"]
        /\ mutex' = mutex
        /\ t # Loop \/ loop = "poll" => loop' = loop
        /\ t = Loop /\ loop # "poll" =>
             loop' = IF loop = "destroyed" THEN "last" ELSE "reset"
    BY LeaveStep DEF LockInv
  <1>2. \A u \in Threads \ {t} : pc[u] \notin Holding
    BY WebSocketAssumption DEF LockInv, TypeOK
  <1>3. /\ monitor' \in Owners /\ tag' \in Owners /\ mutex' \in {None, Loop}
        /\ pc' \in [Threads -> Holding \cup {"idle", "enter", "ping", "pingtag"}]
        /\ op' \in [Threads -> {"none", "send", "close", "write", "net",
                                "message", "error", "destroy"}]
    BY <1>1 DEF LockInv, TypeOK
  <1>0. t = Loop => loop \in {"poll", "first", "serve", "destroyed"}
    BY DEF LockInv, Places
  <1>4. loop' \in {"queued", "made", "looped", "armed", "poll", "returned"}
                  \cup Serving \cup Over
    BY <1>1 DEF LockInv, TypeOK
  <1>5. \A u \in Threads : pc'[u] \in Holding => monitor' = u
    BY <1>1, <1>2 DEF LockInv, TypeOK
  <1>6. mutex' = Loop <=> loop' \in Serving
    BY <1>0, <1>1, WebSocketAssumption DEF LockInv, TypeOK
  <1>7. Roles'
    BY <1>1, WebSocketAssumption DEF LockInv, TypeOK, Roles
  <1>8. Places'
    BY <1>1, <1>2, WebSocketAssumption DEF LockInv, TypeOK, Roles, Places
  <1>9. Locks'
    BY <1>1, <1>2, WebSocketAssumption DEF LockInv, TypeOK, Locks
  <1> QED
    BY <1>3, <1>4, <1>5, <1>6, <1>7, <1>8, <1>9

LEMMA LockStep == LockInv /\ [Next]_vars => LockInv'
  <1> SUFFICES ASSUME LockInv, [Next]_vars PROVE LockInv'
    OBVIOUS
  <1> USE WebSocketAssumption
  <1>a. frames # <<>> => Tail(frames) \in Seq(Nat) /\ Head(frames) \in Nat
    BY DEF LockInv, TypeOK
  <1>b. UNCHANGED <<locks, pc, op, loop, frames>> => Roles' /\ Places' /\ Locks'
    BY DEF LockInv, Roles, Places, Locks
  <1>1. ASSUME NEW t \in Threads, InMonitor(t) PROVE LockInv'
    <2>1. CASE SendRefused(t)
      <3>1. Leave(t) /\ pc[t] = "enter" /\ monitor \in {None, t} /\ frames' = frames
        BY <2>1 DEF SendRefused, Acquire
      <3>2. told' \in SUBSET {"refused", "rejected", "sendFailed", "dns", "connect",
                              "closed", "failed"}
        BY <2>1 DEF SendRefused, Tell, LockInv, TypeOK
      <3>3. UNCHANGED <<java, queue, native, counts, process>>
        BY <2>1 DEF SendRefused
      <3> QED
        BY <3>1, <3>2, <3>3, LeaveKeeps DEF LockInv, TypeOK
    <2>2. CASE SendQueued(t)
      BY <2>2 DEF SendQueued, Acquire, Goto, LockInv, TypeOK, Roles, Places, Locks
    <2>3. CASE CloseQueued(t)
      BY <2>3 DEF CloseQueued, QueueClose, Acquire, Goto, LockInv, TypeOK, Roles, Places, Locks
    <2>4. CASE CloseAgain(t)
      <3>1. Leave(t) /\ pc[t] = "enter" /\ monitor \in {None, t} /\ frames' = frames
        BY <2>4 DEF CloseAgain, Acquire
      <3> QED
        BY <2>4, <3>1, LeaveKeeps DEF CloseAgain, LockInv, TypeOK
    <2>5. CASE Submit(t) /\ Usable
      <3>1. pc[t] = "submit" /\ pc' = [pc EXCEPT ![t] = "execute"]
        BY <2>5 DEF Submit, Goto
      <3>2. UNCHANGED <<locks, op, loop, java, queue, native, told, counts, process>>
        BY <2>5 DEF Submit
      <3> QED
        BY <3>1, <3>2 DEF LockInv, TypeOK, Roles, Places, Locks
    <2>6. CASE Submit(t) /\ ~Usable
      <3>1. Leave(t) /\ pc[t] \in Holding /\ monitor = t /\ frames' = frames
        BY <2>6 DEF Submit, LockInv, TypeOK
      <3>2. told' \in SUBSET {"refused", "rejected", "sendFailed", "dns", "connect",
                              "closed", "failed"}
        BY <2>6 DEF Submit, Tell, LockInv, TypeOK
      <3> QED
        BY <2>6, <3>1, <3>2, LeaveKeeps DEF Submit, LockInv, TypeOK
    <2>7. CASE Execute(t)
      <3>1. Leave(t) /\ pc[t] \in Holding /\ monitor = t /\ frames' = frames
        BY <2>7 DEF Execute, LockInv, TypeOK
      <3>2. told' \in SUBSET {"refused", "rejected", "sendFailed", "dns", "connect",
                              "closed", "failed"}
        BY <2>7 DEF Execute, Tell, LockInv, TypeOK
      <3>3. jobs' \in Nat
        BY <2>7 DEF Execute, LockInv, TypeOK
      <3>4. isCallback' \in BOOLEAN
        BY <2>7 DEF Execute, LockInv, TypeOK
      <3> QED
        BY <2>7, <3>1, <3>2, <3>3, <3>4, LeaveKeeps DEF Execute, LockInv, TypeOK
    <2> QED
      BY <1>1, <2>1, <2>2, <2>3, <2>4, <2>5, <2>6, <2>7 DEF InMonitor
  <1>2. ASSUME NEW a \in Apps, Call(a) PROVE LockInv'
    BY <1>2 DEF Call, Goto, LockInv, TypeOK, Roles, Places, Locks
  <1>3. CASE WriterThread \/ PingStarts
    <2>1. CASE TakeJob
      BY <2>1 DEF TakeJob, Goto, LockInv, TypeOK, Roles, Places, Locks
    <2>2. CASE StartWriting
      BY <2>2 DEF StartWriting, Acquire, Goto, LockInv, TypeOK, Roles, Places, Locks
    <2>3. CASE StopWriting
      <3>1. Leave(Writer) /\ pc[Writer] \in Holding /\ monitor = Writer
        BY <2>3 DEF StopWriting, LockInv, TypeOK
      <3> QED
        BY <2>3, <3>1, LeaveKeeps DEF StopWriting, LockInv, TypeOK
    <2>4. CASE /\ WriteMessage /\ Usable /\ Goto(Writer, "send")
               /\ UNCHANGED <<locks, op, loop, frames, oversize>>
      <3>1. pc[Writer] = "frames" /\ frames # <<>> /\ pc' = [pc EXCEPT ![Writer] = "send"]
        BY <2>4 DEF WriteMessage, Goto
      <3>2. UNCHANGED <<locks, op, loop, java, queue, native, told, counts, process>>
        BY <2>4 DEF WriteMessage
      <3> QED
        BY <3>1, <3>2 DEF LockInv, TypeOK, Roles, Places, Locks
    <2>5. CASE WriteMessage /\ Usable /\ Leave(Writer)
      <3>1. pc[Writer] \in Holding /\ monitor = Writer
        BY <2>5 DEF WriteMessage, LockInv, TypeOK
      <3>2. frames' \in Seq(Nat) /\ oversize' \in BOOLEAN
        BY <1>a, <2>5 DEF WriteMessage, LockInv, TypeOK
      <3> QED
        BY <2>5, <3>1, <3>2, LeaveKeeps DEF WriteMessage, LockInv, TypeOK
    <2>6. CASE WriteMessage /\ ~Usable
      <3>1. pc[Writer] = "frames" /\ frames' \in Seq(Nat)
        BY <1>a, <2>6 DEF WriteMessage
      <3>2. UNCHANGED <<locks, pc, op, loop, java, accepted, handed, oversize, jobs,
                        shutdown, native, told, counts, process>>
        BY <2>6 DEF WriteMessage
      <3>3. \A t \in Threads : pc[t] \in {"send", "mutex"} => pc[Writer] = pc[t]
        BY DEF LockInv, Roles
      <3>4. Places'
        BY <3>1, <3>2 DEF LockInv, Places
      <3> QED
        BY <3>1, <3>2, <3>4 DEF LockInv, TypeOK, Roles, Locks
    <2>7. CASE SendByteChecked
      <3>1. told' \in SUBSET {"refused", "rejected", "sendFailed", "dns", "connect",
                              "closed", "failed"}
        BY <2>7 DEF SendByteChecked, Tell, LockInv, TypeOK
      <3>2. process' \in {"up", "crashed"}
        BY <2>7 DEF SendByteChecked, TouchCtx, Touch
      <3>3. frames' \in Seq(Nat) /\ (pc'[Writer] = "mutex" => frames' # <<>>)
        BY <1>a, <2>7 DEF SendByteChecked, Goto, LockInv, TypeOK, Places
      <3> QED
        BY <2>7, <3>1, <3>2, <3>3 DEF SendByteChecked, Goto, LockInv, TypeOK, Roles, Places, Locks
    <2>8. CASE SendByte
      <3>1. /\ process' \in {"up", "crashed"}
            /\ cmd' \in {cmd, "data"} /\ async' \in BOOLEAN /\ lost' \in BOOLEAN
        BY <2>8, CommandStep DEF SendByte, LockInv
      <3>2. frames' \in Seq(Nat) /\ handed' \in Seq(Nat)
        BY <1>a, <2>8 DEF SendByte, LockInv, TypeOK, Places
      <3> QED
        BY <2>8, <3>1, <3>2 DEF SendByte, Goto, LockInv, TypeOK, Roles, Places, Locks
    <2>9. CASE WriteClose
      <3>1. Leave(Writer) /\ pc[Writer] \in Holding /\ monitor = Writer
        BY <2>9 DEF WriteClose, LockInv, TypeOK
      <3>2. /\ process' \in {"up", "crashed"}
            /\ cmd' \in {cmd, "cancel"} /\ async' \in BOOLEAN /\ lost' \in BOOLEAN
        BY <2>9, CommandStep DEF WriteClose, Touch, LockInv, TypeOK
      <3>3. frames' \in Seq(Nat)
        BY <2>9 DEF WriteClose
      <3> QED
        BY <2>9, <3>1, <3>2, <3>3, LeaveKeeps DEF WriteClose, LockInv, TypeOK
    <2>10. CASE PingSent
      <3>1. /\ process' \in {"up", "crashed"}
            /\ cmd' \in {cmd, "ping"} /\ async' \in BOOLEAN /\ lost' \in BOOLEAN
        BY <2>10, CommandStep DEF PingSent, TouchCtx, Touch, LockInv, TypeOK
      <3> QED
        BY <2>10, <3>1 DEF PingSent, Goto, LockInv, TypeOK, Roles, Places, Locks
    <2>11. CASE NetworkChanged
      <3>1. PICK w \in {"idle", "pingtag"} : pc' = [pc EXCEPT ![Writer] = w]
        BY <2>11 DEF NetworkChanged, Goto
      <3>2. /\ pc[Writer] = "ping"
            /\ UNCHANGED <<locks, op, loop, java, queue, native, told, counts, process>>
        BY <2>11 DEF NetworkChanged
      <3> QED
        BY <3>1, <3>2 DEF LockInv, TypeOK, Roles, Places, Locks
    <2>12. CASE InMonitor(Writer)
      BY <1>1, <2>12
    <2>13. CASE NetworkCloses /\ isCallback
      <3>1. /\ pc[Writer] = "pingtag" /\ pc' = [pc EXCEPT ![Writer] = "idle"]
            /\ UNCHANGED <<locks, op, loop, java, queue, native, told, counts, process>>
        BY <2>13 DEF NetworkCloses, Goto
      <3> QED
        BY <3>1 DEF LockInv, TypeOK, Roles, Places, Locks
    <2>14. CASE NetworkCloses /\ ~isCallback
      <3>1. /\ pc[Writer] = "pingtag" /\ pc' = [pc EXCEPT ![Writer] = "enter"]
            /\ tag = None /\ tag' = Writer /\ op' = [op EXCEPT ![Writer] = "net"]
            /\ status' = "close"
            /\ UNCHANGED <<monitor, mutex, loop, ctx, enqueuedClose, isCallback, queue,
                           native, told, counts, process>>
        BY <2>14 DEF NetworkCloses, Goto
      <3> QED
        BY <3>1 DEF LockInv, TypeOK, Roles, Places, Locks
    <2>15. CASE PingStarts
      <3>1. /\ pc[Writer] = "idle" /\ pc' = [pc EXCEPT ![Writer] = "ping"]
            /\ pings' \in 0..MaxPings
            /\ UNCHANGED <<locks, op, loop, java, queue, native, told, calls, upcalls, process>>
        BY <2>15 DEF PingStarts, Goto, LockInv, TypeOK
      <3> QED
        BY <3>1 DEF LockInv, TypeOK, Roles, Places, Locks
    <2> QED
      BY <1>3, <2>1, <2>2, <2>3, <2>4, <2>5, <2>6, <2>7, <2>8, <2>9, <2>10, <2>11, <2>12,
         <2>13, <2>14, <2>15 DEF WriterThread, WriteMessage
  <1>4. CASE LoopThread \/ Event \/ CloseNotify
    <2>1. CASE Deliver \/ ErrorAgain
      <3>1. /\ Leave(Loop) /\ pc[Loop] = "enter" /\ monitor \in {None, Loop}
            /\ UNCHANGED <<java, queue, native, told, counts, process>>
        BY <2>1 DEF Deliver, ErrorAgain, Acquire
      <3> QED
        BY <3>1, LeaveKeeps DEF LockInv, TypeOK
    <2>2. CASE ErrorFirst
      BY <2>2 DEF ErrorFirst, Acquire, Goto, LockInv, TypeOK, Roles, Places, Locks
    <2>3. CASE ErrorCloses /\ (isCallback \/ enqueuedClose)
      <3>1. /\ Leave(Loop) /\ pc[Loop] \in Holding /\ monitor = Loop
            /\ UNCHANGED <<ctx, enqueuedClose, queue, native, told, counts, process>>
        BY <2>3 DEF ErrorCloses, LockInv, TypeOK
      <3>2. isCallback' \in BOOLEAN /\ status' \in {"other", "cancel", "close"}
        BY <2>3 DEF ErrorCloses, LockInv, TypeOK
      <3> QED
        BY <3>1, <3>2, LeaveKeeps DEF LockInv, TypeOK
    <2>4. CASE ErrorCloses /\ ~(isCallback \/ enqueuedClose)
      <3>1. /\ op[Loop] = "error" /\ pc[Loop] = "tag" /\ monitor = Loop
            /\ pc' = [pc EXCEPT ![Loop] = "submit"]
            /\ tag = None /\ tag' = Loop /\ monitor' = Loop
        BY <2>4 DEF ErrorCloses, QueueClose, Goto, LockInv, TypeOK, Places
      <3>0. frames' = Append(frames, 0)
        BY <2>4 DEF ErrorCloses, QueueClose
      <3>3. frames' \in Seq(Nat) /\ frames' # <<>>
        BY <3>0, AppendProperties DEF LockInv, TypeOK
      <3>2. /\ status' = "close"
            /\ UNCHANGED <<mutex, op, loop, ctx, enqueuedClose, isCallback, accepted, handed,
                           oversize, jobs, shutdown, native, told, counts, process>>
        BY <2>4 DEF ErrorCloses, QueueClose
      <3> QED
        BY <3>1, <3>2, <3>3 DEF LockInv, TypeOK, Roles, Places, Locks
    <2>5. CASE DnsFails \/ Connect \/ Start \/ ForgetContext \/ ShutDown \/ ReportEnd
      <3>a. DnsFails => loop = "queued" /\ loop' = "dead"
        BY DEF DnsFails
      <3>b. Connect => loop = "queued" /\ loop' \in {"made", "returned"}
        BY DEF Connect
      <3>c. Start => loop = "made" /\ loop' \in {"looped", "returned"}
        BY DEF Start
      <3>d. ForgetContext \/ ShutDown \/ ReportEnd =>
              loop \in {"returned", "down", "end"} /\ loop' \in Over
        BY DEF ForgetContext, ShutDown, ReportEnd
      <3>1. /\ loop \in {"queued", "made", "returned", "down", "end"}
            /\ loop' \in {"made", "looped", "returned"} \cup Over
        BY <2>5, <3>a, <3>b, <3>c, <3>d
      <3>e. ctx' \in {ctx, "zero", "set", "bad"}
        BY <2>5 DEF DnsFails, Connect, Start, ForgetContext, ShutDown, ReportEnd
      <3>g. DnsFails \/ Connect \/ Start \/ ForgetContext \/ ReportEnd =>
              shutdown' = shutdown /\ jobs' = jobs
        BY DEF DnsFails, Connect, Start, ForgetContext, ReportEnd
      <3>h. ShutDown => shutdown' = TRUE /\ jobs' = 0
        BY DEF ShutDown
      <3>f. (shutdown' = shutdown /\ jobs' = jobs) \/ (shutdown' = TRUE /\ jobs' = 0)
        BY <2>5, <3>g, <3>h
      <3>i. ctx \in {"zero", "set", "bad"} /\ shutdown \in BOOLEAN /\ jobs \in Nat
        BY DEF LockInv, TypeOK
      <3>4. ctx' \in {"zero", "set", "bad"} /\ shutdown' \in BOOLEAN /\ jobs' \in Nat
        <4>1. ctx' \in {"zero", "set", "bad"}
          BY <3>e, <3>i
        <4>2. shutdown' \in BOOLEAN
          BY <3>f, <3>i
        <4>3. jobs' \in Nat
          BY <3>f, <3>i
        <4> QED
          BY <4>1, <4>2, <4>3
      <3>2. /\ told' \in SUBSET {"refused", "rejected", "sendFailed", "dns", "connect",
                                 "closed", "failed"}
            /\ UNCHANGED <<locks, pc, op, enqueuedClose, isCallback, status, frames,
                           accepted, handed, oversize, native, counts, process>>
        BY <2>5 DEF DnsFails, Connect, Start, ForgetContext, ShutDown, ReportEnd, Tell, LockInv, TypeOK
      <3>3. pc[Loop] = "idle"
        BY <3>1 DEF LockInv, Places
      <3> QED
        BY <3>1, <3>2, <3>3, <3>4 DEF LockInv, TypeOK, Roles, Places, Locks
    <2>6. CASE Event
      <3>1. PICK o \in {"message", "error"} : op' = [op EXCEPT ![Loop] = o]
        BY <2>6 DEF Event, Upcall
      <3>2. /\ loop = "poll" /\ pc[Loop] = "idle" /\ pc' = [pc EXCEPT ![Loop] = "enter"]
            /\ UNCHANGED <<locks, loop, java, queue, active, cmd, async, lost, told, calls,
                           pings, process>>
        BY <2>6 DEF Event, Upcall, Goto
      <3>3. upcalls' \in 0..MaxUpcalls
        BY <2>6 DEF Event, LockInv, TypeOK
      <3>4. conn' \in {conn, "closing"}
        BY <2>6 DEF Event
      <3> QED
        BY <3>1, <3>2, <3>3, <3>4 DEF LockInv, TypeOK, Roles, Places, Locks
    <2>8. CASE CloseNotify \/ ArmTask \/ ServePing \/ ServeEarly \/ ServeCancel \/ ResetCommand
      <3>1. /\ \/ loop' = loop /\ mutex' = mutex
               \/ loop = "looped" /\ loop' = "armed" /\ mutex' = mutex
               \/ loop \in {"first", "serve"} /\ loop' \in {"reset", "last"} /\ mutex' = mutex
               \/ loop \in {"reset", "last"} /\ loop' \in {"poll", "returned"} /\ mutex' = None
            /\ cmd' \in {cmd, "none", "init", "destroy"} /\ async' \in BOOLEAN
            /\ lost' \in BOOLEAN /\ conn' \in {conn, "closing", "closed"}
            /\ process' \in {process, "crashed"}
            /\ UNCHANGED <<monitor, tag, pc, op, java, queue, active, told, counts>>
        BY <2>8 DEF CloseNotify, ArmTask, ServePing, ServeEarly, ServeCancel, ResetCommand,
                    Served, LockInv, TypeOK
      <3>2. loop' # loop => pc[Loop] = "idle"
        BY <2>8 DEF CloseNotify, ArmTask, ServePing, ServeEarly, ServeCancel, ResetCommand,
                    Served, LockInv, Places
      <3>3. TypeOK'
        BY <3>1 DEF LockInv, TypeOK
      <3> QED
        BY <3>1, <3>2, <3>3 DEF LockInv, Roles, Places, Locks
    <2>9. CASE TakeCommand
      <3>1. /\ pc[Loop] = "idle" /\ mutex' = Loop /\ loop' \in {"first", "serve"}
            /\ async' \in BOOLEAN
            /\ UNCHANGED <<monitor, tag, pc, op, java, queue, active, cmd, conn, lost,
                           told, counts, process>>
        BY <2>9 DEF TakeCommand, LockInv, TypeOK
      <3> QED
        BY <3>1 DEF LockInv, TypeOK, Roles, Places, Locks
    <2>10. CASE ServeInit \/ ServeSend \/ ServeDestroy
      <3>1. PICK o \in {"error", "destroy"} :
              \/ UNCHANGED <<pc, op>> /\ loop' = "reset"
              \/ /\ pc' = [pc EXCEPT ![Loop] = "enter"] /\ op' = [op EXCEPT ![Loop] = o]
                 /\ loop' \in {loop, "destroyed"}
        BY <2>10 DEF ServeInit, ServeSend, ServeDestroy, Refuse, Upcall, Goto
      <3>2. /\ loop \in {"first", "serve"} /\ pc[Loop] = "idle"
            /\ active' \in BOOLEAN /\ conn' \in {conn, "alive", "closed"}
            /\ UNCHANGED <<locks, java, queue, cmd, async, lost, told, counts, process>>
        BY <2>10 DEF ServeInit, ServeSend, ServeDestroy, Refuse, Served, LockInv, TypeOK
      <3>t. TypeOK'
        BY <3>1, <3>2 DEF LockInv, TypeOK
      <3>r. Roles'
        BY <3>1, <3>2 DEF LockInv, TypeOK, Roles
      <3>p. Places'
        BY <3>1, <3>2 DEF LockInv, TypeOK, Roles, Places
      <3>l. Locks'
        BY <3>1, <3>2 DEF LockInv, TypeOK, Roles, Locks
      <3> QED
        BY <3>t, <3>r, <3>p, <3>l DEF LockInv
    <2>7. CASE InMonitor(Loop)
      BY <1>1, <2>7
    <2> QED
      BY <1>4, <2>1, <2>2, <2>3, <2>4, <2>5, <2>6, <2>7, <2>8, <2>9, <2>10 DEF LoopThread
  <1>5. CASE UNCHANGED vars
    BY <1>5 DEF LockInv, TypeOK, Roles, Places, Locks
  <1> QED
    BY <1>1, <1>2, <1>3, <1>4, <1>5 DEF Next

\* The steps of the loop thread in native code, and what they may do: they make
\* an upcall at most, and nothing in Java changes before it enters the monitor.
Native ==
  \/ Start \/ ArmTask \/ CloseNotify \/ TakeCommand \/ ServeInit \/ ServeSend \/ ServePing
  \/ ServeEarly \/ ServeCancel \/ ServeDestroy \/ ResetCommand

LEMMA NativeStep ==
  ASSUME Native
  PROVE  /\ UNCHANGED <<monitor, tag, java, queue, told, counts>>
         /\ \/ UNCHANGED <<pc, op>>
            \/ pc[Loop] = "idle" /\ (Upcall("error") \/ Upcall("destroy"))
         /\ loop \in {"made", "looped", "armed", "poll"} \cup Serving
         /\ loop' \in {loop, "looped", "armed", "poll", "returned"} \cup Serving
         /\ process' = process \/ (process' = "crashed" /\ loop' = "first")
  BY DEF Native, Start, ArmTask, CloseNotify, TakeCommand, ServeInit, ServeSend, ServePing,
         ServeEarly, ServeCancel, ServeDestroy, ResetCommand, Refuse, Served, Upcall

LEMMA LockInit == Init => LockInv
  <1> SUFFICES ASSUME Init PROVE LockInv
    OBVIOUS
  <1> USE WebSocketAssumption DEF Init
  <1>1. \A t \in Threads : pc[t] = "idle" /\ op[t] = "none"
    OBVIOUS
  <1>2. /\ pc \in [Threads -> Holding \cup {"idle", "enter", "ping", "pingtag"}]
        /\ op \in [Threads -> {"none", "send", "close", "write", "net",
                               "message", "error", "destroy"}]
    OBVIOUS
  <1>3. TypeOK
    <2>1. /\ enqueuedClose \in BOOLEAN /\ isCallback \in BOOLEAN /\ oversize \in BOOLEAN
          /\ shutdown \in BOOLEAN /\ active \in BOOLEAN /\ async \in BOOLEAN
          /\ lost \in BOOLEAN
      OBVIOUS
    <2>2. frames \in Seq(Nat) /\ handed \in Seq(Nat)
      BY EmptySeq
    <2>3. /\ told \in SUBSET {"refused", "rejected", "sendFailed", "dns", "connect",
                             "closed", "failed"}
          /\ calls \in 0..MaxCalls /\ upcalls \in 0..MaxUpcalls /\ pings \in 0..MaxPings
          /\ accepted \in Nat /\ jobs \in Nat
      OBVIOUS
    <2>4. /\ \A t \in Threads : pc[t] \in Holding => monitor = t
          /\ mutex = Loop <=> loop \in Serving
      BY <1>1
    <2> QED
      BY <1>2, <2>1, <2>2, <2>3, <2>4 DEF TypeOK
  <1> QED
    BY <1>1, <1>3 DEF LockInv, Roles, Places, Locks

\* The values the variables of the socket can have: every step of every thread
\* keeps to them, and only the owner of the monitor is inside it.
THEOREM TypeCorrect == Spec => []TypeOK
  <1>2. LockInv => TypeOK
    BY DEF LockInv
  <1> QED
    BY <1>2, LockInit, LockStep, PTL DEF Spec

\* Two threads of one socket wait for each other only in one of two ways: the
\* writer inside client_long_send against an upcall made under the native mutex,
\* and the ping task on TAG against an error upcall.  An application thread is
\* never one of the two.
THEOREM LocksOrdered == Spec => []OnlyTwoInversions
  <1>2. ASSUME LockInv PROVE OnlyTwoInversions
    <2> SUFFICES ASSUME NEW t \in Threads, NEW u \in Threads, t # u, Waits(t, u), Waits(u, t)
                 PROVE SendStuck \/ PingStuck
      BY DEF OnlyTwoInversions
    <2> USE WebSocketAssumption
    <2>1. \A v, w \in Threads : v # w /\ Waits(v, w) /\ Waits(w, v) =>
             pc[v] \in {"enter", "pingtag", "tag", "mutex"}
      BY DEF Waits
    <2>2. CASE pc[t] = "enter" /\ monitor = u
      <3>1. pc[u] \in {"tag", "mutex"}
        BY <1>2, <2>2 DEF Waits, LockInv, Locks, TypeOK
      <3> QED
        BY <1>2, <2>2, <3>1 DEF Waits, SendStuck, PingStuck, LockInv, Locks, Roles, Places, TypeOK
    <2>3. CASE pc[u] = "enter" /\ monitor = t
      <3>1. pc[t] \in {"tag", "mutex"}
        BY <1>2, <2>3 DEF Waits, LockInv, Locks, TypeOK
      <3> QED
        BY <1>2, <2>3, <3>1 DEF Waits, SendStuck, PingStuck, LockInv, Locks, Roles, Places, TypeOK
    <2>4. CASE ~(pc[t] = "enter" /\ monitor = u) /\ ~(pc[u] = "enter" /\ monitor = t)
      BY <1>2, <2>4 DEF Waits, LockInv, Locks, Roles, Places, TypeOK
    <2> QED
      BY <2>2, <2>3, <2>4
  <1> QED
    BY <1>2, LockInit, LockStep, PTL DEF Spec

(***************************************************************************)
(* A native call that reads clientCtx again finds it as it was checked, or *)
(* the connection is over.                                                 *)
(***************************************************************************)
CtxInv ==
  /\ pc[Writer] \in {"send", "ping"} => ctx # "zero" \/ loop \in Over
  /\ CrashWindow

LEMMA CtxStep == LockInv /\ CtxInv /\ [Next]_vars => CtxInv'
  <1> SUFFICES ASSUME LockInv, CtxInv, Next PROVE CtxInv'
    BY DEF CtxInv, CrashWindow
  <1> USE WebSocketAssumption DEF CtxInv, CrashWindow
  <1>0. /\ pc \in [Threads -> Holding \cup {"idle", "enter", "ping", "pingtag"}]
        /\ process = "up"
    BY DEF LockInv, TypeOK, Next
  <1>1. ASSUME NEW t \in Threads, InMonitor(t) PROVE CtxInv'
    <2>1. UNCHANGED <<ctx, process>>
      BY <1>1 DEF InMonitor, SendRefused, SendQueued, CloseQueued, CloseAgain, Submit, Execute
    <2>2. PICK w \in {"idle", "submit", "execute"} : pc' = [pc EXCEPT ![t] = w]
      BY <1>1 DEF InMonitor, SendRefused, SendQueued, CloseQueued, QueueClose, CloseAgain,
                  Submit, Execute, Leave, Goto
    <2>0. Leave(t) => loop' = loop \/ t = Loop
      BY DEF Leave
    <2>3. loop' = loop \/ (t = Loop /\ pc[Loop] # "idle")
      BY <1>1, <2>0 DEF InMonitor, SendRefused, SendQueued, CloseQueued, QueueClose, CloseAgain,
                        Submit, Execute, Acquire
    <2>4. loop' = loop \/ loop \notin Over
      BY <2>3 DEF LockInv, Places
    <2> QED
      BY <1>0, <2>1, <2>2, <2>4
  <1>2. CASE \/ \E a \in Apps : Call(a)
            \/ TakeJob \/ StartWriting \/ StopWriting \/ NetworkChanged \/ NetworkCloses
    <2>1. UNCHANGED <<ctx, loop, process>>
      BY <1>2 DEF Call, TakeJob, StartWriting, StopWriting, NetworkChanged, NetworkCloses, Leave
    <2>2. \E t \in Threads, w \in {"idle", "enter", "frames", "pingtag"} :
             pc' = [pc EXCEPT ![t] = w]
      BY <1>2 DEF Call, TakeJob, StartWriting, StopWriting, NetworkChanged, NetworkCloses,
                  Leave, Goto
    <2> QED
      BY <1>0, <2>1, <2>2
  <1>3. CASE WriteMessage \/ PingStarts
    <2>1. UNCHANGED <<ctx, loop, process>>
      BY <1>3 DEF WriteMessage, PingStarts, Leave
    <2>2. pc' = pc \/ ctx = "set" \/ pc' = [pc EXCEPT ![Writer] = "idle"]
      BY <1>3 DEF WriteMessage, PingStarts, Leave, Goto, Usable
    <2> QED
      BY <1>0, <2>1, <2>2
  <1>4. CASE SendByteChecked \/ SendByte \/ PingSent
    <2>1. /\ UNCHANGED <<ctx, loop>>
          /\ \/ TouchCtx /\ pc[Writer] \in {"send", "ping"}
             \/ Command("data") \/ Command("ping")
      BY <1>4 DEF SendByteChecked, SendByte, PingSent
    <2>5. TouchCtx /\ pc[Writer] \in {"send", "ping"} => Touch \/ loop \in Over
      BY DEF TouchCtx
    <2>6. Touch /\ process' = "crashed" => loop \in {"made", "returned"} \cup Over
      BY DEF Touch, Freed
    <2>7. \A c \in {"ping", "data"} : Command(c) => Touch \/ loop = "made"
      BY DEF Command
    <2>2. process' = "crashed" => loop \in {"made", "returned"} \cup Over
      BY <2>1, <2>5, <2>6, <2>7
    <2>3. PICK w \in {"idle", "frames", "mutex"} : pc' = [pc EXCEPT ![Writer] = w]
      BY <1>4 DEF SendByteChecked, SendByte, PingSent, Goto
    <2> QED
      BY <1>0, <2>1, <2>2, <2>3
  <1>5. CASE WriteClose
    <2>1. loop' = loop /\ pc' = [pc EXCEPT ![Writer] = "idle"]
      BY <1>5 DEF WriteClose, Leave, Goto
    <2>2. process' = "crashed" => loop \in {"made", "returned"} \cup Over
      BY <1>0, <1>5 DEF WriteClose, Command, Touch, Freed
    <2> QED
      BY <1>0, <2>1, <2>2
  <1>6. CASE Deliver \/ ErrorAgain \/ ErrorFirst \/ ErrorCloses \/ Event
    <2>1. UNCHANGED <<ctx, process>>
      BY <1>6 DEF Deliver, ErrorAgain, ErrorFirst, ErrorCloses, Event
    <2>2. loop \notin Over
      BY <1>6 DEF Deliver, ErrorAgain, ErrorFirst, ErrorCloses, Event, Acquire, LockInv, Places
    <2>3. \E w \in {"idle", "enter", "tag", "submit"} : pc' = [pc EXCEPT ![Loop] = w]
      BY <1>6 DEF Deliver, ErrorAgain, ErrorFirst, ErrorCloses, QueueClose, Event, Leave, Goto,
                  Upcall
    <2> QED
      BY <1>0, <2>1, <2>2, <2>3
  <1>8. CASE Native
    <2>1. pc' = pc \/ pc' = [pc EXCEPT ![Loop] = "enter"]
      BY <1>8, NativeStep DEF Upcall, Goto
    <2> QED
      BY <1>0, <1>8, <2>1, NativeStep
  <1>7. CASE DnsFails \/ Connect \/ ForgetContext \/ ShutDown \/ ReportEnd
    <2>1. pc' = pc /\ process' = process
      BY <1>7 DEF DnsFails, Connect, ForgetContext, ShutDown, ReportEnd
    <2>3. DnsFails \/ ForgetContext \/ ShutDown \/ ReportEnd => loop' \in Over
      BY DEF DnsFails, ForgetContext, ShutDown, ReportEnd
    <2>4. Connect => loop \notin Over /\ ctx' \in {ctx, "set", "bad"}
      BY DEF Connect
    <2>2. loop' \in Over \/ (loop \notin Over /\ ctx' \in {ctx, "set", "bad"})
      BY <1>7, <2>3, <2>4
    <2> QED
      BY <1>0, <2>1, <2>2
  <1> QED
    BY <1>1, <1>2, <1>3, <1>4, <1>5, <1>6, <1>7, <1>8 DEF Next, WriterThread, LoopThread, Native

\* Undefined behaviour is met only before the event loop of a context exists, at a
\* command that is served in place of INIT_TASK, and from the end of
\* client_long_start on, for any number of threads, calls and pings.
THEOREM CrashOnlyInWindow == Spec => []CrashWindow
  <1>1. Init => CtxInv
    BY WebSocketAssumption DEF Init, CtxInv, CrashWindow
  <1>2. CtxInv => CrashWindow
    BY DEF CtxInv
  <1> QED
    BY <1>1, <1>2, LockInit, LockStep, CtxStep, PTL DEF Spec

(***************************************************************************)
(* What send accepted is accounted for.                                    *)
(***************************************************************************)
Elements(q) == {q[i] : i \in DOMAIN q}

LEMMA AppendElements ==
  ASSUME NEW q \in Seq(Nat), NEW n \in Nat
  PROVE  /\ Append(q, n) \in Seq(Nat) /\ Len(Append(q, n)) = Len(q) + 1
         /\ Elements(Append(q, n)) = Elements(q) \cup {n}
  <1> DEFINE s == Append(q, n)
  <1>1. /\ s \in Seq(Nat) /\ Len(s) = Len(q) + 1
        /\ \A i \in 1..Len(q) : s[i] = q[i]
        /\ s[Len(q) + 1] = n
    BY AppendProperties
  <1>2. Len(q) \in Nat /\ DOMAIN q = 1..Len(q) /\ DOMAIN s = 1..(Len(q) + 1)
    BY <1>1, LenProperties
  <1> HIDE DEF s
  <1>3. \A x \in Elements(q) : x \in Elements(s)
    BY <1>1, <1>2 DEF Elements
  <1>4. n \in Elements(s)
    BY <1>1, <1>2 DEF Elements
  <1>5. \A x \in Elements(s) : x \in Elements(q) \cup {n}
    BY <1>1, <1>2 DEF Elements
  <1> QED
    BY <1>1, <1>3, <1>4, <1>5 DEF s

LEMMA TailElements ==
  ASSUME NEW q \in Seq(Nat), q # <<>>
  PROVE  /\ Head(q) \in Nat /\ Tail(q) \in Seq(Nat) /\ Len(Tail(q)) = Len(q) - 1
         /\ Elements(q) = {Head(q)} \cup Elements(Tail(q))
  <1> DEFINE s == Tail(q)
  <1>1. /\ Head(q) = q[1] /\ Head(q) \in Nat
        /\ s \in Seq(Nat) /\ Len(s) = Len(q) - 1
        /\ \A i \in 1..Len(s) : s[i] = q[i + 1]
    BY HeadTailProperties
  <1>2. /\ Len(q) \in Nat \ {0} /\ DOMAIN q = 1..Len(q) /\ DOMAIN s = 1..(Len(q) - 1)
    BY <1>1, LenProperties, EmptySeq
  <1> HIDE DEF s
  <1>3. ASSUME NEW i \in DOMAIN q, i # 1 PROVE i - 1 \in DOMAIN s /\ q[i] = s[i - 1]
    <2>1. i - 1 \in 1..Len(s) /\ (i - 1) + 1 = i
      BY <1>1, <1>2, <1>3
    <2> QED
      BY <1>1, <1>2, <2>1
  <1>4. ASSUME NEW i \in DOMAIN q PROVE q[i] \in {Head(q)} \cup Elements(s)
    BY <1>1, <1>3 DEF Elements
  <1>5. Head(q) \in Elements(q)
    BY <1>1, <1>2 DEF Elements
  <1>6. ASSUME NEW i \in DOMAIN s PROVE s[i] \in Elements(q)
    <2>1. i + 1 \in DOMAIN q /\ s[i] = q[i + 1]
      BY <1>1, <1>2
    <2> QED
      BY <2>1 DEF Elements
  <1>7. Elements(q) \subseteq {Head(q)} \cup Elements(s) /\ Elements(s) \subseteq Elements(q)
    BY <1>4, <1>6 DEF Elements
  <1> QED
    BY <1>1, <1>5, <1>7 DEF s

\* An executor that was shut down leaves no frame to poll, or the connection is
\* over; and nothing is accepted before connect has set clientCtx.
Early ==
  /\ loop = "queued" => ctx = "zero"
  /\ shutdown => (enqueuedClose /\ frames = <<>>) \/ loop \in Over
  /\ ctx = "set" \/ enqueuedClose \/ loop \in Over \/ accepted = 0

LEMMA OverStays == LockInv /\ [Next]_vars => (loop \in Over => loop' \in Over)
  <1> SUFFICES ASSUME LockInv, Next, loop \in Over PROVE loop' \in Over
    OBVIOUS
  <1> USE WebSocketAssumption
  <1>0. pc[Loop] = "idle"
    BY DEF LockInv, Places
  <1>1. ASSUME NEW t \in Threads, InMonitor(t) PROVE loop' \in Over
    <2>1. t # Loop
      BY <1>0, <1>1 DEF InMonitor, SendRefused, SendQueued, CloseQueued, CloseAgain, Submit,
                        Execute, Acquire
    <2>2. Leave(t) => loop' = loop
      BY <2>1 DEF Leave
    <2> QED
      BY <1>1, <2>2 DEF InMonitor, SendRefused, SendQueued, CloseQueued, QueueClose, CloseAgain,
                        Submit, Execute
  <1>2. ASSUME NEW a \in Apps, Call(a) PROVE loop' \in Over
    BY <1>2 DEF Call
  <1>3. CASE WriterThread \/ PingStarts
    <2>1. Leave(Writer) => loop' = loop
      BY DEF Leave
    <2>2. CASE InMonitor(Writer)
      BY <1>1, <2>2
    <2> QED
      BY <1>3, <2>1, <2>2 DEF WriterThread, PingStarts, TakeJob, StartWriting, StopWriting,
           WriteMessage, SendByteChecked, SendByte, WriteClose, PingSent, NetworkChanged,
           NetworkCloses
  <1>4. CASE LoopThread \/ Event \/ CloseNotify
    <2>1. CASE InMonitor(Loop)
      BY <1>1, <2>1
    <2> QED
      BY <1>0, <1>4, <2>1, NativeStep DEF LoopThread, Native, Event, Deliver, ErrorAgain,
           ErrorFirst, ErrorCloses, Acquire, DnsFails, Connect, ForgetContext, ShutDown, ReportEnd
  <1> QED
    BY <1>1, <1>2, <1>3, <1>4 DEF Next

LEMMA EarlyStep == LockInv /\ Early /\ [Next]_vars => Early'
  <1> SUFFICES ASSUME LockInv, Early, Next PROVE Early'
    BY DEF Early
  <1> USE WebSocketAssumption
  <1>0. loop \in Over => loop' \in Over
    BY OverStays
  <1>a. ASSUME UNCHANGED <<ctx, enqueuedClose, shutdown, frames, accepted>>,
               loop' = loop \/ loop' # "queued"
        PROVE Early'
    BY <1>0, <1>a DEF Early
  <1>1. ASSUME NEW t \in Threads, InMonitor(t) PROVE Early'
    <2>0. Leave(t) => loop' = loop \/ loop' # "queued"
      BY DEF Leave
    <2>1. CASE SendRefused(t) \/ CloseAgain(t) \/ Submit(t) \/ Execute(t)
      BY <1>a, <2>0, <2>1 DEF SendRefused, CloseAgain, Submit, Execute
    <2>2. CASE SendQueued(t)
      BY <1>0, <2>2 DEF SendQueued, Usable, Early
    <2>3. CASE CloseQueued(t)
      BY <1>0, <2>3 DEF CloseQueued, QueueClose, Early
    <2> QED
      BY <1>1, <2>1, <2>2, <2>3 DEF InMonitor
  <1>2. ASSUME NEW a \in Apps, Call(a) PROVE Early'
    BY <1>a, <1>2 DEF Call
  <1>3. CASE WriterThread \/ PingStarts
    <2>0. Leave(Writer) => loop' = loop
      BY DEF Leave
    <2>1. CASE TakeJob \/ StartWriting \/ StopWriting \/ PingSent \/ NetworkChanged
               \/ NetworkCloses \/ PingStarts
      BY <1>a, <2>0, <2>1 DEF TakeJob, StartWriting, StopWriting, PingSent, NetworkChanged,
           NetworkCloses, PingStarts
    <2>2. CASE WriteMessage \/ SendByteChecked \/ SendByte
      <3>1. UNCHANGED <<ctx, enqueuedClose, shutdown, accepted, loop>>
        BY <2>0, <2>2 DEF WriteMessage, SendByteChecked, SendByte
      <3>2. frames # <<>>
        BY <2>2 DEF WriteMessage, SendByteChecked, SendByte, LockInv, Places
      <3> QED
        BY <1>0, <3>1, <3>2 DEF Early
    <2>3. CASE WriteClose
      BY <1>0, <2>0, <2>3 DEF WriteClose, Early
    <2> QED
      BY <1>1, <1>3, <2>1, <2>2, <2>3 DEF WriterThread
  <1>4. CASE LoopThread \/ Event \/ CloseNotify
    <2>0. Leave(Loop) => loop' # "queued"
      BY DEF Leave
    <2>1. CASE Deliver \/ ErrorAgain \/ ErrorFirst \/ Event
      BY <1>a, <2>0, <2>1 DEF Deliver, ErrorAgain, ErrorFirst, Event
    <2>6. CASE Native
      BY <1>a, <2>6, NativeStep
    <2>2. CASE ErrorCloses
      BY <1>0, <2>0, <2>2 DEF ErrorCloses, QueueClose, Early
    <2>3. CASE DnsFails \/ ReportEnd
      BY <1>a, <2>3 DEF DnsFails, ReportEnd
    <2>4. CASE Connect
      BY <2>4 DEF Connect, Early
    <2>5. CASE ForgetContext \/ ShutDown
      BY <2>5 DEF ForgetContext, ShutDown, Early
    <2> QED
      BY <1>1, <1>4, <2>1, <2>2, <2>3, <2>4, <2>5, <2>6 DEF LoopThread, Native
  <1> QED
    BY <1>1, <1>2, <1>3, <1>4 DEF Next

\* A thread is about to submit a job for the frame it queued.
Submitting == \E t \in Threads : pc[t] \in {"submit", "execute"}

\* The frames are backed after a step that disturbs neither side of the bound.
LEMMA BackedStays ==
  ASSUME TypeOK, FramesBacked, frames' \in Seq(Nat), Len(frames') <= Len(frames), jobs' = jobs,
         Submitting => Submitting', op[Writer] = "write" => op'[Writer] = "write",
         told \subseteq told', loop \in Over => loop' \in Over
  PROVE  FramesBacked'
  <1>1. jobs \in Nat
    BY DEF TypeOK
  <1>2. Backing <= Backing' /\ Backing \in Nat /\ Backing' \in Nat
    BY <1>1 DEF Backing, Submitting
  <1>3. Len(frames) \in Nat /\ Len(frames') \in Nat
    BY LenProperties DEF TypeOK
  <1> QED
    BY <1>2, <1>3 DEF FramesBacked

\* No frame can be unbacked after these three kinds of step.
LEMMA BackedTrivially ==
  ASSUME LockInv, jobs' \in Nat, "refused" \in told' \/ frames' = <<>> \/ loop' \in Over
  PROVE  FramesBacked'
  <1>1. Backing' \in Nat
    <2>1. PICK n \in Nat : jobs' = n
      OBVIOUS
    <2>2. CASE Submitting' /\ op'[Writer] = "write"
      BY <2>1, <2>2 DEF Backing, Submitting
    <2>3. CASE Submitting' /\ op'[Writer] # "write"
      BY <2>1, <2>3 DEF Backing, Submitting
    <2>4. CASE ~Submitting'
      BY <2>1, <2>4 DEF Backing, Submitting
    <2> QED
      BY <2>2, <2>3, <2>4
  <1>2. Len(<<>>) = 0
    BY LenProperties, EmptySeq
  <1> QED
    BY <1>1, <1>2 DEF FramesBacked

LEMMA BackedStep == LockInv /\ Early /\ FramesBacked /\ [Next]_vars => FramesBacked'
  <1> SUFFICES ASSUME LockInv, Early, FramesBacked, Next PROVE FramesBacked'
    BY DEF FramesBacked, Backing
  <1> USE WebSocketAssumption
  <1>0. loop \in Over => loop' \in Over
    BY OverStays
  <1>p. /\ TypeOK /\ jobs \in Nat /\ frames \in Seq(Nat) /\ Len(frames) \in Nat
        /\ pc \in [Threads -> Holding \cup {"idle", "enter", "ping", "pingtag"}]
        /\ op \in [Threads -> {"none", "send", "close", "write", "net",
                               "message", "error", "destroy"}]
        /\ \A u \in Threads : pc[u] \in Holding => monitor = u
    BY LenProperties DEF LockInv, TypeOK
  <1>1. ASSUME NEW t \in Threads, InMonitor(t) PROVE FramesBacked'
    <2>1. CASE SendRefused(t) \/ (Submit(t) /\ ~Usable)
      <3>1. "refused" \in told' /\ jobs' = jobs
        BY <2>1 DEF SendRefused, Submit, Tell
      <3> QED
        BY <1>p, <3>1, BackedTrivially
    <2>2. CASE CloseAgain(t)
      <3>1. /\ pc[t] = "enter" /\ op[t] # "write"
            /\ pc' = [pc EXCEPT ![t] = "idle"] /\ op' = [op EXCEPT ![t] = "none"]
            /\ frames' = frames /\ jobs' = jobs /\ told' = told
        BY <2>2 DEF CloseAgain, Acquire, Leave, Goto
      <3>2. Submitting => Submitting'
        BY <1>p, <3>1 DEF Submitting
      <3>4. frames' \in Seq(Nat) /\ Len(frames') <= Len(frames)
        BY <1>p, <3>1
      <3> QED
        BY <1>0, <1>p, <3>1, <3>2, <3>4, BackedStays
    <2>3. CASE Submit(t) /\ Usable
      <3>1. /\ pc' = [pc EXCEPT ![t] = "execute"] /\ op' = op
            /\ frames' = frames /\ jobs' = jobs /\ told' = told
        BY <2>3 DEF Submit, Goto
      <3>2. Submitting'
        BY <1>p, <3>1 DEF Submitting
      <3>4. frames' \in Seq(Nat) /\ Len(frames') <= Len(frames)
        BY <1>p, <3>1
      <3> QED
        BY <1>0, <1>p, <3>1, <3>2, <3>4, BackedStays
    <2>4. CASE SendQueued(t) \/ CloseQueued(t)
      <3>1. /\ pc[t] = "enter" /\ monitor \in {None, t}
            /\ pc' = [pc EXCEPT ![t] = "submit"]
            /\ UNCHANGED <<op, loop, jobs, told>>
        BY <2>4 DEF SendQueued, CloseQueued, QueueClose, Acquire, Goto
      <3>2. PICK n \in Nat : frames' = Append(frames, n)
        BY <1>p, <2>4 DEF SendQueued, CloseQueued, QueueClose, LockInv, TypeOK
      <3>3. Len(frames') = Len(frames) + 1
        BY <1>p, <3>2, AppendElements
      <3>4. ~Submitting /\ Submitting'
        BY <1>p, <3>1 DEF Submitting
      <3>5. Backing' = Backing + 1
        BY <1>p, <3>1, <3>4 DEF Backing, Submitting
      <3>6. Backing \in Nat
        BY <1>p DEF Backing
      <3> QED
        BY <1>p, <3>1, <3>3, <3>5, <3>6 DEF FramesBacked
    <2>5. CASE Execute(t) /\ ~shutdown
      <3>1. /\ pc[t] = "execute" /\ op[t] # "write"
            /\ op' = [op EXCEPT ![t] = "none"]
            /\ UNCHANGED <<frames, told>> /\ jobs' = jobs + 1
        BY <1>p, <2>5 DEF Execute, Leave, LockInv, Roles, Places
      <3>2. /\ Backing \in Nat /\ Backing' \in Nat
            /\ Backing <= jobs + 1 + (IF op[Writer] = "write" THEN 1 ELSE 0)
        BY <1>p, <3>1 DEF Backing
      <3>3. jobs + 1 + (IF op[Writer] = "write" THEN 1 ELSE 0) <= Backing'
        BY <1>p, <3>1 DEF Backing
      <3> QED
        BY <1>0, <1>p, <3>1, <3>2, <3>3 DEF FramesBacked
    <2>6. CASE Execute(t) /\ shutdown
      <3>1. frames' = frames /\ jobs' = jobs
        BY <2>6 DEF Execute
      <3>2. frames = <<>> \/ loop \in Over
        BY <2>6 DEF Early
      <3> QED
        BY <1>0, <1>p, <3>1, <3>2, BackedTrivially
    <2> QED
      BY <1>1, <2>1, <2>2, <2>3, <2>4, <2>5, <2>6 DEF InMonitor
  <1>2. ASSUME frames' = frames, jobs' = jobs, told \subseteq told', UNCHANGED <<pc, op>>
        PROVE  FramesBacked'
    <2>1. Submitting => Submitting'
      BY <1>2 DEF Submitting
    <2>2. frames' \in Seq(Nat) /\ Len(frames') <= Len(frames)
      BY <1>p, <1>2
    <2> QED
      BY <1>0, <1>2, <1>p, <2>1, <2>2, BackedStays
  <1>3. ASSUME NEW t \in Threads, pc[t] \notin {"submit", "execute"},
               \A u \in Threads \ {t} : pc'[u] = pc[u],
               frames' = frames, jobs' = jobs, told \subseteq told',
               op[Writer] = "write" => op'[Writer] = "write"
        PROVE  FramesBacked'
    <2>1. Submitting => Submitting'
      BY <1>3 DEF Submitting
    <2>2. frames' \in Seq(Nat) /\ Len(frames') <= Len(frames)
      BY <1>p, <1>3
    <2> QED
      BY <1>0, <1>3, <1>p, <2>1, <2>2, BackedStays
  <1>4. ASSUME NEW a \in Apps, Call(a) PROVE FramesBacked'
    <2>1. /\ pc[a] = "idle" /\ pc' = [pc EXCEPT ![a] = "enter"] /\ frames' = frames
          /\ jobs' = jobs /\ told' = told
      BY <1>4 DEF Call, Goto
    <2>2. op'[Writer] = op[Writer]
      BY <1>4, <1>p DEF Call
    <2>3. pc[a] \notin {"submit", "execute"} /\ \A u \in Threads \ {a} : pc'[u] = pc[u]
      BY <1>p, <2>1
    <2> QED
      BY <1>3, <2>1, <2>2, <2>3
  <1>5. CASE WriterThread \/ PingStarts
    <2>1. CASE InMonitor(Writer)
      BY <1>1, <2>1
    <2>2. CASE TakeJob
      <3>1. /\ pc[Writer] = "idle" /\ op[Writer] = "none" /\ jobs > 0 /\ jobs' = jobs - 1
            /\ pc' = [pc EXCEPT ![Writer] = "enter"] /\ op' = [op EXCEPT ![Writer] = "write"]
            /\ UNCHANGED <<frames, told>>
        BY <1>p, <2>2 DEF TakeJob, Goto, LockInv, Roles
      <3>2. Submitting' = Submitting
        BY <1>p, <3>1 DEF Submitting
      <3>3. Backing' = Backing /\ Backing \in Nat
        BY <1>p, <3>1, <3>2 DEF Backing, Submitting
      <3> QED
        BY <1>0, <1>p, <3>1, <3>3 DEF FramesBacked
    <2>3. CASE StartWriting \/ PingStarts \/ PingSent \/ NetworkChanged
      <3>1. /\ pc[Writer] \in {"enter", "idle", "ping"}
            /\ \E w \in {"frames", "ping", "idle", "pingtag"} : pc' = [pc EXCEPT ![Writer] = w]
            /\ UNCHANGED <<op, frames, told>> /\ jobs' = jobs
        BY <2>3 DEF StartWriting, PingStarts, PingSent, NetworkChanged, Acquire, Goto
      <3>9. pc[Writer] \notin {"submit", "execute"} /\ \A u \in Threads \ {Writer} : pc'[u] = pc[u]
        BY <1>p, <3>1
      <3> QED
        BY <1>3, <3>1, <3>9
    <2>4. CASE NetworkCloses
      <3>1. /\ pc[Writer] = "pingtag" /\ op[Writer] = "none"
            /\ \E w \in {"idle", "enter"} : pc' = [pc EXCEPT ![Writer] = w]
            /\ UNCHANGED <<frames, told>> /\ jobs' = jobs
        BY <1>p, <2>4 DEF NetworkCloses, Goto, LockInv, Roles
      <3>9. pc[Writer] \notin {"submit", "execute"} /\ \A u \in Threads \ {Writer} : pc'[u] = pc[u]
        BY <1>p, <3>1
      <3> QED
        BY <1>3, <3>1, <3>9
    <2>5. CASE StopWriting \/ WriteClose
      <3>1. frames' = <<>> /\ jobs' \in Nat
        BY <1>p, <2>5 DEF StopWriting, WriteClose
      <3> QED
        BY <3>1, BackedTrivially
    <2>6. CASE WriteMessage /\ Usable /\ Leave(Writer)
      <3>1. /\ pc[Writer] = "frames" /\ frames # <<>> /\ frames' = Tail(frames)
            /\ pc' = [pc EXCEPT ![Writer] = "idle"] /\ op' = [op EXCEPT ![Writer] = "none"]
            /\ loop' = loop /\ jobs' = jobs /\ told' = told
        BY <1>p, <2>6 DEF WriteMessage, Leave, Goto
      <3>2. op[Writer] = "write" /\ \A u \in Threads \ {Writer} : pc[u] \notin Holding
        BY <1>p, <3>1 DEF LockInv, Places
      <3>3. ~Submitting /\ ~Submitting'
        BY <1>p, <3>1, <3>2 DEF Submitting
      <3>4. Len(frames') = Len(frames) - 1
        BY <1>p, <3>1, TailElements
      <3>5. Backing = jobs + 1
        BY <1>p, <3>2, <3>3 DEF Backing, Submitting
      <3>6. Backing' = jobs
        BY <1>p, <3>1, <3>3 DEF Backing, Submitting
      <3> QED
        BY <1>p, <3>1, <3>4, <3>5, <3>6 DEF FramesBacked
    <2>7. CASE WriteMessage /\ Usable /\ UNCHANGED frames
      <3>1. /\ pc[Writer] = "frames" /\ pc' = [pc EXCEPT ![Writer] = "send"]
            /\ frames' = frames /\ jobs' = jobs /\ UNCHANGED <<op, told>>
        <4>1. frames # <<>> /\ Tail(frames) # frames
          BY <1>p, <2>7, TailElements DEF WriteMessage
        <4> QED
          BY <2>7, <4>1 DEF WriteMessage, Goto
      <3>9. pc[Writer] \notin {"submit", "execute"} /\ \A u \in Threads \ {Writer} : pc'[u] = pc[u]
        BY <1>p, <3>1
      <3> QED
        BY <1>3, <3>1, <3>9
    <2>8. CASE (WriteMessage /\ ~Usable) \/ SendByte \/ SendByteChecked
      <3>1. /\ pc[Writer] \in {"frames", "send", "mutex"} /\ frames # <<>>
            /\ op' = op /\ jobs' = jobs
        BY <2>8 DEF WriteMessage, SendByte, SendByteChecked, LockInv, Places
      <3>2. frames' = frames \/ frames' = Tail(frames)
        BY <2>8 DEF WriteMessage, SendByte, SendByteChecked
      <3>3. frames' \in Seq(Nat) /\ Len(frames') <= Len(frames)
        <4>1. Tail(frames) \in Seq(Nat) /\ Len(Tail(frames)) = Len(frames) - 1
          BY <1>p, <3>1, TailElements
        <4> QED
          BY <1>p, <3>2, <4>1
      <3>4. pc' = pc \/ \E w \in {"frames", "mutex"} : pc' = [pc EXCEPT ![Writer] = w]
        BY <2>8 DEF WriteMessage, SendByte, SendByteChecked, Goto
      <3>5. Submitting => Submitting'
        BY <1>p, <3>1, <3>4 DEF Submitting
      <3>6. told \subseteq told'
        BY <2>8 DEF WriteMessage, SendByte, SendByteChecked, Tell
      <3> QED
        BY <1>0, <1>p, <3>1, <3>3, <3>5, <3>6, BackedStays
    <2> QED
      BY <1>5, <2>1, <2>2, <2>3, <2>4, <2>5, <2>6, <2>7, <2>8 DEF WriterThread, WriteMessage
  <1>6. CASE LoopThread \/ Event \/ CloseNotify
    <2>1. CASE InMonitor(Loop)
      BY <1>1, <2>1
    <2>2. CASE Deliver \/ ErrorAgain \/ ErrorFirst \/ Event
      <3>1. /\ pc[Loop] \in {"enter", "idle"}
            /\ \E w \in {"enter", "tag", "idle"} : pc' = [pc EXCEPT ![Loop] = w]
            /\ UNCHANGED <<frames, told>> /\ jobs' = jobs
        BY <2>2 DEF Deliver, ErrorAgain, ErrorFirst, Event, Upcall, Acquire,
                    Leave, Goto
      <3>2. op'[Writer] = op[Writer]
        BY <1>p, <2>2 DEF Deliver, ErrorAgain, ErrorFirst, Event, Upcall, Leave
      <3>9. pc[Loop] \notin {"submit", "execute"} /\ \A u \in Threads \ {Loop} : pc'[u] = pc[u]
        BY <1>p, <3>1
      <3> QED
        BY <1>3, <3>1, <3>2, <3>9
    <2>3. CASE Native
      <3>1. CASE UNCHANGED <<pc, op>>
        BY <1>2, <2>3, <3>1, NativeStep
      <3>2. CASE pc[Loop] = "idle" /\ (Upcall("error") \/ Upcall("destroy"))
        <4>1. op'[Writer] = op[Writer]
          BY <1>p, <3>2 DEF Upcall
        <4>2. pc[Loop] = "idle" /\ \A u \in Threads \ {Loop} : pc'[u] = pc[u]
          BY <1>p, <3>2 DEF Upcall, Goto
        <4>3. frames' = frames /\ jobs' = jobs /\ told' = told
          BY <2>3, NativeStep
        <4> QED
          BY <1>3, <4>1, <4>2, <4>3
      <3> QED
        BY <2>3, <3>1, <3>2, NativeStep
    <2>4. CASE DnsFails \/ Connect \/ ForgetContext \/ ReportEnd
      <3>1. frames' = frames /\ jobs' = jobs /\ UNCHANGED <<pc, op>>
        BY <2>4 DEF DnsFails, Connect, ForgetContext, ReportEnd
      <3>2. told \subseteq told'
        BY <2>4 DEF DnsFails, Connect, ForgetContext, ReportEnd, Tell
      <3> QED
        BY <1>2, <3>1, <3>2
    <2>5. CASE ShutDown
      <3>1. loop' \in Over /\ jobs' \in Nat
        BY <2>5 DEF ShutDown
      <3> QED
        BY <3>1, BackedTrivially
    <2>6. CASE ErrorCloses /\ (isCallback \/ enqueuedClose)
      <3>1. /\ pc[Loop] = "tag" /\ pc' = [pc EXCEPT ![Loop] = "idle"]
            /\ frames' = frames /\ jobs' = jobs /\ told' = told
        BY <2>6 DEF ErrorCloses, Leave, Goto
      <3>2. op'[Writer] = op[Writer]
        BY <1>p, <2>6 DEF ErrorCloses, Leave
      <3>9. pc[Loop] \notin {"submit", "execute"} /\ \A u \in Threads \ {Loop} : pc'[u] = pc[u]
        BY <1>p, <3>1
      <3> QED
        BY <1>3, <3>1, <3>2, <3>9
    <2>7. CASE ErrorCloses /\ ~(isCallback \/ enqueuedClose)
      <3>1. /\ pc[Loop] = "tag" /\ pc' = [pc EXCEPT ![Loop] = "submit"]
            /\ UNCHANGED <<op, loop, jobs, told>> /\ frames' = Append(frames, 0)
        BY <2>7 DEF ErrorCloses, QueueClose, Goto
      <3>2. Len(frames') = Len(frames) + 1
        BY <1>p, <3>1, AppendElements
      <3>3. ~Submitting /\ Submitting'
        BY <1>p, <3>1 DEF Submitting
      <3>4. Backing' = Backing + 1 /\ Backing \in Nat
        BY <1>p, <3>1, <3>3 DEF Backing, Submitting
      <3> QED
        BY <1>p, <3>1, <3>2, <3>4 DEF FramesBacked
    <2> QED
      BY <1>6, <2>1, <2>2, <2>3, <2>4, <2>5, <2>6, <2>7 DEF LoopThread, Native
  <1> QED
    BY <1>1, <1>4, <1>5, <1>6 DEF Next

LEMMA LossStays ==
  ASSUME LossExplained, loop \in Over => loop' \in Over, told \subseteq told',
         enqueuedClose => enqueuedClose', oversize => oversize',
         1..accepted' \subseteq (1..accepted) \cup Elements(frames') \cup Elements(handed'),
         Elements(frames) \subseteq Elements(frames') \cup Elements(handed'),
         Elements(handed) \subseteq Elements(handed')
  PROVE  LossExplained'
  <1>1. Lost' = (1..accepted') \ (Elements(frames') \cup Elements(handed'))
    BY DEF Lost, Elements
  <1>2. Lost = (1..accepted) \ (Elements(frames) \cup Elements(handed))
    BY DEF Lost, Elements
  <1>3. Lost' \subseteq Lost
    BY <1>1, <1>2
  <1> QED
    BY <1>3 DEF LossExplained

LEMMA ExplainedStep == LockInv /\ Early /\ LossExplained /\ [Next]_vars => LossExplained'
  <1> SUFFICES ASSUME LockInv, Early, LossExplained, Next PROVE LossExplained'
    BY DEF LossExplained, Lost
  <1> USE WebSocketAssumption
  <1>0. loop \in Over => loop' \in Over
    BY OverStays
  <1>p. /\ frames \in Seq(Nat) /\ handed \in Seq(Nat) /\ accepted \in Nat
        /\ enqueuedClose \in BOOLEAN /\ oversize \in BOOLEAN
    BY DEF LockInv, TypeOK
  <1>a. ASSUME UNCHANGED <<frames, handed, accepted, enqueuedClose, oversize>>,
               told \subseteq told'
        PROVE  LossExplained'
    BY <1>0, <1>a, LossStays
  <1>b. ASSUME frames' = Append(frames, 0),
               UNCHANGED <<handed, accepted, enqueuedClose, oversize, told>>
        PROVE  LossExplained'
    <2>1. Elements(frames') = Elements(frames) \cup {0}
      BY <1>b, <1>p, AppendElements
    <2> QED
      BY <1>0, <1>b, <2>1, LossStays
  <1>1. ASSUME NEW t \in Threads, InMonitor(t) PROVE LossExplained'
    <2>1. CASE SendRefused(t) \/ CloseAgain(t) \/ Submit(t) \/ Execute(t)
      BY <1>a, <2>1 DEF SendRefused, CloseAgain, Submit, Execute, Tell
    <2>2. CASE SendQueued(t)
      <3>1. /\ frames' = Append(frames, accepted + 1) /\ accepted' = accepted + 1
            /\ UNCHANGED <<handed, enqueuedClose, oversize, told>>
        BY <2>2 DEF SendQueued
      <3>2. Elements(frames') = Elements(frames) \cup {accepted + 1}
        BY <1>p, <3>1, AppendElements
      <3>3. 1..accepted' \subseteq (1..accepted) \cup {accepted + 1}
        BY <1>p, <3>1
      <3> QED
        BY <1>0, <3>1, <3>2, <3>3, LossStays
    <2>3. CASE CloseQueued(t)
      BY <1>b, <2>3 DEF CloseQueued, QueueClose
    <2> QED
      BY <1>1, <2>1, <2>2, <2>3 DEF InMonitor
  <1>2. ASSUME NEW a \in Apps, Call(a) PROVE LossExplained'
    BY <1>a, <1>2 DEF Call
  <1>3. CASE WriterThread \/ PingStarts
    <2>1. CASE TakeJob \/ StartWriting \/ StopWriting \/ PingSent \/ NetworkChanged
               \/ NetworkCloses \/ PingStarts
      BY <1>a, <2>1 DEF TakeJob, StartWriting, StopWriting, PingSent, NetworkChanged,
           NetworkCloses, PingStarts
    <2>2. CASE WriteMessage /\ ~Usable
      <3>1. loop' = loop /\ enqueuedClose' = enqueuedClose /\ accepted' = accepted
        BY <2>2 DEF WriteMessage
      <3>2. enqueuedClose \/ loop \in Over \/ accepted = 0
        BY <2>2 DEF Early, Usable
      <3>3. accepted = 0 => Lost' = {}
        BY <3>1 DEF Lost
      <3> QED
        BY <3>1, <3>2, <3>3 DEF LossExplained
    <2>3. CASE WriteMessage /\ Usable
      <3>1. CASE oversize'
        BY <3>1 DEF LossExplained
      <3>2. CASE ~oversize'
        BY <1>a, <1>p, <2>3, <3>2 DEF WriteMessage
      <3> QED
        BY <3>1, <3>2
    <2>4. CASE SendByteChecked
      <3>1. CASE active
        BY <1>a, <2>4, <3>1 DEF SendByteChecked
      <3>2. CASE ~active
        BY <2>4, <3>2 DEF SendByteChecked, Tell, LossExplained
      <3> QED
        BY <3>1, <3>2
    <2>5. CASE SendByte
      <3>1. /\ frames # <<>> /\ frames' = Tail(frames)
            /\ handed' = Append(handed, Head(frames))
            /\ UNCHANGED <<accepted, enqueuedClose, oversize, told>>
        BY <2>5 DEF SendByte, LockInv, Places
      <3>2. /\ Head(frames) \in Nat
            /\ Elements(frames) = {Head(frames)} \cup Elements(frames')
        BY <1>p, <3>1, TailElements
      <3>3. Elements(handed') = Elements(handed) \cup {Head(frames)}
        BY <1>p, <3>1, <3>2, AppendElements
      <3> QED
        BY <1>0, <3>1, <3>2, <3>3, LossStays
    <2>6. CASE WriteClose
      BY <2>6 DEF WriteClose, LossExplained
    <2> QED
      BY <1>1, <1>3, <2>1, <2>2, <2>3, <2>4, <2>5, <2>6 DEF WriterThread
  <1>4. CASE LoopThread \/ Event \/ CloseNotify
    <2>1. CASE Deliver \/ ErrorAgain \/ ErrorFirst \/ Event
      BY <1>a, <2>1 DEF Deliver, ErrorAgain, ErrorFirst, Event
    <2>4. CASE Native
      BY <1>a, <2>4, NativeStep
    <2>2. CASE ErrorCloses
      BY <1>a, <1>b, <2>2 DEF ErrorCloses, QueueClose
    <2>3. CASE DnsFails \/ Connect \/ ForgetContext \/ ShutDown \/ ReportEnd
      BY <1>a, <2>3 DEF DnsFails, Connect, ForgetContext, ShutDown, ReportEnd, Tell
    <2> QED
      BY <1>1, <1>4, <2>1, <2>2, <2>3, <2>4 DEF LoopThread, Native
  <1> QED
    BY <1>1, <1>2, <1>3, <1>4 DEF Next

\* Nothing send accepted waits for ever or disappears unnoticed: while the
\* connection lives every frame has a writer to come, and what is missing was
\* closed away, reported or too long, for any number of threads and calls.
THEOREM NoSendIsForgotten == Spec => []SendsAccounted
  <1>1. Init => Early /\ FramesBacked /\ LossExplained
    <2> SUFFICES ASSUME Init PROVE Early /\ FramesBacked /\ LossExplained
      OBVIOUS
    <2>1. LockInv /\ jobs \in Nat /\ frames = <<>> /\ Len(frames) = 0
      BY LockInit, EmptySeq DEF LockInv, TypeOK, Init
    <2>2. Backing \in Nat
      BY <2>1 DEF Backing
    <2>3. FramesBacked
      BY <2>1, <2>2 DEF FramesBacked
    <2>4. Early /\ LossExplained
      BY DEF Init, Early, LossExplained, Lost
    <2> QED
      BY <2>3, <2>4
  <1>2. FramesBacked /\ LossExplained => SendsAccounted
    BY DEF SendsAccounted
  <1> QED
    BY <1>1, <1>2, LockInit, LockStep, EarlyStep, BackedStep, ExplainedStep, PTL DEF Spec

(***************************************************************************)
(* Refinement: what send accepts goes through a lossy FIFO.  First, induc- *)
(* tion over the natural numbers, with a set for the predicate.            *)
(***************************************************************************)

\* The order of the natural numbers, as the library has induction for it.
LEMMA LessIsWellFounded ==
  \E R : IsWellFoundedOn(R, Nat) /\ \A x, y \in Nat : y < x => <<y, x>> \in R
  <1>1. \A x, y \in Nat : y < x => <<y, x>> \in OpToRel(<, Nat)
    BY DEF OpToRel
  <1> QED
    BY <1>1, NatLessThanWellFounded, Zenon

\* A set of natural numbers has a least element.
LEMMA LeastElement ==
  ASSUME NEW T, T \subseteq Nat, T # {}
  PROVE  \E x \in T : \A y \in T : x <= y
  <1>1. PICK R : IsWellFoundedOn(R, Nat) /\ \A x, y \in Nat : y < x => <<y, x>> \in R
    BY LessIsWellFounded
  <1>2. PICK x \in T : \A y \in T : ~(<<y, x>> \in R)
    BY <1>1, WFMin, Zenon
  <1>3. \A y \in T : ~(y < x)
    BY <1>1, <1>2
  <1> QED
    BY <1>3

\* A set with 0 and with the successor of each of its numbers has them all.
LEMMA SetInduction ==
  ASSUME NEW T, 0 \in T, \A n \in Nat : n \in T => n + 1 \in T
  PROVE  \A n \in Nat : n \in T
  <1> SUFFICES ASSUME Nat \ T # {} PROVE FALSE
    OBVIOUS
  <1>1. PICK x \in Nat \ T : \A y \in Nat \ T : x <= y
    BY LeastElement
  <1>2. x # 0 /\ x - 1 \in Nat
    BY <1>1
  <1>3. x - 1 \in T
    BY <1>1, <1>2
  <1> QED
    BY <1>1, <1>2, <1>3, x - 1 + 1 = x

\* The recursive function of MessagesOf: what it has after frame i, and up to frame n.
AfterFrame(q, f, i) ==
  IF i = 0 THEN <<>> ELSE IF q[i] # 0 THEN Append(f[i - 1], q[i]) ELSE f[i - 1]
UpTo(q, f, n) == f = [i \in 0..n |-> AfterFrame(q, f, i)]

\* The function exists: it is extended frame by frame.
LEMMA UpToExists ==
  ASSUME NEW q
  PROVE  \A n \in Nat : \E f : UpTo(q, f, n)
  <1> DEFINE T == {n \in Nat : \E f : UpTo(q, f, n)}
  <1>1. 0 \in T
    <2> DEFINE f == [i \in 0..0 |-> <<>>]
    <2>1. UpTo(q, f, 0)
      BY DEF UpTo, AfterFrame
    <2> QED
      BY <2>1
  <1>2. ASSUME NEW n \in Nat, n \in T PROVE n + 1 \in T
    <2>1. PICK f : UpTo(q, f, n)
      BY <1>2
    <2> DEFINE g == [i \in 0..(n + 1) |-> IF i <= n THEN f[i] ELSE AfterFrame(q, f, n + 1)]
    <2>2. DOMAIN f = 0..n /\ \A i \in 0..n : f[i] = AfterFrame(q, f, i) /\ g[i] = f[i]
      BY <2>1 DEF UpTo
    <2>3. ASSUME NEW i \in 0..(n + 1) PROVE g[i] = AfterFrame(q, g, i)
      <3>1. i # 0 => i - 1 \in 0..n /\ g[i - 1] = f[i - 1]
        BY <2>2
      <3>2. AfterFrame(q, g, i) = AfterFrame(q, f, i)
        BY <3>1 DEF AfterFrame
      <3>3. i \in 0..n \/ i = n + 1
        OBVIOUS
      <3> QED
        BY <2>2, <3>2, <3>3
    <2>4. UpTo(q, g, n + 1)
      <3>1. g = [i \in 0..(n + 1) |-> g[i]]
        OBVIOUS
      <3> HIDE DEF g
      <3> QED
        BY <2>3, <3>1 DEF UpTo
    <2> QED
      BY <2>4
  <1> HIDE DEF T
  <1>3. \A n \in Nat : n \in T
    BY <1>1, <1>2, SetInduction
  <1> QED
    BY <1>3 DEF T

\* MessagesOf is what the function has in the end.
LEMMA MessagesAreUpTo ==
  ASSUME NEW q, Len(q) \in Nat
  PROVE  \E f : UpTo(q, f, Len(q)) /\ MessagesOf(q) = f[Len(q)]
  <1> DEFINE f == CHOOSE g : UpTo(q, g, Len(q))
  <1>1. UpTo(q, f, Len(q))
    BY UpToExists, Zenon
  <1>2. MessagesOf(q) = f[Len(q)]
    BY DEF MessagesOf, UpTo, AfterFrame
  <1> QED
    BY <1>1, <1>2

\* The function, place by place.
LEMMA UpToFacts ==
  ASSUME NEW q \in Seq(Nat), NEW f, UpTo(q, f, Len(q))
  PROVE  /\ f[0] = <<>>
         /\ \A i \in 0..(Len(q) - 1) :
              f[i + 1] = IF q[i + 1] # 0 THEN Append(f[i], q[i + 1]) ELSE f[i]
         /\ \A i \in 0..Len(q) : f[i] \in Seq(Nat)
  <1> PICK l \in Nat : l = Len(q) /\ DOMAIN q = 1..l
    OBVIOUS
  <1>1. \A i \in 0..l : f[i] = AfterFrame(q, f, i)
    BY DEF UpTo
  <1>2. f[0] = <<>>
    BY <1>1 DEF AfterFrame
  <1>3. ASSUME NEW i \in 0..(l - 1)
        PROVE  f[i + 1] = IF q[i + 1] # 0 THEN Append(f[i], q[i + 1]) ELSE f[i]
    <2>1. i + 1 \in 0..l /\ i + 1 # 0 /\ i + 1 - 1 = i
      OBVIOUS
    <2> QED
      BY <1>1, <2>1 DEF AfterFrame
  <1> DEFINE T == {n \in Nat : n <= l => f[n] \in Seq(Nat)}
  <1>4. 0 \in T
    <2>1. <<>> \in Seq(Nat)
      OBVIOUS
    <2> QED
      BY <1>2, <2>1
  <1>5. ASSUME NEW n \in Nat, n \in T PROVE n + 1 \in T
    <2> SUFFICES ASSUME n + 1 <= l PROVE f[n + 1] \in Seq(Nat)
      OBVIOUS
    <2>1. n \in 0..(l - 1) /\ n <= l /\ n + 1 \in 1..l
      OBVIOUS
    <2>2. PICK s \in Seq(Nat) : s = f[n]
      BY <1>5, <2>1
    <2>3. PICK x \in Nat : x = q[n + 1]
      BY <2>1
    <2>4. Append(s, x) \in Seq(Nat)
      OBVIOUS
    <2>5. f[n + 1] = IF x # 0 THEN Append(s, x) ELSE s
      BY <1>3, <2>1, <2>2, <2>3
    <2> QED
      BY <2>4, <2>5
  <1> HIDE DEF T
  <1>6. \A n \in Nat : n \in T
    BY <1>4, <1>5, SetInduction
  <1> QED
    BY <1>2, <1>3, <1>6 DEF T

\* The messages of no frames, and of any frames.
LEMMA MessagesType ==
  ASSUME NEW q \in Seq(Nat)
  PROVE  MessagesOf(q) \in Seq(Nat) /\ (q = <<>> => MessagesOf(q) = <<>>)
  <1>1. Len(q) \in Nat /\ Len(q) \in 0..Len(q) /\ (q = <<>> => Len(q) = 0)
    OBVIOUS
  <1>2. PICK f : UpTo(q, f, Len(q)) /\ MessagesOf(q) = f[Len(q)]
    BY <1>1, MessagesAreUpTo
  <1> QED
    BY <1>1, <1>2, UpToFacts

\* One more frame is one more message, unless it closes.
LEMMA MessagesAppend ==
  ASSUME NEW q \in Seq(Nat), NEW n \in Nat
  PROVE  MessagesOf(Append(q, n)) =
           IF n # 0 THEN Append(MessagesOf(q), n) ELSE MessagesOf(q)
  <1>1. PICK l \in Nat : l = Len(q) /\ DOMAIN q = 1..l
    OBVIOUS
  <1>2. PICK r \in Seq(Nat) : r = Append(q, n)
    <2>1. Append(q, n) \in Seq(Nat)
      OBVIOUS
    <2> QED
      BY <2>1
  <1>3. Len(r) = l + 1 /\ r[l + 1] = n /\ \A i \in 1..l : r[i] = q[i]
    BY <1>1, <1>2
  <1>4. PICK f : UpTo(q, f, l) /\ MessagesOf(q) = f[l]
    BY <1>1, MessagesAreUpTo
  <1>5. PICK g : UpTo(r, g, l + 1) /\ MessagesOf(r) = g[l + 1]
    BY <1>1, <1>3, MessagesAreUpTo
  <1>11. /\ g[0] = <<>>
         /\ \A i \in 0..((l + 1) - 1) :
              g[i + 1] = IF r[i + 1] # 0 THEN Append(g[i], r[i + 1]) ELSE g[i]
    <2>1. UpTo(r, g, Len(r)) /\ Len(r) = l + 1
      BY <1>3, <1>5
    <2>2. \A i \in 0..(Len(r) - 1) :
            g[i + 1] = IF r[i + 1] # 0 THEN Append(g[i], r[i + 1]) ELSE g[i]
      BY <2>1, UpToFacts
    <2>3. g[0] = <<>>
      BY <2>1, UpToFacts
    <2> QED
      BY <2>1, <2>2, <2>3
  <1> DEFINE T == {i \in Nat : i <= l => g[i] = f[i]}
  <1>6. 0 \in T
    BY <1>1, <1>4, <1>11, UpToFacts
  <1>7. ASSUME NEW i \in Nat, i \in T PROVE i + 1 \in T
    <2> SUFFICES ASSUME i + 1 <= l PROVE g[i + 1] = f[i + 1]
      OBVIOUS
    <2>1. /\ i \in 0..(l - 1) /\ i \in 0..((l + 1) - 1) /\ g[i] = f[i]
          /\ r[i + 1] = q[i + 1]
      BY <1>3, <1>7
    <2>2. f[i + 1] = IF q[i + 1] # 0 THEN Append(f[i], q[i + 1]) ELSE f[i]
      BY <1>1, <1>4, <2>1, UpToFacts
    <2>3. g[i + 1] = IF r[i + 1] # 0 THEN Append(g[i], r[i + 1]) ELSE g[i]
      BY <1>11, <2>1
    <2> QED
      BY <2>1, <2>2, <2>3
  <1> HIDE DEF T
  <1>8. \A i \in Nat : i \in T
    BY <1>6, <1>7, SetInduction
  <1>9. g[l] = f[l]
    BY <1>8 DEF T
  <1>10. g[l + 1] = IF r[l + 1] # 0 THEN Append(g[l], r[l + 1]) ELSE g[l]
    <2>1. l \in 0..((l + 1) - 1)
      OBVIOUS
    <2> QED
      BY <1>11, <2>1
  <1> QED
    BY <1>2, <1>3, <1>4, <1>5, <1>9, <1>10

\* Without its first frame the queue has one message less, or the same ones.
LEMMA MessagesTail ==
  ASSUME NEW q \in Seq(Nat), q # <<>>
  PROVE  IF Head(q) = 0 THEN MessagesOf(Tail(q)) = MessagesOf(q)
         ELSE /\ MessagesOf(q) # <<>> /\ Head(MessagesOf(q)) = Head(q)
              /\ Tail(MessagesOf(q)) = MessagesOf(Tail(q))
  <1>1. PICK l \in Nat : l + 1 = Len(q)
    <2>1. Len(q) \in Nat /\ Len(q) # 0
      OBVIOUS
    <2>2. Len(q) - 1 \in Nat /\ (Len(q) - 1) + 1 = Len(q)
      BY <2>1
    <2> QED
      BY <2>2
  <1>2. PICK r \in Seq(Nat) : r = Tail(q)
    <2>1. Tail(q) \in Seq(Nat)
      OBVIOUS
    <2> QED
      BY <2>1
  <1>3. Len(r) = l /\ \A i \in 1..l : r[i] = q[i + 1] /\ r[i] \in Nat
    BY <1>1, <1>2
  <1>4. q[1] = Head(q) /\ q[1] \in Nat
    BY <1>1
  <1>5. PICK f : UpTo(q, f, l + 1) /\ MessagesOf(q) = f[l + 1]
    BY <1>1, MessagesAreUpTo
  <1>6. PICK g : UpTo(r, g, l) /\ MessagesOf(r) = g[l]
    BY <1>3, MessagesAreUpTo
  <1>7. /\ f[0] = <<>>
        /\ \A i \in 0..l : f[i + 1] = IF q[i + 1] # 0 THEN Append(f[i], q[i + 1]) ELSE f[i]
        /\ \A i \in 0..(l + 1) : f[i] \in Seq(Nat)
    <2>1. UpTo(q, f, Len(q)) /\ Len(q) = l + 1 /\ (l + 1) - 1 = l
      BY <1>1, <1>5
    <2>2. \A i \in 0..(Len(q) - 1) :
            f[i + 1] = IF q[i + 1] # 0 THEN Append(f[i], q[i + 1]) ELSE f[i]
      BY <2>1, UpToFacts
    <2>3. f[0] = <<>> /\ \A i \in 0..Len(q) : f[i] \in Seq(Nat)
      BY <2>1, UpToFacts
    <2> QED
      BY <2>1, <2>2, <2>3
  <1>8. /\ g[0] = <<>>
        /\ \A i \in 0..(l - 1) : g[i + 1] = IF r[i + 1] # 0 THEN Append(g[i], r[i + 1]) ELSE g[i]
        /\ \A i \in 0..l : g[i] \in Seq(Nat)
    BY <1>3, <1>6, UpToFacts
  <1> DEFINE Agree(i) == IF q[1] = 0 THEN f[i + 1] = g[i]
                         ELSE /\ f[i + 1] # <<>> /\ Head(f[i + 1]) = q[1]
                              /\ Tail(f[i + 1]) = g[i]
             T == {i \in Nat : i <= l => Agree(i)}
  <1>9. 0 \in T
    <2>1. f[0 + 1] = IF q[1] # 0 THEN Append(f[0], q[1]) ELSE f[0]
      <3>1. 0 \in 0..l /\ 0 + 1 = 1
        OBVIOUS
      <3> QED
        BY <1>7, <3>1
    <2>2. CASE q[1] = 0
      BY <1>7, <1>8, <2>1, <2>2
    <2>3. CASE q[1] # 0
      <3>1. f[0 + 1] = Append(<<>>, q[1])
        BY <1>7, <2>1, <2>3
      <3>2. PICK x \in Nat : x = q[1]
        BY <1>4
      <3>3. Append(<<>>, x) # <<>> /\ Head(Append(<<>>, x)) = x /\ Tail(Append(<<>>, x)) = <<>>
        OBVIOUS
      <3> QED
        BY <1>8, <2>3, <3>1, <3>2, <3>3
    <2> QED
      BY <2>2, <2>3
  <1>10. ASSUME NEW i \in Nat, i \in T PROVE i + 1 \in T
    <2> SUFFICES ASSUME i + 1 <= l PROVE Agree(i + 1)
      OBVIOUS
    <2>1. /\ i + 1 \in 0..l /\ i \in 0..(l - 1) /\ i + 1 \in 1..l /\ i \in 0..l
          /\ i + 1 \in 0..(l + 1) /\ i <= l
      OBVIOUS
    <2>2. PICK x \in Nat : x = q[(i + 1) + 1] /\ x = r[i + 1]
      BY <1>3, <2>1
    <2>3. f[(i + 1) + 1] = IF x # 0 THEN Append(f[i + 1], x) ELSE f[i + 1]
      BY <1>7, <2>1, <2>2
    <2>4. g[i + 1] = IF x # 0 THEN Append(g[i], x) ELSE g[i]
      BY <1>8, <2>1, <2>2
    <2>5. f[i + 1] \in Seq(Nat)
      BY <1>7, <2>1
    <2>6. Agree(i)
      BY <1>10, <2>1
    <2>7. CASE q[1] = 0
      BY <2>3, <2>4, <2>6, <2>7
    <2>8. CASE q[1] # 0
      <3>1. f[i + 1] # <<>> /\ Head(f[i + 1]) = q[1] /\ Tail(f[i + 1]) = g[i]
        BY <2>6, <2>8
      <3>2. /\ Append(f[i + 1], x) # <<>> /\ Head(Append(f[i + 1], x)) = q[1]
            /\ Tail(Append(f[i + 1], x)) = Append(g[i], x)
        <4>1. PICK s \in Seq(Nat) : s = f[i + 1]
          BY <2>5
        <4>2. Append(s, x) # <<>> /\ s # <<>>
          BY <3>1, <4>1, AppendProperties
        <4>3. Head(Append(s, x)) = Head(s)
          BY <4>2, HeadTailAppend
        <4>4. Tail(Append(s, x)) = Append(Tail(s), x)
          BY <4>2, HeadTailAppend
        <4> QED
          BY <3>1, <4>1, <4>2, <4>3, <4>4
      <3> QED
        BY <2>3, <2>4, <2>8, <3>1, <3>2
    <2> QED
      BY <2>7, <2>8
  <1> HIDE DEF T
  <1>11. \A i \in Nat : i \in T
    BY <1>9, <1>10, SetInduction
  <1>12. Agree(l)
    BY <1>11 DEF T
  <1> QED
    BY <1>2, <1>4, <1>5, <1>6, <1>12

\* The writer is at a message, not at a close frame, when it hands one over.
AtMessage == pc[Writer] \in {"send", "mutex"} => frames # <<>> /\ Head(frames) # 0

\* The first message is handed over, or dropped.
LEMMA TakeOne ==
  ASSUME NEW w \in Seq(Nat), NEW h \in Seq(Nat), w # <<>>,
         NEW hp, hp \in {h, Append(h, Head(w))}
  PROVE  \E n \in 0..Len(w) : \E k \in 0..n :
           hp = h \o SubSeq(w, 1, k) /\ Tail(w) = SubSeq(w, n + 1, Len(w))
  <1>1. Len(w) \in Nat /\ Len(w) >= 1 /\ 1 \in 0..Len(w)
    OBVIOUS
  <1>2. Tail(w) = SubSeq(w, 1 + 1, Len(w))
    BY <1>1
  <1>3. CASE hp = h
    <2>1. SubSeq(w, 1, 0) = <<>> /\ h \o <<>> = h
      BY SubSeqEmpty, ConcatEmptySeq
    <2>2. 1 \in 0..Len(w) /\ 0 \in 0..1 /\ hp = h \o SubSeq(w, 1, 0)
      BY <1>1, <1>3, <2>1
    <2> QED
      BY <1>2, <2>2
  <1>4. CASE hp = Append(h, Head(w))
    <2>1. PICK x \in Nat : x = Head(w) /\ x = w[1]
      BY <1>1
    <2>2. SubSeq(w, 1, 1) = <<x>>
      <3>1. 1 \in 1..Len(w) /\ 1 \in 1..1 /\ 1..Len(w) = DOMAIN w
        BY <1>1
      <3>2. SubSeq(w, 1, 1) = <<w[1]>> \o SubSeq(w, 1 + 1, 1)
        BY <1>1, <3>1, SubSeqRecursiveFirst
      <3>3. SubSeq(w, 1 + 1, 1) = <<>>
        BY SubSeqEmpty
      <3>4. <<x>> \in Seq(Nat)
        OBVIOUS
      <3> QED
        BY <2>1, <3>2, <3>3, <3>4, ConcatEmptySeq
    <2>3. h \o <<x>> = Append(h, x)
      BY AppendIsConcat
    <2>4. 1 \in 0..Len(w) /\ 1 \in 0..1 /\ hp = h \o SubSeq(w, 1, 1)
      BY <1>1, <1>4, <2>1, <2>2, <2>3
    <2> QED
      BY <1>2, <2>4
  <1> QED
    BY <1>3, <1>4

\* No step of another thread changes the message the writer is at.
LEMMA AtMessageStep == LockInv /\ AtMessage /\ [Next]_vars => AtMessage'
  <1> SUFFICES ASSUME LockInv, AtMessage, [Next]_vars PROVE AtMessage'
    OBVIOUS
  <1> USE WebSocketAssumption
  <1>p. frames \in Seq(Nat) /\ pc \in [Threads -> Holding \cup {"idle", "enter", "ping", "pingtag"}]
    BY DEF LockInv, TypeOK
  <1>a. ASSUME UNCHANGED frames, pc'[Writer] = pc[Writer] \/ pc'[Writer] \notin {"send", "mutex"}
        PROVE  AtMessage'
    BY <1>a DEF AtMessage
  <1>b. ASSUME NEW n \in Nat, frames' = Append(frames, n),
               pc'[Writer] = pc[Writer] \/ pc'[Writer] \notin {"send", "mutex"}
        PROVE  AtMessage'
    <2>1. frames # <<>> => Head(frames') = Head(frames)
      BY <1>b, <1>p, HeadTailAppend
    <2>2. frames' # <<>>
      BY <1>b, <1>p, AppendProperties
    <2> QED
      BY <1>b, <2>1, <2>2 DEF AtMessage
  <1>c. ASSUME pc'[Writer] \notin {"send", "mutex"} PROVE AtMessage'
    BY <1>c DEF AtMessage
  <1>1. ASSUME NEW t \in Threads, InMonitor(t) PROVE AtMessage'
    <2>0. t # Writer => pc'[Writer] = pc[Writer]
      BY <1>1, <1>p DEF InMonitor, SendRefused, SendQueued, CloseQueued, CloseAgain, Submit,
        Execute, Leave, Goto, QueueClose
    <2>0a. t = Writer => pc'[Writer] \notin {"send", "mutex"}
      BY <1>1, <1>p DEF InMonitor, SendRefused, SendQueued, CloseQueued, CloseAgain, Submit,
        Execute, Leave, Goto, QueueClose
    <2>1. CASE SendRefused(t) \/ CloseAgain(t) \/ Submit(t) \/ Execute(t)
      <3>1. UNCHANGED frames
        BY <2>1 DEF SendRefused, CloseAgain, Submit, Execute
      <3> QED
        BY <1>a, <2>0, <2>0a, <3>1
    <2>2. CASE SendQueued(t)
      <3>1. frames' = Append(frames, accepted + 1) /\ accepted + 1 \in Nat
        BY <2>2 DEF SendQueued, LockInv, TypeOK
      <3> QED
        BY <1>b, <2>0, <2>0a, <3>1
    <2>3. CASE CloseQueued(t)
      <3>1. frames' = Append(frames, 0)
        BY <2>3 DEF CloseQueued, QueueClose
      <3> QED
        BY <1>b, <2>0, <2>0a, <3>1
    <2> QED
      BY <1>1, <2>1, <2>2, <2>3 DEF InMonitor
  <1>2. ASSUME NEW a \in Apps, Call(a) PROVE AtMessage'
    BY <1>a, <1>2, <1>p DEF Call, Goto
  <1>3. CASE WriterThread \/ PingStarts
    <2>1. CASE TakeJob \/ StartWriting \/ StopWriting \/ PingSent \/ NetworkChanged
               \/ NetworkCloses \/ PingStarts \/ SendByte \/ WriteClose
      BY <1>c, <1>p, <2>1 DEF TakeJob, StartWriting, StopWriting, PingSent, NetworkChanged,
           NetworkCloses, PingStarts, SendByte, WriteClose, Goto, Leave
    <2>2. CASE WriteMessage
      BY <1>c, <1>p, <2>2 DEF WriteMessage, Goto, Leave, AtMessage
    <2>3. CASE SendByteChecked
      BY <1>c, <1>p, <2>3 DEF SendByteChecked, Goto, AtMessage
    <2> QED
      BY <1>1, <1>3, <2>1, <2>2, <2>3 DEF WriterThread
  <1>4. CASE LoopThread \/ Event \/ CloseNotify
    <2>1. CASE Deliver \/ ErrorAgain \/ ErrorFirst \/ Event
      BY <1>a, <1>p, <2>1 DEF Deliver, ErrorAgain, ErrorFirst, Event, Upcall, Goto, Leave
    <2>4. CASE Native
      BY <1>a, <1>p, <2>4, NativeStep DEF Upcall, Goto
    <2>2. CASE ErrorCloses
      <3>1. pc'[Writer] = pc[Writer]
        BY <1>p, <2>2 DEF ErrorCloses, QueueClose, Goto, Leave
      <3>2. UNCHANGED frames \/ frames' = Append(frames, 0)
        BY <2>2 DEF ErrorCloses, QueueClose
      <3> QED
        BY <1>a, <1>b, <3>1, <3>2
    <2>3. CASE DnsFails \/ Connect \/ ForgetContext \/ ShutDown \/ ReportEnd
      BY <1>a, <2>3 DEF DnsFails, Connect, ForgetContext, ShutDown, ReportEnd
    <2> QED
      BY <1>1, <1>4, <2>1, <2>2, <2>3, <2>4 DEF LoopThread, Native
  <1>5. CASE UNCHANGED vars
    BY <1>a, <1>5
  <1> QED
    BY <1>1, <1>2, <1>3, <1>4, <1>5 DEF Next

\* The first frame goes: its message was handed over or is lost.
LEMMA TailTakes ==
  ASSUME LockInv, frames # <<>>, Head(frames) # 0, UNCHANGED accepted,
         frames' = Tail(frames), handed' \in {handed, Append(handed, Head(frames))}
  PROVE  Fifo!Next
  <1> DEFINE w == MessagesOf(frames)
  <1>1. frames \in Seq(Nat) /\ handed \in Seq(Nat)
    BY DEF LockInv, TypeOK
  <1>2. w \in Seq(Nat)
    BY <1>1, MessagesType
  <1>3. w # <<>> /\ Head(w) = Head(frames) /\ Tail(w) = MessagesOf(Tail(frames))
    BY <1>1, MessagesTail
  <1>4. \E n \in 0..Len(w) : \E k \in 0..n :
          handed' = handed \o SubSeq(w, 1, k) /\ Tail(w) = SubSeq(w, n + 1, Len(w))
    <2>1. PICK v : v = handed'
      OBVIOUS
    <2> HIDE DEF w
    <2>2. v \in {handed, Append(handed, Head(w))}
      BY <1>3, <2>1
    <2>3. \E n \in 0..Len(w) : \E k \in 0..n :
            v = handed \o SubSeq(w, 1, k) /\ Tail(w) = SubSeq(w, n + 1, Len(w))
      <3>1. PICK h \in Seq(Nat) : h = handed
        BY <1>1
      <3>2. v \in {h, Append(h, Head(w))} /\ w # <<>>
        BY <1>3, <2>2, <3>1
      <3>3. \E n \in 0..Len(w) : \E k \in 0..n :
              v = h \o SubSeq(w, 1, k) /\ Tail(w) = SubSeq(w, n + 1, Len(w))
        BY <1>2, <3>2, TakeOne
      <3> QED
        BY <3>1, <3>3
    <2> QED
      BY <2>1, <2>3
  <1>5. MessagesOf(frames)' = Tail(w)
    BY <1>3
  <1>6. Fifo!Take(w)
    <2> HIDE DEF w
    <2> QED
      BY <1>4, <1>5 DEF Fifo!Take
  <1> QED
    BY <1>6 DEF Fifo!Deliver, Fifo!Next

\* Every step accepts a message, takes or loses one, drops them all, or leaves them alone.
LEMMA FifoStep == LockInv /\ AtMessage /\ [Next]_vars => [Fifo!Next]_Fifo!vars
  <1> SUFFICES ASSUME LockInv, AtMessage, [Next]_vars PROVE [Fifo!Next]_Fifo!vars
    OBVIOUS
  <1>p. frames \in Seq(Nat) /\ handed \in Seq(Nat) /\ accepted \in Nat
    BY DEF LockInv, TypeOK
  <1>a. ASSUME UNCHANGED <<frames, handed, accepted>> PROVE [Fifo!Next]_Fifo!vars
    BY <1>a DEF Fifo!vars
  <1>b. ASSUME frames' = Append(frames, 0), UNCHANGED <<handed, accepted>>
        PROVE  [Fifo!Next]_Fifo!vars
    <2>1. MessagesOf(frames)' = MessagesOf(frames)
      BY <1>b, <1>p, MessagesAppend
    <2> QED
      BY <1>b, <2>1 DEF Fifo!vars
  <1>1. ASSUME NEW t \in Threads, InMonitor(t) PROVE [Fifo!Next]_Fifo!vars
    <2>1. CASE SendRefused(t) \/ CloseAgain(t) \/ Submit(t) \/ Execute(t)
      BY <1>a, <2>1 DEF SendRefused, CloseAgain, Submit, Execute
    <2>2. CASE SendQueued(t)
      <3>1. /\ frames' = Append(frames, accepted + 1) /\ accepted' = accepted + 1
            /\ UNCHANGED handed
        BY <2>2 DEF SendQueued
      <3>2. MessagesOf(frames)' = Append(MessagesOf(frames), accepted + 1)
        <4>1. accepted + 1 \in Nat /\ accepted + 1 # 0
          BY <1>p
        <4> QED
          BY <1>p, <3>1, <4>1, MessagesAppend
      <3> QED
        BY <3>1, <3>2 DEF Fifo!Accept, Fifo!Next
    <2>3. CASE CloseQueued(t)
      BY <1>b, <2>3 DEF CloseQueued, QueueClose
    <2> QED
      BY <1>1, <2>1, <2>2, <2>3 DEF InMonitor
  <1>2. ASSUME NEW a \in Apps, Call(a) PROVE [Fifo!Next]_Fifo!vars
    BY <1>a, <1>2 DEF Call
  <1>3. CASE WriterThread \/ PingStarts
    <2>1. CASE TakeJob \/ StartWriting \/ StopWriting \/ PingSent \/ NetworkChanged
               \/ NetworkCloses \/ PingStarts
      BY <1>a, <2>1 DEF TakeJob, StartWriting, StopWriting, PingSent, NetworkChanged,
           NetworkCloses, PingStarts
    <2>2. CASE WriteMessage
      <3>1. /\ frames # <<>> /\ Head(frames) # 0 /\ UNCHANGED <<handed, accepted>>
            /\ UNCHANGED frames \/ frames' = Tail(frames)
        BY <2>2 DEF WriteMessage
      <3> QED
        BY <1>a, <3>1, TailTakes
    <2>3. CASE SendByteChecked
      <3>1. /\ frames # <<>> /\ Head(frames) # 0 /\ UNCHANGED <<handed, accepted>>
            /\ UNCHANGED frames \/ frames' = Tail(frames)
        BY <2>3 DEF SendByteChecked, AtMessage
      <3> QED
        BY <1>a, <3>1, TailTakes
    <2>4. CASE SendByte
      <3>1. /\ frames # <<>> /\ Head(frames) # 0 /\ UNCHANGED accepted
            /\ frames' = Tail(frames) /\ handed' = Append(handed, Head(frames))
        BY <2>4 DEF SendByte, AtMessage
      <3> QED
        BY <3>1, TailTakes
    <2>5. CASE WriteClose
      <3> DEFINE w == MessagesOf(frames)
      <3>1. frames' = <<>> /\ UNCHANGED <<handed, accepted>>
        BY <2>5 DEF WriteClose
      <3>2. w \in Seq(Nat) /\ MessagesOf(frames)' = <<>>
        <4>1. frames' \in Seq(Nat) /\ frames' = <<>>
          BY <3>1
        <4> QED
          BY <1>p, <4>1, MessagesType
      <3>3. Fifo!Take(w)
        <4> HIDE DEF w
        <4>1. Len(w) \in Nat /\ Len(w) \in 0..Len(w) /\ 0 \in 0..Len(w)
          BY <3>2
        <4>2. SubSeq(w, Len(w) + 1, Len(w)) = <<>> /\ SubSeq(w, 1, 0) = <<>>
          BY <4>1, SubSeqEmpty
        <4>3. handed' = handed \o SubSeq(w, 1, 0)
          BY <1>p, <3>1, <4>2, ConcatEmptySeq
        <4> QED
          BY <3>2, <4>1, <4>2, <4>3 DEF Fifo!Take
      <3> QED
        BY <3>1, <3>3 DEF Fifo!Deliver, Fifo!Next
    <2> QED
      BY <1>1, <1>3, <2>1, <2>2, <2>3, <2>4, <2>5 DEF WriterThread
  <1>4. CASE LoopThread \/ Event \/ CloseNotify
    <2>1. CASE Deliver \/ ErrorAgain \/ ErrorFirst \/ Event
      BY <1>a, <2>1 DEF Deliver, ErrorAgain, ErrorFirst, Event
    <2>4. CASE Native
      BY <1>a, <2>4, NativeStep
    <2>2. CASE ErrorCloses
      BY <1>a, <1>b, <2>2 DEF ErrorCloses, QueueClose
    <2>3. CASE DnsFails \/ Connect \/ ForgetContext \/ ShutDown \/ ReportEnd
      BY <1>a, <2>3 DEF DnsFails, Connect, ForgetContext, ShutDown, ReportEnd
    <2> QED
      BY <1>1, <1>4, <2>1, <2>2, <2>3, <2>4 DEF LoopThread, Native
  <1>5. CASE UNCHANGED vars
    BY <1>a, <1>5
  <1> QED
    BY <1>1, <1>2, <1>3, <1>4, <1>5 DEF Next

\* What send accepts goes to the native side through a lossy FIFO: in order, each
\* message at most once, whatever the application, the ping task, the writer and
\* the loop do in between.
THEOREM SocketIsFifo == Spec => ImplementsFifo
  <1>1. Init => AtMessage /\ Fifo!Init
    <2> SUFFICES ASSUME Init PROVE AtMessage /\ Fifo!Init
      OBVIOUS
    <2>1. AtMessage
      BY WebSocketAssumption DEF Init, AtMessage
    <2>2. frames = <<>> /\ accepted = 0 /\ handed = <<>> /\ frames \in Seq(Nat)
      BY LockInit DEF Init, LockInv, TypeOK
    <2>3. MessagesOf(frames) = <<>>
      BY <2>2, MessagesType
    <2> QED
      BY <2>1, <2>2, <2>3 DEF Fifo!Init
  <1> QED
    BY <1>1, LockInit, LockStep, AtMessageStep, FifoStep, PTL DEF Spec, ImplementsFifo, Fifo!Spec
============================================================================

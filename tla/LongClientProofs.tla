-------------------------- MODULE LongClientProofs --------------------------
(***************************************************************************)
(* Proofs about the long-connection context for any set of callers, any    *)
(* number of calls and both values of EarlyCalls.                          *)
(***************************************************************************)
EXTENDS LongClientProps, SequenceTheorems, TLAPS

(***************************************************************************)
(* The inductive invariant.  Where the loop thread is decides what exists  *)
(* (Stages); a DESTROY command can only be in the slot once the engine has *)
(* let go of the connection (Slot); commands of callers can only be there  *)
(* when calls are possible (Callable).                                     *)
(***************************************************************************)
Leaving == \/ loop \in {"break", "stopped", "freed"}
           \/ loop = "reset" /\ after \in {"break", "stopped"}

Stages ==
  /\ loop \in {"created", "looped", "armed"} =>
       conn = "none" /\ userConn = "null" /\ status = "waiting" /\ destroyed = 0
  /\ destroyed \in {0, 1}
  /\ destroyed = 1 => Leaving /\ conn \notin Live /\ idle = 0
  /\ Leaving => \/ destroyed = 1
                \/ status = "waiting" /\ conn = "none"
  /\ userConn = "freed" => Leaving
  /\ loop = "break" \/ (loop = "reset" /\ after = "break") => destroyed = 1

Slot ==
  /\ cmd = "DESTROY" => conn = "closed"
  /\ cmd = "INIT_TASK" => loop \in {"armed", "reset"}

Callable ==
  /\ "open" \in told => userConn # "null"
  /\ ~EarlyCalls /\ "open" \notin told =>
       /\ cmd \in {"NONE", "INIT_TASK", "DESTROY"}
       /\ \A c \in Callers : pc[c] = "idle"

LifeInv == TypeOK /\ ConnBacked /\ CrashWindow /\ Stages /\ Slot /\ Callable

USE DEF vars, ctxVars, msgVars, connVars, javaVars, callVars

(***************************************************************************)
(* What the steps of a caller change, on a freed context and on a live one.*)
(***************************************************************************)
\* A call that opens on a live context only moves its thread.
LEMMA CheckStep ==
  ASSUME NEW c \in Callers, NEW where, CheckActive(c, where), loop # "freed"
  PROVE  /\ pc[c] = "idle" /\ handle = "set" /\ calls < MaxCalls
         /\ EarlyCalls \/ "open" \in told
         /\ calls' = calls + 1
         /\ pc' = [pc EXCEPT ![c] = IF active > 0 THEN where ELSE "idle"]
         /\ UNCHANGED <<loop, after, cmd, async, msgVars, ctxVars, connVars,
                        javaVars, process>>
  BY DEF CheckActive, TouchFreed, Goto

\* client_long_send queues the message, sets the slot and wakes the loop.
LEMMA PutStep ==
  ASSUME NEW c \in Callers, PutMessage(c), loop # "freed"
  PROVE  /\ pc[c] = "send" /\ loop # "reset"
         /\ cmd' = "SEND_DATA" /\ async' = 1
         /\ accepted' = accepted + 1
         /\ queue' = Append(queue, accepted + 1)
         /\ process' = IF loop = "created" THEN "crashed" ELSE "up"
         /\ pc' = [pc EXCEPT ![c] = "idle"]
         /\ UNCHANGED <<loop, after, created, ctxVars, connVars, javaVars,
                        calls, handle>>
  BY DEF PutMessage, TouchFreed, Goto, Dies

\* A ping or a cancel sets the slot and still has to wake the loop.
LEMMA WriteStep ==
  ASSUME NEW c \in Callers, WriteCommand(c), loop # "freed"
  PROVE  /\ pc[c] \in {"ping", "cancel"}
         /\ cmd' \in {"SEND_PING", "CANCEL"}
         /\ pc' = [pc EXCEPT ![c] = "wake"]
         /\ UNCHANGED <<loop, after, async, msgVars, ctxVars, connVars, javaVars,
                        calls, handle, process>>
  BY DEF WriteCommand, TouchFreed, Goto

\* The wakeup of a ping or a cancel.
LEMMA WakeStep ==
  ASSUME NEW c \in Callers, WakeLoop(c), loop # "freed"
  PROVE  /\ pc[c] = "wake" /\ async' = 1
         /\ process' = IF loop = "created" THEN "crashed" ELSE "up"
         /\ pc' = [pc EXCEPT ![c] = "idle"]
         /\ UNCHANGED <<loop, after, cmd, msgVars, ctxVars, connVars, javaVars,
                        calls, handle>>
  BY DEF WakeLoop, TouchFreed, Goto, Dies

\* On a freed context only the caller's own place and the process change.
LEMMA FreedStep ==
  ASSUME NEW c \in Callers, Call(c) \/ Finish(c), loop = "freed", calls \in Nat
  PROVE  /\ TouchFreed(c)
         /\ calls' \in {calls, calls + 1}
         /\ calls' = calls + 1 => calls < MaxCalls
         /\ handle' \in {handle, "closed"}
  BY DEF Call, Finish, CallSend, CallPing, CallCancel, CheckActive, PutMessage,
         WriteCommand, WakeLoop

\* A call starts by the check of ctx->active.
LEMMA CallStep ==
  ASSUME NEW c \in Callers, Call(c)
  PROVE  /\ \E where \in {"send", "ping", "cancel"} : CheckActive(c, where)
         /\ handle' \in {handle, "closed"}
  BY DEF Call, CallSend, CallPing, CallCancel

(***************************************************************************)
(* Type correctness.                                                       *)
(***************************************************************************)

\* What is drained from a queue, and what is left of it, are sequences of
\* message numbers again.
LEMMA CutType ==
  ASSUME NEW q \in Seq(Nat), NEW r \in Seq(Nat), NEW k \in 0..Len(q)
  PROVE  /\ r \o SubSeq(q, 1, k) \in Seq(Nat)
         /\ SubSeq(q, k + 3, Len(q)) \in Seq(Nat)
         /\ SubSeq(q, 2, Len(q)) \in Seq(Nat)
  OBVIOUS

\* client_long_send_requests keeps the types of everything it writes.
LEMMA SendType ==
  ASSUME TypeOK, NEW q \in Seq(Nat), NEW most \in 0..Len(q),
         SendRequests(q, most)
  PROVE  /\ queue' \in Seq(Nat)
         /\ created' \in Seq(Nat)
         /\ active' \in {1, -1}
         /\ told' \in SUBSET Reports
  <1>1. CASE active < 0
    BY <1>1, CutType DEF SendRequests, TypeOK
  <1>2. CASE ~(active < 0)
    <2>1. PICK k \in 0..most :
               /\ created' = created \o SubSeq(q, 1, k)
               /\ queue' = SubSeq(q, k + 3, Len(q))
               /\ active' = IF k = Len(q) THEN active ELSE -1
               /\ told' = IF k = Len(q) THEN told ELSE told \cup {"send"}
      BY <1>2 DEF SendRequests
    <2>2. created \in Seq(Nat) /\ k \in 0..Len(q)
      BY <2>1 DEF TypeOK
    <2>3. queue' \in Seq(Nat) /\ created' \in Seq(Nat)
      BY <2>1, <2>2, CutType
    <2> QED
      BY <2>1, <2>3 DEF TypeOK, Reports
  <1> QED
    BY <1>1, <1>2

\* No step leaves the types: one case per action of Next.
LEMMA TypeStep == TypeOK /\ [Next]_vars => TypeOK'
  <1> SUFFICES ASSUME TypeOK, [Next]_vars PROVE TypeOK'
    OBVIOUS
  <1> USE DEF TypeOK, Commands, Live, Reports, Goto, Dies
  <1>1. CASE StartLoop
    BY <1>1 DEF StartLoop
  <1>2. CASE ArmTask
    BY <1>2 DEF ArmTask
  <1>3. CASE HandleNone
    BY <1>3 DEF HandleNone, Enter
  <1>4. CASE HandleInit
    <2>1. CASE body = 1
      <3> DEFINE q == Append(queue, accepted + 1)
      <3>1. q \in Seq(Nat) /\ Len(queue) + 1 \in 0..Len(q)
        OBVIOUS
      <3>2. SendRequests(q, Len(queue) + 1)
        BY <1>4, <2>1 DEF HandleInit
      <3>3. /\ queue' \in Seq(Nat)
            /\ created' \in Seq(Nat)
            /\ active' \in {1, -1}
            /\ told' \in SUBSET Reports
        <4> HIDE DEF q, TypeOK, Reports
        <4> QED
          BY <3>1, <3>2, SendType
      <3> QED
        BY <1>4, <2>1, <3>3 DEF HandleInit, Enter
    <2>2. CASE body # 1
      BY <1>4, <2>2 DEF HandleInit, Enter
    <2> QED
      BY <2>1, <2>2
  <1>5. CASE HandleInitFails
    BY <1>5 DEF HandleInitFails, Enter
  <1>6. CASE HandlePing
    BY <1>6 DEF HandlePing, Enter
  <1>7. CASE HandleSendData
    <2>1. /\ queue' \in Seq(Nat)
          /\ created' \in Seq(Nat)
          /\ active' \in {1, -1}
          /\ told' \in SUBSET Reports
      <3> DEFINE most == IF conn \in Live THEN Len(queue) ELSE 0
      <3>1. most \in 0..Len(queue) /\ queue \in Seq(Nat)
        OBVIOUS
      <3>2. SendRequests(queue, most)
        BY <1>7 DEF HandleSendData
      <3> HIDE DEF most, TypeOK, Reports
      <3> QED
        BY <3>1, <3>2, SendType
    <2> QED
      BY <1>7, <2>1 DEF HandleSendData, Enter
  <1>8. CASE HandleCancel
    BY <1>8 DEF HandleCancel, Enter
  <1>9. CASE HandleDestroy
    BY <1>9 DEF HandleDestroy, Enter, TaskDestroy
  <1>10. CASE ResetCommand
    BY <1>10 DEF ResetCommand
  <1>11. CASE LeaveLoop
    BY <1>11 DEF LeaveLoop
  <1>12. CASE FreeContext
    BY <1>12 DEF FreeContext
  <1>13. CASE StartReturns
    BY <1>13 DEF StartReturns
  <1>14. CASE HandshakeFinished
    BY <1>14 DEF HandshakeFinished, EngineRuns
  <1>15. CASE CloseNotify
    BY <1>15 DEF CloseNotify, EngineRuns
  <1>16. CASE SocketError
    BY <1>16 DEF SocketError, EngineRuns
  <1>17. CASE IdleFires
    <2>1. CASE UNCHANGED <<conn, status, told>>
      BY <1>17, <2>1 DEF IdleFires
    <2>2. CASE /\ conn' = IF conn \in Live THEN "closing" ELSE conn
               /\ status' = "failed"
               /\ told' = told \cup {"idle"}
      BY <1>17, <2>2 DEF IdleFires
    <2> QED
      BY <1>17, <2>1, <2>2 DEF IdleFires
  <1>18. ASSUME NEW c \in Callers, Call(c) \/ Finish(c)
       PROVE  TypeOK'
    <2>1. CASE loop = "freed"
      <3>1. TouchFreed(c) /\ calls' \in 0..MaxCalls /\ handle' \in {handle, "closed"}
        BY <1>18, <2>1, FreedStep, LongClientAssumption
      <3>2. pc' \in [Callers -> {"idle", "send", "ping", "cancel", "wake"}]
        BY <3>1 DEF TouchFreed
      <3> QED
        BY <3>1, <3>2 DEF TouchFreed
    <2>2. CASE Call(c) /\ loop # "freed"
      <3>1. PICK where \in {"send", "ping", "cancel"} : CheckActive(c, where)
        BY <2>2, CallStep
      <3>2. pc' \in [Callers -> {"idle", "send", "ping", "cancel", "wake"}]
        BY <2>2, <3>1, CheckStep
      <3>3. calls' \in 0..MaxCalls
        BY <2>2, <3>1, CheckStep, LongClientAssumption
      <3>4. UNCHANGED <<loop, after, cmd, async, msgVars, ctxVars, connVars,
                      javaVars, process>>
        BY <2>2, <3>1, CheckStep
      <3> QED
        BY <2>2, <3>2, <3>3, <3>4, CallStep
    <2>3. CASE PutMessage(c) /\ loop # "freed"
      <3>1. pc' \in [Callers -> {"idle", "send", "ping", "cancel", "wake"}]
        BY <2>3, PutStep
      <3>2. UNCHANGED <<loop, after, created, ctxVars, connVars, javaVars, calls, handle>>
        BY <2>3, PutStep
      <3>a. accepted' = accepted + 1 /\ queue' = Append(queue, accepted + 1)
        BY <2>3, PutStep
      <3>3. queue' \in Seq(Nat) /\ accepted' \in Nat
        BY <3>a
      <3>4. cmd' = "SEND_DATA" /\ async' = 1 /\ process' \in {"up", "crashed"}
        BY <2>3, PutStep
      <3> QED
        BY <3>1, <3>2, <3>3, <3>4
    <2>4. CASE WriteCommand(c) /\ loop # "freed"
      <3>1. pc' \in [Callers -> {"idle", "send", "ping", "cancel", "wake"}]
        BY <2>4, WriteStep
      <3>2. UNCHANGED <<loop, after, async, msgVars, ctxVars, connVars, javaVars,
                      calls, handle, process>>
        BY <2>4, WriteStep
      <3> QED
        BY <2>4, <3>1, <3>2, WriteStep
    <2>5. CASE WakeLoop(c) /\ loop # "freed"
      <3>1. pc' \in [Callers -> {"idle", "send", "ping", "cancel", "wake"}]
        BY <2>5, WakeStep
      <3>2. UNCHANGED <<loop, after, cmd, msgVars, ctxVars, connVars, javaVars,
                      calls, handle>>
        BY <2>5, WakeStep
      <3> QED
        BY <2>5, <3>1, <3>2, WakeStep
    <2> QED
      BY <1>18, <2>1, <2>2, <2>3, <2>4, <2>5 DEF Finish
  <1>19. CASE UNCHANGED vars
    BY <1>19
  <1> QED
    BY <1>1, <1>2, <1>3, <1>4, <1>5, <1>6, <1>7, <1>8, <1>9,
       <1>10, <1>11, <1>12, <1>13, <1>14, <1>15, <1>16, <1>17,
       <1>18, <1>19
    DEF Next, LoopThread, ServeCommand, Environment

\* Type correctness of the context for every number of callers and calls.
THEOREM TypeCorrect == Spec => []TypeOK
  <1>1. Init => TypeOK
    BY LongClientAssumption DEF Init, TypeOK, Commands, Live, Reports
  <1> QED
    BY <1>1, TypeStep, PTL DEF Spec

(***************************************************************************)
(* The lifetime invariant.                                                 *)
(***************************************************************************)

\* Every step of the context, of the engine and of a caller keeps LifeInv.
LEMMA LifeStep == LifeInv /\ [Next]_vars => LifeInv'
  <1> SUFFICES ASSUME LifeInv, [Next]_vars PROVE LifeInv'
    OBVIOUS
  <1>0. TypeOK /\ TypeOK'
    BY TypeStep DEF LifeInv
  <1> DEFINE Rest == ConnBacked /\ CrashWindow /\ Stages /\ Slot /\ Callable
  <1>a. Rest
    BY DEF LifeInv
  <1> SUFFICES Rest'
    BY <1>0 DEF LifeInv
  <1> USE DEF ConnBacked, CrashWindow, Stages, Slot, Callable, Leaving, Live, Dies
  <1>1. CASE process = "up" /\ StartLoop
    BY <1>0, <1>a, <1>1 DEF StartLoop, TypeOK
  <1>2. CASE process = "up" /\ ArmTask
    BY <1>0, <1>a, <1>2 DEF ArmTask, TypeOK
  <1>3. CASE process = "up" /\ HandleNone
    BY <1>0, <1>a, <1>3 DEF HandleNone, Enter, TypeOK
  <1>4. CASE process = "up" /\ HandleInit
    BY <1>0, <1>a, <1>4 DEF HandleInit, Enter, SendRequests, TypeOK
  <1>5. CASE process = "up" /\ HandleInitFails
    BY <1>0, <1>a, <1>5 DEF HandleInitFails, Enter, TypeOK
  <1>6. CASE process = "up" /\ HandlePing
    BY <1>0, <1>a, <1>6 DEF HandlePing, Enter, TypeOK
  <1>7. CASE process = "up" /\ HandleSendData
    BY <1>0, <1>a, <1>7 DEF HandleSendData, Enter, SendRequests, TypeOK
  <1>8. CASE process = "up" /\ HandleCancel
    BY <1>0, <1>a, <1>8 DEF HandleCancel, Enter, TypeOK
  <1>9. CASE process = "up" /\ HandleDestroy
    BY <1>0, <1>a, <1>9 DEF HandleDestroy, Enter, TaskDestroy, TypeOK
  <1>10. CASE process = "up" /\ ResetCommand
    BY <1>0, <1>a, <1>10 DEF ResetCommand, TypeOK
  <1>11. CASE process = "up" /\ LeaveLoop
    BY <1>0, <1>a, <1>11 DEF LeaveLoop, TypeOK
  <1>12. CASE process = "up" /\ FreeContext
    BY <1>0, <1>a, <1>12 DEF FreeContext, TypeOK
  <1>13. CASE process = "up" /\ StartReturns
    BY <1>0, <1>a, <1>13 DEF StartReturns, TypeOK
  <1>14. CASE process = "up" /\ HandshakeFinished
    BY <1>0, <1>a, <1>14 DEF HandshakeFinished, EngineRuns, TypeOK
  <1>15. CASE process = "up" /\ CloseNotify
    BY <1>0, <1>a, <1>15 DEF CloseNotify, EngineRuns, TypeOK
  <1>16. CASE process = "up" /\ SocketError
    BY <1>0, <1>a, <1>16 DEF SocketError, EngineRuns, TypeOK
  <1>17. CASE process = "up" /\ IdleFires
    BY <1>0, <1>a, <1>17 DEF IdleFires, TypeOK
  <1>18. ASSUME NEW c \in Callers, process = "up", Call(c) \/ Finish(c)
       PROVE  Rest'
    <2>1. CASE loop = "freed"
      <3>1. TouchFreed(c)
        BY <1>18, <2>1, <1>0, FreedStep DEF TypeOK
      <3>2. EarlyCalls \/ "open" \in told
        BY <1>18, <2>1, <1>a DEF Call, Finish, CallSend, CallPing, CallCancel,
           CheckActive, PutMessage, WriteCommand, WakeLoop
      <3> QED
        BY <1>a, <2>1, <3>1, <3>2 DEF TouchFreed
    <2>2. CASE Call(c) /\ loop # "freed"
      <3>1. PICK where \in {"send", "ping", "cancel"} : CheckActive(c, where)
        BY <2>2, CallStep
      <3>2. EarlyCalls \/ "open" \in told
        BY <2>2, <3>1, CheckStep
      <3>3. UNCHANGED <<loop, after, cmd, async, msgVars, ctxVars, connVars,
                      javaVars, process>>
        BY <2>2, <3>1, CheckStep
      <3> QED
        BY <1>a, <3>2, <3>3
    <2>3. CASE PutMessage(c) /\ loop # "freed"
      <3>1. EarlyCalls \/ "open" \in told
        BY <1>a, <2>3, PutStep
      <3>2. UNCHANGED <<loop, after, created, ctxVars, connVars, javaVars, calls, handle>>
        BY <2>3, PutStep
      <3>3. cmd' = "SEND_DATA" /\ process' = IF loop = "created" THEN "crashed" ELSE "up"
        BY <2>3, PutStep
      <3> QED
        BY <1>a, <3>1, <3>2, <3>3
    <2>4. CASE WriteCommand(c) /\ loop # "freed"
      <3>1. EarlyCalls \/ "open" \in told
        BY <1>a, <2>4, WriteStep
      <3>2. UNCHANGED <<loop, after, async, msgVars, ctxVars, connVars, javaVars,
                      calls, handle, process>>
        BY <2>4, WriteStep
      <3>3. cmd' \in {"SEND_PING", "CANCEL"}
        BY <2>4, WriteStep
      <3> QED
        BY <1>a, <3>1, <3>2, <3>3
    <2>5. CASE WakeLoop(c) /\ loop # "freed"
      <3>1. EarlyCalls \/ "open" \in told
        BY <1>a, <2>5, WakeStep
      <3>2. UNCHANGED <<loop, after, cmd, msgVars, ctxVars, connVars, javaVars,
                      calls, handle>>
        BY <2>5, WakeStep
      <3>3. process' = IF loop = "created" THEN "crashed" ELSE "up"
        BY <2>5, WakeStep
      <3> QED
        BY <1>a, <3>1, <3>2, <3>3
    <2> QED
      BY <1>18, <2>1, <2>2, <2>3, <2>4, <2>5 DEF Finish
  <1>19. CASE UNCHANGED vars
    BY <1>a, <1>19
  <1> HIDE DEF Rest
  <1> QED
    BY <1>1, <1>2, <1>3, <1>4, <1>5, <1>6, <1>7, <1>8, <1>9,
       <1>10, <1>11, <1>12, <1>13, <1>14, <1>15, <1>16, <1>17,
       <1>18, <1>19
    DEF Next, LoopThread, ServeCommand, Environment

\* The lifetime invariant holds throughout.
THEOREM Lifetime == Spec => []LifeInv
  <1>1. Init => LifeInv
    BY LongClientAssumption
    DEF Init, LifeInv, TypeOK, Commands, Live, Reports, ConnBacked, CrashWindow,
        Stages, Slot, Callable, Leaving
  <1> QED
    BY <1>1, LifeStep, PTL DEF Spec

\* The engine and the idle timer never hold a pointer to a freed user_conn:
\* client_long_close_task runs only after the engine let go of it.
THEOREM UserConnOutlivesUsers == Spec => []ConnBacked
  BY Lifetime, PTL DEF LifeInv

\* Undefined behaviour needs a call outside the windows of the protocol.
THEOREM CrashOnlyInWindow == Spec => []CrashWindow
  BY Lifetime, PTL DEF LifeInv

\* The Java reference is deleted at most once, and always if the task started.
THEOREM DestroyDelivered == Spec => []DestroyedOnce
  <1>1. LifeInv => DestroyedOnce
    BY DEF LifeInv, Stages, Leaving, DestroyedOnce
  <1> QED
    BY <1>1, Lifetime, PTL

\* No step of the loop thread or of a caller reports to the deleted reference.
THEOREM SilentAfterDestroy == Spec => NoReportAfterDestroy
  <1>1. LifeInv /\ [Next]_vars => [destroyed > 0 => told' = told]_vars
    <2> SUFFICES ASSUME LifeInv, Next, destroyed > 0
                 PROVE  told' = told
      OBVIOUS
    <2>1. Leaving /\ conn \notin Live /\ idle = 0
      BY DEF LifeInv, Stages, TypeOK
    <2>2. loop \notin {"armed", "poll"}
      BY <2>1 DEF Leaving
    <2>3. CASE LoopThread \/ Environment
      BY <2>1, <2>2, <2>3
      DEF LoopThread, Environment, StartLoop, ArmTask, ServeCommand, HandleNone,
          HandleInit, HandleInitFails, HandlePing, HandleSendData, HandleCancel,
          HandleDestroy, Enter, ResetCommand, LeaveLoop, FreeContext, StartReturns,
          HandshakeFinished, CloseNotify, SocketError, EngineRuns, IdleFires
    <2>4. ASSUME NEW c \in Callers, Call(c) \/ Finish(c)
          PROVE  told' = told
      BY <2>4 DEF Call, Finish, CallSend, CallPing, CallCancel, CheckActive,
         PutMessage, WriteCommand, WakeLoop, TouchFreed
    <2> QED
      BY <2>3, <2>4 DEF Next
  <1> QED
    BY <1>1, Lifetime, PTL DEF Spec, NoReportAfterDestroy

(***************************************************************************)
(* No lost wakeup: inductive by itself, given the types.                   *)
(***************************************************************************)

\* Every step of the loop thread leaves "poll" with the command it serves, and
\* every writer of the slot wakes the loop or is about to.
LEMMA WakeKept == TypeOK /\ NoMissedWake /\ [Next]_vars => NoMissedWake'
  <1> SUFFICES ASSUME TypeOK, NoMissedWake, [Next]_vars PROVE NoMissedWake'
    OBVIOUS
  <1>1. CASE ServeCommand
    <2>1. loop' = "reset"
      BY <1>1 DEF ServeCommand, HandleNone, HandleInit, HandleInitFails, HandlePing,
         HandleSendData, HandleCancel, HandleDestroy, Enter
    <2> QED
      BY <2>1 DEF NoMissedWake
  <1>2. CASE StartLoop \/ ArmTask \/ LeaveLoop \/ FreeContext
    BY <1>2 DEF StartLoop, ArmTask, LeaveLoop, FreeContext, NoMissedWake
  <1>3. CASE ResetCommand
    BY <1>3 DEF ResetCommand, NoMissedWake
  <1>4. CASE CloseNotify
    BY <1>4 DEF CloseNotify, NoMissedWake
  <1>5. CASE StartReturns \/ HandshakeFinished \/ SocketError \/ IdleFires
    <2>1. UNCHANGED <<loop, cmd, async, pc>>
      BY <1>5 DEF StartReturns, HandshakeFinished, SocketError, IdleFires
    <2> QED
      BY <2>1 DEF NoMissedWake
  <1>6. ASSUME NEW c \in Callers, Call(c) \/ Finish(c)
        PROVE  NoMissedWake'
    <2>1. CASE loop = "freed"
      <3>1. TouchFreed(c)
        BY <1>6, <2>1, FreedStep DEF TypeOK
      <3> QED
        BY <2>1, <3>1 DEF TouchFreed, NoMissedWake
    <2>2. CASE Call(c) /\ loop # "freed"
      <3>1. PICK where \in {"send", "ping", "cancel"} : CheckActive(c, where)
        BY <2>2, CallStep
      <3>2. UNCHANGED <<loop, after, cmd, async, msgVars, ctxVars, connVars,
                        javaVars, process>>
        BY <2>2, <3>1, CheckStep
      <3>3. ASSUME NEW d \in Callers, pc[d] = "wake" PROVE pc'[d] = "wake"
        BY <2>2, <3>1, <3>3, CheckStep DEF TypeOK
      <3> QED
        BY <3>2, <3>3 DEF NoMissedWake
    <2>3. CASE PutMessage(c) /\ loop # "freed"
      BY <2>3, PutStep DEF NoMissedWake
    <2>4. CASE WriteCommand(c) /\ loop # "freed"
      <3>1. pc'[c] = "wake"
        BY <2>4, WriteStep DEF TypeOK
      <3> QED
        BY <3>1 DEF NoMissedWake
    <2>5. CASE WakeLoop(c) /\ loop # "freed"
      BY <2>5, WakeStep DEF NoMissedWake
    <2> QED
      BY <1>6, <2>1, <2>2, <2>3, <2>4, <2>5 DEF Finish
  <1>7. CASE UNCHANGED vars
    BY <1>7 DEF NoMissedWake
  <1> QED
    BY <1>1, <1>2, <1>3, <1>4, <1>5, <1>6, <1>7
    DEF Next, LoopThread, Environment

\* No command waits in the slot unannounced: neither a coalesced wakeup nor the
\* gap between writing the slot and ev_async_send can strand one.
THEOREM CommandsAnnounced == Spec => []NoMissedWake
  <1>1. Init => NoMissedWake
    BY DEF Init, NoMissedWake
  <1> QED
    BY <1>1, TypeCorrect, WakeKept, PTL DEF Spec

(***************************************************************************)
(* Refinement: the send side implements LossyFifo.                         *)
(***************************************************************************)

\* client_long_send_requests hands a prefix of its queue to the engine, in
\* order, and loses at most the two messages behind it.
LEMMA SendTakes ==
  ASSUME TypeOK, NEW q \in Seq(Nat), NEW most \in 0..Len(q),
         SendRequests(q, most)
  PROVE  Fifo!Take(q)
  <1>0. created \in Seq(Nat) /\ Len(q) \in Nat
    BY DEF TypeOK
  <1>1. SubSeq(q, 1, 0) = <<>>
    BY SubSeqEmpty
  <1>2. CASE active < 0
    <2>1. created' = created \o SubSeq(q, 1, 0)
      <3>1. created \o <<>> = created
        BY <1>0, ConcatEmptySeq
      <3> QED
        BY <1>1, <1>2, <3>1 DEF SendRequests
    <2>2. CASE Len(q) = 0
      <3>1. SubSeq(q, 2, Len(q)) = <<>> /\ SubSeq(q, 0 + 1, Len(q)) = <<>>
        BY <2>2, SubSeqEmpty
      <3>2. queue' = SubSeq(q, 0 + 1, Len(q))
        BY <1>2, <3>1 DEF SendRequests
      <3>3. 0 \in 0..Len(q) /\ 0 \in 0..0
        BY <1>0
      <3> QED
        BY <2>1, <3>2, <3>3 DEF Fifo!Take
    <2>3. CASE Len(q) # 0
      <3>1. 1 \in 0..Len(q) /\ 0 \in 0..1
        BY <1>0, <2>3
      <3>2. queue' = SubSeq(q, 1 + 1, Len(q))
        BY <1>2 DEF SendRequests
      <3> QED
        BY <2>1, <3>1, <3>2 DEF Fifo!Take
    <2> QED
      BY <2>2, <2>3
  <1>3. CASE ~(active < 0)
    <2>1. PICK k \in 0..most :
               /\ created' = created \o SubSeq(q, 1, k)
               /\ queue' = SubSeq(q, k + 3, Len(q))
      BY <1>3 DEF SendRequests
    <2>2. k \in 0..Len(q)
      BY <1>0, <2>1
    <2>3. CASE k + 2 \in 0..Len(q)
      <3>1. k \in 0..(k + 2) /\ (k + 2) + 1 = k + 3
        BY <2>2
      <3> QED
        BY <2>1, <2>3, <3>1 DEF Fifo!Take
    <2>4. CASE k + 2 \notin 0..Len(q)
      <3>1. Len(q) \in 0..Len(q) /\ k \in 0..Len(q) /\ Len(q) < k + 3
        BY <1>0, <2>2, <2>4
      <3>2. SubSeq(q, k + 3, Len(q)) = <<>> /\ SubSeq(q, Len(q) + 1, Len(q)) = <<>>
        BY <1>0, <2>2, <3>1, SubSeqEmpty
      <3> QED
        BY <2>1, <3>1, <3>2 DEF Fifo!Take
    <2> QED
      BY <2>3, <2>4
  <1> QED
    BY <1>2, <1>3

\* Every step of the context accepts, takes, or leaves the messages alone.
LEMMA FifoStep == TypeOK /\ [Next]_vars => [Fifo!Next]_Fifo!vars
  <1> SUFFICES ASSUME TypeOK, [Next]_vars PROVE [Fifo!Next]_Fifo!vars
    OBVIOUS
  <1> USE DEF Fifo!vars
  <1>0. queue \in Seq(Nat) /\ created \in Seq(Nat) /\ accepted \in Nat
    BY DEF TypeOK
  <1>1. CASE HandleInit
    <2>1. CASE body = 1
      <3> DEFINE q == Append(queue, accepted + 1)
      <3>1. q \in Seq(Nat) /\ Len(queue) + 1 \in 0..Len(q)
        BY <1>0
      <3>2. SendRequests(q, Len(queue) + 1) /\ accepted' = accepted + 1
        BY <1>1, <2>1 DEF HandleInit
      <3>3. Fifo!Take(q)
        <4> HIDE DEF q
        <4> QED
          BY <3>1, <3>2, SendTakes
      <3> QED
        BY <3>2, <3>3 DEF Fifo!AcceptAndDeliver, Fifo!Next
    <2>2. CASE body # 1
      BY <1>1, <2>2 DEF HandleInit
    <2> QED
      BY <2>1, <2>2
  <1>2. CASE HandleSendData
    <2> DEFINE most == IF conn \in Live THEN Len(queue) ELSE 0
    <2>1. most \in 0..Len(queue)
      BY <1>0
    <2>2. SendRequests(queue, most) /\ accepted' = accepted
      BY <1>2 DEF HandleSendData
    <2>3. Fifo!Take(queue)
      <3> HIDE DEF most
      <3> QED
        BY <1>0, <2>1, <2>2, SendTakes
    <2> QED
      BY <2>2, <2>3 DEF Fifo!Deliver, Fifo!Next
  <1>3. CASE FreeContext
    <2>1. queue' = SubSeq(queue, Len(queue) + 1, Len(queue))
      BY <1>0, <1>3, SubSeqEmpty DEF FreeContext
    <2>2. created' = created \o SubSeq(queue, 1, 0)
      <3>1. created \o <<>> = created /\ SubSeq(queue, 1, 0) = <<>>
        BY <1>0, ConcatEmptySeq, SubSeqEmpty
      <3> QED
        BY <1>3, <3>1 DEF FreeContext
    <2>3. Len(queue) \in 0..Len(queue) /\ 0 \in 0..Len(queue)
      BY <1>0
    <2>4. Fifo!Take(queue)
      BY <2>1, <2>2, <2>3 DEF Fifo!Take
    <2> QED
      BY <1>3, <2>4 DEF FreeContext, Fifo!Deliver, Fifo!Next
  <1>4. CASE \/ HandleNone \/ HandleInitFails \/ HandlePing \/ HandleCancel
             \/ HandleDestroy \/ StartLoop \/ ArmTask \/ ResetCommand
             \/ LeaveLoop \/ StartReturns
    BY <1>4 DEF HandleNone, HandleInitFails, HandlePing, HandleCancel, HandleDestroy,
       StartLoop, ArmTask, ResetCommand, LeaveLoop, StartReturns
  <1>5. CASE Environment
    BY <1>5 DEF Environment, HandshakeFinished, CloseNotify, SocketError, IdleFires
  <1>6. ASSUME NEW c \in Callers, Call(c) \/ Finish(c)
        PROVE  [Fifo!Next]_Fifo!vars
    <2>1. CASE loop = "freed"
      <3>1. TouchFreed(c)
        BY <1>6, <2>1, FreedStep DEF TypeOK
      <3> QED
        BY <3>1 DEF TouchFreed
    <2>2. CASE Call(c) /\ loop # "freed"
      <3>1. PICK where \in {"send", "ping", "cancel"} : CheckActive(c, where)
        BY <2>2, CallStep
      <3>2. UNCHANGED msgVars
        BY <2>2, <3>1, CheckStep
      <3> QED
        BY <3>2
    <2>3. CASE PutMessage(c) /\ loop # "freed"
      <3>1. /\ accepted' = accepted + 1
            /\ queue' = Append(queue, accepted + 1)
            /\ created' = created
        BY <2>3, PutStep
      <3> QED
        BY <3>1 DEF Fifo!Accept, Fifo!Next
    <2>4. CASE (WriteCommand(c) \/ WakeLoop(c)) /\ loop # "freed"
      <3>1. UNCHANGED msgVars
        BY <2>4, WriteStep, WakeStep
      <3> QED
        BY <3>1
    <2> QED
      BY <1>6, <2>1, <2>2, <2>3, <2>4 DEF Finish
  <1>7. CASE UNCHANGED vars
    BY <1>7
  <1> QED
    BY <1>1, <1>2, <1>3, <1>4, <1>5, <1>6, <1>7 DEF Next, LoopThread, ServeCommand

\* The queue between client_long_send and the engine is a lossy FIFO: nothing
\* is handed over twice, out of order, or without having been accepted.
THEOREM SendSideIsFifo == Spec => ImplementsFifo
  <1>1. Init => Fifo!Init
    BY DEF Init, Fifo!Init
  <1> QED
    BY <1>1, TypeCorrect, FifoStep, PTL DEF Spec, ImplementsFifo, Fifo!Spec

(***************************************************************************)
(* Accepted messages are not lost without a report.                        *)
(***************************************************************************)

\* The context is deactivated only together with a report.
LossInv == /\ active < 0 => "send" \in told
           /\ LossIsReported

\* Either something was reported, or everything in q became a request.
LEMMA SendLoss ==
  ASSUME TypeOK, active < 0 => "send" \in told,
         NEW q \in Seq(Nat), NEW most \in 0..Len(q), SendRequests(q, most)
  PROVE  /\ active' < 0 => "send" \in told'
         /\ "send" \in told' \/ created' = created \o q
  <1>1. CASE active < 0
    BY <1>1 DEF SendRequests
  <1>2. CASE ~(active < 0)
    <2>1. PICK k \in 0..most :
               /\ created' = created \o SubSeq(q, 1, k)
               /\ active' = IF k = Len(q) THEN active ELSE -1
               /\ told' = IF k = Len(q) THEN told ELSE told \cup {"send"}
      BY <1>2 DEF SendRequests
    <2>2. CASE k = Len(q)
      <3>1. SubSeq(q, 1, k) = q
        BY <2>2, SubSeqFull
      <3> QED
        BY <1>2, <2>1, <2>2, <3>1
    <2>3. CASE k # Len(q)
      BY <2>1, <2>3
    <2> QED
      BY <2>2, <2>3
  <1> QED
    BY <1>1, <1>2

\* A message occurs in a sequence.
Occurs(m, s) == \E i \in DOMAIN s : s[i] = m

\* Nothing is lost exactly if every accepted message is queued or a request.
LEMMA NothingLost ==
  ASSUME NEW n, NEW q, NEW r
  PROVE  (1..n) \ ({q[i] : i \in DOMAIN q} \cup {r[i] : i \in DOMAIN r}) = {}
         <=> \A m \in 1..n : Occurs(m, q) \/ Occurs(m, r)
  BY DEF Occurs

\* A message stays accounted for when the queue is appended to the requests.
LEMMA MovedKept ==
  ASSUME NEW q \in Seq(Nat), NEW r \in Seq(Nat), NEW m, Occurs(m, q) \/ Occurs(m, r)
  PROVE  Occurs(m, r \o q)
  <1>1. /\ Len(r \o q) = Len(r) + Len(q)
        /\ \A i \in 1..Len(r) : (r \o q)[i] = r[i]
        /\ \A i \in 1..Len(q) : (r \o q)[Len(r) + i] = q[i]
    OBVIOUS
  <1>2. r \o q \in Seq(Nat) /\ Len(r) \in Nat /\ Len(q) \in Nat
    OBVIOUS
  <1>3. DOMAIN (r \o q) = 1..(Len(r) + Len(q)) /\ DOMAIN r = 1..Len(r)
        /\ DOMAIN q = 1..Len(q)
    BY <1>1, <1>2
  <1>4. ASSUME NEW i \in DOMAIN q, q[i] = m
        PROVE  Occurs(m, r \o q)
    <2>1. Len(r) + i \in 1..(Len(r) + Len(q)) /\ (r \o q)[Len(r) + i] = m
      BY <1>1, <1>2, <1>3, <1>4
    <2> QED
      BY <1>3, <2>1 DEF Occurs
  <1>5. ASSUME NEW i \in DOMAIN r, r[i] = m
        PROVE  Occurs(m, r \o q)
    <2>1. i \in 1..(Len(r) + Len(q)) /\ (r \o q)[i] = m
      BY <1>1, <1>2, <1>3, <1>5
    <2> QED
      BY <1>3, <2>1 DEF Occurs
  <1> QED
    BY <1>4, <1>5 DEF Occurs

\* A message stays accounted for when the next one is queued, and the next one
\* is accounted for too.
LEMMA AppendKept ==
  ASSUME NEW q \in Seq(Nat), NEW n \in Nat, NEW m, m = n \/ Occurs(m, q)
  PROVE  Occurs(m, Append(q, n))
  <1>1. /\ DOMAIN Append(q, n) = 1..(Len(q) + 1) /\ DOMAIN q = 1..Len(q)
        /\ Append(q, n)[Len(q) + 1] = n
        /\ \A i \in 1..Len(q) : Append(q, n)[i] = q[i]
        /\ Len(q) \in Nat
    OBVIOUS
  <1>2. CASE m = n
    <2>1. Len(q) + 1 \in DOMAIN Append(q, n)
      BY <1>1
    <2> QED
      BY <1>1, <1>2, <2>1 DEF Occurs
  <1>3. ASSUME NEW i \in DOMAIN q, q[i] = m
        PROVE  Occurs(m, Append(q, n))
    <2>1. i \in 1..(Len(q) + 1) /\ Append(q, n)[i] = m
      BY <1>1, <1>3
    <2> QED
      BY <1>1, <2>1 DEF Occurs
  <1> QED
    BY <1>2, <1>3 DEF Occurs

\* Only the four steps that move messages can lose one; each keeps LossInv.
LEMMA LossStep == TypeOK /\ LossInv /\ [Next]_vars => LossInv'
  <1> SUFFICES ASSUME TypeOK, LossInv, [Next]_vars PROVE LossInv'
    OBVIOUS
  <1> DEFINE Held(m) == Occurs(m, queue) \/ Occurs(m, created)
  <1>0. /\ queue \in Seq(Nat) /\ created \in Seq(Nat) /\ accepted \in Nat
        /\ active < 0 => "send" \in told
        /\ "send" \in told \/ loop = "freed" \/ \A m \in 1..accepted : Held(m)
    <2>1. Lost = {} <=> \A m \in 1..accepted : Held(m)
      BY NothingLost DEF Lost
    <2>2. queue \in Seq(Nat) /\ created \in Seq(Nat) /\ accepted \in Nat
      BY DEF TypeOK
    <2>3. active < 0 => "send" \in told
      BY DEF LossInv
    <2>4. Lost = {} \/ "send" \in told \/ loop = "freed"
      BY DEF LossInv, LossIsReported
    <2> HIDE DEF Held
    <2> QED
      BY <2>1, <2>2, <2>3, <2>4
  <1>a. ASSUME active' < 0 => "send" \in told',
               "send" \in told' \/ loop' = "freed" \/ \A m \in 1..accepted' : Held(m)'
        PROVE  LossInv'
    <2>1. (Lost = {})' <=> \A m \in 1..accepted' : Held(m)'
      BY NothingLost DEF Lost
    <2>2. (Lost = {})' \/ "send" \in told' \/ loop' = "freed"
      BY <1>a, <2>1
    <2>3. LossIsReported'
      BY <2>2 DEF LossIsReported
    <2> QED
      BY <1>a, <2>3 DEF LossInv
  <1>b. ASSUME UNCHANGED msgVars, UNCHANGED active, told \subseteq told',
               loop = "freed" => loop' = "freed"
        PROVE  LossInv'
    BY <1>0, <1>a, <1>b
  <1>1. CASE HandleInit
    <2>0. loop # "freed"
      BY <1>1 DEF HandleInit, Enter
    <2>1. CASE body = 1
      <3> DEFINE q == Append(queue, accepted + 1)
      <3>1. q \in Seq(Nat) /\ Len(queue) + 1 \in 0..Len(q)
        BY <1>0
      <3>2. SendRequests(q, Len(queue) + 1) /\ accepted' = accepted + 1
        BY <1>1, <2>1 DEF HandleInit
      <3>3. /\ active' < 0 => "send" \in told'
            /\ "send" \in told' \/ created' = created \o q
        <4> HIDE DEF q, Held
        <4> QED
          BY <1>0, <3>1, <3>2, SendLoss
      <3>4. told \subseteq told'
        BY <3>2 DEF SendRequests
      <3>5. ASSUME "send" \notin told', NEW m \in 1..accepted'
            PROVE  Held(m)'
        <4>0. m = accepted + 1 \/ m \in 1..accepted
          BY <1>0, <3>2
        <4>1. m = accepted + 1 \/ Occurs(m, queue) \/ Occurs(m, created)
          BY <1>0, <2>0, <3>4, <3>5, <4>0
        <4>2. Occurs(m, q) \/ Occurs(m, created)
          BY <1>0, <4>1, AppendKept
        <4>3. Occurs(m, created')
          <5> HIDE DEF q, Held
          <5> QED
            BY <1>0, <3>1, <3>3, <3>5, <4>2, MovedKept
        <4> QED
          BY <4>3
      <3> QED
        BY <1>a, <3>3, <3>5
    <2>2. CASE body # 1
      BY <1>1, <1>b, <2>0, <2>2 DEF HandleInit
    <2> QED
      BY <2>1, <2>2
  <1>2. CASE HandleSendData
    <2> DEFINE most == IF conn \in Live THEN Len(queue) ELSE 0
    <2>1. most \in 0..Len(queue) /\ loop # "freed"
      BY <1>0, <1>2 DEF HandleSendData, Enter
    <2>2. SendRequests(queue, most) /\ accepted' = accepted
      BY <1>2 DEF HandleSendData
    <2>3. /\ active' < 0 => "send" \in told'
          /\ "send" \in told' \/ created' = created \o queue
      <3> HIDE DEF most, Held
      <3> QED
        BY <1>0, <2>1, <2>2, SendLoss
    <2>4. told \subseteq told'
      BY <2>2 DEF SendRequests
    <2>5. ASSUME "send" \notin told', NEW m \in 1..accepted'
          PROVE  Held(m)'
      <3>1. Held(m)
        BY <1>0, <2>1, <2>2, <2>4, <2>5
      <3>2. Occurs(m, created')
        BY <1>0, <2>3, <2>5, <3>1, MovedKept
      <3> QED
        BY <3>2
    <2> QED
      BY <1>a, <2>3, <2>5
  <1>3. CASE FreeContext
    BY <1>0, <1>3, <1>a DEF FreeContext
  <1>4. CASE \/ HandleNone \/ HandleInitFails \/ HandlePing \/ HandleCancel
             \/ HandleDestroy \/ StartLoop \/ ArmTask \/ ResetCommand
             \/ LeaveLoop \/ StartReturns
    BY <1>4, <1>b DEF HandleNone, HandleInitFails, HandlePing, HandleCancel,
       HandleDestroy, TaskDestroy, Enter, StartLoop, ArmTask, ResetCommand,
       LeaveLoop, StartReturns
  <1>5. CASE Environment
    BY <1>5, <1>b DEF Environment, HandshakeFinished, CloseNotify, SocketError,
       IdleFires, EngineRuns
  <1>6. ASSUME NEW c \in Callers, Call(c) \/ Finish(c)
        PROVE  LossInv'
    <2>1. CASE loop = "freed"
      <3>1. TouchFreed(c)
        BY <1>6, <2>1, FreedStep DEF TypeOK
      <3> QED
        BY <1>b, <3>1 DEF TouchFreed
    <2>2. CASE Call(c) /\ loop # "freed"
      <3>1. PICK where \in {"send", "ping", "cancel"} : CheckActive(c, where)
        BY <2>2, CallStep
      <3>2. UNCHANGED <<loop, after, cmd, async, msgVars, ctxVars, connVars,
                        javaVars, process>>
        BY <2>2, <3>1, CheckStep
      <3> QED
        BY <1>b, <3>2
    <2>3. CASE PutMessage(c) /\ loop # "freed"
      <3>1. /\ accepted' = accepted + 1
            /\ queue' = Append(queue, accepted + 1)
        BY <2>3, PutStep
      <3>2. UNCHANGED <<loop, after, created, ctxVars, connVars, javaVars,
                        calls, handle>>
        BY <2>3, PutStep
      <3>3. ASSUME "send" \notin told', NEW m \in 1..accepted'
            PROVE  Held(m)'
        <4>0. m = accepted + 1 \/ m \in 1..accepted
          BY <1>0, <3>1
        <4>1. m = accepted + 1 \/ Occurs(m, queue) \/ Occurs(m, created)
          BY <1>0, <2>3, <3>2, <3>3, <4>0
        <4>2. Occurs(m, queue') \/ Occurs(m, created)
          <5>1. accepted + 1 \in Nat
            BY <1>0
          <5> HIDE DEF Held
          <5> QED
            BY <1>0, <3>1, <4>1, <5>1, AppendKept
        <4> QED
          BY <3>2, <4>2
      <3> QED
        BY <1>0, <1>a, <3>2, <3>3
    <2>4. CASE (WriteCommand(c) \/ WakeLoop(c)) /\ loop # "freed"
      <3>1. UNCHANGED <<loop, after, msgVars, ctxVars, connVars, javaVars>>
        BY <2>4, WriteStep, WakeStep
      <3> QED
        BY <1>b, <3>1
    <2> QED
      BY <1>6, <2>1, <2>2, <2>3, <2>4 DEF Finish
  <1>7. CASE UNCHANGED vars
    BY <1>7, <1>b
  <1> QED
    BY <1>1, <1>2, <1>3, <1>4, <1>5, <1>6, <1>7 DEF Next, LoopThread, ServeCommand

\* No accepted message disappears before a refused request was reported.
THEOREM NoSilentLoss == Spec => []LossIsReported
  <1>1. Init => LossInv
    BY DEF Init, LossInv, LossIsReported, Lost
  <1>2. LossInv => LossIsReported
    BY DEF LossInv
  <1> QED
    BY <1>1, <1>2, TypeCorrect, LossStep, PTL DEF Spec
\* What the loop, the engine, the timer and the Java callers share is not used
\* after its end, outside the two windows.
THEOREM NoneUsedAfterItsEnd == Spec => []LifetimesKept
  <1>1. ConnBacked /\ CrashWindow /\ DestroyedOnce => LifetimesKept
    BY DEF LifetimesKept
  <1> QED
    BY <1>1, UserConnOutlivesUsers, CrashOnlyInWindow, DestroyDelivered, PTL
==============================================================================

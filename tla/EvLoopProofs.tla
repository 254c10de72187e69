---------------------------- MODULE EvLoopProofs ----------------------------
(***************************************************************************)
(* Proofs about the libev loop: its pipe and its watchers for any senders, *)
(* async watchers and masks; its timers for any timers and delays.         *)
(***************************************************************************)
EXTENDS EvLoopProps, EvTimers, SequenceTheorems, FiniteSetTheorems, WellFoundedInduction, TLAPS

(***************************************************************************)
(* Sequences of pending watchers.                                          *)
(***************************************************************************)

Revents == SUBSET {"READ", "WRITE", "CUSTOM", "ASYNC", "ERROR"}

\* Feeding a watcher gives a list of entries again.
LEMMA FeedType ==
  ASSUME NEW q \in Seq(Entries), NEW w \in Asyncs \cup Fds \cup {PendingW}, NEW r \in Revents
  PROVE  Feed(q, w, r) \in Seq(Entries)
  <1>1. [w |-> w, revents |-> r] \in Entries
    BY DEF Entries, Revents
  <1>2. CASE Has(q, w)
    <2>1. \A i \in 1..Len(q) : q[i] \in Entries
      OBVIOUS
    <2> DEFINE e(i) == IF q[i].w = w THEN [w |-> w, revents |-> q[i].revents \cup r] ELSE q[i]
    <2>2. \A i \in 1..Len(q) : e(i) \in Entries
      BY <2>1 DEF Entries, Revents
    <2>3. Feed(q, w, r) = [i \in 1..Len(q) |-> e(i)]
      BY <1>2 DEF Feed
    <2> HIDE DEF e
    <2>4. Feed(q, w, r) \in [1..Len(q) -> Entries]
      BY <2>2, <2>3
    <2> QED
      BY <2>4, SeqDef
  <1>3. CASE ~Has(q, w)
    BY <1>1, <1>3 DEF Feed
  <1> QED
    BY <1>2, <1>3

LEMMA ClearedType ==
  ASSUME NEW q \in Seq(Entries), NEW w
  PROVE  Cleared(q, w) \in Seq(Entries)
  <1> DEFINE e(i) == IF q[i].w = w THEN [q[i] EXCEPT !.w = PendingW] ELSE q[i]
  <1>1. \A x \in Entries : [x EXCEPT !.w = PendingW] \in Entries
    BY DEF Entries
  <1>2. \A i \in 1..Len(q) : e(i) \in Entries
    BY <1>1
  <1>3. Cleared(q, w) = [i \in 1..Len(q) |-> e(i)]
    BY DEF Cleared
  <1> HIDE DEF e
  <1>4. Cleared(q, w) \in [1..Len(q) -> Entries]
    BY <1>2, <1>3
  <1> QED
    BY <1>4, SeqDef

\* A watcher is pending after it was fed, and the others are as before.
LEMMA FeedHas ==
  ASSUME NEW q \in Seq(Entries), NEW w, NEW r, NEW x
  PROVE  Has(Feed(q, w, r), x) <=> Has(q, x) \/ x = w
  <1>1. CASE Has(q, w)
    BY <1>1 DEF Feed, Has
  <1>2. CASE ~Has(q, w)
    <2>1. Feed(q, w, r) = Append(q, [w |-> w, revents |-> r])
      BY <1>2 DEF Feed
    <2>2. /\ DOMAIN Append(q, [w |-> w, revents |-> r]) = 1..(Len(q) + 1)
          /\ DOMAIN q = 1..Len(q)
          /\ \A i \in 1..Len(q) : Append(q, [w |-> w, revents |-> r])[i] = q[i]
          /\ Append(q, [w |-> w, revents |-> r])[Len(q) + 1] = [w |-> w, revents |-> r]
      OBVIOUS
    <2> QED
      BY <2>1, <2>2 DEF Has
  <1> QED
    BY <1>1, <1>2

LEMMA ClearedHas ==
  ASSUME NEW q \in Seq(Entries), NEW w, NEW x, x # PendingW
  PROVE  Has(Cleared(q, w), x) <=> Has(q, x) /\ x # w
  BY DEF Cleared, Has, Entries

(***************************************************************************)
(* Type correctness.                                                       *)
(***************************************************************************)

Anfd == [events : Masks, reify : SUBSET {"REIFY", "IOFDSET"}, emask : Masks, egen : Nat]
Registration == [mask : Masks, egen : Nat]

\* A descriptor is marked as changed.
LEMMA ChangedType ==
  ASSUME NEW f \in Fds, NEW flags \in SUBSET {"REIFY", "IOFDSET"}, Changed(f, flags),
         anfds \in [Fds -> Anfd], fdchanges \in Seq(Fds)
  PROVE  anfds' \in [Fds -> Anfd] /\ fdchanges' \in Seq(Fds)
  <1>1. anfds[f].reify \cup flags \in SUBSET {"REIFY", "IOFDSET"} /\ anfds[f] \in Anfd
    BY DEF Anfd
  <1>2. [anfds[f] EXCEPT !.reify = @ \cup flags] \in Anfd
    BY <1>1 DEF Anfd
  <1> QED
    BY <1>2 DEF Changed

\* What fd_reify makes of a descriptor.
LEMMA ReifiedType ==
  ASSUME NEW f \in Fds, anfds \in [Fds -> Anfd], kernel \in [Fds -> Registration],
         events \in [Fds -> Masks]
  PROVE  Reified(f).anfd \in Anfd /\ Reified(f).kernel \in Registration
  <1>1. Wanted(f) \in Masks /\ anfds[f] \in Anfd /\ kernel[f] \in Registration
    BY DEF Wanted, Masks
  <1> DEFINE e == epoll_modify(f, anfds[f].events, Wanted(f))
  <1>2. e.emask \in Masks /\ e.egen \in Nat /\ e.kernel \in Registration
    BY <1>1 DEF epoll_modify, Anfd, Registration
  <1> HIDE DEF e
  <1>3. CASE f \notin Touched
    BY <1>1, <1>3 DEF Reified
  <1>4. CASE f \in Touched /\ Modify(f)
    <2>1. /\ Reified(f).anfd = [events |-> Wanted(f), reify |-> {}, emask |-> e.emask, egen |-> e.egen]
          /\ Reified(f).kernel = e.kernel
      BY <1>4 DEF Reified, e
    <2> QED
      BY <1>1, <1>2, <2>1 DEF Anfd
  <1>5. CASE f \in Touched /\ ~Modify(f)
    <2>1. /\ Reified(f).anfd = [events |-> Wanted(f), reify |-> {}, emask |-> anfds[f].emask,
                                egen |-> anfds[f].egen]
          /\ Reified(f).kernel = kernel[f]
      BY <1>5 DEF Reified
    <2> QED
      BY <1>1, <2>1 DEF Anfd
  <1> QED
    BY <1>3, <1>4, <1>5

LEMMA TypeInit == Init => TypeOK
  <1> SUFFICES ASSUME Init PROVE TypeOK
    OBVIOUS
  <1>1. anfds \in [Fds -> Anfd] /\ kernel \in [Fds -> Registration]
    BY DEF Init, Anfd, Registration, Masks, Unregistered
  <1>2. pendings \in [Priorities -> Seq(Entries)] /\ events \in [Fds -> Masks]
    BY DEF Init, Masks
  <1>3. asyncs \in Seq(Asyncs) /\ scan \in Seq(Asyncs) /\ fdchanges \in Seq(Fds)
    BY DEF Init
  <1>4. sender \in [Senders -> {"idle", "flag", "set", "skip", "wanted", "unskip", "write"}]
    BY DEF Init
  <1>5. sends \in 0..MaxSends /\ arrivals \in 0..MaxArrivals /\ bytes \in Nat
    BY EvLoopAssumption DEF Init
  <1>6. /\ sent \subseteq Asyncs /\ active \subseteq Fds /\ ready \subseteq {"READ", "WRITE", "ERR"}
        /\ async_pending \in BOOLEAN /\ pipe_write_skipped \in BOOLEAN
        /\ pipe_write_wanted \in BOOLEAN /\ block \in BOOLEAN /\ loop_done \in BOOLEAN
        /\ open \in BOOLEAN /\ pc = "init"
    BY DEF Init
  <1> QED
    BY <1>1, <1>2, <1>3, <1>4, <1>5, <1>6 DEF TypeOK, Anfd, Registration

\* No step of a sender, of the loop or of the network leaves the types.
LEMMA TypeStep == TypeOK /\ [Next]_vars => TypeOK'
  <1> SUFFICES ASSUME TypeOK, [Next]_vars PROVE TypeOK'
    OBVIOUS
  <1> USE EvLoopAssumption DEF TypeOK, Loop, Goto, flagVars, sendVars, loopVars, ioVars, envVars
  <1>1. ASSUME NEW s \in Senders, Send(s) PROVE TypeOK'
    <2>1. CASE ReadFlag(s)
      BY <2>1 DEF ReadFlag, Sending
    <2>2. CASE SetFlag(s)
      BY <2>2 DEF SetFlag, Sending
    <2>3. CASE SetSkipped(s)
      BY <2>3 DEF SetSkipped, Sending
    <2>4. CASE ReadWanted(s)
      BY <2>4 DEF ReadWanted, Sending
    <2>5. CASE ClearSkipped(s)
      BY <2>5 DEF ClearSkipped, Sending
    <2>6. CASE WriteByte(s)
      BY <2>6 DEF WriteByte, Sending
    <2> QED
      BY <1>1, <2>1, <2>2, <2>3, <2>4, <2>5, <2>6 DEF Send
  <1>2. ASSUME NEW s \in Senders, NEW a \in Asyncs, SetSent(s, a) PROVE TypeOK'
    BY <1>2 DEF SetSent
  <1>3. ASSUME NEW a \in Asyncs, AsyncStart(a) PROVE TypeOK'
    <2>1. CASE "pipe" \in active
      BY <1>3, <2>1 DEF AsyncStart
    <2>2. CASE "pipe" \notin active
      <3>1. anfds' \in [Fds -> Anfd] /\ fdchanges' \in Seq(Fds)
        BY <1>3, <2>2, ChangedType DEF AsyncStart, IoStart, Fds, Anfd
      <3>2. /\ active' = active \cup {"pipe"} /\ events' = [events EXCEPT !["pipe"] = {"READ"}]
            /\ kernel' = kernel
        BY <1>3, <2>2 DEF AsyncStart, IoStart
      <3>4. {"READ"} \in Masks /\ "pipe" \in Fds
        BY DEF Masks, Fds
      <3>5. active' \subseteq Fds /\ events' \in [Fds -> Masks]
        BY <3>2, <3>4
      <3>3. asyncs' \in Seq(Asyncs) /\ sent' \subseteq Asyncs
        BY <1>3 DEF AsyncStart
      <3> QED
        BY <1>3, <3>1, <3>2, <3>3, <3>5 DEF AsyncStart, Anfd
    <2> QED
      BY <2>1, <2>2
  <1>4. CASE Run
    BY <1>4 DEF Run
  <1>5. CASE fd_reify
    <2>1. anfds' \in [Fds -> Anfd] /\ kernel' \in [Fds -> Registration]
      BY <1>5, ReifiedType DEF fd_reify, Anfd, Registration
    <2> QED
      BY <1>5, <2>1 DEF fd_reify, Anfd, Registration
  <1>6. CASE fd_kill
    <2>1. Reified("pipe").anfd \in Anfd /\ Reified("pipe").kernel \in Registration
      BY ReifiedType DEF Fds, Anfd, Registration
    <2>2. Wanted("sock") \in Masks
      BY DEF Wanted, Masks, Fds
    <2>3. anfds' \in [Fds -> Anfd]
      BY <1>6, <2>1, <2>2 DEF fd_kill, Fds, Anfd
    <2>4. kernel' \in [Fds -> Registration]
      BY <1>6, <2>1 DEF fd_kill, Fds, Registration
    <2>5. Feed(Cleared(pendings["normal"], "sock"), "sock", {"ERROR", "READ", "WRITE"}) \in Seq(Entries)
      BY FeedType, ClearedType DEF Priorities, Fds, Revents
    <2>6. pendings' \in [Priorities -> Seq(Entries)]
      BY <1>6, <2>5 DEF fd_kill, Priorities
    <2> QED
      BY <1>6, <2>3, <2>4, <2>6 DEF fd_kill, Anfd, Registration, Fds
  <1>7. CASE Decide
    BY <1>7 DEF Decide
  <1>8. CASE PollReturns
    <2>1. anfds' \in [Fds -> Anfd] /\ kernel' \in [Fds -> Registration]
      <3>0. \A f \in Fds : anfds[f] \in Anfd /\ kernel[f] \in Registration
        BY DEF Anfd, Registration
      <3>1. \A x \in Anfd : [x EXCEPT !.emask = x.events] \in Anfd
        BY DEF Anfd
      <3>2. \A x \in Anfd, y \in Registration : [y EXCEPT !.mask = x.events] \in Registration
        BY DEF Anfd, Registration
      <3>3. Unregistered \in Registration
        BY DEF Unregistered, Registration, Masks
      <3> QED
        BY <1>8, <3>0, <3>1, <3>2, <3>3 DEF PollReturns
    <2>2. \A f \in Fds : Fired(f) \in Revents
      BY DEF Fired, Revents, Masks
    <2>3. ASSUME NEW p \in Priorities PROVE pendings'[p] \in Seq(Entries)
      <3>1. PICK f \in Fds : f = CHOOSE g \in Fds : Priority(g) = p
        <4>1. \E g \in Fds : Priority(g) = p
          BY DEF Fds, Priorities, Priority
        <4> QED
          BY <4>1
      <3>2. pendings'[p] = IF Fired(f) = {} THEN pendings[p] ELSE Feed(pendings[p], f, Fired(f))
        BY <1>8, <3>1 DEF PollReturns
      <3> QED
        BY <2>2, <3>2, FeedType
    <2>4. pendings' \in [Priorities -> Seq(Entries)]
      BY <1>8, <2>3 DEF PollReturns
    <2> QED
      BY <1>8, <2>1, <2>4 DEF PollReturns, Anfd, Registration
  <1>9. CASE Unwant
    BY <1>9 DEF Unwant
  <1>10. CASE CheckSkipped
    <2>1. Feed(pendings["max"], "pipe", {"CUSTOM"}) \in Seq(Entries)
      BY FeedType DEF Priorities, Fds, Revents
    <2> QED
      BY <1>10, <2>1 DEF CheckSkipped, Priorities
  <1>11. ASSUME NEW p \in Priorities, pendings[p] # <<>> PROVE Popped(p) \in [Priorities -> Seq(Entries)]
    BY <1>11, SubSeqProperties DEF Popped
  <1>12. CASE InvokePipe
    BY <1>11, <1>12 DEF InvokePipe, Priorities
  <1>13. CASE PipeClear
    BY <1>13 DEF PipeClear
  <1>14. CASE PipeAsync
    <2>1. (scan' = asyncs \/ scan' = <<>>) /\ pc' \in {"scan", "invoke"}
      BY <1>14 DEF PipeAsync
    <2>2. scan' \in Seq(Asyncs)
      <3>1. CASE scan' = asyncs
        BY <3>1
      <3>2. CASE scan' = <<>>
        BY <3>2
      <3> QED
        BY <2>1, <3>1, <3>2
    <2>3. async_pending' = FALSE
      BY <1>14 DEF PipeAsync
    <2> QED
      BY <1>14, <2>1, <2>2, <2>3 DEF PipeAsync
  <1>15. CASE PipeScan
    <2>1. scan[Len(scan)] \in Asyncs /\ SubSeq(scan, 1, Len(scan) - 1) \in Seq(Asyncs)
      BY <1>15, SubSeqProperties DEF PipeScan
    <2>2. Feed(pendings["normal"], scan[Len(scan)], {"ASYNC"}) \in Seq(Entries)
      BY <2>1, FeedType DEF Priorities, Revents
    <2> QED
      BY <1>15, <2>1, <2>2 DEF PipeScan, Priorities
  <1>16. CASE PipeEnds
    BY <1>16 DEF PipeEnds
  <1>17. CASE InvokeAsync
    <2>1. pendings' \in [Priorities -> Seq(Entries)]
      <3>1. Popped("normal") \in [Priorities -> Seq(Entries)]
        BY <1>11, <1>17 DEF InvokeAsync, Lowest, Priorities
      <3>2. Cleared(Popped("normal")["normal"], "sock") \in Seq(Entries)
        BY <3>1, ClearedType DEF Priorities
      <3>3. \/ pendings' = Popped("normal")
            \/ pendings' = [Popped("normal") EXCEPT
                              !["normal"] = Cleared(Popped("normal")["normal"], "sock")]
        BY <1>17 DEF InvokeAsync
      <3>4. \A P \in [Priorities -> Seq(Entries)] : \A q \in Seq(Entries) :
              [P EXCEPT !["normal"] = q] \in [Priorities -> Seq(Entries)]
        OBVIOUS
      <3>5. CASE pendings' = Popped("normal")
        BY <3>1, <3>5
      <3>6. CASE pendings' = [Popped("normal") EXCEPT
                                !["normal"] = Cleared(Popped("normal")["normal"], "sock")]
        <4> DEFINE P == Popped("normal")
        <4>1. P \in [Priorities -> Seq(Entries)] /\ Cleared(P["normal"], "sock") \in Seq(Entries)
          BY <3>1, <3>2
        <4>2. pendings' = [P EXCEPT !["normal"] = Cleared(P["normal"], "sock")]
          BY <3>6
        <4> HIDE DEF P
        <4> QED
          BY <3>4, <4>1, <4>2
      <3> QED
        BY <3>3, <3>5, <3>6
    <2>2. NoCall => TypeOK'
      BY <1>17, <2>1 DEF InvokeAsync, NoCall
    <2>3. ASSUME NEW mask \in Interests, OpenSocket(mask) PROVE TypeOK'
      <3>1. anfds' \in [Fds -> Anfd] /\ fdchanges' \in Seq(Fds)
        BY <2>3, ChangedType DEF OpenSocket, IoStart, Fds, Anfd
      <3> QED
        BY <1>17, <2>1, <2>3, <3>1 DEF InvokeAsync, OpenSocket, IoStart, Anfd, Fds, Masks
    <2>4. ASSUME StopWatcher PROVE anfds' \in [Fds -> Anfd] /\ fdchanges' \in Seq(Fds)
      BY <2>4, ChangedType DEF StopWatcher, Fds, Anfd
    <2>5. StopSocket => TypeOK'
      BY <1>17, <2>1, <2>4 DEF InvokeAsync, StopSocket, StopWatcher, Anfd
    <2>6. CASE CloseSocket
      <3>1. kernel' \in [Fds -> Registration]
        BY <2>6 DEF CloseSocket, Registration, Unregistered, Masks
      <3>2. /\ active' \subseteq Fds /\ events' = events /\ open' = FALSE /\ ready' = {}
            /\ loop_done' \in BOOLEAN
        BY <2>6 DEF CloseSocket, StopWatcher
      <3> QED
        BY <1>17, <2>1, <2>4, <2>6, <3>1, <3>2 DEF InvokeAsync, CloseSocket, Anfd, Registration
    <2> QED
      BY <1>17, <2>2, <2>3, <2>5, <2>6 DEF InvokeAsync
  <1>18. CASE InvokeSocket
    BY <1>11, <1>18 DEF InvokeSocket, Lowest, Priorities
  <1>19. CASE EndTurn
    BY <1>19 DEF EndTurn
  <1>20. CASE PollTimesOut
    BY <1>20 DEF PollTimesOut
  <1>21. CASE PollInterrupted
    BY <1>21 DEF PollInterrupted
  <1>22. ASSUME NEW mask \in Interests, OpenFirst(mask) PROVE TypeOK'
    <2>1. anfds' \in [Fds -> Anfd] /\ fdchanges' \in Seq(Fds)
      BY <1>22, ChangedType DEF OpenFirst, OpenSocket, IoStart, Fds, Anfd
    <2> QED
      BY <1>22, <2>1 DEF OpenFirst, OpenSocket, IoStart, Anfd, Fds, Masks
  <1>23. ASSUME NEW r \in {"READ", "WRITE", "ERR"}, Arrive(r) PROVE TypeOK'
    BY <1>23 DEF Arrive
  <1>24. ASSUME NEW i \in DOMAIN asyncs, AsyncStop(i) PROVE TypeOK'
    <2>1. asyncs' \in Seq(Asyncs)
      <3>1. asyncs # <<>> /\ asyncs[Len(asyncs)] \in Asyncs
        BY <1>24
      <3>2. [asyncs EXCEPT ![i] = asyncs[Len(asyncs)]] \in Seq(Asyncs)
            /\ Len([asyncs EXCEPT ![i] = asyncs[Len(asyncs)]]) = Len(asyncs)
        BY <3>1, ExceptSeq
      <3> QED
        BY <1>24, <3>1, <3>2, SubSeqProperties DEF AsyncStop
    <2>2. pendings' \in [Priorities -> Seq(Entries)]
      BY <1>24, ClearedType DEF AsyncStop, Priorities
    <2> QED
      BY <1>24, <2>1, <2>2 DEF AsyncStop
  <1>25. CASE UNCHANGED vars
    BY <1>25 DEF vars
  <1> QED
    BY <1>1, <1>2, <1>3, <1>4, <1>5, <1>6, <1>7, <1>8, <1>9, <1>10, <1>12, <1>13, <1>14, <1>15,
       <1>16, <1>17, <1>18, <1>19, <1>20, <1>21, <1>22, <1>23, <1>24, <1>25
    DEF Next, Turn, Callbacks

\* Type correctness of the loop, its senders and its descriptors.
THEOREM TypeCorrect == Spec => []TypeOK
  BY TypeInit, TypeStep, PTL DEF Spec

(***************************************************************************)
(* Signals between the senders and the loop.                               *)
(***************************************************************************)

\* What ev_async_send and ev_run tell each other, and two facts about where the
\* loop is: it asks for bytes while it may sleep, and pipecb alone scans.
FlagInv ==
  /\ SentIsFlagged /\ FlagIsAnnounced /\ NoSleepOverSignal
  /\ pc \in {"decide", "poll", "unwant"} => pipe_write_wanted
  /\ scan # <<>> => pc = "scan"

LEMMA StartedAppend ==
  ASSUME asyncs \in Seq(Asyncs), NEW a \in Asyncs, asyncs' = Append(asyncs, a)
  PROVE  Started' = Started \cup {a}
  <1>1. /\ Len(asyncs) \in Nat /\ DOMAIN asyncs = 1..Len(asyncs)
        /\ DOMAIN asyncs' = 1..(Len(asyncs) + 1)
        /\ \A i \in 1..Len(asyncs) : asyncs'[i] = asyncs[i]
        /\ asyncs'[Len(asyncs) + 1] = a
    OBVIOUS
  <1> QED
    BY <1>1 DEF Started

\* A sequence without its last element.
LEMMA FrontOf ==
  ASSUME NEW S, NEW q \in Seq(S), q # <<>>
  PROVE  /\ SubSeq(q, 1, Len(q) - 1) \in Seq(S)
         /\ Len(SubSeq(q, 1, Len(q) - 1)) = Len(q) - 1
         /\ DOMAIN SubSeq(q, 1, Len(q) - 1) = 1..(Len(q) - 1)
         /\ \A i \in 1..(Len(q) - 1) : SubSeq(q, 1, Len(q) - 1)[i] = q[i]
  <1> DEFINE n == Len(q) - 1
             r == SubSeq(q, 1, n)
  <1>1. n \in Nat /\ n \in Int /\ 1 \in Int
    OBVIOUS
  <1>2. \A i \in 1..n : q[i] \in S
    OBVIOUS
  <1>3. /\ r \in Seq(S)
        /\ Len(r) = IF 1 <= n THEN n - 1 + 1 ELSE 0
        /\ \A i \in 1..(n - 1 + 1) : r[i] = q[1 + i - 1]
    BY <1>1, <1>2, SubSeqProperties
  <1> HIDE DEF r, n
  <1>4. Len(r) = n /\ DOMAIN r = 1..n
    <2>1. n - 1 + 1 = n /\ (1 <= n \/ n = 0)
      BY <1>1
    <2>2. Len(r) = n
      BY <1>3, <2>1
    <2> QED
      BY <1>3, <2>2
  <1>5. ASSUME NEW i \in 1..n PROVE r[i] = q[i]
    <2>1. i \in 1..(n - 1 + 1) /\ 1 + i - 1 = i
      BY <1>1
    <2> QED
      BY <1>3, <2>1
  <1> QED
    BY <1>3, <1>4, <1>5 DEF r, n

\* A sender that moves leaves the others where they are.
LEMMA BusyMoves ==
  ASSUME NEW s \in Senders, NEW to, NEW W, Goto(s, to), TypeOK
  PROVE  /\ to \in W => Busy(W)'
         /\ Busy(W) /\ sender[s] \notin W => Busy(W)'
  BY DEF Goto, Busy, TypeOK

LEMMA FlagInit == Init => FlagInv
  BY DEF Init, FlagInv, SentIsFlagged, FlagIsAnnounced, NoSleepOverSignal, Started

\* Every step of a sender keeps the promises: the flag is set before the skipped
\* write is announced, which precedes the look at pipe_write_wanted.
LEMMA FlagSender ==
  ASSUME TypeOK, FlagInv, NEW s \in Senders,
         Send(s) \/ \E a \in Asyncs : SetSent(s, a)
  PROVE  FlagInv'
  <1> USE DEF FlagInv, Sending, loopVars
  <1>0. /\ pc' = pc /\ scan' = scan /\ asyncs' = asyncs /\ block' = block
        /\ pipe_write_wanted' = pipe_write_wanted
    BY DEF Send, SetSent, ReadFlag, SetFlag, SetSkipped, ReadWanted, ClearSkipped, WriteByte
  <1>1. ASSUME NEW a \in Asyncs, SetSent(s, a) PROVE FlagInv'
    <2>1. \A W : Busy(W) => "idle" \in W \/ Busy(W)'
      BY <1>1, BusyMoves DEF SetSent
    <2>2. Busy({"flag", "set"})'
      BY <1>1, BusyMoves DEF SetSent
    <2> QED
      BY <1>0, <1>1, <2>1, <2>2
      DEF SetSent, SentIsFlagged, FlagIsAnnounced, NoSleepOverSignal, Started
  <1>2. CASE ReadFlag(s)
    <2>1. \A W : Busy(W) => "flag" \in W \/ Busy(W)'
      BY <1>2, BusyMoves DEF ReadFlag
    <2>2. ~async_pending => Busy({"flag", "set"})'
      BY <1>2, BusyMoves DEF ReadFlag
    <2> QED
      BY <1>0, <1>2, <2>1, <2>2
      DEF ReadFlag, flagVars, SentIsFlagged, FlagIsAnnounced, NoSleepOverSignal, Started
  <1>3. CASE SetFlag(s)
    <2>1. Busy({"skip", "unskip", "write"})' /\ Busy({"skip", "wanted", "unskip", "write"})'
      BY <1>3, BusyMoves DEF SetFlag
    <2> QED
      BY <1>0, <1>3, <2>1
      DEF SetFlag, SentIsFlagged, FlagIsAnnounced, NoSleepOverSignal, Started
  <1>4. CASE SetSkipped(s)
    <2>1. \A W : Busy(W) => "skip" \in W \/ Busy(W)'
      BY <1>4, BusyMoves DEF SetSkipped
    <2>2. Busy({"skip", "wanted", "unskip", "write"})'
      BY <1>4, BusyMoves DEF SetSkipped
    <2> QED
      BY <1>0, <1>4, <2>1, <2>2
      DEF SetSkipped, SentIsFlagged, FlagIsAnnounced, NoSleepOverSignal, Started
  <1>5. CASE ReadWanted(s)
    <2>1. \A W : Busy(W) => "wanted" \in W \/ Busy(W)'
      BY <1>5, BusyMoves DEF ReadWanted
    <2>2. pipe_write_wanted => Busy({"skip", "wanted", "unskip", "write"})'
      BY <1>5, BusyMoves DEF ReadWanted
    <2> QED
      BY <1>0, <1>5, <2>1, <2>2
      DEF ReadWanted, flagVars, SentIsFlagged, FlagIsAnnounced, NoSleepOverSignal, Started
  <1>6. CASE ClearSkipped(s)
    <2>1. \A W : Busy(W) => "unskip" \in W \/ Busy(W)'
      BY <1>6, BusyMoves DEF ClearSkipped
    <2>2. Busy({"skip", "unskip", "write"})' /\ Busy({"skip", "wanted", "unskip", "write"})'
      BY <1>6, BusyMoves DEF ClearSkipped
    <2> QED
      BY <1>0, <1>6, <2>1, <2>2
      DEF ClearSkipped, SentIsFlagged, FlagIsAnnounced, NoSleepOverSignal, Started
  <1>7. CASE WriteByte(s)
    <2>1. \A W : Busy(W) => "write" \in W \/ Busy(W)'
      BY <1>7, BusyMoves DEF WriteByte
    <2>2. bytes' > 0
      BY <1>7 DEF WriteByte, TypeOK
    <2> QED
      BY <1>0, <1>7, <2>1, <2>2
      DEF WriteByte, SentIsFlagged, FlagIsAnnounced, NoSleepOverSignal, Started
  <1> QED
    BY <1>1, <1>2, <1>3, <1>4, <1>5, <1>6, <1>7 DEF Send

\* Every step of the loop's thread or of the network does, too: pipecb resets the
\* flag before it looks at the watchers, and the loop asks for bytes before it
\* looks at the skipped writes.
LEMMA FlagLoop ==
  ASSUME TypeOK, FlagInv, UNCHANGED sender, UNCHANGED vars \/ Turn \/ Run
           \/ PollTimesOut \/ PollInterrupted
           \/ (\E a \in Asyncs : AsyncStart(a)) \/ (\E mask \in Interests : OpenFirst(mask))
           \/ (\E r \in {"READ", "WRITE", "ERR"} : Arrive(r))
           \/ (\E i \in DOMAIN asyncs : AsyncStop(i))
  PROVE  FlagInv'
  <1> USE DEF FlagInv, Loop, flagVars, loopVars
  <1>0. \A W : Busy(W)' <=> Busy(W)
    BY DEF Busy
  <1>1. ASSUME NEW a \in Asyncs, AsyncStart(a) PROVE FlagInv'
    <2>1. Started' = Started \cup {a}
      BY <1>1, StartedAppend DEF AsyncStart, TypeOK
    <2> QED
      BY <1>0, <1>1, <2>1 DEF AsyncStart, SentIsFlagged, FlagIsAnnounced, NoSleepOverSignal
  <1>2. CASE Decide
    <2>1. Busy({"skip", "unskip", "write"}) => Busy({"skip", "wanted", "unskip", "write"})
      BY DEF Busy
    <2> QED
      BY <1>0, <1>2, <2>1 DEF Decide, SentIsFlagged, FlagIsAnnounced, NoSleepOverSignal, Started
  <1>3. CASE PollReturns \/ PollTimesOut \/ PollInterrupted
    BY <1>0, <1>3 DEF PollReturns, PollTimesOut, PollInterrupted,
                      SentIsFlagged, FlagIsAnnounced, NoSleepOverSignal, Started
  <1>4. CASE InvokePipe \/ PipeClear
    BY <1>0, <1>4 DEF InvokePipe, PipeClear,
                      SentIsFlagged, FlagIsAnnounced, NoSleepOverSignal, Started
  <1>5. CASE PipeAsync
    <2>1. scan = <<>>
      BY <1>5 DEF PipeAsync
    <2>2. async_pending => scan' = asyncs
      BY <1>5 DEF PipeAsync
    <2>3. SentIsFlagged'
      BY <1>0, <1>5, <2>1, <2>2 DEF PipeAsync, SentIsFlagged, Started
    <2> QED
      BY <1>5, <2>3 DEF PipeAsync, FlagIsAnnounced, NoSleepOverSignal
  <1>6. CASE PipeScan
    <2> DEFINE n == Len(scan)
    <2>1. /\ n \in Nat /\ n > 0 /\ DOMAIN scan = 1..n
          /\ scan' = SubSeq(scan, 1, n - 1)
      BY <1>6 DEF PipeScan, TypeOK
    <2>2. /\ DOMAIN scan' = 1..(n - 1)
          /\ \A i \in 1..(n - 1) : scan'[i] = scan[i]
      <3>1. scan \in Seq(Asyncs) /\ scan # <<>>
        BY <1>6 DEF PipeScan, TypeOK
      <3> QED
        BY ONLY <2>1, <3>1, FrontOf
    <2>3. /\ sent' = sent \ {scan[n]} /\ asyncs' = asyncs /\ pc' = pc
          /\ async_pending' = async_pending /\ Started' = Started
      BY <1>6 DEF PipeScan, Started
    <2>4. ASSUME NEW a \in sent' \cap Started', ~async_pending, ~Busy({"flag", "set"})
          PROVE  \E i \in DOMAIN scan' : scan'[i] = a
      <3> HIDE DEF n
      <3>1. PICK i \in DOMAIN scan : scan[i] = a
        BY <1>6, <2>3, <2>4 DEF SentIsFlagged, PipeScan
      <3>2. i # n /\ i \in 1..(n - 1)
        BY <2>1, <2>3, <3>1
      <3> QED
        BY <2>2, <3>1, <3>2
    <2>5. SentIsFlagged'
      BY <1>0, <2>3, <2>4 DEF SentIsFlagged
    <2> QED
      BY <1>0, <1>6, <2>5 DEF PipeScan, FlagIsAnnounced, NoSleepOverSignal
  <1>7. CASE PipeEnds \/ Unwant \/ CheckSkipped \/ EndTurn \/ Run
    BY <1>0, <1>7 DEF PipeEnds, Unwant, CheckSkipped, EndTurn, Run,
                      SentIsFlagged, FlagIsAnnounced, NoSleepOverSignal, Started
  <1>8. CASE fd_reify \/ fd_kill
    BY <1>0, <1>8 DEF fd_reify, fd_kill,
                      SentIsFlagged, FlagIsAnnounced, NoSleepOverSignal, Started
  <1>9. CASE InvokeAsync \/ InvokeSocket
    BY <1>0, <1>9 DEF InvokeAsync, InvokeSocket, Lowest,
                      SentIsFlagged, FlagIsAnnounced, NoSleepOverSignal, Started
  <1>10. ASSUME NEW mask \in Interests, OpenFirst(mask) PROVE FlagInv'
    BY <1>0, <1>10 DEF OpenFirst, SentIsFlagged, FlagIsAnnounced, NoSleepOverSignal, Started
  <1>11. ASSUME NEW r \in {"READ", "WRITE", "ERR"}, Arrive(r) PROVE FlagInv'
    BY <1>0, <1>11 DEF Arrive, SentIsFlagged, FlagIsAnnounced, NoSleepOverSignal, Started
  <1>12. ASSUME NEW i \in DOMAIN asyncs, AsyncStop(i) PROVE FlagInv'
    BY <1>0, <1>12 DEF AsyncStop, SentIsFlagged, FlagIsAnnounced, NoSleepOverSignal
  <1>13. CASE UNCHANGED vars
    BY <1>0, <1>13 DEF vars, SentIsFlagged, FlagIsAnnounced, NoSleepOverSignal, Started
  <1> QED
    BY <1>1, <1>2, <1>3, <1>4, <1>5, <1>6, <1>7, <1>8, <1>9, <1>10, <1>11, <1>12, <1>13
    DEF Turn, Callbacks

LEMMA FlagStep == TypeOK /\ FlagInv /\ [Next]_vars => FlagInv'
  <1> SUFFICES ASSUME TypeOK, FlagInv, [Next]_vars PROVE FlagInv'
    OBVIOUS
  <1>1. ASSUME NEW s \in Senders, Send(s) \/ \E a \in Asyncs : SetSent(s, a) PROVE FlagInv'
    BY <1>1, FlagSender
  <1>2. CASE ~\E s \in Senders : Send(s) \/ \E a \in Asyncs : SetSent(s, a)
    <2>1. UNCHANGED sender
      BY <1>2 DEF Next, Turn, Callbacks, vars, sendVars, AsyncStart, Run, fd_reify, fd_kill,
        Decide, PollReturns, PollTimesOut, PollInterrupted, Unwant, CheckSkipped, InvokePipe,
        PipeClear, PipeAsync, PipeScan, PipeEnds, InvokeAsync, InvokeSocket, EndTurn, OpenFirst,
        Arrive, AsyncStop
    <2> QED
      BY <1>2, <2>1, FlagLoop DEF Next
  <1> QED
    BY <1>1, <1>2

\* A signal is not left behind.
THEOREM SignalsAreFlagged == Spec => []SentIsFlagged
  <1>1. TypeOK /\ FlagInv => SentIsFlagged
    BY DEF FlagInv
  <1> QED
    BY TypeCorrect, FlagInit, FlagStep, <1>1, PTL DEF Spec

\* The flag is announced to the loop.
THEOREM FlagsAreAnnounced == Spec => []FlagIsAnnounced
  <1>1. TypeOK /\ FlagInv => FlagIsAnnounced
    BY DEF FlagInv
  <1> QED
    BY TypeCorrect, FlagInit, FlagStep, <1>1, PTL DEF Spec

\* The loop does not sleep over a signal.
THEOREM NoSleep == Spec => []NoSleepOverSignal
  <1>1. TypeOK /\ FlagInv => NoSleepOverSignal
    BY DEF FlagInv
  <1> QED
    BY TypeCorrect, FlagInit, FlagStep, <1>1, PTL DEF Spec

(***************************************************************************)
(* Pending watchers are active.                                            *)
(***************************************************************************)

\* Where the entries of a list come from.
LEMMA FeedEach ==
  ASSUME NEW q \in Seq(Entries), NEW w, NEW r, NEW i \in DOMAIN Feed(q, w, r)
  PROVE  \/ \E j \in DOMAIN q : Feed(q, w, r)[i] = q[j]
         \/ /\ Feed(q, w, r)[i].w = w
            /\ \/ Feed(q, w, r)[i].revents = r
               \/ \E j \in DOMAIN q : q[j].w = w /\ Feed(q, w, r)[i].revents = q[j].revents \cup r
  <1>1. CASE Has(q, w)
    BY <1>1 DEF Feed
  <1>2. CASE ~Has(q, w)
    <2>1. Feed(q, w, r) = Append(q, [w |-> w, revents |-> r])
      BY <1>2 DEF Feed
    <2>2. /\ DOMAIN Append(q, [w |-> w, revents |-> r]) = 1..(Len(q) + 1)
          /\ DOMAIN q = 1..Len(q)
          /\ \A j \in 1..Len(q) : Append(q, [w |-> w, revents |-> r])[j] = q[j]
          /\ Append(q, [w |-> w, revents |-> r])[Len(q) + 1] = [w |-> w, revents |-> r]
      OBVIOUS
    <2> QED
      BY <2>1, <2>2
  <1> QED
    BY <1>1, <1>2

LEMMA ClearedEach ==
  ASSUME NEW q \in Seq(Entries), NEW w, NEW i \in DOMAIN Cleared(q, w)
  PROVE  /\ i \in DOMAIN q
         /\ \/ q[i].w # w /\ Cleared(q, w)[i] = q[i]
            \/ q[i].w = w /\ Cleared(q, w)[i].w = PendingW
  BY DEF Cleared, Entries

\* The last entry of one list is taken.
LEMMA PoppedEach ==
  ASSUME pendings \in [Priorities -> Seq(Entries)], NEW p \in Priorities, pendings[p] # <<>>,
         NEW x \in Priorities, NEW i \in DOMAIN Popped(p)[x]
  PROVE  i \in DOMAIN pendings[x] /\ Popped(p)[x][i] = pendings[x][i]
  <1>1. CASE x # p
    BY <1>1 DEF Popped
  <1>2. CASE x = p
    <2>1. pendings[p] \in Seq(Entries) /\ DOMAIN pendings[p] = 1..Len(pendings[p])
      OBVIOUS
    <2>2. Popped(p)[p] = SubSeq(pendings[p], 1, Len(pendings[p]) - 1)
      BY DEF Popped
    <2>3. i \in 1..(Len(pendings[p]) - 1) /\ Popped(p)[p][i] = pendings[p][i]
      BY <1>2, <2>1, <2>2, FrontOf
    <2> QED
      BY <1>2, <2>1, <2>3
  <1> QED
    BY <1>1, <1>2

\* PendingActive of one entry.
Fits(e, A) == e.w \in Fds => e.w \in A \/ "ERROR" \in e.revents

\* The pipe is active when the loop runs, and it alone has the high priority.
PendingInv ==
  /\ PendingActive
  /\ asyncs # <<>> \/ pc # "init" => "pipe" \in active
  /\ \A i \in DOMAIN pendings["max"] : pendings["max"][i].w = "pipe"

LEMMA FeedFits ==
  ASSUME NEW q \in Seq(Entries), NEW w \in Asyncs \cup Fds, NEW r,
         \A i \in DOMAIN q : Fits(q[i], active), w \in Fds => w \in active \/ "ERROR" \in r
  PROVE  \A i \in DOMAIN Feed(q, w, r) : Fits(Feed(q, w, r)[i], active)
  BY FeedEach DEF Fits

LEMMA PendingInit == Init => PendingInv
  BY DEF Init, PendingInv, PendingActive, Priorities

\* Every step keeps the pending watchers active: what stops a watcher clears it.
LEMMA PendingStep == TypeOK /\ PendingInv /\ [Next]_vars => PendingInv'
  <1> SUFFICES ASSUME TypeOK, PendingInv, [Next]_vars PROVE PendingInv'
    OBVIOUS
  <1> USE DEF Loop, loopVars, ioVars
  <1>0. /\ pendings \in [Priorities -> Seq(Entries)] /\ asyncs \in Seq(Asyncs)
        /\ \A p \in Priorities : \A i \in DOMAIN pendings[p] : Fits(pendings[p][i], active)
        /\ asyncs # <<>> \/ pc # "init" => "pipe" \in active
        /\ \A i \in DOMAIN pendings["max"] : pendings["max"][i].w = "pipe"
    BY DEF TypeOK, PendingInv, PendingActive, Fits
  <1>a. SUFFICES /\ \A p \in Priorities : \A i \in DOMAIN pendings'[p] : Fits(pendings'[p][i], active')
                 /\ asyncs' # <<>> \/ pc' # "init" => "pipe" \in active'
                 /\ \A i \in DOMAIN pendings'["max"] : pendings'["max"][i].w = "pipe"
    BY DEF PendingInv, PendingActive, Fits
  <1>1. CASE UNCHANGED <<pendings, active, asyncs>> /\ (pc' # "init" => pc # "init" \/ asyncs # <<>>)
    BY <1>0, <1>1 DEF Fits
  <1>2. ASSUME NEW a \in Asyncs, AsyncStart(a)
        PROVE  active' = active \cup {"pipe"} /\ UNCHANGED pendings
    BY <1>2 DEF AsyncStart, IoStart
  <1>3. CASE \E a \in Asyncs : AsyncStart(a)
    BY <1>0, <1>2, <1>3 DEF Fits
  <1>4. CASE fd_kill
    <2> DEFINE q == Cleared(pendings["normal"], "sock")
    <2>1. pendings' = [pendings EXCEPT !["normal"] = Feed(q, "sock", {"ERROR", "READ", "WRITE"})]
          /\ active' = active \ {"sock"} /\ asyncs' = asyncs /\ pc # "init"
      BY <1>4 DEF fd_kill
    <2>2. q \in Seq(Entries) /\ \A i \in DOMAIN q : q[i].w # "sock" /\ Fits(q[i], active)
      BY <1>0, ClearedType, ClearedEach, EvLoopAssumption DEF Priorities, Fits, Fds
    <2> HIDE DEF q
    <2>3. ASSUME NEW i \in DOMAIN Feed(q, "sock", {"ERROR", "READ", "WRITE"})
          PROVE  Fits(Feed(q, "sock", {"ERROR", "READ", "WRITE"})[i], active')
      BY <2>1, <2>2, FeedEach DEF Fits
    <2>4. \A i \in DOMAIN pendings["max"] : Fits(pendings["max"][i], active')
      BY <1>0, <2>1 DEF Fits, Priorities
    <2> QED
      BY <1>0, <2>1, <2>3, <2>4 DEF Priorities, Fits
  <1>5. CASE PollReturns
    <2>1. UNCHANGED <<active, asyncs>> /\ pc # "init"
      BY <1>5 DEF PollReturns
    <2>2. \A f \in Fds : Fired(f) # {} => f \in active
      BY DEF Fired
    <2>3. ASSUME NEW p \in Priorities
          PROVE  \/ pendings'[p] = pendings[p]
                 \/ \E f \in Fds : /\ Priority(f) = p /\ f \in active
                                  /\ pendings'[p] = Feed(pendings[p], f, Fired(f))
      <3>1. PICK f \in Fds : f = (CHOOSE g \in Fds : Priority(g) = p) /\ Priority(f) = p
        <4>1. \E g \in Fds : Priority(g) = p
          BY DEF Fds, Priorities, Priority
        <4> QED
          BY <4>1
      <3>2. pendings'[p] = IF Fired(f) = {} THEN pendings[p] ELSE Feed(pendings[p], f, Fired(f))
        BY <1>5, <3>1 DEF PollReturns
      <3> QED
        BY <2>2, <3>1, <3>2
    <2>4. ASSUME NEW p \in Priorities, NEW i \in DOMAIN pendings'[p] PROVE Fits(pendings'[p][i], active')
      <3>1. pendings[p] \in Seq(Entries) /\ \A j \in DOMAIN pendings[p] : Fits(pendings[p][j], active)
        BY <1>0
      <3> QED
        BY <2>1, <2>3, <2>4, <3>1, FeedFits DEF Fits
    <2>5. ASSUME NEW i \in DOMAIN pendings'["max"] PROVE pendings'["max"][i].w = "pipe"
      <3>1. \A f \in Fds : Priority(f) = "max" => f = "pipe"
        BY DEF Fds, Priority
      <3>2. pendings["max"] \in Seq(Entries) /\ "max" \in Priorities
        BY <1>0 DEF Priorities
      <3> QED
        BY <1>0, <2>3, <2>5, <3>1, <3>2, FeedEach
    <2> QED
      BY <1>0, <2>1, <2>4, <2>5
  <1>6. CASE CheckSkipped
    <2>1. /\ UNCHANGED <<active, asyncs>> /\ "pipe" \in active
          /\ pendings' = pendings \/ pendings' = [pendings EXCEPT !["max"] = Feed(@, "pipe", {"CUSTOM"})]
      BY <1>0, <1>6 DEF CheckSkipped
    <2>2. ASSUME NEW i \in DOMAIN Feed(pendings["max"], "pipe", {"CUSTOM"})
          PROVE  /\ Feed(pendings["max"], "pipe", {"CUSTOM"})[i].w = "pipe"
                 /\ Fits(Feed(pendings["max"], "pipe", {"CUSTOM"})[i], active)
      BY <1>0, <2>1, FeedEach DEF Fits, Priorities
    <2> QED
      BY <1>0, <2>1, <2>2 DEF Fits, Priorities
  <1>7. ASSUME NEW p \in Priorities, pendings[p] # <<>>, NEW x \in Priorities,
               NEW i \in DOMAIN Popped(p)[x]
        PROVE  i \in DOMAIN pendings[x] /\ Popped(p)[x][i] = pendings[x][i]
    BY <1>0, <1>7, PoppedEach
  <1>8. CASE InvokePipe
    BY <1>0, <1>7, <1>8 DEF InvokePipe, Priorities, Fits
  <1>9. CASE PipeScan
    <2> DEFINE a == scan[Len(scan)]
    <2>1. a \in Asyncs
      BY <1>9 DEF PipeScan, TypeOK
    <2>2. /\ UNCHANGED <<active, asyncs, pc>>
          /\ pendings' = pendings \/ pendings' = [pendings EXCEPT !["normal"] = Feed(@, a, {"ASYNC"})]
      BY <1>9 DEF PipeScan
    <2> HIDE DEF a
    <2>3. ASSUME NEW i \in DOMAIN Feed(pendings["normal"], a, {"ASYNC"})
          PROVE  Fits(Feed(pendings["normal"], a, {"ASYNC"})[i], active)
      BY <1>0, <2>1, FeedFits, EvLoopAssumption DEF Priorities, Fds
    <2> QED
      BY <1>0, <2>2, <2>3 DEF Priorities, Fits
  <1>10. CASE InvokeAsync
    <2>0. PICK P : P = Popped("normal")
      OBVIOUS
    <2>1. pendings["normal"] # <<>> /\ UNCHANGED <<asyncs, pc>> /\ pc # "init"
      BY <1>10 DEF InvokeAsync, Lowest
    <2>2. \A x \in Priorities : \A i \in DOMAIN P[x] :
             i \in DOMAIN pendings[x] /\ P[x][i] = pendings[x][i]
      BY <1>7, <2>0, <2>1 DEF Priorities
    <2>3. P \in [Priorities -> Seq(Entries)]
      BY <1>0, <2>0, <2>1, FrontOf DEF Popped, Priorities
    <2>4. \/ pendings' = P /\ active \subseteq active'
          \/ /\ pendings' = [P EXCEPT !["normal"] = Cleared(P["normal"], "sock")]
             /\ active' = active \ {"sock"}
      BY <1>10, <2>0 DEF InvokeAsync, NoCall, OpenSocket, IoStart, StopSocket, CloseSocket, StopWatcher
    <2>5. CASE pendings' = P /\ active \subseteq active'
      BY <1>0, <2>1, <2>2, <2>5 DEF Fits, Priorities
    <2>6. CASE /\ pendings' = [P EXCEPT !["normal"] = Cleared(P["normal"], "sock")]
               /\ active' = active \ {"sock"}
      <3>1. ASSUME NEW i \in DOMAIN Cleared(P["normal"], "sock")
            PROVE  Fits(Cleared(P["normal"], "sock")[i], active')
        BY <1>0, <2>2, <2>3, <2>6, <3>1, ClearedEach, EvLoopAssumption DEF Fits, Fds, Priorities
      <3>2. \A i \in DOMAIN P["max"] : P["max"][i].w = "pipe" /\ Fits(P["max"][i], active')
        BY <1>0, <2>2, <2>6 DEF Fits, Priorities
      <3> QED
        BY <1>0, <2>1, <2>3, <2>6, <3>1, <3>2 DEF Priorities, Fits
    <2> QED
      BY <2>4, <2>5, <2>6
  <1>11. CASE InvokeSocket
    BY <1>0, <1>7, <1>11 DEF InvokeSocket, Lowest, Priorities, Fits
  <1>12. ASSUME NEW mask \in Interests, OpenFirst(mask) PROVE UNCHANGED <<pendings, asyncs, pc>> /\ active \subseteq active'
    BY <1>12 DEF OpenFirst, OpenSocket, IoStart
  <1>13. CASE \E mask \in Interests : OpenFirst(mask)
    BY <1>0, <1>12, <1>13 DEF Fits
  <1>14. ASSUME NEW i \in DOMAIN asyncs, AsyncStop(i)
         PROVE  \A p \in Priorities : \A j \in DOMAIN pendings'[p] : Fits(pendings'[p][j], active')
    <2>1. /\ pendings' = [pendings EXCEPT !["normal"] = Cleared(@, asyncs[i])]
          /\ active' = active
      BY <1>14 DEF AsyncStop
    <2>2. \A j \in DOMAIN Cleared(pendings["normal"], asyncs[i]) :
             Fits(Cleared(pendings["normal"], asyncs[i])[j], active)
      BY <1>0, ClearedEach, EvLoopAssumption DEF Fits, Fds, Priorities
    <2> QED
      BY <1>0, <2>1, <2>2 DEF Priorities, Fits
  <1>15. CASE \E i \in DOMAIN asyncs : AsyncStop(i)
    <2>1. pendings'["max"] = pendings["max"] /\ active' = active /\ pc # "init"
      BY <1>0, <1>15 DEF AsyncStop, Priorities
    <2> QED
      BY <1>0, <1>14, <1>15, <2>1
  <1>16. CASE \/ \E s \in Senders : Send(s) \/ \E a \in Asyncs : SetSent(s, a)
              \/ Run \/ fd_reify \/ Decide \/ PollTimesOut \/ PollInterrupted \/ Unwant
              \/ PipeClear \/ PipeAsync \/ PipeEnds \/ EndTurn
              \/ \E r \in {"READ", "WRITE", "ERR"} : Arrive(r)
              \/ UNCHANGED vars
    <2>1. UNCHANGED <<pendings, active, asyncs>> /\ (pc' # "init" => pc # "init" \/ asyncs # <<>>)
      BY <1>16 DEF Send, Sending, ReadFlag, SetFlag, SetSkipped, ReadWanted, ClearSkipped, WriteByte,
        SetSent, Run, fd_reify, Decide, PollTimesOut, PollInterrupted, Unwant, PipeClear, PipeAsync,
        PipeEnds, EndTurn, Arrive, vars
    <2> QED
      BY <1>1, <2>1
  <1> QED
    BY <1>3, <1>4, <1>5, <1>6, <1>8, <1>9, <1>10, <1>11, <1>13, <1>15, <1>16
    DEF Next, Turn, Callbacks

\* A callback is pending for an active watcher only, or to report an error.
THEOREM PendingsAreActive == Spec => []PendingActive
  <1>1. TypeOK /\ PendingInv => PendingActive
    BY DEF PendingInv
  <1> QED
    BY TypeCorrect, PendingInit, PendingStep, <1>1, PTL DEF Spec

(***************************************************************************)
(* The kernel's registrations.                                             *)
(***************************************************************************)

\* What the loop knows of a registration is true; a descriptor that is marked is
\* among the changes; and an active watcher is registered with its mask unless
\* its descriptor is marked as a new one.
Known(f) == /\ kernel[f] # Unregistered =>
                 kernel[f].mask = anfds[f].emask /\ kernel[f].egen = anfds[f].egen
            /\ anfds[f].reify # {} => f \in Touched
            /\ f \in active => events[f] # {}
            /\ f \in active /\ "IOFDSET" \notin anfds[f].reify =>
                 anfds[f].events = events[f] /\ kernel[f].mask = events[f]

\* No descriptor is marked as a new one when the loop waits.
KernelInv == /\ \A f \in Fds : Known(f)
             /\ pc \in {"decide", "poll"} => \A f \in active : "IOFDSET" \notin anfds[f].reify

LEMMA KernelInit == Init => KernelInv
  BY DEF Init, KernelInv, Known

\* Starting or stopping a watcher marks its descriptor.
LEMMA ChangedKnown ==
  ASSUME TypeOK, NEW f \in Fds, NEW flags \in SUBSET {"REIFY", "IOFDSET"}, flags # {},
         Changed(f, flags)
  PROVE  /\ anfds'[f] = [anfds[f] EXCEPT !.reify = @ \cup flags]
         /\ \A g \in Fds \ {f} : anfds'[g] = anfds[g]
         /\ anfds[f].reify # {} \/ f \in Touched'
         /\ Touched \subseteq Touched'
  <1>1. /\ anfds'[f] = [anfds[f] EXCEPT !.reify = @ \cup flags]
        /\ \A g \in Fds \ {f} : anfds'[g] = anfds[g]
    BY DEF Changed, TypeOK
  <1>2. fdchanges \in Seq(Fds) /\ (fdchanges' = fdchanges \/ fdchanges' = Append(fdchanges, f))
    BY DEF Changed, TypeOK
  <1>3. fdchanges' = Append(fdchanges, f) => Touched' = Touched \cup {f}
    <2>1. /\ Len(fdchanges) \in Nat /\ DOMAIN fdchanges = 1..Len(fdchanges)
          /\ DOMAIN Append(fdchanges, f) = 1..(Len(fdchanges) + 1)
          /\ \A i \in 1..Len(fdchanges) : Append(fdchanges, f)[i] = fdchanges[i]
          /\ Append(fdchanges, f)[Len(fdchanges) + 1] = f
      BY <1>2
    <2> QED
      BY <2>1 DEF Touched
  <1>4. Touched' = Touched \/ Touched' = Touched \cup {f}
    BY <1>2, <1>3 DEF Touched
  <1>5. anfds[f].reify = {} => fdchanges' = Append(fdchanges, f)
    BY DEF Changed
  <1> QED
    BY <1>1, <1>3, <1>4, <1>5

LEMMA StartKnown ==
  ASSUME TypeOK, NEW f \in Fds, NEW mask \in Masks \ {{}}, IoStart(f, mask),
         kernel' = kernel, \A g \in Fds : Known(g)
  PROVE  \A g \in Fds : Known(g)'
  <1>1. /\ anfds'[f] = [anfds[f] EXCEPT !.reify = @ \cup {"IOFDSET", "REIFY"}]
        /\ \A g \in Fds \ {f} : anfds'[g] = anfds[g]
        /\ anfds[f].reify # {} \/ f \in Touched'
        /\ Touched \subseteq Touched'
    BY ChangedKnown DEF IoStart
  <1>2. /\ active' = active \cup {f} /\ events'[f] = mask
        /\ \A g \in Fds \ {f} : events'[g] = events[g]
    BY DEF IoStart, TypeOK
  <1>3. anfds'[f].reify # {} /\ "IOFDSET" \in anfds'[f].reify
        /\ anfds'[f].emask = anfds[f].emask /\ anfds'[f].egen = anfds[f].egen
    BY <1>1 DEF TypeOK
  <1>4. Known(f)'
    BY <1>1, <1>2, <1>3 DEF Known
  <1>5. ASSUME NEW g \in Fds \ {f} PROVE Known(g)'
    BY <1>1, <1>2 DEF Known
  <1> QED
    BY <1>4, <1>5

LEMMA StopKnown ==
  ASSUME TypeOK, StopWatcher, \A g \in Fds : Known(g),
         kernel' = kernel \/ kernel' = [kernel EXCEPT !["sock"] = Unregistered]
  PROVE  \A g \in Fds : Known(g)'
  <1>0. "sock" \in Fds
    BY DEF Fds
  <1>1. /\ anfds'["sock"] = [anfds["sock"] EXCEPT !.reify = @ \cup {"REIFY"}]
        /\ \A g \in Fds \ {"sock"} : anfds'[g] = anfds[g]
        /\ anfds["sock"].reify # {} \/ "sock" \in Touched'
        /\ Touched \subseteq Touched'
    BY <1>0, ChangedKnown DEF StopWatcher
  <1>2. active' = active \ {"sock"} /\ events' = events
    BY DEF StopWatcher
  <1>3. anfds'["sock"].emask = anfds["sock"].emask /\ anfds'["sock"].egen = anfds["sock"].egen
    BY <1>0, <1>1 DEF TypeOK
  <1>4. /\ \A g \in Fds \ {"sock"} : kernel'[g] = kernel[g]
        /\ kernel'["sock"] = kernel["sock"] \/ kernel'["sock"] = Unregistered
    BY <1>0 DEF TypeOK
  <1>5. Known("sock")'
    BY <1>0, <1>1, <1>2, <1>3, <1>4 DEF Known
  <1>6. ASSUME NEW g \in Fds \ {"sock"} PROVE Known(g)'
    BY <1>1, <1>2, <1>4 DEF Known
  <1> QED
    BY <1>5, <1>6

\* fd_reify brings the kernel in step.
LEMMA ReifiedKnown ==
  ASSUME TypeOK, NEW f \in Fds, Known(f)
  PROVE  LET a == Reified(f).anfd
             k == Reified(f).kernel
         IN /\ a.reify = {}
            /\ k # Unregistered => k.mask = a.emask /\ k.egen = a.egen
            /\ f \in active => a.events = events[f] /\ k.mask = events[f]
  <1>1. CASE f \notin Touched
    BY <1>1 DEF Reified, Known
  <1> DEFINE e == epoll_modify(f, anfds[f].events, Wanted(f))
  <1>2. /\ e.kernel # Unregistered => e.kernel.mask = e.emask /\ e.kernel.egen = e.egen
        /\ Wanted(f) # {} => e.kernel.mask = Wanted(f)
    BY DEF epoll_modify, Known
  <1>3. f \in active => Wanted(f) = events[f] /\ events[f] # {}
    BY DEF Wanted, Known
  <1> HIDE DEF e
  <1>4. CASE f \in Touched /\ Modify(f)
    <2>1. /\ Reified(f).anfd = [events |-> Wanted(f), reify |-> {}, emask |-> e.emask, egen |-> e.egen]
          /\ Reified(f).kernel = e.kernel
      BY <1>4 DEF Reified, e
    <2> QED
      BY <1>2, <1>3, <2>1
  <1>5. CASE f \in Touched /\ ~Modify(f)
    <2>1. /\ Reified(f).anfd = [events |-> Wanted(f), reify |-> {}, emask |-> anfds[f].emask,
                                egen |-> anfds[f].egen]
          /\ Reified(f).kernel = kernel[f]
      BY <1>5 DEF Reified
    <2>2. "IOFDSET" \notin anfds[f].reify
      BY <1>5 DEF Modify
    <2> QED
      BY <1>3, <2>1, <2>2 DEF Known
  <1> QED
    BY <1>1, <1>4, <1>5

\* An event that is not wanted leaves the registration of an active watcher as
\* it was.
LEMMA PollKnown ==
  ASSUME TypeOK, PollReturns, NEW f \in Fds, Known(f)
  PROVE  Known(f)' /\ anfds'[f].reify = anfds[f].reify
  <1>1. /\ anfds'[f] = IF Unwanted(f) THEN [anfds[f] EXCEPT !.emask = anfds[f].events] ELSE anfds[f]
        /\ kernel'[f] = IF ~Unwanted(f) THEN kernel[f]
                        ELSE IF anfds[f].events = {} THEN Unregistered
                        ELSE [kernel[f] EXCEPT !.mask = anfds[f].events]
        /\ active' = active /\ events' = events /\ Touched' = Touched
    BY DEF PollReturns, Touched
  <1>2. CASE ~Unwanted(f)
    BY <1>1, <1>2 DEF Known
  <1>3. CASE Unwanted(f)
    <2>1. kernel[f] # Unregistered
      BY <1>3 DEF Unwanted, Reported
    <2>2. /\ anfds'[f].emask = anfds[f].events /\ anfds'[f].egen = anfds[f].egen
          /\ anfds'[f].reify = anfds[f].reify /\ anfds'[f].events = anfds[f].events
      BY <1>1, <1>3 DEF TypeOK
    <2>3. CASE anfds[f].events = {}
      BY <1>1, <1>3, <2>2, <2>3 DEF Known
    <2>4. CASE anfds[f].events # {}
      <3>1. kernel'[f].mask = anfds[f].events /\ kernel'[f].egen = kernel[f].egen
        BY <1>1, <1>3, <2>4 DEF TypeOK
      <3> QED
        BY <1>1, <2>1, <2>2, <3>1 DEF Known
    <2> QED
      BY <2>3, <2>4
  <1> QED
    BY <1>2, <1>3

LEMMA KernelStep == TypeOK /\ KernelInv /\ [Next]_vars => KernelInv'
  <1> SUFFICES ASSUME TypeOK, KernelInv, [Next]_vars PROVE KernelInv'
    OBVIOUS
  <1> USE DEF Loop, ioVars
  <1>0. \A f \in Fds : Known(f)
    BY DEF KernelInv
  <1>1. CASE UNCHANGED ioVars /\ (pc' \in {"decide", "poll"} => pc \in {"decide", "poll"})
    BY <1>1 DEF KernelInv, Known, Touched
  <1>2. CASE \E a \in Asyncs : AsyncStart(a)
    <2>1. pc' = "init"
      BY <1>2 DEF AsyncStart
    <2>2. CASE UNCHANGED ioVars
      BY <1>1, <2>1, <2>2
    <2>3. CASE IoStart("pipe", {"READ"}) /\ UNCHANGED kernel
      <3>1. \A f \in Fds : Known(f)'
        BY <1>0, <2>3, StartKnown DEF Fds, Masks
      <3> QED
        BY <2>1, <3>1 DEF KernelInv
    <2> QED
      BY <1>2, <2>2, <2>3 DEF AsyncStart
  <1>3. ASSUME NEW mask \in Interests, OpenSocket(mask) PROVE \A f \in Fds : Known(f)'
    BY <1>0, <1>3, StartKnown, EvLoopAssumption DEF OpenSocket, Fds, Masks
  <1>4. CASE \E mask \in Interests : OpenFirst(mask)
    BY <1>3, <1>4 DEF OpenFirst, KernelInv
  <1>5. CASE InvokeAsync
    <2>1. pc' = "invoke"
      BY <1>5 DEF InvokeAsync, Lowest
    <2>2. StopSocket \/ CloseSocket => \A f \in Fds : Known(f)'
      BY <1>0, StopKnown DEF StopSocket, CloseSocket
    <2>3. NoCall => UNCHANGED ioVars
      BY DEF NoCall
    <2>4. NoCall \/ (\E mask \in Interests : OpenSocket(mask)) \/ StopSocket \/ CloseSocket
      BY <1>5 DEF InvokeAsync
    <2>5. \A f \in Fds : Known(f)'
      BY <1>0, <1>3, <2>2, <2>3, <2>4 DEF Known, Touched
    <2> QED
      BY <2>1, <2>5 DEF KernelInv
  <1>6. CASE fd_reify
    <2>1. \A f \in Fds : anfds'[f] = Reified(f).anfd /\ kernel'[f] = Reified(f).kernel
      BY <1>6 DEF fd_reify
    <2>2. active' = active /\ events' = events
      BY <1>6 DEF fd_reify
    <2>3. ASSUME NEW f \in Fds PROVE Known(f)' /\ anfds'[f].reify = {}
      BY <1>0, <2>1, <2>2, ReifiedKnown DEF Known
    <2> QED
      BY <2>2, <2>3 DEF KernelInv, TypeOK
  <1>7. CASE fd_kill
    <2>1. /\ anfds'["pipe"] = Reified("pipe").anfd /\ kernel'["pipe"] = Reified("pipe").kernel
          /\ anfds'["sock"] = [events |-> Wanted("sock"), reify |-> {"REIFY"},
                               emask |-> Wanted("sock"), egen |-> anfds["sock"].egen]
          /\ kernel'["sock"] = Unregistered
          /\ active' = active \ {"sock"} /\ events' = events /\ fdchanges' = <<"sock">>
      BY <1>7 DEF fd_kill, TypeOK, Fds
    <2>2. Known("pipe")' /\ anfds'["pipe"].reify = {}
      BY <1>0, <2>1, ReifiedKnown DEF Known, Fds
    <2>3. Known("sock")'
      <3>1. DOMAIN fdchanges' = 1..1 /\ fdchanges'[1] = "sock"
        BY <2>1
      <3>2. "sock" \in Touched'
        BY <3>1 DEF Touched
      <3> QED
        BY <2>1, <3>2 DEF Known
    <2> QED
      BY <2>1, <2>2, <2>3 DEF KernelInv, Fds, TypeOK
  <1>8. CASE PollReturns
    <2>1. \A f \in Fds : Known(f)'
      BY <1>0, <1>8, PollKnown
    <2>2. pc' = "unwant"
      BY <1>8 DEF PollReturns
    <2> QED
      BY <2>1, <2>2 DEF KernelInv
  <1>9. CASE \/ \E s \in Senders : Send(s) \/ \E a \in Asyncs : SetSent(s, a)
             \/ Run \/ Decide \/ PollTimesOut \/ PollInterrupted \/ Unwant \/ CheckSkipped
             \/ InvokePipe \/ PipeClear \/ PipeAsync \/ PipeScan \/ PipeEnds \/ InvokeSocket
             \/ EndTurn \/ (\E r \in {"READ", "WRITE", "ERR"} : Arrive(r))
             \/ (\E i \in DOMAIN asyncs : AsyncStop(i)) \/ UNCHANGED vars
    <2>1. UNCHANGED ioVars /\ (pc' \in {"decide", "poll"} => pc \in {"decide", "poll"})
      BY <1>9 DEF Send, Sending, ReadFlag, SetFlag, SetSkipped, ReadWanted, ClearSkipped, WriteByte,
        SetSent, Run, Decide, PollTimesOut, PollInterrupted, Unwant, CheckSkipped, InvokePipe,
        PipeClear, PipeAsync, PipeScan, PipeEnds, InvokeSocket, EndTurn, Arrive, AsyncStop,
        vars, loopVars, Lowest
    <2> QED
      BY <1>1, <2>1
  <1> QED
    BY <1>2, <1>4, <1>5, <1>6, <1>7, <1>8, <1>9 DEF Next, Turn, Callbacks

\* The kernel knows every active watcher's mask when the loop waits.
THEOREM KernelStaysInStep == Spec => []KernelInStep
  <1>1. TypeOK /\ KernelInv => KernelInStep
    BY DEF KernelInv, Known, KernelInStep, TypeOK
  <1> QED
    BY TypeCorrect, KernelInit, KernelStep, <1>1, PTL DEF Spec

\* No event is taken for one of an older descriptor.
THEOREM GenerationsStayEqual == Spec => []GenerationsAgree
  <1>1. TypeOK /\ KernelInv => GenerationsAgree
    BY DEF KernelInv, Known, GenerationsAgree
  <1> QED
    BY TypeCorrect, KernelInit, KernelStep, <1>1, PTL DEF Spec

(***************************************************************************)
(* The loop implements Wakeup.                                             *)
(***************************************************************************)

\* A watcher is started once; what is pending or left to look at is started.
StartedInv ==
  /\ \A i, j \in DOMAIN asyncs : asyncs[i] = asyncs[j] => i = j
  /\ pc = "init" => pendings["normal"] = <<>>
  /\ pc # "done" => \A a \in Asyncs : Has(pendings["normal"], a) => a \in Started
  /\ \A i \in DOMAIN scan : scan[i] \in Started
  /\ scan # <<>> => pc = "scan"

\* What a step does to the pending async watchers.
SamePending == \A a \in Asyncs : Has(pendings["normal"], a)' <=> Has(pendings["normal"], a)

\* Where the steps of the loop leave the async watchers alone.
LEMMA QuietStep ==
  ASSUME TypeOK, UNCHANGED <<asyncs, sent, sends>>, pc = "done" <=> pc' = "done", SamePending
  PROVE  UNCHANGED WakeupSpec!vars
  <1>1. Started \subseteq Asyncs /\ Started' = Started
    BY DEF Started, TypeOK
  <1>2. Signalled' = Signalled
    BY <1>1 DEF Signalled, SamePending
  <1> QED
    BY <1>1, <1>2 DEF WakeupSpec!vars

LEMMA QuietInv ==
  ASSUME TypeOK, StartedInv, UNCHANGED asyncs, SamePending,
         pc' # "init", pc' # "done" => pc # "done",
         \/ scan' = scan /\ (pc = "scan" /\ scan # <<>> => pc' = "scan")
         \/ scan' = <<>>
  PROVE  StartedInv'
  BY DEF StartedInv, SamePending, Started

LEMMA StartedInit == Init => StartedInv
  BY DEF Init, StartedInv, Has, Priorities

\* The lists that change get or lose no async watcher.
LEMMA SockPending ==
  ASSUME NEW q \in Seq(Entries), NEW r, NEW a \in Asyncs
  PROVE  /\ Has(Feed(q, "sock", r), a) <=> Has(q, a)
         /\ Has(Cleared(q, "sock"), a) <=> Has(q, a)
  BY FeedHas, ClearedHas, EvLoopAssumption

\* The last entry is taken from the list of the lower priority.
LEMMA PoppedHas ==
  ASSUME TypeOK, pendings["normal"] # <<>>, NEW a
  PROVE  LET q == pendings["normal"]
             t == Top("normal").w
             r == Popped("normal")["normal"]
         IN /\ r \in Seq(Entries) /\ Has(q, t)
            /\ Has(r, a) => Has(q, a)
            /\ Has(q, a) /\ a # t => Has(r, a)
  <1> DEFINE q == pendings["normal"]
  <1>1. q \in Seq(Entries) /\ q # <<>> /\ Len(q) \in Nat /\ Len(q) > 0 /\ DOMAIN q = 1..Len(q)
    BY DEF TypeOK, Priorities
  <1>2. Popped("normal")["normal"] = SubSeq(q, 1, Len(q) - 1)
    BY DEF Popped, Priorities, TypeOK
  <1>3. /\ SubSeq(q, 1, Len(q) - 1) \in Seq(Entries)
        /\ DOMAIN SubSeq(q, 1, Len(q) - 1) = 1..(Len(q) - 1)
        /\ \A i \in 1..(Len(q) - 1) : SubSeq(q, 1, Len(q) - 1)[i] = q[i]
    BY <1>1, FrontOf
  <1>4. Top("normal") = q[Len(q)]
    BY DEF Top
  <1> HIDE DEF q
  <1>5. \A i \in 1..Len(q) : i \in 1..(Len(q) - 1) \/ i = Len(q)
    <2>1. \A n \in Nat : \A i \in 1..n : i \in 1..(n - 1) \/ i = n
      OBVIOUS
    <2> QED
      BY <1>1, <2>1
  <1>6. ASSUME Has(q, a), a # q[Len(q)].w PROVE Has(SubSeq(q, 1, Len(q) - 1), a)
    <2>1. PICK i \in DOMAIN q : q[i].w = a
      BY <1>6 DEF Has
    <2>2. i \in 1..(Len(q) - 1)
      BY <1>1, <1>5, <1>6, <2>1
    <2> QED
      BY <1>3, <2>1, <2>2 DEF Has
  <1>7. Has(q, q[Len(q)].w)
    BY <1>1 DEF Has
  <1>8. Has(SubSeq(q, 1, Len(q) - 1), a) => Has(q, a)
    BY <1>1, <1>3 DEF Has
  <1> QED
    BY <1>2, <1>3, <1>4, <1>6, <1>7, <1>8 DEF q

LEMMA RefineInit == Init => WakeupSpec!Init
  BY DEF Init, WakeupSpec!Init, Started, Signalled, Has

\* A signal, a start and a stop are steps of the abstract specification.
LEMMA RefineSent ==
  ASSUME TypeOK, StartedInv, NEW s \in Senders, NEW a \in Asyncs, SetSent(s, a)
  PROVE  WakeupSpec!Signal(a) /\ StartedInv'
  <1>1. /\ sent' = sent \cup {a} /\ sends' = sends + 1
        /\ pc' = pc /\ asyncs' = asyncs /\ pendings' = pendings /\ scan' = scan
    BY DEF SetSent, loopVars
  <1>2. Started' = Started /\ Signalled' = Signalled \cup ({a} \cap Started)
    BY <1>1 DEF Started, Signalled
  <1> QED
    BY <1>1, <1>2 DEF WakeupSpec!Signal, StartedInv

LEMMA RefineStart ==
  ASSUME TypeOK, StartedInv, NEW a \in Asyncs, AsyncStart(a)
  PROVE  WakeupSpec!Begin(a) /\ StartedInv'
  <1>1. /\ sent' = sent \ {a} /\ asyncs' = Append(asyncs, a) /\ a \notin Started
        /\ pc = "init" /\ pc' = pc /\ pendings' = pendings /\ scan' = scan /\ sends' = sends
    BY DEF AsyncStart, Started, sendVars
  <1>2. pendings["normal"] = <<>> /\ scan = <<>>
    BY <1>1 DEF StartedInv
  <1>3. Started' = Started \cup {a}
    BY <1>1, StartedAppend DEF TypeOK
  <1>4. Signalled' = Signalled
    BY <1>1, <1>2, <1>3 DEF Signalled, Has
  <1>5. \A i, j \in DOMAIN asyncs' : asyncs'[i] = asyncs'[j] => i = j
    <2>1. /\ Len(asyncs) \in Nat /\ DOMAIN asyncs = 1..Len(asyncs)
          /\ DOMAIN asyncs' = 1..(Len(asyncs) + 1)
          /\ \A i \in 1..Len(asyncs) : asyncs'[i] = asyncs[i]
          /\ asyncs'[Len(asyncs) + 1] = a
      BY <1>1 DEF TypeOK
    <2>2. \A i \in 1..(Len(asyncs) + 1) : i \in 1..Len(asyncs) \/ i = Len(asyncs) + 1
      BY <2>1
    <2>3. \A i \in 1..Len(asyncs) : asyncs'[i] # a /\ i # Len(asyncs) + 1
      BY <1>1, <2>1 DEF Started
    <2> QED
      BY <2>1, <2>2, <2>3 DEF StartedInv
  <1> QED
    BY <1>1, <1>2, <1>3, <1>4, <1>5 DEF WakeupSpec!Begin, StartedInv, Has

LEMMA RefineStop ==
  ASSUME TypeOK, StartedInv, NEW k \in DOMAIN asyncs, AsyncStop(k)
  PROVE  WakeupSpec!End(asyncs[k]) /\ StartedInv'
  <1> DEFINE n == Len(asyncs)
             m == [asyncs EXCEPT ![k] = asyncs[n]]
  <1>1. /\ pc = "done" /\ pc' = pc /\ sent' = sent /\ sends' = sends /\ scan' = scan
        /\ asyncs' = SubSeq(m, 1, n - 1)
        /\ pendings'["normal"] = Cleared(pendings["normal"], asyncs[k])
    BY DEF AsyncStop, flagVars, sendVars, TypeOK, Priorities
  <1>2. /\ n \in Nat /\ n > 0 /\ DOMAIN asyncs = 1..n /\ asyncs[n] \in Asyncs
        /\ asyncs[k] \in Asyncs
    BY DEF TypeOK
  <1>3. m \in Seq(Asyncs) /\ Len(m) = n /\ m # <<>>
    BY <1>2, ExceptSeq DEF TypeOK
  <1>4. /\ DOMAIN asyncs' = 1..(n - 1)
        /\ \A i \in 1..(n - 1) : asyncs'[i] = IF i = k THEN asyncs[n] ELSE asyncs[i]
    <2>1. \A i \in 1..(n - 1) : m[i] = IF i = k THEN asyncs[n] ELSE asyncs[i]
      BY <1>2
    <2> HIDE DEF m
    <2> QED
      BY <1>1, <1>3, <2>1, FrontOf
  <1> HIDE DEF n, m
  <1>5. \A i, j \in 1..n : asyncs[i] = asyncs[j] => i = j
    BY <1>2 DEF StartedInv
  <1>6. Started' = Started \ {asyncs[k]}
    <2>1. ASSUME NEW x \in Started' PROVE x \in Started \ {asyncs[k]}
      <3>1. PICK i \in 1..(n - 1) : x = asyncs'[i]
        BY <1>4, <2>1 DEF Started
      <3>2. CASE i = k
        BY <1>2, <1>4, <1>5, <3>1, <3>2 DEF Started
      <3>3. CASE i # k
        BY <1>2, <1>4, <1>5, <3>1, <3>3 DEF Started
      <3> QED
        BY <3>2, <3>3
    <2>2. ASSUME NEW x \in Started, x # asyncs[k] PROVE x \in Started'
      <3>1. PICK i \in 1..n : x = asyncs[i]
        BY <1>2, <2>2 DEF Started
      <3>2. CASE i = n
        <4>1. k \in 1..(n - 1) /\ asyncs'[k] = x
          BY <1>2, <1>4, <2>2, <3>1, <3>2
        <4> QED
          BY <1>4, <4>1 DEF Started
      <3>3. CASE i # n
        <4>1. i \in 1..(n - 1) /\ asyncs'[i] = x
          BY <1>2, <1>4, <2>2, <3>1, <3>3
        <4> QED
          BY <1>4, <4>1 DEF Started
      <3> QED
        BY <3>2, <3>3
    <2> QED
      BY <2>1, <2>2
  <1>7. \A a \in Asyncs : Has(pendings["normal"], a)' <=> Has(pendings["normal"], a) /\ a # asyncs[k]
    <2>1. pendings["normal"] \in Seq(Entries) /\ \A a \in Asyncs : a # PendingW
      BY EvLoopAssumption DEF TypeOK, Priorities
    <2>2. \A a \in Asyncs : Has(Cleared(pendings["normal"], asyncs[k]), a) <=>
                             Has(pendings["normal"], a) /\ a # asyncs[k]
      BY <2>1, ClearedHas
    <2> QED
      BY <1>1, <2>2 DEF Has
  <1>8. Started \subseteq Asyncs
    BY DEF Started, TypeOK
  <1>9. Signalled' = Signalled \ {asyncs[k]}
    BY <1>1, <1>6, <1>7, <1>8 DEF Signalled
  <1>10. ASSUME NEW i \in DOMAIN asyncs', NEW j \in DOMAIN asyncs', asyncs'[i] = asyncs'[j]
         PROVE  i = j
    <2>1. i \in 1..n /\ j \in 1..n /\ n \in 1..n /\ i # n /\ j # n
      BY <1>2, <1>4
    <2>2. /\ asyncs'[i] = IF i = k THEN asyncs[n] ELSE asyncs[i]
          /\ asyncs'[j] = IF j = k THEN asyncs[n] ELSE asyncs[j]
      BY <1>4
    <2> QED
      BY <1>5, <1>10, <2>1, <2>2
  <1>11. scan = <<>>
    BY <1>1 DEF StartedInv
  <1>12. WakeupSpec!End(asyncs[k])
    BY <1>1, <1>6, <1>9 DEF WakeupSpec!End
  <1>13. \A i, j \in DOMAIN asyncs' : asyncs'[i] = asyncs'[j] => i = j
    BY <1>10
  <1>14. scan' = <<>> /\ pc' = "done"
    BY <1>1, <1>11
  <1>15. StartedInv'
    BY <1>13, <1>14 DEF StartedInv
  <1> QED
    BY <1>12, <1>15

\* A watcher that was marked becomes pending: nothing changes for a context.
LEMMA RefineScan ==
  ASSUME TypeOK, StartedInv, PipeScan
  PROVE  UNCHANGED WakeupSpec!vars /\ StartedInv'
  <1> DEFINE n == Len(scan)
             q == pendings["normal"]
  <1>1. /\ pc = "scan" /\ pc' = pc /\ asyncs' = asyncs /\ sends' = sends
        /\ sent' = sent \ {scan[n]} /\ scan' = SubSeq(scan, 1, n - 1)
        /\ pendings'["normal"] = IF scan[n] \in sent THEN Feed(q, scan[n], {"ASYNC"}) ELSE q
    BY DEF PipeScan, sendVars, TypeOK, Priorities
  <1>2. /\ n \in Nat /\ n > 0 /\ DOMAIN scan = 1..n /\ scan[n] \in Started /\ scan[n] \in Asyncs
        /\ q \in Seq(Entries)
    BY DEF PipeScan, StartedInv, TypeOK, Priorities
  <1>3. \A a \in Asyncs : Has(pendings["normal"], a)' <=>
                           Has(q, a) \/ (a = scan[n] /\ a \in sent)
    <2>1. \A a \in Asyncs : Has(Feed(q, scan[n], {"ASYNC"}), a) <=> Has(q, a) \/ a = scan[n]
      BY <1>2, FeedHas
    <2>2. \A a : Has(pendings["normal"], a)' <=>
                 Has(IF scan[n] \in sent THEN Feed(q, scan[n], {"ASYNC"}) ELSE q, a)
      BY <1>1 DEF Has
    <2> HIDE DEF n, q
    <2> QED
      BY <2>1, <2>2
  <1>4. Started' = Started /\ Started \subseteq Asyncs
    BY <1>1 DEF Started, TypeOK
  <1>5. Signalled' = Signalled
    BY <1>1, <1>3, <1>4 DEF Signalled
  <1>6. DOMAIN scan' = 1..(n - 1) /\ \A i \in 1..(n - 1) : scan'[i] = scan[i]
    BY <1>1, <1>2, FrontOf DEF PipeScan, TypeOK
  <1>7. \A i \in DOMAIN scan' : scan'[i] \in Started
    BY <1>2, <1>6 DEF StartedInv
  <1>8. \A a \in Asyncs : Has(pendings["normal"], a)' => a \in Started
    BY <1>1, <1>2, <1>3 DEF StartedInv
  <1>9. /\ \A i, j \in DOMAIN asyncs' : asyncs'[i] = asyncs'[j] => i = j
        /\ pc' = "scan"
    BY <1>1 DEF StartedInv
  <1> QED
    BY <1>1, <1>4, <1>5, <1>7, <1>8, <1>9 DEF WakeupSpec!vars, StartedInv, Has

\* The callback of an async watcher answers a signal that came before.
LEMMA RefineInvoke ==
  ASSUME TypeOK, StartedInv, InvokeAsync
  PROVE  [WakeupSpec!Next]_(WakeupSpec!vars) /\ StartedInv'
  <1> DEFINE t == Top("normal").w
             q == pendings["normal"]
  <1>1. /\ pc = "invoke" /\ pc' = pc /\ asyncs' = asyncs /\ scan' = scan /\ sent' = sent
        /\ sends' = sends /\ q # <<>>
    BY DEF InvokeAsync, Lowest, flagVars, sendVars
  <1>2. PICK r \in Seq(Entries) : r = Popped("normal")["normal"]
    BY <1>1, PoppedHas
  <1>3. pendings'["normal"] = r \/ pendings'["normal"] = Cleared(r, "sock")
    BY <1>2 DEF InvokeAsync, Popped, TypeOK, Priorities
  <1>4. \A a \in Asyncs : Has(pendings["normal"], a)' <=> Has(r, a)
    BY <1>2, <1>3, SockPending DEF Has
  <1>5. /\ \A a \in Asyncs : Has(r, a) => Has(q, a)
        /\ \A a \in Asyncs : Has(q, a) /\ a # t => Has(r, a)
        /\ Has(q, t)
    BY <1>1, <1>2, PoppedHas
  <1> HIDE DEF t
  <1>6. Started' = Started /\ Started \subseteq Asyncs
    BY <1>1 DEF Started, TypeOK
  <1>7. StartedInv'
    BY <1>1, <1>4, <1>5, <1>6 DEF StartedInv, Started
  <1>8. CASE t \in Asyncs
    <2>1. t \in Signalled
      BY <1>1, <1>5, <1>8 DEF StartedInv, Signalled
    <2>2. Signalled' \in {Signalled \ {t}, Signalled}
      BY <1>1, <1>4, <1>5, <1>6 DEF Signalled
    <2>3. WakeupSpec!Handle(t)
      BY <1>1, <1>6, <2>1, <2>2 DEF WakeupSpec!Handle
    <2> QED
      BY <1>7, <1>8, <2>3 DEF WakeupSpec!Next
  <1>9. CASE t \notin Asyncs
    <2>1. Signalled' = Signalled
      BY <1>1, <1>4, <1>5, <1>6, <1>9 DEF Signalled
    <2> QED
      BY <1>1, <1>6, <1>7, <2>1 DEF WakeupSpec!vars
  <1> QED
    BY <1>8, <1>9

\* Every other step is one of those, the return of ev_run, or none at all.
LEMMA RefineStep ==
  TypeOK /\ StartedInv /\ [Next]_vars => [WakeupSpec!Next]_(WakeupSpec!vars) /\ StartedInv'
  <1> SUFFICES ASSUME TypeOK, StartedInv, [Next]_vars
               PROVE  [WakeupSpec!Next]_(WakeupSpec!vars) /\ StartedInv'
    OBVIOUS
  <1> USE DEF Loop, flagVars, sendVars, loopVars, ioVars, envVars
  <1>1. CASE \E s \in Senders : \E a \in Asyncs : SetSent(s, a)
    BY <1>1, RefineSent DEF WakeupSpec!Next
  <1>2. CASE \E a \in Asyncs : AsyncStart(a)
    BY <1>2, RefineStart DEF WakeupSpec!Next
  <1>3. CASE \E k \in DOMAIN asyncs : AsyncStop(k)
    <2>1. \A k \in DOMAIN asyncs : asyncs[k] \in Asyncs
      BY DEF TypeOK
    <2> QED
      BY <1>3, <2>1, RefineStop DEF WakeupSpec!Next
  <1>4. CASE PipeScan
    BY <1>4, RefineScan
  <1>5. CASE InvokeAsync
    BY <1>5, RefineInvoke
  <1>6. CASE EndTurn
    <2>1. UNCHANGED <<asyncs, sent, sends, pendings, scan>> /\ pc = "invoke" /\ pc' \in {"top", "done"}
      BY <1>6 DEF EndTurn
    <2>2. SamePending
      BY <2>1 DEF SamePending, Has
    <2>3. StartedInv'
      BY <2>1, <2>2, QuietInv
    <2>4. CASE pc' = "done"
      BY <2>1, <2>3, <2>4 DEF WakeupSpec!Next, WakeupSpec!Return, Started, Signalled, Has
    <2>5. CASE pc' = "top"
      BY <2>1, <2>2, <2>3, <2>5, QuietStep
    <2> QED
      BY <2>1, <2>4, <2>5
  <1>7. CASE \/ UNCHANGED vars \/ (\E s \in Senders : Send(s))
             \/ (\E mask \in Interests : OpenFirst(mask))
             \/ (\E r \in {"READ", "WRITE", "ERR"} : Arrive(r))
    <2>1. UNCHANGED <<asyncs, sent, sends, pendings, scan, pc>>
      BY <1>7 DEF Send, Sending, ReadFlag, SetFlag, SetSkipped, ReadWanted, ClearSkipped, WriteByte,
        OpenFirst, Arrive, vars
    <2>2. SamePending
      BY <2>1 DEF SamePending, Has
    <2>3. StartedInv'
      BY <2>1 DEF StartedInv, Started, Has
    <2> QED
      BY <2>1, <2>2, <2>3, QuietStep
  <1>8. ASSUME fd_kill \/ PollReturns \/ InvokeSocket PROVE SamePending
    <2>0. pendings["normal"] \in Seq(Entries)
      BY DEF TypeOK, Priorities
    <2>1. CASE fd_kill
      <3>1. pendings'["normal"] =
              Feed(Cleared(pendings["normal"], "sock"), "sock", {"ERROR", "READ", "WRITE"})
        BY <2>1 DEF fd_kill, TypeOK, Priorities
      <3> QED
        <4> DEFINE q == pendings["normal"]
                   r == Cleared(q, "sock")
        <4>1. q \in Seq(Entries) /\ r \in Seq(Entries)
          BY <2>0, ClearedType
        <4>2. \A a \in Asyncs : Has(Feed(r, "sock", {"ERROR", "READ", "WRITE"}), a) <=> Has(q, a)
          BY <4>1, SockPending
        <4> QED
          BY <3>1, <4>2 DEF SamePending, Has
    <2>2. CASE PollReturns
      <3>1. PICK f \in Fds : f = (CHOOSE g \in Fds : Priority(g) = "normal") /\ Priority(f) = "normal"
        <4>1. \E g \in Fds : Priority(g) = "normal"
          BY DEF Fds, Priorities, Priority
        <4> QED
          BY <4>1
      <3>2. f = "sock"
        BY <3>1 DEF Fds, Priority
      <3>3. pendings'["normal"] = pendings["normal"] \/
            pendings'["normal"] = Feed(pendings["normal"], "sock", Fired("sock"))
        BY <2>2, <3>1, <3>2 DEF PollReturns, Priorities
      <3> QED
        BY <2>0, <3>3, SockPending DEF SamePending, Has
    <2>3. CASE InvokeSocket
      <3>1. pendings["normal"] # <<>> /\ Top("normal").w \notin Asyncs /\ pendings' = Popped("normal")
        BY <2>3, EvLoopAssumption DEF InvokeSocket, Lowest
      <3> QED
        BY <3>1, PoppedHas DEF SamePending, Has
    <2> QED
      BY <1>8, <2>1, <2>2, <2>3
  <1>9. CASE \/ Run \/ fd_reify \/ fd_kill \/ Decide \/ PollReturns \/ PollTimesOut \/ PollInterrupted
             \/ Unwant \/ CheckSkipped \/ InvokePipe \/ PipeClear \/ PipeAsync \/ PipeEnds
             \/ InvokeSocket
    <2>1. UNCHANGED <<asyncs, sent, sends>> /\ pc' # "init" /\ pc' # "done" /\ pc # "done"
      BY <1>9 DEF Run, fd_reify, fd_kill, Decide, PollReturns, PollTimesOut, PollInterrupted, Unwant,
        CheckSkipped, InvokePipe, PipeClear, PipeAsync, PipeEnds, InvokeSocket, Lowest
    <2>2. \/ fd_kill \/ PollReturns \/ InvokeSocket
          \/ pendings' = pendings \/ pendings'["normal"] = pendings["normal"]
      BY <1>9 DEF Run, fd_reify, Decide, PollTimesOut, PollInterrupted, Unwant,
        CheckSkipped, InvokePipe, PipeClear, PipeAsync, PipeEnds, Popped, TypeOK, Priorities
    <2>3. SamePending
      BY <1>8, <2>2 DEF SamePending, Has
    <2>4. CASE PipeAsync
      <3>1. (scan' = asyncs /\ pc' = "scan") \/ scan' = <<>>
        BY <2>4 DEF PipeAsync
      <3> QED
        BY <2>1, <2>3, <3>1, QuietStep DEF StartedInv, SamePending, Started
    <2>5. CASE ~PipeAsync
      <3>1. scan' = scan /\ (pc = "scan" /\ scan # <<>> => pc' = "scan")
        BY <1>9, <2>5 DEF Run, fd_reify, fd_kill, Decide, PollReturns, PollTimesOut, PollInterrupted,
          Unwant, CheckSkipped, InvokePipe, PipeClear, PipeEnds, InvokeSocket, Lowest
      <3> QED
        BY <2>1, <2>3, <3>1, QuietStep, QuietInv
    <2> QED
      BY <2>4, <2>5
  <1> QED
    BY <1>1, <1>2, <1>3, <1>4, <1>5, <1>6, <1>7, <1>9 DEF Next, Turn, Callbacks

\* The loop implements what the contexts rely on.
THEOREM LoopImplementsWakeup == Spec => ImplementsWakeup
  <1> QED
    BY TypeCorrect, StartedInit, RefineInit, RefineStep, PTL DEF Spec, ImplementsWakeup, WakeupSpec!Spec

-----------------------------------------------------------------------------
(* Loops: a measure that falls with every turn.                              *)

\* The order of the natural numbers, as the library has induction for it.
LEMMA LessIsWellFounded ==
  \E R : IsWellFoundedOn(R, Nat) /\ \A x, y \in Nat : y < x => <<y, x>> \in R
  <1>1. \A x, y \in Nat : y < x => <<y, x>> \in OpToRel(<, Nat)
    BY DEF OpToRel
  <1> QED
    BY <1>1, NatLessThanWellFounded, Zenon

\* A set of natural numbers has a least element.
LEMMA LeastElement ==
  ASSUME NEW T, T \subseteq Nat, T # {}
  PROVE  \E x \in T : \A y \in T : x <= y
  <1>1. PICK R : IsWellFoundedOn(R, Nat) /\ \A x, y \in Nat : y < x => <<y, x>> \in R
    BY LessIsWellFounded
  <1>2. PICK x \in T : \A y \in T : ~(<<y, x>> \in R)
    BY <1>1, WFMin, Zenon
  <1>3. \A y \in T : ~(y < x)
    BY <1>1, <1>2
  <1> QED
    BY <1>3

\* A set with 0 and with the successor of each of its numbers has them all.
LEMMA SetInduction ==
  ASSUME NEW T, 0 \in T, \A n \in Nat : n \in T => n + 1 \in T
  PROVE  \A n \in Nat : n \in T
  <1> SUFFICES ASSUME Nat \ T # {} PROVE FALSE
    OBVIOUS
  <1>1. PICK x \in Nat \ T : \A y \in Nat \ T : x <= y
    BY LeastElement
  <1>2. x # 0 /\ x - 1 \in Nat
    BY <1>1
  <1>3. x - 1 \in T
    BY <1>1, <1>2
  <1> QED
    BY <1>1, <1>2, <1>3, x - 1 + 1 = x

\* A loop on the states X with the turn F: it is over when it reaches D, where
\* a turn changes nothing, and before that every turn lowers the measure m.
IsLoop(X, F, D, m) ==
  /\ F \in [X -> X] /\ m \in [X -> Nat]
  /\ \A x \in X : x \in D => F[x] = x
  /\ \A x \in X : x \notin D => m[F[x]] < m[x]

\* f[i] is the state after i turns, up to n turns.
IsRun(f, n, X, F, x0) ==
  f[0] = x0 /\ \A i \in 1..n : f[i - 1] \in X => f[i] = F[f[i - 1]]

\* The loop is over after as many turns as the measure was at first.
LEMMA LoopEnds ==
  ASSUME NEW X, NEW F, NEW D, NEW m, IsLoop(X, F, D, m),
         NEW x0 \in X, NEW n \in Nat, m[x0] <= n, NEW f, IsRun(f, n, X, F, x0)
  PROVE  /\ \A i \in 0..n : f[i] \in X
         /\ f[n] \in D
  <1> USE DEF IsLoop, IsRun
  <1> DEFINE T == {i \in Nat : i <= n => f[i] \in X /\ (f[i] \in D \/ m[f[i]] <= n - i)}
  <1>1. 0 \in T
    OBVIOUS
  <1>2. ASSUME NEW i \in Nat, i \in T PROVE i + 1 \in T
    <2> SUFFICES ASSUME i + 1 <= n
                 PROVE  f[i + 1] \in X /\ (f[i + 1] \in D \/ m[f[i + 1]] <= n - (i + 1))
      OBVIOUS
    <2>1. f[i] \in X /\ (f[i] \in D \/ m[f[i]] <= n - i) /\ i + 1 \in 1..n /\ i + 1 - 1 = i
      BY <1>2
    <2>2. f[i + 1] = F[f[i]] /\ F[f[i]] \in X
      BY <2>1
    <2>3. CASE f[i] \in D
      BY <2>1, <2>2, <2>3
    <2>4. CASE f[i] \notin D
      <3>1. m[f[i + 1]] < m[f[i]] /\ m[f[i]] <= n - i
        BY <2>1, <2>2, <2>4
      <3>2. m[f[i + 1]] \in Nat /\ m[f[i]] \in Nat
        BY <2>1, <2>2
      <3> QED
        BY <2>2, <3>1, <3>2
    <2> QED
      BY <2>3, <2>4
  <1> HIDE DEF T
  <1>3. \A i \in Nat : i \in T
    BY <1>1, <1>2, SetInduction
  <1>4. \A i \in 0..n : f[i] \in X
    BY <1>3 DEF T
  <1>5. f[n] \in X /\ (f[n] \in D \/ m[f[n]] <= 0)
    BY <1>3 DEF T
  <1>6. ASSUME f[n] \notin D PROVE FALSE
    <2>1. m[f[n]] \in Nat /\ m[F[f[n]]] \in Nat
      BY <1>5
    <2>2. m[F[f[n]]] < m[f[n]] /\ m[f[n]] <= 0
      BY <1>5, <1>6
    <2> QED
      BY <2>1, <2>2
  <1> QED
    BY <1>4, <1>6

\* The states after the turns are a function of their number.
TurnsBy(f, n, F, x0) == f = [i \in 0..n |-> IF i = 0 THEN x0 ELSE F[f[i - 1]]]

\* There is such a function.
LEMMA TurnsExist ==
  ASSUME NEW X, NEW F, NEW D, NEW m, IsLoop(X, F, D, m), NEW x0 \in X, NEW n \in Nat
  PROVE  \E f \in [0..n -> X] : TurnsBy(f, n, F, x0)
  <1>0. F \in [X -> X]
    BY DEF IsLoop
  <1> DEFINE T == {k \in Nat : \E f \in [0..k -> X] :
                                 \A i \in 0..k : f[i] = IF i = 0 THEN x0 ELSE F[f[i - 1]]}
  <1>1. 0 \in T
    <2> DEFINE f == [i \in 0..0 |-> x0]
    <2>1. f \in [0..0 -> X] /\ \A i \in 0..0 : f[i] = IF i = 0 THEN x0 ELSE F[f[i - 1]]
      OBVIOUS
    <2> HIDE DEF f
    <2> QED
      BY <2>1
  <1>2. ASSUME NEW k \in Nat, k \in T PROVE k + 1 \in T
    <2>1. PICK f \in [0..k -> X] : \A i \in 0..k : f[i] = IF i = 0 THEN x0 ELSE F[f[i - 1]]
      BY <1>2
    <2> DEFINE g == [i \in 0..(k + 1) |-> IF i <= k THEN f[i] ELSE F[f[k]]]
    <2>2. g \in [0..(k + 1) -> X]
      BY <1>0
    <2>3. ASSUME NEW i \in 0..(k + 1) PROVE g[i] = IF i = 0 THEN x0 ELSE F[g[i - 1]]
      <3>1. CASE i = k + 1
        BY <3>1
      <3>2. CASE i \in 0..k
        <4>1. g[i] = f[i] /\ (i # 0 => i - 1 \in 0..k /\ g[i - 1] = f[i - 1])
          BY <3>2
        <4> QED
          BY <2>1, <3>2, <4>1
      <3> QED
        BY <3>1, <3>2
    <2> HIDE DEF g
    <2>4. \E e \in [0..(k + 1) -> X] :
            \A i \in 0..(k + 1) : e[i] = IF i = 0 THEN x0 ELSE F[e[i - 1]]
      BY <2>2, <2>3, Zenon
    <2> QED
      BY <2>4
  <1> HIDE DEF T
  <1>3. n \in T
    BY <1>1, <1>2, SetInduction
  <1>4. PICK f \in [0..n -> X] : \A i \in 0..n : f[i] = IF i = 0 THEN x0 ELSE F[f[i - 1]]
    BY <1>3 DEF T
  <1>5. f = [i \in 0..n |-> f[i]]
    OBVIOUS
  <1>6. f = [i \in 0..n |-> IF i = 0 THEN x0 ELSE F[f[i - 1]]]
    BY <1>4, <1>5
  <1> QED
    BY <1>6 DEF TurnsBy

-----------------------------------------------------------------------------
(* What Only and Reverse do to a sequence.                                   *)

\* A sequence is its front and its last element.
LEMMA FrontAndLast ==
  ASSUME NEW A, NEW q \in Seq(A), q # <<>>
  PROVE  /\ q[Len(q)] \in A /\ Len(q) \in Nat \ {0}
         /\ q = Append(SubSeq(q, 1, Len(q) - 1), q[Len(q)])
  <1> DEFINE p == SubSeq(q, 1, Len(q) - 1)
  <1>1. /\ p \in Seq(A) /\ Len(p) = Len(q) - 1
        /\ \A i \in 1..(Len(q) - 1) : p[i] = q[i]
    BY FrontOf
  <1>2. Len(q) \in Nat \ {0} /\ q[Len(q)] \in A
    BY LenProperties, EmptySeq
  <1> HIDE DEF p
  <1>3. /\ Append(p, q[Len(q)]) \in Seq(A) /\ Len(Append(p, q[Len(q)])) = Len(p) + 1
        /\ \A i \in 1..Len(p) : Append(p, q[Len(q)])[i] = p[i]
        /\ Append(p, q[Len(q)])[Len(p) + 1] = q[Len(q)]
    BY <1>1, <1>2, AppendProperties
  <1>4. Len(Append(p, q[Len(q)])) = Len(q) /\ Len(p) + 1 = Len(q)
    BY <1>1, <1>2, <1>3
  <1>5. ASSUME NEW i \in 1..Len(q) PROVE Append(p, q[Len(q)])[i] = q[i]
    BY <1>1, <1>2, <1>3, <1>4
  <1>6. q = Append(p, q[Len(q)])
    BY <1>3, <1>4, <1>5, SeqEqual
  <1> QED
    BY <1>2, <1>6 DEF p

\* Induction over sequences, with a set for the predicate.
LEMMA SeqInduction ==
  ASSUME NEW A, NEW Q, <<>> \in Q,
         \A s \in Seq(A), x \in A : s \in Q => Append(s, x) \in Q
  PROVE  \A s \in Seq(A) : s \in Q
  <1> DEFINE T == {n \in Nat : \A s \in Seq(A) : Len(s) = n => s \in Q}
  <1>1. 0 \in T
    BY EmptySeq
  <1>2. ASSUME NEW n \in Nat, n \in T PROVE n + 1 \in T
    <2> SUFFICES ASSUME NEW s \in Seq(A), Len(s) = n + 1 PROVE s \in Q
      OBVIOUS
    <2>1. s # <<>>
      BY EmptySeq
    <2>2. s = Append(SubSeq(s, 1, Len(s) - 1), s[Len(s)]) /\ s[Len(s)] \in A
      BY <2>1, FrontAndLast
    <2>3. SubSeq(s, 1, Len(s) - 1) \in Seq(A) /\ Len(SubSeq(s, 1, Len(s) - 1)) = n
      BY <2>1, FrontOf
    <2>4. SubSeq(s, 1, Len(s) - 1) \in Q
      BY <1>2, <2>3
    <2> QED
      BY <2>2, <2>3, <2>4
  <1> HIDE DEF T
  <1>3. \A n \in Nat : n \in T
    BY <1>1, <1>2, SetInduction
  <1>4. \A s \in Seq(A) : Len(s) \in Nat
    BY LenProperties
  <1> QED
    BY <1>3, <1>4 DEF T

\* The recursive function of Only: what it has after place i, and up to place n.
AfterPlace(P, S, f, i) ==
  IF i = 0 THEN <<>> ELSE IF P[i] \in S THEN Append(f[i - 1], P[i]) ELSE f[i - 1]
UpTo(P, S, f, n) == f = [i \in 0..n |-> AfterPlace(P, S, f, i)]

\* The function Only is defined by.
LEMMA UpToExists ==
  ASSUME NEW P, NEW S
  PROVE  \A n \in Nat : \E f : UpTo(P, S, f, n)
  <1> DEFINE T == {n \in Nat : \E f : UpTo(P, S, f, n)}
  <1>1. 0 \in T
    <2> DEFINE f == [i \in 0..0 |-> <<>>]
    <2>1. UpTo(P, S, f, 0)
      BY DEF UpTo, AfterPlace
    <2> QED
      BY <2>1
  <1>2. ASSUME NEW n \in Nat, n \in T PROVE n + 1 \in T
    <2>1. PICK f : UpTo(P, S, f, n)
      BY <1>2
    <2> DEFINE g == [i \in 0..(n + 1) |-> IF i <= n THEN f[i] ELSE AfterPlace(P, S, f, n + 1)]
    <2>2. DOMAIN f = 0..n /\ \A i \in 0..n : f[i] = AfterPlace(P, S, f, i) /\ g[i] = f[i]
      BY <2>1 DEF UpTo
    <2>3. ASSUME NEW i \in 0..(n + 1) PROVE g[i] = AfterPlace(P, S, g, i)
      <3>1. i # 0 => i - 1 \in 0..n /\ g[i - 1] = f[i - 1]
        BY <2>2
      <3>2. AfterPlace(P, S, g, i) = AfterPlace(P, S, f, i)
        BY <3>1 DEF AfterPlace
      <3>3. i \in 0..n \/ i = n + 1
        OBVIOUS
      <3> QED
        BY <2>2, <3>2, <3>3
    <2>4. UpTo(P, S, g, n + 1)
      <3>1. g = [i \in 0..(n + 1) |-> g[i]]
        OBVIOUS
      <3> HIDE DEF g
      <3> QED
        BY <2>3, <3>1 DEF UpTo
    <2> QED
      BY <2>4
  <1> HIDE DEF T
  <1>3. \A n \in Nat : n \in T
    BY <1>1, <1>2, SetInduction
  <1> QED
    BY <1>3 DEF T

\* Only is its last value.
LEMMA OnlyIsUpTo ==
  ASSUME NEW P, NEW S, Len(P) \in Nat
  PROVE  \E f : UpTo(P, S, f, Len(P)) /\ Only(P, S) = f[Len(P)]
  <1> DEFINE f == CHOOSE g : UpTo(P, S, g, Len(P))
  <1>1. UpTo(P, S, f, Len(P))
    BY UpToExists, Zenon
  <1>2. Only(P, S) = f[Len(P)]
    BY DEF Only, UpTo, AfterPlace
  <1> QED
    BY <1>1, <1>2

\* Nothing is left of nothing.
LEMMA OnlyEmpty ==
  ASSUME NEW S
  PROVE  Only(<<>>, S) = <<>>
  <1> DEFINE P == <<>>
  <1>1. Len(P) = 0
    OBVIOUS
  <1> HIDE DEF P
  <1>2. PICK f : UpTo(P, S, f, Len(P)) /\ Only(P, S) = f[Len(P)]
    BY <1>1, OnlyIsUpTo
  <1>3. Only(P, S) = <<>>
    BY <1>1, <1>2 DEF UpTo, AfterPlace
  <1> QED
    BY <1>3 DEF P

\* Only goes through a sequence from its first to its last element.
LEMMA OnlyAppend ==
  ASSUME NEW A, NEW P \in Seq(A), NEW x \in A, NEW S
  PROVE  Only(Append(P, x), S) = IF x \in S THEN Append(Only(P, S), x) ELSE Only(P, S)
  <1> DEFINE Q == Append(P, x)
  <1>1. /\ Len(Q) = Len(P) + 1 /\ Len(P) \in Nat
        /\ \A i \in 1..Len(P) : Q[i] = P[i]
        /\ Q[Len(P) + 1] = x
    BY AppendProperties, LenProperties
  <1> HIDE DEF Q
  <1>2. PICK f : UpTo(P, S, f, Len(P)) /\ Only(P, S) = f[Len(P)]
    BY <1>1, OnlyIsUpTo
  <1>3. PICK g : UpTo(Q, S, g, Len(Q)) /\ Only(Q, S) = g[Len(Q)]
    BY <1>1, OnlyIsUpTo
  <1>4. /\ \A i \in 0..Len(P) : f[i] = AfterPlace(P, S, f, i)
        /\ \A i \in 0..(Len(P) + 1) : g[i] = AfterPlace(Q, S, g, i)
    BY <1>1, <1>2, <1>3 DEF UpTo
  <1> DEFINE T == {i \in Nat : i <= Len(P) => f[i] = g[i]}
  <1>5. 0 \in T
    BY <1>1, <1>4 DEF AfterPlace
  <1>6. ASSUME NEW i \in Nat, i \in T PROVE i + 1 \in T
    <2> SUFFICES ASSUME i + 1 <= Len(P) PROVE f[i + 1] = g[i + 1]
      OBVIOUS
    <2>1. /\ f[i] = g[i] /\ i + 1 \in 1..Len(P) /\ i + 1 \in 0..Len(P)
          /\ i + 1 \in 0..(Len(P) + 1) /\ i + 1 - 1 = i /\ i + 1 # 0
      BY <1>1, <1>6
    <2>2. f[i + 1] = AfterPlace(P, S, f, i + 1) /\ g[i + 1] = AfterPlace(Q, S, g, i + 1)
      BY <1>4, <2>1
    <2> QED
      BY <1>1, <2>1, <2>2 DEF AfterPlace
  <1> HIDE DEF T
  <1>7. \A i \in Nat : i \in T
    BY <1>5, <1>6, SetInduction
  <1>8. f[Len(P)] = g[Len(P)]
    BY <1>1, <1>7 DEF T
  <1>9. g[Len(P) + 1] = IF x \in S THEN Append(g[Len(P)], x) ELSE g[Len(P)]
    <2>1. Len(P) + 1 # 0 /\ Len(P) + 1 - 1 = Len(P) /\ Len(P) + 1 \in 0..(Len(P) + 1)
      BY <1>1
    <2> QED
      BY <1>1, <1>4, <2>1 DEF AfterPlace
  <1> QED
    BY <1>1, <1>2, <1>3, <1>8, <1>9 DEF Q

\* Only returns elements of the sequence that are in S.
LEMMA OnlyType ==
  ASSUME NEW A, NEW S
  PROVE  \A P \in Seq(A) : Only(P, S) \in Seq(A \cap S)
  <1> DEFINE Q == {P \in Seq(A) : Only(P, S) \in Seq(A \cap S)}
  <1>1. <<>> \in Q
    <2>1. <<>> \in Seq(A) /\ <<>> \in Seq(A \cap S)
      BY EmptySeq
    <2> QED
      BY <2>1, OnlyEmpty
  <1>2. ASSUME NEW P \in Seq(A), NEW x \in A, P \in Q PROVE Append(P, x) \in Q
    <2>1. Only(Append(P, x), S) = IF x \in S THEN Append(Only(P, S), x) ELSE Only(P, S)
      BY OnlyAppend
    <2>2. Append(P, x) \in Seq(A)
      BY AppendProperties
    <2>3. x \in S => Append(Only(P, S), x) \in Seq(A \cap S)
      BY <1>2, AppendProperties
    <2> QED
      BY <1>2, <2>1, <2>2, <2>3
  <1> HIDE DEF Q
  <1>3. \A P \in Seq(A) : P \in Q
    BY <1>1, <1>2, SeqInduction
  <1> QED
    BY <1>3 DEF Q

\* Of a sequence of elements of S Only returns all.
LEMMA OnlyAll ==
  ASSUME NEW S
  PROVE  \A P \in Seq(S) : Only(P, S) = P
  <1> DEFINE Q == {P \in Seq(S) : Only(P, S) = P}
  <1>1. <<>> \in Q
    <2>1. <<>> \in Seq(S)
      BY EmptySeq
    <2> QED
      BY <2>1, OnlyEmpty
  <1>2. ASSUME NEW P \in Seq(S), NEW x \in S, P \in Q PROVE Append(P, x) \in Q
    <2>1. Only(Append(P, x), S) = IF x \in S THEN Append(Only(P, S), x) ELSE Only(P, S)
      BY OnlyAppend
    <2>2. Append(P, x) \in Seq(S)
      BY AppendProperties
    <2> QED
      BY <1>2, <2>1, <2>2
  <1> HIDE DEF Q
  <1>3. \A P \in Seq(S) : P \in Q
    BY <1>1, <1>2, SeqInduction
  <1> QED
    BY <1>3 DEF Q

\* Twice Only is Only with what both sets have.
LEMMA OnlyAgain ==
  ASSUME NEW A, NEW S, NEW R
  PROVE  \A P \in Seq(A) : Only(Only(P, S), R) = Only(P, S \cap R)
  <1> DEFINE Q == {P \in Seq(A) : Only(Only(P, S), R) = Only(P, S \cap R)}
  <1>1. <<>> \in Q
    <2>1. <<>> \in Seq(A)
      BY EmptySeq
    <2>2. Only(<<>>, S) = <<>> /\ Only(<<>>, R) = <<>> /\ Only(<<>>, S \cap R) = <<>>
      BY OnlyEmpty
    <2> QED
      BY <2>1, <2>2
  <1>2. ASSUME NEW P \in Seq(A), NEW x \in A, P \in Q PROVE Append(P, x) \in Q
    <2>1. Only(Append(P, x), S) = IF x \in S THEN Append(Only(P, S), x) ELSE Only(P, S)
      BY OnlyAppend
    <2>2. Only(Append(P, x), S \cap R) =
            IF x \in S \cap R THEN Append(Only(P, S \cap R), x) ELSE Only(P, S \cap R)
      BY OnlyAppend
    <2>3. Only(P, S) \in Seq(A)
      <3>1. Only(P, S) \in Seq(A \cap S)
        BY OnlyType
      <3> QED
        BY <3>1, SeqMonotonic
    <2>4. Only(Append(Only(P, S), x), R) =
            IF x \in R THEN Append(Only(Only(P, S), R), x) ELSE Only(Only(P, S), R)
      BY <2>3, OnlyAppend
    <2>5. Append(P, x) \in Seq(A) /\ Only(Only(P, S), R) = Only(P, S \cap R)
      BY <1>2, AppendProperties
    <2>6. Only(Only(Append(P, x), S), R) = Only(Append(P, x), S \cap R)
      <3>1. CASE x \in S
        <4>1. Only(Only(Append(P, x), S), R) = Only(Append(Only(P, S), x), R)
          BY <2>1, <3>1
        <4>2. Only(Append(P, x), S \cap R) =
                IF x \in R THEN Append(Only(P, S \cap R), x) ELSE Only(P, S \cap R)
          BY <2>2, <3>1
        <4> QED
          BY <2>4, <2>5, <4>1, <4>2
      <3>2. CASE x \notin S
        BY <2>1, <2>2, <2>5, <3>2
      <3> QED
        BY <3>1, <3>2
    <2> QED
      BY <2>5, <2>6
  <1> HIDE DEF Q
  <1>3. \A P \in Seq(A) : P \in Q
    BY <1>1, <1>2, SeqInduction
  <1> QED
    BY <1>3 DEF Q

\* Without the first element, a sequence loses that element if S has it.
LEMMA OnlyTail ==
  ASSUME NEW A, NEW S, NEW P \in Seq(A), P # <<>>
  PROVE  /\ Head(P) \in S => Only(P, S) # <<>> /\ Tail(Only(P, S)) = Only(Tail(P), S)
         /\ Head(P) \notin S => Only(P, S) = Only(Tail(P), S)
  <1> DEFINE Good(R) ==
               /\ Head(R) \in S => Only(R, S) # <<>> /\ Tail(Only(R, S)) = Only(Tail(R), S)
               /\ Head(R) \notin S => Only(R, S) = Only(Tail(R), S)
             Q == {R \in Seq(A) : R # <<>> => Good(R)}
  <1>1. <<>> \in Q
    BY EmptySeq
  <1>2. ASSUME NEW R \in Seq(A), NEW x \in A, R \in Q PROVE Append(R, x) \in Q
    <2> DEFINE T == Append(R, x)
    <2>1. T \in Seq(A) /\ T # <<>>
      BY AppendProperties
    <2>2. Only(T, S) = IF x \in S THEN Append(Only(R, S), x) ELSE Only(R, S)
      BY OnlyAppend
    <2>3. CASE R = <<>>
      <3>1. Head(T) = x /\ Tail(T) = <<>>
        BY <2>3
      <3>2. Only(R, S) = <<>> /\ Only(<<>>, S) = <<>>
        BY <2>3, OnlyEmpty
      <3>3. Append(<<>>, x) # <<>> /\ Tail(Append(<<>>, x)) = <<>>
        OBVIOUS
      <3> HIDE DEF T
      <3>4. Good(T)
        BY <2>2, <3>1, <3>2, <3>3
      <3> QED
        BY <2>1, <3>4 DEF T
    <2>4. CASE R # <<>>
      <3>1. Head(T) = Head(R) /\ Tail(T) = Append(Tail(R), x) /\ Tail(R) \in Seq(A)
        BY <2>4, HeadTailAppend, HeadTailProperties
      <3>2. Only(Append(Tail(R), x), S) =
              IF x \in S THEN Append(Only(Tail(R), S), x) ELSE Only(Tail(R), S)
        BY <3>1, OnlyAppend
      <3>3. Good(R)
        BY <1>2, <2>4
      <3>4. Only(R, S) \in Seq(A)
        <4>1. Only(R, S) \in Seq(A \cap S)
          BY OnlyType
        <4> QED
          BY <4>1, SeqMonotonic
      <3>5. /\ Append(Only(R, S), x) # <<>>
            /\ Only(R, S) # <<>> => Tail(Append(Only(R, S), x)) = Append(Tail(Only(R, S)), x)
        BY <3>4, AppendProperties, HeadTailAppend
      <3> HIDE DEF T
      <3>6. Good(T)
        <4>1. CASE Head(R) \in S
          BY <2>2, <3>1, <3>2, <3>3, <3>5, <4>1
        <4>2. CASE Head(R) \notin S
          <5>1. Only(R, S) = Only(Tail(R), S)
            BY <3>3, <4>2
          <5>2. Only(T, S) = Only(Tail(T), S)
            <6>1. Tail(T) = Append(Tail(R), x)
              BY <3>1
            <6>2. CASE x \in S
              BY <2>2, <3>2, <5>1, <6>1, <6>2
            <6>3. CASE x \notin S
              BY <2>2, <3>2, <5>1, <6>1, <6>3
            <6> QED
              BY <6>2, <6>3
          <5> QED
            BY <3>1, <4>2, <5>2
        <4> QED
          BY <4>1, <4>2
      <3> QED
        BY <2>1, <3>6 DEF T
    <2> QED
      BY <2>3, <2>4
  <1> HIDE DEF Q, Good
  <1>3. \A R \in Seq(A) : R \in Q
    BY <1>1, <1>2, SeqInduction
  <1>4. Good(P)
    BY <1>3 DEF Q
  <1> QED
    BY <1>4 DEF Good

\* Two sequences have the same elements, the one in S, the other in R.
Alike(P, O, S, R) ==
  /\ Len(P) = Len(O)
  /\ \A i \in 1..Len(P) : (P[i] \in S <=> O[i] \in R) /\ (P[i] \in S => P[i] = O[i])

\* The same is left of them.
LEMMA OnlySame ==
  ASSUME NEW A, NEW S, NEW R
  PROVE  \A P, O \in Seq(A) : Alike(P, O, S, R) => Only(P, S) = Only(O, R)
  <1> USE DEF Alike
  <1> DEFINE Q == {P \in Seq(A) : \A O \in Seq(A) : Alike(P, O, S, R) => Only(P, S) = Only(O, R)}
  <1>1. <<>> \in Q
    <2>1. <<>> \in Seq(A) /\ Len(<<>>) = 0
      BY EmptySeq
    <2>2. \A O \in Seq(A) : Len(O) = 0 => O = <<>>
      BY EmptySeq
    <2>3. Only(<<>>, S) = <<>> /\ Only(<<>>, R) = <<>>
      BY OnlyEmpty
    <2>4. \A O \in Seq(A) : Alike(<<>>, O, S, R) => O = <<>>
      BY <2>1, <2>2
    <2> QED
      BY <2>1, <2>3, <2>4
  <1>2. ASSUME NEW P \in Seq(A), NEW x \in A, P \in Q PROVE Append(P, x) \in Q
    <2> DEFINE T == Append(P, x)
    <2>1. /\ T \in Seq(A) /\ Len(T) = Len(P) + 1 /\ Len(P) \in Nat
          /\ \A i \in 1..Len(P) : T[i] = P[i]
          /\ T[Len(P) + 1] = x
      BY AppendProperties, LenProperties
    <2>2. Only(T, S) = IF x \in S THEN Append(Only(P, S), x) ELSE Only(P, S)
      BY OnlyAppend
    <2> HIDE DEF T
    <2>3. ASSUME NEW O \in Seq(A), Alike(T, O, S, R) PROVE Only(T, S) = Only(O, R)
      <3> DEFINE F == SubSeq(O, 1, Len(O) - 1)
                 y == O[Len(O)]
      <3>1. Len(O) = Len(P) + 1 /\ O # <<>>
        BY <2>1, <2>3, EmptySeq
      <3>2. O = Append(F, y) /\ y \in A
        BY <3>1, FrontAndLast
      <3>3. F \in Seq(A) /\ Len(F) = Len(P) /\ \A i \in 1..Len(P) : F[i] = O[i]
        BY <2>1, <3>1, FrontOf
      <3> HIDE DEF F
      <3>4. Alike(P, F, S, R)
        <4>1. \A i \in 1..Len(P) : i \in 1..Len(T) /\ T[i] = P[i] /\ F[i] = O[i]
          BY <2>1, <3>3
        <4> QED
          BY <2>3, <3>3, <4>1
      <3>5. Only(P, S) = Only(F, R)
        BY <1>2, <3>3, <3>4
      <3>6. (x \in S <=> y \in R) /\ (x \in S => x = y)
        <4>1. Len(O) \in 1..Len(T) /\ T[Len(O)] = x
          BY <2>1, <3>1
        <4> QED
          BY <2>3, <4>1
      <3> HIDE DEF y
      <3>7. Only(O, R) = IF y \in R THEN Append(Only(F, R), y) ELSE Only(F, R)
        BY <3>2, <3>3, OnlyAppend
      <3> QED
        BY <2>2, <3>5, <3>6, <3>7
    <2> QED
      BY <2>1, <2>3 DEF T
  <1> HIDE DEF Q
  <1>3. \A P \in Seq(A) : P \in Q
    BY <1>1, <1>2, SeqInduction
  <1> QED
    BY <1>3 DEF Q

\* Reverse.
LEMMA ReverseFacts ==
  ASSUME NEW A, NEW P \in Seq(A)
  PROVE  /\ Reverse(P) \in Seq(A) /\ Len(Reverse(P)) = Len(P)
         /\ \A i \in 1..Len(P) : Reverse(P)[i] = P[(Len(P) - i) + 1]
         /\ Reverse(Reverse(P)) = P
  <1> DEFINE R == Reverse(P)
  <1>1. Len(P) \in Nat /\ \A i \in 1..Len(P) : P[i] \in A /\ (Len(P) - i) + 1 \in 1..Len(P)
    BY LenProperties, ElementOfSeq
  <1>2. R = [i \in 1..Len(P) |-> P[(Len(P) - i) + 1]]
    BY DEF Reverse
  <1> HIDE DEF R
  <1>3. \A i \in 1..Len(P) : R[i] = P[(Len(P) - i) + 1] /\ R[i] \in A
    BY <1>1, <1>2
  <1>4. R \in Seq(A) /\ Len(R) = Len(P)
    <2>1. R \in [1..Len(P) -> A]
      BY <1>2, <1>3
    <2> QED
      BY <1>1, <2>1, IsASeq, LenProperties
  <1>5. Reverse(R) = P
    <2>1. Reverse(R) = [i \in 1..Len(P) |-> R[(Len(P) - i) + 1]]
      BY <1>4 DEF Reverse
    <2>2. \A i \in 1..Len(P) : R[(Len(P) - i) + 1] = P[i]
      <3> TAKE i \in 1..Len(P)
      <3>1. (Len(P) - i) + 1 \in 1..Len(P) /\ (Len(P) - ((Len(P) - i) + 1)) + 1 = i
        BY <1>1
      <3> QED
        BY <1>3, <3>1
    <2>3. P = [i \in 1..Len(P) |-> P[i]]
      BY LenProperties
    <2> QED
      BY <2>1, <2>2, <2>3
  <1> QED
    BY <1>3, <1>4, <1>5 DEF R

\* The reverse of a sequence begins with its last element.
LEMMA ReverseTail ==
  ASSUME NEW A, NEW P \in Seq(A), P # <<>>
  PROVE  /\ Reverse(P) # <<>> /\ Head(Reverse(P)) = P[Len(P)]
         /\ Tail(Reverse(P)) = Reverse(SubSeq(P, 1, Len(P) - 1))
  <1> DEFINE R == Reverse(P)
             F == SubSeq(P, 1, Len(P) - 1)
  <1>1. /\ R \in Seq(A) /\ Len(R) = Len(P)
        /\ \A i \in 1..Len(P) : R[i] = P[(Len(P) - i) + 1]
    BY ReverseFacts
  <1>2. /\ F \in Seq(A) /\ Len(F) = Len(P) - 1
        /\ \A i \in 1..(Len(P) - 1) : F[i] = P[i]
    BY FrontOf
  <1>3. Len(P) \in Nat \ {0}
    BY LenProperties, EmptySeq
  <1> HIDE DEF R, F
  <1>4. /\ Reverse(F) \in Seq(A) /\ Len(Reverse(F)) = Len(F)
        /\ \A i \in 1..Len(F) : Reverse(F)[i] = F[(Len(F) - i) + 1]
    BY <1>2, ReverseFacts
  <1>5. R # <<>> /\ Head(R) = R[1]
    BY <1>1, <1>3, EmptySeq, HeadTailProperties
  <1>6. R[1] = P[Len(P)]
    BY <1>1, <1>3
  <1>7. /\ Tail(R) \in Seq(A) /\ Len(Tail(R)) = Len(P) - 1
        /\ \A i \in 1..(Len(P) - 1) : Tail(R)[i] = R[i + 1]
    BY <1>1, <1>5, HeadTailProperties
  <1>8. ASSUME NEW i \in 1..(Len(P) - 1) PROVE Tail(R)[i] = Reverse(F)[i]
    <2>1. /\ i + 1 \in 1..Len(P) /\ (Len(F) - i) + 1 \in 1..(Len(P) - 1)
          /\ (Len(P) - (i + 1)) + 1 = (Len(F) - i) + 1 /\ i \in 1..Len(F)
      BY <1>2, <1>3
    <2> QED
      BY <1>1, <1>2, <1>4, <1>7, <2>1
  <1>9. Tail(R) = Reverse(F)
    BY <1>2, <1>4, <1>7, <1>8, SeqEqual
  <1> QED
    BY <1>5, <1>6, <1>9 DEF R, F

-----------------------------------------------------------------------------
(* The 4-heap.                                                               *)

Slots(N) == HEAP0..(HEAP0 + N - 1)
HeapEntries == [at : Nat, w : Timers]
Dues == [Timers -> Nat \cup {-1}]

\* The heap h of N entries and the positions a of the watchers fit together:
\* the watchers of V that are in the heap are those that T has a time for.
Holds(h, a, N, T, V) ==
  /\ h \in [Slots(N) -> HeapEntries]
  /\ a \in [Timers -> Nat]
  /\ \A k \in Slots(N) : h[k].w \in V /\ a[h[k].w] = k /\ T[h[k].w] = h[k].at
  /\ \A w \in V : IF T[w] = -1 THEN a[w] = 0 ELSE a[w] \in Slots(N) /\ h[a[w]].w = w

\* No entry is later than its children.
InOrder(h, j) == h[HPARENT(j)].at <= h[j].at
Ordered(h, N) == \A j \in Slots(N) : InOrder(h, j)

\* The heap but for the entry at k, which may be too early, too late, or both
\* ways out of place.
Bridged(h, k, N) ==
  k # HEAP0 => \A j \in Slots(N) : HPARENT(j) = k => h[HPARENT(k)].at <= h[j].at
RiseOrder(h, k, N) ==
  Bridged(h, k, N) /\ \A j \in Slots(N) : j # k => InOrder(h, j)
SinkOrder(h, k, N) ==
  Bridged(h, k, N) /\ \A j \in Slots(N) : HPARENT(j) # k => InOrder(h, j)
AdjustOrder(h, k, N) ==
  Bridged(h, k, N) /\ \A j \in Slots(N) : j # k /\ HPARENT(j) # k => InOrder(h, j)

\* The parent of an entry comes before it.
LEMMA ParentFacts ==
  ASSUME NEW N \in Nat, NEW k \in Slots(N)
  PROVE  /\ k \in Nat /\ k >= HEAP0 /\ HEAP0 \in Slots(N)
         /\ HPARENT(k) \in Slots(N)
         /\ HPARENT(HEAP0) = HEAP0
         /\ k # HEAP0 => HPARENT(k) < k /\ HPARENT(k) # k
  BY DEF Slots, HPARENT, HEAP0, DHEAP

\* The children of an entry are the DHEAP ones downheap looks at.
LEMMA ChildFacts ==
  ASSUME NEW N \in Nat, NEW k \in Slots(N), NEW j \in Slots(N), j # HEAP0
  PROVE  HPARENT(j) = k <=> j \in (DHEAP * (k - HEAP0) + HEAP0 + 1)
                                  ..(DHEAP * (k - HEAP0) + HEAP0 + 1 + DHEAP - 1)
  BY DEF Slots, HPARENT, HEAP0, DHEAP

\* The loops of upheap and downheap: the heap with a hole at k.
HoleStates(N) == [heap : [Slots(N) -> HeapEntries], active : [Timers -> Nat], k : Slots(N)]

\* The heap with he in the hole.
Filled(x, he) == Put(x, x.k, he).heap
Fitted(x, he, N, T, V) == Holds(Filled(x, he), Put(x, x.k, he).active, N, T, V)

\* What is where in the heap after a move.
LEMMA MovePlaces ==
  ASSUME NEW N \in Nat, NEW x \in HoleStates(N), NEW he \in HeapEntries,
         NEW j \in Slots(N), j # x.k
  PROVE  /\ Filled(Moved(x, j), he)[x.k] = Filled(x, he)[j]
         /\ Filled(Moved(x, j), he)[j] = he
         /\ \A i \in Slots(N) : i # x.k /\ i # j => Filled(Moved(x, j), he)[i] = Filled(x, he)[i]
  BY DEF Filled, Moved, Put, HoleStates

\* An entry moves into the hole: with he in the hole, the two change places.
LEMMA MoveHolds ==
  ASSUME NEW N \in Nat, NEW T, NEW V, V \subseteq Timers, NEW x \in HoleStates(N),
         NEW he \in HeapEntries, NEW j \in Slots(N), j # x.k,
         Fitted(x, he, N, T, V)
  PROVE  /\ Moved(x, j) \in HoleStates(N) /\ Moved(x, j).k = j
         /\ Fitted(Moved(x, j), he, N, T, V)
  <1> DEFINE k == x.k
             v == Filled(x, he)
             h == x.heap
             a == x.active
             b == [a EXCEPT ![he.w] = k]
             g == [[h EXCEPT ![k] = h[j]] EXCEPT ![j] = he]
             c == [[a EXCEPT ![h[j].w] = k] EXCEPT ![he.w] = j]
  <1>1. /\ k \in Slots(N) /\ h \in [Slots(N) -> HeapEntries] /\ a \in [Timers -> Nat]
        /\ he.w \in Timers /\ h[j] \in HeapEntries /\ h[j].w \in Timers
        /\ k \in Nat /\ j \in Nat /\ k # 0 /\ j # 0
    BY DEF HoleStates, HeapEntries, Slots, HEAP0
  <1>2. v = [h EXCEPT ![k] = he] /\ Holds(v, b, N, T, V)
    BY DEF Put, Fitted, Filled
  <1> HIDE DEF v
  <1>3. Moved(x, j) = [heap |-> [h EXCEPT ![k] = h[j]], active |-> [a EXCEPT ![h[j].w] = k], k |-> j]
    BY DEF Moved, Put
  <1>4. Moved(x, j) \in HoleStates(N)
    BY <1>1, <1>3 DEF HoleStates
  <1>5. Put(Moved(x, j), j, he) = [heap |-> g, active |-> c]
    BY <1>3 DEF Put
  <1>6. g \in [Slots(N) -> HeapEntries] /\ c \in [Timers -> Nat]
    BY <1>1
  <1>8. /\ \A i \in Slots(N) : v[i].w \in V /\ b[v[i].w] = i /\ T[v[i].w] = v[i].at
        /\ \A w \in V : IF T[w] = -1 THEN b[w] = 0 ELSE b[w] \in Slots(N) /\ v[b[w]].w = w
    BY <1>2 DEF Holds
  <1>9. /\ v[k] = he /\ v[j] = h[j] /\ \A i \in Slots(N) : i # k => v[i] = h[i]
        /\ g[k] = h[j] /\ g[j] = he /\ \A i \in Slots(N) : i # k /\ i # j => g[i] = h[i]
    BY <1>1, <1>2
  <1>10. /\ he.w # h[j].w
         /\ \A i \in Slots(N) : i # k => h[i].w # he.w
         /\ \A i \in Slots(N) : i # k /\ i # j => h[i].w # h[j].w
    BY <1>1, <1>8, <1>9
  <1>11. /\ c[he.w] = j /\ c[h[j].w] = k
         /\ \A w \in Timers : w # he.w /\ w # h[j].w => c[w] = a[w]
         /\ \A w \in Timers : w # he.w => b[w] = a[w]
         /\ b[he.w] = k
    BY <1>1, <1>10
  <1> HIDE DEF k, h, a, b, g, c
  <1>12. ASSUME NEW i \in Slots(N)
         PROVE  g[i].w \in V /\ c[g[i].w] = i /\ T[g[i].w] = g[i].at
    <2>1. CASE i = k
      BY <1>1, <1>8, <1>9, <1>11, <2>1
    <2>2. CASE i = j
      BY <1>1, <1>8, <1>9, <1>11, <2>2
    <2>3. CASE i # k /\ i # j
      <3>1. g[i] = h[i] /\ v[i] = h[i] /\ h[i].w # he.w /\ h[i].w # h[j].w
        BY <1>9, <1>10, <2>3
      <3>2. h[i].w \in V /\ b[h[i].w] = i /\ T[h[i].w] = h[i].at
        BY <1>8, <3>1
      <3> QED
        BY <1>11, <3>1, <3>2
    <2> QED
      BY <2>1, <2>2, <2>3
  <1>13. ASSUME NEW w \in V
         PROVE  IF T[w] = -1 THEN c[w] = 0 ELSE c[w] \in Slots(N) /\ g[c[w]].w = w
    <2>1. CASE w = he.w
      BY <1>1, <1>8, <1>9, <1>11, <2>1
    <2>2. CASE w = h[j].w
      BY <1>1, <1>8, <1>9, <1>10, <1>11, <2>2
    <2>3. CASE w # he.w /\ w # h[j].w
      <3>1. c[w] = a[w] /\ b[w] = a[w]
        BY <1>11, <2>3
      <3>2. CASE T[w] = -1
        BY <1>8, <3>1, <3>2
      <3>3. CASE T[w] # -1
        <4>1. a[w] \in Slots(N) /\ v[a[w]].w = w
          BY <1>8, <3>1, <3>3
        <4>2. a[w] # k /\ a[w] # j
          BY <1>9, <2>3, <4>1
        <4> QED
          BY <1>9, <3>1, <3>3, <4>1, <4>2
      <3> QED
        BY <3>2, <3>3
    <2> QED
      BY <2>1, <2>2, <2>3
  <1>14. Holds(g, c, N, T, V)
    BY <1>6, <1>12, <1>13 DEF Holds
  <1>15. Moved(x, j).k = j
    BY <1>3
  <1> QED
    BY <1>3, <1>4, <1>5, <1>9, <1>14, <1>15 DEF k, v, Fitted, Filled

\* The states of upheap's loop, with the entry he in hand.
RiseStates(N, T, V, he) ==
  {x \in HoleStates(N) : Fitted(x, he, N, T, V) /\ RiseOrder(Filled(x, he), x.k, N)}

\* A turn of upheap's loop: the entry rises, or the heap is in order.
LEMMA RiseTurnKeeps ==
  ASSUME NEW N \in Nat, NEW T, NEW V, V \subseteq Timers, NEW he \in HeapEntries,
         NEW x \in RiseStates(N, T, V, he)
  PROVE  /\ RiseTurn(x, he) \in RiseStates(N, T, V, he)
         /\ \/ /\ RiseTurn(x, he) = x
               /\ Ordered(Filled(x, he), N)
            \/ RiseTurn(x, he).k < x.k
  <1> DEFINE k == x.k
             p == HPARENT(k)
             v == Filled(x, he)
             y == Moved(x, p)
             u == Filled(y, he)
  <1>1. /\ x \in HoleStates(N) /\ k \in Slots(N)
        /\ Fitted(x, he, N, T, V)
        /\ RiseOrder(v, k, N)
    BY DEF RiseStates, HoleStates
  <1>2. /\ p \in Slots(N) /\ k \in Nat /\ p \in Nat /\ (p # k => p < k)
        /\ (p = k <=> k = HEAP0)
    BY <1>1, ParentFacts DEF Slots, HEAP0
  <1>3. v[k] = he /\ \A i \in Slots(N) : i # k => v[i] = x.heap[i]
    BY <1>1 DEF HoleStates, Put, Filled
  <1>4. \A i \in Slots(N) : v[i].at \in Nat
    BY <1>1 DEF Fitted, Holds, HeapEntries
  <1> HIDE DEF p
  <1>5. CASE p = k \/ x.heap[p].at <= he.at
    <2>1. RiseTurn(x, he) = x
      BY <1>5 DEF RiseTurn, p
    <2>2. InOrder(v, k)
      <3>1. CASE p = k
        BY <1>1, <1>4, <3>1 DEF InOrder, p
      <3>2. CASE p # k /\ x.heap[p].at <= he.at
        BY <1>2, <1>3, <3>2 DEF InOrder, p
      <3> QED
        BY <1>5, <3>1, <3>2
    <2>3. Ordered(v, N)
      BY <1>1, <2>2 DEF Ordered, RiseOrder
    <2> QED
      BY <2>1, <2>3
  <1>6. CASE ~(p = k \/ x.heap[p].at <= he.at)
    <2>1. RiseTurn(x, he) = y /\ p # k
      BY <1>6 DEF RiseTurn, p
    <2>2. /\ y \in HoleStates(N) /\ y.k = p
          /\ Fitted(y, he, N, T, V)
      BY <1>1, <1>2, <2>1, MoveHolds
    <2>3. /\ u[k] = v[p] /\ u[p] = he
          /\ \A i \in Slots(N) : i # k /\ i # p => u[i] = v[i]
      BY <1>1, <1>2, <2>1, MovePlaces
    <2> HIDE DEF u
    <2>4. he.at < v[p].at /\ he.at \in Nat
      BY <1>2, <1>3, <1>4, <1>6 DEF HeapEntries
    <2>5. ASSUME NEW j \in Slots(N), j # p PROVE InOrder(u, j)
      <3>1. HPARENT(j) \in Slots(N)
        BY ParentFacts
      <3>2. CASE j = k
        BY <1>2, <1>4, <2>3, <2>4, <3>2 DEF InOrder, p
      <3>3. CASE j # k /\ HPARENT(j) = k
        <4>1. v[p].at <= v[j].at
          BY <1>1, <1>2, <1>6, <3>3 DEF RiseOrder, Bridged, p
        <4> QED
          BY <2>3, <2>5, <3>3, <4>1 DEF InOrder, p
      <3>4. CASE j # k /\ HPARENT(j) = p
        <4>1. v[p].at <= v[j].at
          BY <1>1, <3>4 DEF RiseOrder, InOrder, p
        <4>2. v[p].at \in Nat /\ v[j].at \in Nat
          BY <1>2, <1>4
        <4> QED
          BY <2>3, <2>4, <2>5, <3>4, <4>1, <4>2 DEF InOrder, p
      <3>5. CASE j # k /\ HPARENT(j) # k /\ HPARENT(j) # p
        BY <1>1, <2>3, <2>5, <3>1, <3>5 DEF RiseOrder, InOrder, p
      <3> QED
        BY <3>2, <3>3, <3>4, <3>5
    <2>6. ASSUME NEW j \in Slots(N), HPARENT(j) = p, p # HEAP0
          PROVE  u[HPARENT(p)].at <= u[j].at
      <3>1. HPARENT(p) \in Slots(N) /\ HPARENT(p) # p /\ HPARENT(p) < p /\ HPARENT(p) \in Nat
        BY <1>2, <2>6, ParentFacts DEF Slots, HEAP0
      <3>2. HPARENT(p) # k
        BY <1>2, <1>6, <3>1
      <3>3. u[HPARENT(p)] = v[HPARENT(p)] /\ v[HPARENT(p)].at <= v[p].at
        BY <1>1, <1>2, <1>6, <2>3, <3>1, <3>2 DEF RiseOrder, InOrder, p
      <3>4. j # p
        BY <2>6, <3>1
      <3>5. CASE j = k
        BY <2>3, <3>3, <3>5
      <3>6. CASE j # k
        <4>1. v[p].at <= v[j].at /\ u[j] = v[j]
          BY <1>1, <2>3, <2>6, <3>4, <3>6 DEF RiseOrder, InOrder, p
        <4>2. v[p].at \in Nat /\ v[j].at \in Nat /\ v[HPARENT(p)].at \in Nat
          BY <1>2, <1>4, <3>1
        <4> QED
          BY <3>3, <4>1, <4>2
      <3> QED
        BY <3>5, <3>6
    <2>7. RiseOrder(u, p, N)
      BY <2>5, <2>6 DEF RiseOrder, Bridged
    <2>8. y \in RiseStates(N, T, V, he)
      BY <2>2, <2>7 DEF RiseStates, u
    <2> QED
      BY <1>2, <1>6, <2>1, <2>2, <2>8
  <1> QED
    BY <1>5, <1>6

\* MinChild is an earliest child, if there is a child.
LEMMA MinChildFacts ==
  ASSUME NEW N \in Nat, NEW h \in [Slots(N) -> HeapEntries], NEW k \in Slots(N),
         NEW C, C = {j \in Slots(N) : j # HEAP0 /\ HPARENT(j) = k}
  PROVE  /\ MinChild(h, N, k) \subseteq C
         /\ \A c \in MinChild(h, N, k), d \in C : h[c].at <= h[d].at
         /\ C # {} => MinChild(h, N, k) # {}
  <1>1. C = (DHEAP * (k - HEAP0) + HEAP0 + 1)..(DHEAP * (k - HEAP0) + HEAP0 + 1 + DHEAP - 1) \cap Slots(N)
    <2>1. \A j \in (DHEAP * (k - HEAP0) + HEAP0 + 1)
                  ..(DHEAP * (k - HEAP0) + HEAP0 + 1 + DHEAP - 1) : j # HEAP0
      BY DEF Slots, HEAP0, DHEAP
    <2> QED
      BY <2>1, ChildFacts
  <1>2. MinChild(h, N, k) = {c \in C : /\ \A d \in C : h[c].at <= h[d].at
                                       /\ \A d \in C : h[c].at = h[d].at => c <= d}
    BY <1>1 DEF MinChild, Slots
  <1>3. \A d \in C : h[d].at \in Nat /\ d \in Nat
    BY DEF HeapEntries, Slots, HEAP0
  <1>4. ASSUME C # {} PROVE MinChild(h, N, k) # {}
    <2>1. {h[d].at : d \in C} \subseteq Nat /\ {h[d].at : d \in C} # {}
      BY <1>3, <1>4
    <2>2. PICK a \in {h[d].at : d \in C} : \A b \in {h[d].at : d \in C} : a <= b
      BY <2>1, LeastElement
    <2>3. {d \in C : h[d].at = a} \subseteq Nat /\ {d \in C : h[d].at = a} # {}
      BY <1>3, <2>2
    <2>4. PICK c \in {d \in C : h[d].at = a} : \A d \in {e \in C : h[e].at = a} : c <= d
      BY <2>3, LeastElement
    <2>5. /\ \A d \in C : h[c].at <= h[d].at
          /\ \A d \in C : h[c].at = h[d].at => c <= d
      BY <2>2, <2>4
    <2> QED
      BY <1>2, <2>4, <2>5
  <1> QED
    BY <1>2, <1>4

\* The states of downheap's loop, with the entry he in hand.
SinkStates(N, T, V, he) ==
  {x \in HoleStates(N) : Fitted(x, he, N, T, V) /\ SinkOrder(Filled(x, he), x.k, N)}

\* A turn of downheap's loop: the entry sinks, or the heap is in order.
LEMMA SinkTurnKeeps ==
  ASSUME NEW N \in Nat, NEW T, NEW V, V \subseteq Timers, NEW he \in HeapEntries,
         NEW x \in SinkStates(N, T, V, he)
  PROVE  /\ SinkTurn(x, N, he) \in SinkStates(N, T, V, he)
         /\ \/ /\ SinkTurn(x, N, he) = x
               /\ Ordered(Filled(x, he), N)
            \/ SinkTurn(x, N, he).k > x.k
  <1> DEFINE k == x.k
             C == {j \in Slots(N) : j # HEAP0 /\ HPARENT(j) = k}
             M == MinChild(x.heap, N, k)
             v == Filled(x, he)
  <1>1. /\ x \in HoleStates(N) /\ k \in Slots(N) /\ x.heap \in [Slots(N) -> HeapEntries]
        /\ Fitted(x, he, N, T, V)
        /\ SinkOrder(v, k, N)
    BY DEF SinkStates, HoleStates
  <1>2. v[k] = he /\ \A i \in Slots(N) : i # k => v[i] = x.heap[i]
    BY <1>1 DEF HoleStates, Put, Filled
  <1>3. (\A i \in Slots(N) : v[i].at \in Nat /\ i \in Nat) /\ he.at \in Nat
    BY <1>1 DEF Fitted, Holds, HeapEntries, Slots, HEAP0
  <1>4. /\ M \subseteq C
        /\ \A c \in M, d \in C : x.heap[c].at <= x.heap[d].at
        /\ C # {} => M # {}
    BY <1>1, MinChildFacts
  <1>5. \A j \in C : j \in Slots(N) /\ HPARENT(j) = k /\ j > k /\ j # k /\ j # HEAP0
    BY <1>1, <1>3, ParentFacts
  <1>6. \A j \in Slots(N) : HPARENT(j) = k => j \in C \/ j = k
    BY <1>1, ParentFacts
  <1> DEFINE below == {c \in M : x.heap[c].at < he.at}
  <1>7. CASE below = {}
    <2>1. SinkTurn(x, N, he) = x
      BY <1>7 DEF SinkTurn
    <2>2. ASSUME NEW j \in Slots(N) PROVE InOrder(v, j)
      <3>1. CASE HPARENT(j) # k
        BY <1>1, <3>1 DEF SinkOrder
      <3>2. CASE j = k /\ HPARENT(j) = k
        BY <1>3, <3>2 DEF InOrder
      <3>3. CASE j \in C
        <4>1. PICK c \in M : TRUE
          BY <1>4, <3>3
        <4>2. ~(x.heap[c].at < he.at) /\ c \in C /\ x.heap[c].at <= x.heap[j].at
          BY <1>4, <1>7, <3>3, <4>1
        <4>3. v[c] = x.heap[c] /\ v[j] = x.heap[j] /\ HPARENT(j) = k /\ c \in Slots(N)
          BY <1>2, <1>5, <3>3, <4>2
        <4>4. v[c].at \in Nat /\ v[j].at \in Nat
          BY <1>3, <4>3
        <4>5. he.at <= v[j].at
          BY <1>3, <4>2, <4>3, <4>4
        <4> QED
          BY <1>2, <4>3, <4>5 DEF InOrder
      <3> QED
        BY <1>6, <3>1, <3>2, <3>3
    <2> QED
      BY <2>1, <2>2 DEF Ordered
  <1>8. CASE below # {}
    <2>1. PICK c \in below : SinkTurn(x, N, he) = Moved(x, c)
      BY <1>8 DEF SinkTurn
    <2> DEFINE y == Moved(x, c)
               u == Filled(y, he)
    <2>2. /\ c \in C /\ c \in Slots(N) /\ HPARENT(c) = k /\ c > k /\ c # k /\ c # HEAP0
          /\ x.heap[c].at < he.at
      BY <1>4, <1>5
    <2>3. y \in HoleStates(N) /\ y.k = c /\ Fitted(y, he, N, T, V)
      BY <1>1, <2>2, MoveHolds
    <2>4. /\ u[k] = v[c] /\ u[c] = he
          /\ \A i \in Slots(N) : i # k /\ i # c => u[i] = v[i]
      BY <1>1, <2>2, MovePlaces
    <2> HIDE DEF u
    <2>5. /\ v[c].at < he.at /\ v[c].at \in Nat
          /\ \A j \in C : v[c].at <= v[j].at
      BY <1>2, <1>3, <1>4, <1>5, <2>1, <2>2
    <2>6. ASSUME NEW j \in Slots(N), HPARENT(j) # c PROVE InOrder(u, j)
      <3>1. HPARENT(j) \in Slots(N)
        BY ParentFacts
      <3>2. CASE j = c
        BY <1>3, <2>2, <2>4, <2>5, <3>2 DEF InOrder
      <3>3. CASE j = k
        <4>1. CASE k = HEAP0
          <5>1. HPARENT(j) = j
            BY <1>1, <3>3, <4>1, ParentFacts
          <5> QED
            BY <2>4, <2>5, <3>3, <5>1 DEF InOrder
        <4>2. CASE k # HEAP0
          <5>1. HPARENT(k) # k /\ v[HPARENT(k)].at <= v[c].at
            BY <1>1, <2>2, <4>2, ParentFacts DEF SinkOrder, Bridged
          <5>2. u[HPARENT(k)] = v[HPARENT(k)]
            BY <2>4, <2>6, <3>1, <3>3, <5>1
          <5> QED
            BY <2>4, <3>3, <5>1, <5>2 DEF InOrder
        <4> QED
          BY <4>1, <4>2
      <3>4. CASE j # k /\ j # c /\ HPARENT(j) = k
        <4>1. v[c].at <= v[j].at
          BY <1>6, <2>5, <3>4
        <4> QED
          BY <2>4, <3>4, <4>1 DEF InOrder
      <3>5. CASE j # k /\ j # c /\ HPARENT(j) # k
        BY <1>1, <2>4, <2>6, <3>1, <3>5 DEF InOrder, SinkOrder
      <3> QED
        BY <3>2, <3>3, <3>4, <3>5
    <2>7. ASSUME NEW j \in Slots(N), HPARENT(j) = c PROVE u[HPARENT(c)].at <= u[j].at
      <3>1. j # c /\ j # k
        <4>1. j # c
          BY <2>2, <2>7
        <4>2. HPARENT(k) # c
          BY <1>1, <1>3, <2>2, ParentFacts
        <4> QED
          BY <2>7, <4>1, <4>2
      <3>2. v[c].at <= v[j].at
        BY <1>1, <2>2, <2>7 DEF SinkOrder, InOrder
      <3> QED
        BY <2>2, <2>4, <3>1, <3>2
    <2>8. SinkOrder(u, c, N)
      BY <2>6, <2>7 DEF SinkOrder, Bridged
    <2>9. y \in SinkStates(N, T, V, he)
      BY <2>3, <2>8 DEF SinkStates, u
    <2> QED
      BY <2>1, <2>2, <2>3, <2>9
  <1> QED
    BY <1>7, <1>8

\* The hole the loops begin with is at k.
Hole(s, k) == [heap |-> s.heap, active |-> s.active, k |-> k]
RiseTurns(f, s, k) ==
  f = [i \in 0..k |-> IF i = 0 THEN Hole(s, k) ELSE RiseTurn(f[i - 1], s.heap[k])]
SinkTurns(f, s, N, k) ==
  f = [i \in 0..N |-> IF i = 0 THEN Hole(s, k) ELSE SinkTurn(f[i - 1], N, s.heap[k])]

\* The heap the loops begin with, with the entry back in its place.
LEMMA HoleFacts ==
  ASSUME NEW N \in Nat, NEW s, s.heap \in [Slots(N) -> HeapEntries],
         s.active \in [Timers -> Nat], NEW k \in Slots(N)
  PROVE  /\ Hole(s, k) \in HoleStates(N) /\ Hole(s, k).k = k
         /\ s.heap[k] \in HeapEntries
         /\ Filled(Hole(s, k), s.heap[k]) = s.heap
  BY DEF Hole, HoleStates, Filled, Put

\* upheap restores the order of a heap in which one entry may be too early.
LEMMA UpheapFacts ==
  ASSUME NEW N \in Nat, NEW T, NEW V, V \subseteq Timers, NEW s,
         s.heap \in [Slots(N) -> HeapEntries], s.active \in [Timers -> Nat],
         NEW k \in Slots(N),
         Fitted(Hole(s, k), s.heap[k], N, T, V), RiseOrder(s.heap, k, N)
  PROVE  /\ Holds(upheap(s, k).heap, upheap(s, k).active, N, T, V)
         /\ Ordered(upheap(s, k).heap, N)
  <1> DEFINE he == s.heap[k]
             X == RiseStates(N, T, V, he)
             F == [x \in X |-> RiseTurn(x, he)]
             D == {x \in X : RiseTurn(x, he) = x /\ Ordered(Filled(x, he), N)}
             m == [x \in X |-> x.k]
             f == CHOOSE g : RiseTurns(g, s, k)
  <1>0. k \in Nat
    BY DEF Slots, HEAP0
  <1>1. /\ k \in Nat /\ he \in HeapEntries
        /\ Hole(s, k) \in HoleStates(N) /\ Hole(s, k).k = k
        /\ Filled(Hole(s, k), he) = s.heap
    BY <1>0, HoleFacts
  <1>2. Hole(s, k) \in X
    BY <1>1 DEF RiseStates
  <1>3. \A x \in X : RiseTurn(x, he) \in X /\ (x \in D \/ RiseTurn(x, he).k < x.k)
    BY <1>1, RiseTurnKeeps
  <1>4. \A x \in X : x.k \in Nat
    BY DEF RiseStates, HoleStates, Slots, HEAP0
  <1>5. F \in [X -> X] /\ m \in [X -> Nat]
    BY <1>3, <1>4
  <1> HIDE DEF X, he
  <1>6. m[Hole(s, k)] <= k
    BY <1>1, <1>2
  <1>7. IsLoop(X, F, D, m)
    BY <1>3, <1>5 DEF IsLoop
  <1>8. PICK g \in [0..k -> X] : TurnsBy(g, k, F, Hole(s, k))
    <2> HIDE DEF F, D, m
    <2> QED
      BY <1>1, <1>2, <1>7, TurnsExist
  <1>9. RiseTurns(g, s, k)
    <2>1. [i \in 0..k |-> IF i = 0 THEN Hole(s, k) ELSE F[g[i - 1]]]
            = [i \in 0..k |-> IF i = 0 THEN Hole(s, k) ELSE RiseTurn(g[i - 1], he)]
      BY <1>1
    <2> QED
      BY <1>8, <2>1 DEF RiseTurns, TurnsBy, he
  <1>10. RiseTurns(f, s, k)
    BY <1>9
  <1> HIDE DEF f
  <1>11. IsRun(f, k, X, F, Hole(s, k))
    <2>1. f[0] = Hole(s, k) /\ \A i \in 1..k : f[i] = RiseTurn(f[i - 1], he)
      BY <1>1, <1>10 DEF RiseTurns, he
    <2> QED
      BY <2>1 DEF IsRun
  <1>12. f[k] \in D
    <2> HIDE DEF F, D, m
    <2> QED
      BY <1>1, <1>2, <1>6, <1>7, <1>11, LoopEnds
  <1>13. upheap(s, k) = Put(f[k], f[k].k, he)
    BY DEF upheap, f, RiseTurns, Hole, he
  <1>14. Fitted(f[k], he, N, T, V) /\ Ordered(Filled(f[k], he), N)
    BY <1>12 DEF X, RiseStates
  <1> QED
    BY <1>13, <1>14 DEF Fitted, Filled

\* downheap restores the order of a heap in which one entry may be too late.
LEMMA DownheapFacts ==
  ASSUME NEW N \in Nat, NEW T, NEW V, V \subseteq Timers, NEW s,
         s.heap \in [Slots(N) -> HeapEntries], s.active \in [Timers -> Nat],
         NEW k \in Slots(N),
         Fitted(Hole(s, k), s.heap[k], N, T, V), SinkOrder(s.heap, k, N)
  PROVE  /\ Holds(downheap(s, N, k).heap, downheap(s, N, k).active, N, T, V)
         /\ Ordered(downheap(s, N, k).heap, N)
  <1> DEFINE he == s.heap[k]
             X == SinkStates(N, T, V, he)
             F == [x \in X |-> SinkTurn(x, N, he)]
             D == {x \in X : SinkTurn(x, N, he) = x /\ Ordered(Filled(x, he), N)}
             m == [x \in X |-> HEAP0 + N - x.k]
             f == CHOOSE g : SinkTurns(g, s, N, k)
  <1>0. k \in Nat /\ k >= HEAP0 /\ HEAP0 \in Nat
    BY DEF Slots, HEAP0
  <1>1. /\ k \in Nat /\ k >= HEAP0 /\ HEAP0 \in Nat /\ he \in HeapEntries
        /\ Hole(s, k) \in HoleStates(N) /\ Hole(s, k).k = k
        /\ Filled(Hole(s, k), he) = s.heap
    BY <1>0, HoleFacts
  <1>2. Hole(s, k) \in X
    BY <1>1 DEF SinkStates
  <1>3. \A x \in X : SinkTurn(x, N, he) \in X /\ (x \in D \/ SinkTurn(x, N, he).k > x.k)
    BY <1>1, SinkTurnKeeps
  <1>4. \A x \in X : x.k \in Nat /\ HEAP0 + N - x.k \in Nat
    BY DEF SinkStates, HoleStates, Slots, HEAP0
  <1>5. F \in [X -> X] /\ m \in [X -> Nat]
    BY <1>3, <1>4
  <1> HIDE DEF X, he
  <1>6. m[Hole(s, k)] <= N
    BY <1>1, <1>2
  <1>7. IsLoop(X, F, D, m)
    <2>1. ASSUME NEW x \in X, x \notin D PROVE m[F[x]] < m[x]
      <3>1. SinkTurn(x, N, he) \in X /\ SinkTurn(x, N, he).k > x.k
        BY <1>3, <2>1
      <3>2. m[F[x]] = HEAP0 + N - SinkTurn(x, N, he).k /\ m[x] = HEAP0 + N - x.k
        BY <3>1
      <3> QED
        BY <1>1, <1>4, <3>1, <3>2
    <2> QED
      BY <1>5, <2>1 DEF IsLoop
  <1>8. PICK g \in [0..N -> X] : TurnsBy(g, N, F, Hole(s, k))
    <2> HIDE DEF F, D, m
    <2> QED
      BY <1>1, <1>2, <1>7, TurnsExist
  <1>9. SinkTurns(g, s, N, k)
    <2>1. [i \in 0..N |-> IF i = 0 THEN Hole(s, k) ELSE F[g[i - 1]]]
            = [i \in 0..N |-> IF i = 0 THEN Hole(s, k) ELSE SinkTurn(g[i - 1], N, he)]
      BY <1>1
    <2> QED
      BY <1>8, <2>1 DEF SinkTurns, TurnsBy, he
  <1>10. SinkTurns(f, s, N, k)
    BY <1>9
  <1> HIDE DEF f
  <1>11. IsRun(f, N, X, F, Hole(s, k))
    <2>1. f[0] = Hole(s, k) /\ \A i \in 1..N : f[i] = SinkTurn(f[i - 1], N, he)
      BY <1>1, <1>10 DEF SinkTurns, he
    <2> QED
      BY <2>1 DEF IsRun
  <1>12. f[N] \in D
    <2> HIDE DEF F, D, m
    <2> QED
      BY <1>1, <1>2, <1>6, <1>7, <1>11, LoopEnds
  <1>13. downheap(s, N, k) = Put(f[N], f[N].k, he)
    BY DEF downheap, f, SinkTurns, Hole, he
  <1>14. Fitted(f[N], he, N, T, V) /\ Ordered(Filled(f[N], he), N)
    BY <1>12 DEF X, SinkStates
  <1> QED
    BY <1>13, <1>14 DEF Fitted, Filled

\* adjustheap restores the order of a heap in which one entry is out of place.
LEMMA AdjustheapFacts ==
  ASSUME NEW N \in Nat, NEW T, NEW V, V \subseteq Timers, NEW s,
         s.heap \in [Slots(N) -> HeapEntries], s.active \in [Timers -> Nat],
         NEW k \in Slots(N),
         Fitted(Hole(s, k), s.heap[k], N, T, V), AdjustOrder(s.heap, k, N)
  PROVE  /\ Holds(adjustheap(s, N, k).heap, adjustheap(s, N, k).active, N, T, V)
         /\ Ordered(adjustheap(s, N, k).heap, N)
  <1> DEFINE h == s.heap
             p == HPARENT(k)
  <1>1. /\ k \in Nat /\ k >= HEAP0 /\ HEAP0 \in Nat /\ p \in Slots(N)
        /\ k # HEAP0 => p < k /\ p # k
        /\ k = HEAP0 => p = k
    BY ParentFacts DEF HEAP0
  <1>2. \A i \in Slots(N) : h[i].at \in Nat
    BY DEF HeapEntries
  <1> HIDE DEF h, p
  <1>3. CASE k > HEAP0 /\ h[k].at <= h[p].at
    <2>1. ASSUME NEW j \in Slots(N), j # k PROVE InOrder(h, j)
      <3>1. CASE HPARENT(j) # k
        BY <2>1, <3>1 DEF AdjustOrder, h
      <3>2. CASE HPARENT(j) = k
        <4>1. h[p].at <= h[j].at
          BY <1>1, <1>3, <3>2 DEF AdjustOrder, h, Bridged, p
        <4>2. h[p].at \in Nat /\ h[j].at \in Nat /\ h[k].at \in Nat
          BY <1>1, <1>2
        <4>3. h[k].at <= h[j].at
          BY <1>3, <4>1, <4>2
        <4> QED
          BY <3>2, <4>3 DEF InOrder
      <3> QED
        BY <3>1, <3>2
    <2>2. RiseOrder(h, k, N)
      BY <2>1 DEF AdjustOrder, RiseOrder, h
    <2> QED
      BY <1>3, <2>2, UpheapFacts DEF adjustheap, h, p
  <1>4. CASE ~(k > HEAP0 /\ h[k].at <= h[p].at)
    <2>1. ASSUME NEW j \in Slots(N), HPARENT(j) # k PROVE InOrder(h, j)
      <3>1. CASE j # k
        BY <2>1, <3>1 DEF AdjustOrder, h
      <3>2. CASE j = k
        <4>1. k # HEAP0 /\ HPARENT(j) = p
          BY <1>1, <2>1, <3>2 DEF p
        <4>2. h[p].at \in Nat /\ h[k].at \in Nat
          BY <1>1, <1>2
        <4>3. h[p].at <= h[k].at
          BY <1>1, <1>4, <4>1, <4>2
        <4> QED
          BY <3>2, <4>1, <4>3 DEF InOrder
      <3> QED
        BY <3>1, <3>2
    <2>2. SinkOrder(h, k, N)
      BY <2>1 DEF AdjustOrder, SinkOrder, h
    <2> QED
      BY <1>4, <2>2, DownheapFacts DEF adjustheap, h, p
  <1> QED
    BY <1>3, <1>4

\* A heap of N entries has N places.
LEMMA SlotsCount ==
  ASSUME NEW N \in Nat
  PROVE  IsFiniteSet(Slots(N)) /\ Cardinality(Slots(N)) = N
  <1>1. Slots(N) = 3..(3 + N - 1)
    BY DEF Slots, HEAP0
  <1>2. /\ IsFiniteSet(3..(3 + N - 1))
        /\ Cardinality(3..(3 + N - 1)) = IF 3 > 3 + N - 1 THEN 0 ELSE (3 + N - 1) - 3 + 1
    BY FS_Interval
  <1> QED
    BY <1>1, <1>2

\* A watcher that is no longer in the heap has no position.
LEMMA DropHolds ==
  ASSUME NEW N, NEW T \in Dues, NEW w \in Timers, NEW h, NEW a,
         Holds(h, a, N, T, Timers \ {w})
  PROVE  Holds(h, [a EXCEPT ![w] = 0], N, [T EXCEPT ![w] = -1], Timers)
  <1> DEFINE b == [a EXCEPT ![w] = 0]
             U == [T EXCEPT ![w] = -1]
  <1>1. /\ h \in [Slots(N) -> HeapEntries] /\ a \in [Timers -> Nat]
        /\ \A k \in Slots(N) : h[k].w \in Timers /\ h[k].w # w /\ a[h[k].w] = k /\ T[h[k].w] = h[k].at
        /\ \A v \in Timers \ {w} : IF T[v] = -1 THEN a[v] = 0 ELSE a[v] \in Slots(N) /\ h[a[v]].w = v
    BY DEF Holds
  <1>2. /\ b \in [Timers -> Nat] /\ b[w] = 0 /\ U[w] = -1
        /\ \A v \in Timers : v # w => b[v] = a[v] /\ U[v] = T[v]
    BY <1>1 DEF Dues
  <1> HIDE DEF b, U
  <1>3. Holds(h, b, N, U, Timers)
    BY <1>1, <1>2 DEF Holds
  <1> QED
    BY <1>3 DEF b, U

\* The times of two neighbours of an entry are in order.
LEMMA OrderedBridge ==
  ASSUME NEW N \in Nat, NEW h \in [Slots(N) -> HeapEntries], Ordered(h, N),
         NEW k \in Slots(N), NEW j \in Slots(N), HPARENT(j) = k
  PROVE  h[HPARENT(k)].at <= h[j].at
  <1>1. HPARENT(k) \in Slots(N)
    BY ParentFacts
  <1>2. h[HPARENT(k)].at \in Nat /\ h[k].at \in Nat /\ h[j].at \in Nat
    BY <1>1 DEF HeapEntries
  <1>3. h[HPARENT(k)].at <= h[k].at /\ h[k].at <= h[j].at
    BY DEF Ordered, InOrder
  <1> QED
    BY <1>2, <1>3

\* ev_timer_stop of an active watcher: the heap has the others.
LEMMA RemovedFacts ==
  ASSUME NEW N \in Nat, NEW T \in Dues, NEW s, Holds(s.heap, s.active, N, T, Timers),
         Ordered(s.heap, N), NEW w \in Timers, T[w] # -1
  PROVE  /\ N - 1 \in Nat
         /\ Holds(Removed(s, w).heap, Removed(s, w).active, N - 1, [T EXCEPT ![w] = -1], Timers)
         /\ Ordered(Removed(s, w).heap, N - 1)
  <1> DEFINE h == s.heap
             a == s.active
             k == a[w]
             last == HEAP0 + N - 1
             g == [j \in Slots(N) \ {last} |-> IF j = k THEN h[last] ELSE h[j]]
             shorter == [heap |-> g, active |-> a]
             t == IF k < last THEN adjustheap(shorter, N - 1, k) ELSE shorter
             V == Timers \ {w}
  <1>1. /\ h \in [Slots(N) -> HeapEntries] /\ a \in [Timers -> Nat]
        /\ \A i \in Slots(N) : h[i].w \in Timers /\ a[h[i].w] = i /\ T[h[i].w] = h[i].at
        /\ \A v \in Timers : IF T[v] = -1 THEN a[v] = 0 ELSE a[v] \in Slots(N) /\ h[a[v]].w = v
    BY DEF Holds
  <1>2. k \in Slots(N) /\ h[k].w = w
    BY <1>1
  <1>3. /\ N - 1 \in Nat /\ Slots(N - 1) = Slots(N) \ {last} /\ last \in Slots(N)
        /\ k \in Nat /\ last \in Nat /\ k <= last
        /\ k < last <=> k \in Slots(N - 1)
    BY <1>2 DEF Slots, HEAP0
  <1>4. Removed(s, w) = [heap |-> t.heap, active |-> [t.active EXCEPT ![w] = 0]]
    <2>1. DOMAIN h = Slots(N) /\ Cardinality(DOMAIN h) = N
      BY <1>1, SlotsCount
    <2> QED
      BY <2>1 DEF Removed
  <1> HIDE DEF h, a, k
  <1>5. /\ g \in [Slots(N - 1) -> HeapEntries]
        /\ \A i \in Slots(N - 1) : g[i] = IF i = k THEN h[last] ELSE h[i]
    BY <1>1, <1>3
  <1> HIDE DEF g, last
  <1>6. Holds(t.heap, t.active, N - 1, T, V) /\ Ordered(t.heap, N - 1)
    <2>1. CASE ~(k < last)
      <3>1. k = last /\ t.heap = g /\ t.active = a
        BY <1>3, <2>1
      <3>2. \A i \in Slots(N - 1) : g[i] = h[i] /\ i \in Slots(N) /\ i # k
        BY <1>3, <1>5, <3>1
      <3>3. \A i \in Slots(N - 1) : g[i].w \in V /\ a[g[i].w] = i /\ T[g[i].w] = g[i].at
        BY <1>1, <1>2, <3>2 DEF k
      <3>4. ASSUME NEW v \in V
            PROVE  IF T[v] = -1 THEN a[v] = 0 ELSE a[v] \in Slots(N - 1) /\ g[a[v]].w = v
        BY <1>1, <1>2, <1>3, <1>5, <3>1
      <3>5. Holds(g, a, N - 1, T, V)
        BY <1>1, <1>5, <3>3, <3>4 DEF Holds
      <3>6. Ordered(g, N - 1)
        <4>1. \A i \in Slots(N - 1) : HPARENT(i) \in Slots(N - 1)
          BY <1>3, ParentFacts
        <4> QED
          BY <3>2, <4>1 DEF Ordered, InOrder, h
      <3> QED
        BY <3>1, <3>5, <3>6
    <2>2. CASE k < last
      <3>1. k \in Slots(N - 1) /\ t = adjustheap(shorter, N - 1, k) /\ k # last
        BY <1>3, <2>2
      <3> DEFINE e == h[last]
                 b == [a EXCEPT ![e.w] = k]
      <3>2. /\ e \in HeapEntries /\ e.w \in Timers /\ g[k] = e /\ e.w # w
            /\ a[e.w] = last /\ T[e.w] = e.at
        BY <1>1, <1>2, <1>3, <1>5, <3>1 DEF k
      <3>3. \A i \in Slots(N - 1) : i # k =>
              g[i] = h[i] /\ i \in Slots(N) /\ i # last /\ h[i].w # e.w /\ h[i].w # w
        BY <1>1, <1>2, <1>3, <1>5, <3>1
      <3>4. /\ b \in [Timers -> Nat] /\ b[e.w] = k
            /\ \A v \in Timers : v # e.w => b[v] = a[v]
        BY <1>1, <1>3, <3>2
      <3> HIDE DEF e, b
      <3>5. ASSUME NEW i \in Slots(N - 1)
            PROVE  g[i].w \in V /\ b[g[i].w] = i /\ T[g[i].w] = g[i].at
        BY <1>1, <3>2, <3>3, <3>4
      <3>6. ASSUME NEW v \in V
            PROVE  IF T[v] = -1 THEN b[v] = 0 ELSE b[v] \in Slots(N - 1) /\ g[b[v]].w = v
        <4>1. CASE v = e.w
          <5>1. T[v] # -1
            BY <3>2, <4>1 DEF HeapEntries
          <5> QED
            BY <3>1, <3>2, <3>4, <4>1, <5>1
        <4>2. CASE v # e.w
          <5>1. CASE T[v] = -1
            BY <1>1, <3>4, <4>2, <5>1
          <5>2. CASE T[v] # -1
            <6>1. a[v] \in Slots(N) /\ h[a[v]].w = v /\ a[v] # k /\ a[v] # last
              BY <1>1, <1>2, <4>2, <5>2 DEF e
            <6>2. a[v] \in Slots(N - 1)
              BY <1>3, <6>1
            <6> QED
              BY <3>3, <3>4, <4>2, <5>2, <6>1, <6>2
          <5> QED
            BY <5>1, <5>2
        <4> QED
          BY <4>1, <4>2
      <3>7. Holds(g, b, N - 1, T, V)
        BY <1>5, <3>4, <3>5, <3>6 DEF Holds
      <3>8. Fitted(Hole(shorter, k), shorter.heap[k], N - 1, T, V)
        <4>1. Put(Hole(shorter, k), k, e) = [heap |-> [g EXCEPT ![k] = e], active |-> b]
          BY DEF Put, Hole, b
        <4>2. [g EXCEPT ![k] = e] = g
          BY <1>5, <3>2
        <4>3. Hole(shorter, k).k = k /\ shorter.heap[k] = e
          BY <3>2 DEF Hole
        <4> QED
          BY <3>7, <4>1, <4>2, <4>3 DEF Fitted, Filled
      <3>9. AdjustOrder(g, k, N - 1)
        <4>1. \A i \in Slots(N - 1) : HPARENT(i) \in Slots(N - 1) /\ (i # HEAP0 => HPARENT(i) # i)
          BY <1>3, ParentFacts
        <4>2. ASSUME NEW j \in Slots(N - 1), j # k, HPARENT(j) # k PROVE InOrder(g, j)
          BY <3>3, <4>1, <4>2 DEF Ordered, InOrder, h
        <4>3. ASSUME k # HEAP0, NEW j \in Slots(N - 1), HPARENT(j) = k
              PROVE  g[HPARENT(k)].at <= g[j].at
          <5>1. HPARENT(k) # k /\ j # k
            BY <3>1, <4>1, <4>3
          <5>2. h[HPARENT(k)].at <= h[j].at
            BY <1>1, <1>2, <1>3, <4>3, OrderedBridge DEF h
          <5> QED
            BY <3>1, <3>3, <4>1, <5>1, <5>2
        <4> QED
          BY <4>2, <4>3 DEF AdjustOrder, Bridged
      <3>10. shorter.heap = g /\ shorter.active = a /\ V \subseteq Timers
        OBVIOUS
      <3> HIDE DEF shorter, V
      <3> QED
        BY <1>1, <1>3, <1>5, <3>1, <3>8, <3>9, <3>10, AdjustheapFacts
    <2> QED
      BY <2>1, <2>2
  <1> HIDE DEF t
  <1>7. Holds(t.heap, [t.active EXCEPT ![w] = 0], N - 1, [T EXCEPT ![w] = -1], Timers)
    BY <1>6, DropHolds
  <1> QED
    BY <1>3, <1>4, <1>6, <1>7

\* ev_timer_start of a watcher that is not active: the heap has it as well.
LEMMA AddedFacts ==
  ASSUME NEW N \in Nat, NEW T \in Dues, Holds(timers, ev_active, N, T, Timers),
         Ordered(timers, N), NEW w \in Timers, T[w] = -1, NEW d \in Nat
  PROVE  /\ Holds(Added(w, d).heap, Added(w, d).active, N + 1, [T EXCEPT ![w] = d], Timers)
         /\ Ordered(Added(w, d).heap, N + 1)
  <1> DEFINE h == timers
             a == ev_active
             k == HEAP0 + N
             g == [j \in Slots(N) \cup {k} |-> IF j = k THEN [at |-> d, w |-> w] ELSE h[j]]
             b == [a EXCEPT ![w] = k]
             s == [heap |-> g, active |-> b]
             U == [T EXCEPT ![w] = d]
  <1>1. /\ h \in [Slots(N) -> HeapEntries] /\ a \in [Timers -> Nat]
        /\ \A i \in Slots(N) : h[i].w \in Timers /\ a[h[i].w] = i /\ T[h[i].w] = h[i].at
        /\ \A v \in Timers : IF T[v] = -1 THEN a[v] = 0 ELSE a[v] \in Slots(N) /\ h[a[v]].w = v
    BY DEF Holds
  <1>2. /\ N + 1 \in Nat /\ Slots(N + 1) = Slots(N) \cup {k} /\ k \notin Slots(N)
        /\ k \in Slots(N + 1) /\ k \in Nat /\ k # 0
        /\ \A i \in Slots(N + 1) : i <= k
    BY DEF Slots, HEAP0
  <1>3. Added(w, d) = upheap(s, k)
    <2>1. DOMAIN timers = Slots(N) /\ timercnt = N
      BY <1>1, SlotsCount DEF timercnt
    <2> QED
      BY <2>1 DEF Added
  <1> DEFINE e == [at |-> d, w |-> w]
  <1>4. /\ e \in HeapEntries /\ e.at = d /\ e.w = w /\ g[k] = e
        /\ g \in [Slots(N + 1) -> HeapEntries]
        /\ \A i \in Slots(N) : g[i] = h[i] /\ i # k /\ i \in Slots(N + 1)
        /\ b \in [Timers -> Nat] /\ b[w] = k /\ \A v \in Timers : v # w => b[v] = a[v]
        /\ U \in Dues /\ U[w] = d /\ \A v \in Timers : v # w => U[v] = T[v]
    BY <1>1, <1>2 DEF HeapEntries, Dues
  <1>5. Put(Hole(s, k), k, e) = [heap |-> [g EXCEPT ![k] = e], active |-> [b EXCEPT ![w] = k]]
    BY DEF Put, Hole
  <1>6. [g EXCEPT ![k] = e] = g /\ [b EXCEPT ![w] = k] = b /\ Hole(s, k).k = k
    BY <1>2, <1>4 DEF Hole
  <1>7. s.heap = g /\ s.active = b
    OBVIOUS
  <1> HIDE DEF g, b, e, U, k, h, a, s
  <1>8. \A i \in Slots(N) : h[i].w # w /\ h[i].at \in Nat
    BY <1>1 DEF HeapEntries
  <1>9. Holds(g, b, N + 1, U, Timers)
    <2>1. ASSUME NEW i \in Slots(N + 1)
          PROVE  g[i].w \in Timers /\ b[g[i].w] = i /\ U[g[i].w] = g[i].at
      <3>1. CASE i = k
        BY <1>4, <3>1
      <3>2. CASE i # k
        <4>1. i \in Slots(N) /\ g[i] = h[i] /\ h[i].w # w
          BY <1>2, <1>4, <1>8, <3>2
        <4> QED
          BY <1>1, <1>4, <4>1
      <3> QED
        BY <3>1, <3>2
    <2>2. ASSUME NEW v \in Timers
          PROVE  IF U[v] = -1 THEN b[v] = 0 ELSE b[v] \in Slots(N + 1) /\ g[b[v]].w = v
      BY <1>1, <1>2, <1>4
    <2> QED
      BY <1>4, <2>1, <2>2 DEF Holds
  <1>10. Fitted(Hole(s, k), s.heap[k], N + 1, U, Timers)
    BY <1>4, <1>5, <1>6, <1>7, <1>9 DEF Fitted, Filled
  <1>11. RiseOrder(g, k, N + 1)
    <2>1. \A i \in Slots(N + 1) : /\ i = HEAP0 => HPARENT(i) = HEAP0
                                  /\ i # HEAP0 => HPARENT(i) < i
      BY <1>2, ParentFacts
    <2>2. \A i \in Slots(N) : HPARENT(i) \in Slots(N)
      BY ParentFacts
    <2>3. ASSUME NEW j \in Slots(N + 1), j # k PROVE InOrder(g, j)
      BY <1>2, <1>4, <2>2, <2>3 DEF Ordered, InOrder, h
    <2>4. ASSUME k # HEAP0, NEW j \in Slots(N + 1), HPARENT(j) = k PROVE FALSE
      <3>1. j <= k /\ j \in Nat
        BY <1>2 DEF Slots, HEAP0
      <3>2. k < j
        BY <2>1, <2>4
      <3> QED
        BY <1>2, <3>1, <3>2
    <2> QED
      BY <2>3, <2>4 DEF RiseOrder, Bridged
  <1>12. /\ Holds(upheap(s, k).heap, upheap(s, k).active, N + 1, U, Timers)
         /\ Ordered(upheap(s, k).heap, N + 1)
    BY <1>2, <1>4, <1>7, <1>10, <1>11, UpheapFacts
  <1> QED
    BY <1>3, <1>12 DEF U

\* The heap h, in which the entry of w gets the time d.
Retimed(h, a, w, d) == [heap |-> [h EXCEPT ![a[w]].at = d], active |-> a]

\* The time of an entry changes: all the others are in order.
LEMMA RetimedFacts ==
  ASSUME NEW N \in Nat, NEW T \in Dues, NEW h, NEW a, Holds(h, a, N, T, Timers),
         Ordered(h, N), NEW w \in Timers, T[w] # -1, NEW d \in Nat,
         NEW s, s = Retimed(h, a, w, d)
  PROVE  /\ s.heap \in [Slots(N) -> HeapEntries] /\ s.active \in [Timers -> Nat]
         /\ a[w] \in Slots(N)
         /\ Fitted(Hole(s, a[w]), s.heap[a[w]], N, [T EXCEPT ![w] = d], Timers)
         /\ AdjustOrder(s.heap, a[w], N)
         /\ a[w] = HEAP0 => SinkOrder(s.heap, a[w], N)
  <1> DEFINE k == a[w]
             g == [h EXCEPT ![k].at = d]
             U == [T EXCEPT ![w] = d]
  <1>1. /\ h \in [Slots(N) -> HeapEntries] /\ a \in [Timers -> Nat]
        /\ \A i \in Slots(N) : h[i].w \in Timers /\ a[h[i].w] = i /\ T[h[i].w] = h[i].at
        /\ \A v \in Timers : IF T[v] = -1 THEN a[v] = 0 ELSE a[v] \in Slots(N) /\ h[a[v]].w = v
    BY DEF Holds
  <1>2. k \in Slots(N) /\ h[k].w = w
    BY <1>1
  <1>3. /\ g \in [Slots(N) -> HeapEntries] /\ g[k].at = d /\ g[k].w = w
        /\ \A i \in Slots(N) : i # k => g[i] = h[i]
    <2>1. g = [h EXCEPT ![k] = [h[k] EXCEPT !.at = d]]
      OBVIOUS
    <2>2. [h[k] EXCEPT !.at = d] \in HeapEntries /\ [h[k] EXCEPT !.at = d].at = d
          /\ [h[k] EXCEPT !.at = d].w = w
      BY <1>1, <1>2 DEF HeapEntries
    <2> QED
      BY <1>1, <1>2, <2>1, <2>2
  <1>4. /\ U \in Dues /\ U[w] = d /\ \A v \in Timers : v # w => U[v] = T[v]
    BY DEF Dues
  <1>5. Put(Hole(s, k), k, g[k]) = [heap |-> [g EXCEPT ![k] = g[k]], active |-> [a EXCEPT ![g[k].w] = k]]
    BY DEF Put, Hole, Retimed
  <1>6. [g EXCEPT ![k] = g[k]] = g /\ [a EXCEPT ![g[k].w] = k] = a /\ Hole(s, k).k = k
    <2>1. [a EXCEPT ![w] = k] = a
      BY <1>1 DEF k
    <2>2. [g EXCEPT ![k] = g[k]] = g /\ Hole(s, k).k = k /\ g[k].w = w
      BY <1>2, <1>3 DEF Hole
    <2> QED
      BY <2>1, <2>2
  <1>7. s.heap = g /\ s.active = a
    BY DEF Retimed
  <1> HIDE DEF k, g, U
  <1>8. \A i \in Slots(N) : i # k => h[i].w # w
    BY <1>1, <1>2 DEF k
  <1>9. Holds(g, a, N, U, Timers)
    <2>1. ASSUME NEW i \in Slots(N)
          PROVE  g[i].w \in Timers /\ a[g[i].w] = i /\ U[g[i].w] = g[i].at
      <3>1. CASE i = k
        BY <1>3, <1>4, <3>1 DEF k
      <3>2. CASE i # k
        BY <1>1, <1>3, <1>4, <1>8, <3>2
      <3> QED
        BY <3>1, <3>2
    <2>2. ASSUME NEW v \in Timers
          PROVE  IF U[v] = -1 THEN a[v] = 0 ELSE a[v] \in Slots(N) /\ g[a[v]].w = v
      <3>1. CASE v = w
        BY <1>2, <1>3, <1>4, <3>1 DEF k
      <3>2. CASE v # w
        BY <1>1, <1>2, <1>3, <1>4, <3>2 DEF k
      <3> QED
        BY <3>1, <3>2
    <2> QED
      BY <1>1, <1>3, <2>1, <2>2 DEF Holds
  <1>10. Fitted(Hole(s, k), s.heap[k], N, U, Timers)
    <2>1. Put(Hole(s, k), k, s.heap[k]) = [heap |-> g, active |-> a] /\ Hole(s, k).k = k
      BY <1>5, <1>6, <1>7
    <2> QED
      BY <1>9, <2>1 DEF Fitted, Filled
  <1>11. \A i \in Slots(N) : HPARENT(i) \in Slots(N) /\ (i # HEAP0 => HPARENT(i) # i)
    BY ParentFacts
  <1>12. ASSUME NEW j \in Slots(N), j # k, HPARENT(j) # k PROVE InOrder(g, j)
    BY <1>3, <1>11, <1>12 DEF Ordered, InOrder
  <1>13. ASSUME k # HEAP0, NEW j \in Slots(N), HPARENT(j) = k
         PROVE  g[HPARENT(k)].at <= g[j].at
    <2>1. HPARENT(k) # k /\ j # k
      BY <1>2, <1>11, <1>13
    <2>2. h[HPARENT(k)].at <= h[j].at
      BY <1>1, <1>2, <1>13, OrderedBridge
    <2> QED
      BY <1>2, <1>3, <1>11, <2>1, <2>2
  <1>14. AdjustOrder(g, k, N)
    BY <1>12, <1>13 DEF AdjustOrder, Bridged
  <1>15. ASSUME k = HEAP0 PROVE SinkOrder(g, k, N)
    <2>1. HPARENT(HEAP0) = HEAP0
      BY ParentFacts, <1>2
    <2> QED
      BY <1>12, <1>15, <2>1 DEF SinkOrder, Bridged
  <1> QED
    BY <1>1, <1>2, <1>3, <1>7, <1>10, <1>14, <1>15 DEF k, U

\* The root is the earliest.
LEMMA RootIsEarliest ==
  ASSUME NEW N \in Nat, NEW h \in [Slots(N) -> HeapEntries], Ordered(h, N)
  PROVE  \A k \in Slots(N) : HEAP0 \in Slots(N) /\ h[HEAP0].at <= h[k].at
  <1> DEFINE T == {n \in Nat : \A k \in Slots(N) : k <= n => h[HEAP0].at <= h[k].at}
  <1>1. 0 \in T
    BY DEF Slots, HEAP0
  <1>2. ASSUME NEW n \in Nat, n \in T PROVE n + 1 \in T
    <2> SUFFICES ASSUME NEW k \in Slots(N), k <= n + 1 PROVE h[HEAP0].at <= h[k].at
      OBVIOUS
    <2>1. /\ k \in Nat /\ HPARENT(k) \in Slots(N) /\ HPARENT(k) \in Nat /\ HEAP0 \in Slots(N)
          /\ k # HEAP0 => HPARENT(k) < k
      BY ParentFacts DEF Slots, HEAP0
    <2>2. h[HEAP0].at \in Nat /\ h[k].at \in Nat /\ h[HPARENT(k)].at \in Nat
      BY <2>1 DEF HeapEntries
    <2>3. CASE k = HEAP0
      BY <2>2, <2>3
    <2>4. CASE k # HEAP0
      <3>1. HPARENT(k) <= n
        BY <2>1, <2>4
      <3>2. h[HEAP0].at <= h[HPARENT(k)].at /\ h[HPARENT(k)].at <= h[k].at
        BY <1>2, <2>1, <3>1 DEF Ordered, InOrder
      <3> QED
        BY <2>2, <3>2
    <2> QED
      BY <2>3, <2>4
  <1> HIDE DEF T
  <1>3. \A n \in Nat : n \in T
    BY <1>1, <1>2, SetInduction
  <1>4. \A k \in Slots(N) : k \in Nat /\ HEAP0 \in Slots(N)
    BY ParentFacts
  <1> QED
    BY <1>3, <1>4 DEF T

-----------------------------------------------------------------------------
(* What the operations on timers do to the heap.                             *)

\* When an armed timer expires, -1 for the others.
DueOf(a, t) == [w \in Timers |-> IF a[w] = 0 THEN -1 ELSE t[w]]

HeapOK(h, a, t, N) ==
  /\ N \in Nat /\ t \in [Timers -> Nat]
  /\ Holds(h, a, N, DueOf(a, t), Timers)
  /\ Ordered(h, N)

\* The heap h has N entries, and the times U are those of its timers.
HeapFor(h, a, t, N, U) ==
  HeapOK(h, a, t, N) /\ DueOf(a, t) = U /\ Cardinality(DOMAIN h) = N

\* What a heap in order has: as many entries as places, a time for each.
LEMMA HeapOKType ==
  ASSUME NEW h, NEW a, NEW t, NEW N, HeapOK(h, a, t, N)
  PROVE  /\ DueOf(a, t) \in Dues /\ a \in [Timers -> Nat]
         /\ h \in [Slots(N) -> HeapEntries]
         /\ DOMAIN h = Slots(N) /\ Cardinality(DOMAIN h) = N
         /\ \A w \in Timers : DueOf(a, t)[w] = IF a[w] = 0 THEN -1 ELSE t[w]
         /\ \A w \in Timers : DueOf(a, t)[w] = -1 <=> a[w] = 0
  <1>1. a \in [Timers -> Nat] /\ t \in [Timers -> Nat] /\ N \in Nat /\ h \in [Slots(N) -> HeapEntries]
    BY DEF HeapOK, Holds
  <1>2. Cardinality(Slots(N)) = N
    BY <1>1, SlotsCount
  <1>3. \A w \in Timers : DueOf(a, t)[w] = IF a[w] = 0 THEN -1 ELSE t[w]
    BY DEF DueOf
  <1>4. \A w \in Timers : a[w] \in Nat /\ t[w] \in Nat
    BY <1>1
  <1>5. \A w \in Timers : DueOf(a, t)[w] \in Nat \cup {-1} /\ (DueOf(a, t)[w] = -1 <=> a[w] = 0)
    BY <1>3, <1>4
  <1>6. DueOf(a, t) \in Dues
    BY <1>5 DEF Dues, DueOf
  <1> QED
    BY <1>1, <1>2, <1>3, <1>5, <1>6

\* A heap for the times U, which at has for the active timers.
LEMMA HeapOKFrom ==
  ASSUME NEW N \in Nat, NEW U \in Dues, NEW h, NEW a, Holds(h, a, N, U, Timers), Ordered(h, N),
         NEW t \in [Timers -> Nat], \A w \in Timers : U[w] # -1 => t[w] = U[w]
  PROVE  /\ HeapOK(h, a, t, N) /\ DueOf(a, t) = U
         /\ Cardinality(DOMAIN h) = N
  <1>1. \A w \in Timers : IF U[w] = -1 THEN a[w] = 0 ELSE a[w] \in Slots(N) /\ a[w] # 0
    BY DEF Holds, Slots, HEAP0
  <1>2. \A w \in Timers : DueOf(a, t)[w] = U[w]
    BY <1>1 DEF DueOf
  <1>3. DueOf(a, t) = U
    BY <1>2 DEF DueOf, Dues
  <1>4. HeapOK(h, a, t, N)
    BY <1>3 DEF HeapOK
  <1> QED
    BY <1>3, <1>4, HeapOKType

\* What becomes of the heap s, in which the entry at k may be out of order.
Settled(r, s, N, k) == \/ r = adjustheap(s, N, k)
                       \/ k = HEAP0 /\ r = downheap(s, N, k)

\* The time d is given to an active timer, and its entry is moved.
LEMMA RetimedHeap ==
  ASSUME NEW h, NEW a, NEW t, NEW N, HeapOK(h, a, t, N), NEW w \in Timers, a[w] # 0, NEW d \in Nat,
         NEW s, s = Retimed(h, a, w, d),
         NEW r, Settled(r, s, N, a[w])
  PROVE  HeapFor(r.heap, r.active, [t EXCEPT ![w] = d], N, [DueOf(a, t) EXCEPT ![w] = d])
  <1> DEFINE T == DueOf(a, t)
             k == a[w]
             U == [T EXCEPT ![w] = d]
             u == [t EXCEPT ![w] = d]
  <1>1. /\ T \in Dues /\ T[w] # -1 /\ N \in Nat /\ t \in [Timers -> Nat]
        /\ \A v \in Timers : T[v] # -1 => t[v] = T[v]
        /\ Holds(h, a, N, T, Timers) /\ Ordered(h, N)
    BY HeapOKType DEF HeapOK
  <1> HIDE DEF T
  <1>2. /\ U \in Dues /\ U[w] = d /\ \A v \in Timers : v # w => U[v] = T[v]
        /\ u \in [Timers -> Nat] /\ u[w] = d /\ \A v \in Timers : v # w => u[v] = t[v]
    BY <1>1 DEF Dues
  <1>3. /\ s.heap \in [Slots(N) -> HeapEntries] /\ s.active \in [Timers -> Nat]
        /\ k \in Slots(N) /\ Fitted(Hole(s, k), s.heap[k], N, U, Timers)
        /\ AdjustOrder(s.heap, k, N)
        /\ k = HEAP0 => SinkOrder(s.heap, k, N)
    BY <1>1, RetimedFacts
  <1> HIDE DEF U, u
  <1>4. Holds(r.heap, r.active, N, U, Timers) /\ Ordered(r.heap, N)
    <2>1. CASE r = adjustheap(s, N, k)
      BY <1>1, <1>3, <2>1, AdjustheapFacts
    <2>2. CASE k = HEAP0 /\ r = downheap(s, N, k)
      BY <1>1, <1>3, <2>2, DownheapFacts
    <2> QED
      BY <2>1, <2>2 DEF Settled
  <1>5. \A v \in Timers : U[v] # -1 => u[v] = U[v]
    BY <1>1, <1>2
  <1>6. /\ HeapOK(r.heap, r.active, u, N) /\ DueOf(r.active, u) = U
        /\ Cardinality(DOMAIN r.heap) = N
    <2> HIDE DEF k
    <2> QED
      BY <1>1, <1>2, <1>4, <1>5, HeapOKFrom
  <1> QED
    BY <1>6 DEF U, T, u, HeapFor

\* An active timer is taken out of the heap.
LEMMA RemovedHeap ==
  ASSUME NEW s, NEW t, NEW N, HeapOK(s.heap, s.active, t, N), NEW w \in Timers, s.active[w] # 0,
         NEW r, r = Removed(s, w)
  PROVE  HeapFor(r.heap, r.active, [t EXCEPT ![w] = 0], N - 1, [DueOf(s.active, t) EXCEPT ![w] = -1])
  <1> DEFINE T == DueOf(s.active, t)
             U == [T EXCEPT ![w] = -1]
             u == [t EXCEPT ![w] = 0]
  <1>1. /\ T \in Dues /\ T[w] # -1 /\ N \in Nat /\ t \in [Timers -> Nat]
        /\ \A v \in Timers : T[v] # -1 => t[v] = T[v]
        /\ Holds(s.heap, s.active, N, T, Timers) /\ Ordered(s.heap, N)
    BY HeapOKType DEF HeapOK
  <1> HIDE DEF T
  <1>2. /\ U \in Dues /\ U[w] = -1 /\ \A v \in Timers : v # w => U[v] = T[v]
        /\ u \in [Timers -> Nat] /\ \A v \in Timers : v # w => u[v] = t[v]
    BY <1>1 DEF Dues
  <1>3. /\ N - 1 \in Nat /\ Holds(r.heap, r.active, N - 1, U, Timers) /\ Ordered(r.heap, N - 1)
    BY <1>1, RemovedFacts
  <1> HIDE DEF U, u
  <1>4. \A v \in Timers : U[v] # -1 => u[v] = U[v]
    BY <1>1, <1>2
  <1>5. /\ HeapOK(r.heap, r.active, u, N - 1) /\ DueOf(r.active, u) = U
        /\ Cardinality(DOMAIN r.heap) = N - 1
    BY <1>2, <1>3, <1>4, HeapOKFrom
  <1> QED
    BY <1>5 DEF U, T, u, HeapFor

\* ev_timer_stop of an active timer.
LEMMA StopHeap ==
  ASSUME HeapOK(timers, ev_active, at, timercnt), NEW w \in Timers, ev_active[w] # 0, Stop(w)
  PROVE  /\ HeapOK(timers', ev_active', at', timercnt')
         /\ DueOf(ev_active', at') = [DueOf(ev_active, at) EXCEPT ![w] = -1]
  <1> DEFINE s == [heap |-> timers, active |-> ev_active]
             r == Removed(s, w)
  <1>1. s.heap = timers /\ s.active = ev_active
    OBVIOUS
  <1>2. timers' = r.heap /\ ev_active' = r.active /\ at' = [at EXCEPT ![w] = 0]
    BY DEF Stop, SetHeap
  <1> HIDE DEF s
  <1>3. HeapFor(r.heap, r.active, [at EXCEPT ![w] = 0], timercnt - 1,
                [DueOf(s.active, at) EXCEPT ![w] = -1])
    BY <1>1, RemovedHeap
  <1> QED
    BY <1>1, <1>2, <1>3 DEF timercnt, HeapFor

\* ev_timer_start of a timer that is not active.
LEMMA StartHeap ==
  ASSUME HeapOK(timers, ev_active, at, timercnt), NEW w \in Timers, ev_active[w] = 0,
         NEW d \in Nat, Start(w, d)
  PROVE  /\ HeapOK(timers', ev_active', at', timercnt')
         /\ DueOf(ev_active', at') = [DueOf(ev_active, at) EXCEPT ![w] = d]
  <1> DEFINE T == DueOf(ev_active, at)
             N == timercnt
             U == [T EXCEPT ![w] = d]
  <1>1. /\ T \in Dues /\ T[w] = -1 /\ N \in Nat /\ at \in [Timers -> Nat]
        /\ \A v \in Timers : T[v] # -1 => at[v] = T[v]
        /\ Holds(timers, ev_active, N, T, Timers) /\ Ordered(timers, N)
    BY HeapOKType DEF HeapOK
  <1>2. /\ timers' = Added(w, d).heap /\ ev_active' = Added(w, d).active
        /\ at' = [at EXCEPT ![w] = d]
    BY DEF Start, SetHeap
  <1> HIDE DEF T, N
  <1>3. /\ U \in Dues /\ U[w] = d /\ \A v \in Timers : v # w => U[v] = T[v]
        /\ at' \in [Timers -> Nat] /\ at'[w] = d /\ \A v \in Timers : v # w => at'[v] = at[v]
    BY <1>1, <1>2 DEF Dues
  <1>4. Holds(timers', ev_active', N + 1, U, Timers) /\ Ordered(timers', N + 1) /\ N + 1 \in Nat
    BY <1>1, <1>2, AddedFacts
  <1> HIDE DEF U
  <1>5. \A v \in Timers : U[v] # -1 => at'[v] = U[v]
    BY <1>1, <1>3
  <1>6. /\ HeapOK(timers', ev_active', at', N + 1) /\ DueOf(ev_active', at') = U
        /\ Cardinality(DOMAIN timers') = N + 1
    BY <1>3, <1>4, <1>5, HeapOKFrom
  <1> QED
    BY <1>6 DEF U, T, timercnt

\* ev_timer_again of an active timer.
LEMMA AgainHeap ==
  ASSUME HeapOK(timers, ev_active, at, timercnt), NEW w \in Timers, ev_active[w] # 0,
         NEW d \in Nat, at' = [at EXCEPT ![w] = d],
         NEW r, Settled(r, Retimed(timers, ev_active, w, d), timercnt, ev_active[w]),
         SetHeap(r)
  PROVE  /\ HeapOK(timers', ev_active', at', timercnt')
         /\ DueOf(ev_active', at') = [DueOf(ev_active, at) EXCEPT ![w] = d]
  <1>1. timers' = r.heap /\ ev_active' = r.active
    BY DEF SetHeap
  <1>2. HeapFor(r.heap, r.active, [at EXCEPT ![w] = d], timercnt,
                [DueOf(ev_active, at) EXCEPT ![w] = d])
    BY RetimedHeap
  <1> QED
    BY <1>1, <1>2 DEF timercnt, HeapFor

-----------------------------------------------------------------------------
(* The loop of timers_reify.                                                 *)

\* The entry at the root: no active timer expires before it.
LEMMA RootFacts ==
  ASSUME NEW h, NEW a, NEW t, NEW N, HeapOK(h, a, t, N), DOMAIN h # {}
  PROVE  /\ HEAP0 \in DOMAIN h /\ h[HEAP0].w \in Timers /\ a[h[HEAP0].w] = HEAP0
         /\ DueOf(a, t)[h[HEAP0].w] = h[HEAP0].at /\ h[HEAP0].at \in Nat
         /\ \A v \in Timers : DueOf(a, t)[v] # -1 => h[HEAP0].at <= DueOf(a, t)[v]
  <1> DEFINE T == DueOf(a, t)
  <1>1. /\ N \in Nat /\ h \in [Slots(N) -> HeapEntries] /\ DOMAIN h = Slots(N) /\ Ordered(h, N)
        /\ Holds(h, a, N, T, Timers)
    BY HeapOKType DEF HeapOK
  <1> HIDE DEF T
  <1>2. PICK k : k \in Slots(N)
    BY <1>1
  <1>3. \A i \in Slots(N) : HEAP0 \in Slots(N) /\ h[HEAP0].at <= h[i].at
    BY <1>1, RootIsEarliest
  <1>4. HEAP0 \in Slots(N)
    BY <1>2, <1>3
  <1>5. /\ \A i \in Slots(N) : h[i].w \in Timers /\ a[h[i].w] = i /\ T[h[i].w] = h[i].at
        /\ \A v \in Timers : IF T[v] = -1 THEN a[v] = 0 ELSE a[v] \in Slots(N) /\ h[a[v]].w = v
    BY <1>1 DEF Holds
  <1>6. ASSUME NEW v \in Timers, T[v] # -1 PROVE h[HEAP0].at <= T[v]
    BY <1>3, <1>5, <1>6
  <1>7. h[HEAP0].at \in Nat
    BY <1>1, <1>4 DEF HeapEntries
  <1> QED
    BY <1>1, <1>4, <1>5, <1>6, <1>7 DEF T

\* The times T, of which that of w becomes v: it is over before now no more.
Behind(U, T, w, now) ==
  \E v \in Nat \cup {-1} : (v = -1 \/ v >= now) /\ U = [T EXCEPT ![w] = v]

HasFields(x) == x = [heap |-> x.heap, active |-> x.active, at |-> x.at, fed |-> x.fed]

\* The earliest timer is taken: the heap is in order, and the timer is over no
\* more.
LEMMA TakenHeap ==
  ASSUME repeat \in [Timers -> Nat], NEW now \in Nat, NEW x, NEW N,
         HeapOK(x.heap, x.active, x.at, N), DOMAIN x.heap # {},
         NEW y, y = Taken(x, now), NEW w, w = x.heap[HEAP0].w
  PROVE  /\ HeapOK(y.heap, y.active, y.at, Cardinality(DOMAIN y.heap))
         /\ Behind(DueOf(y.active, y.at), DueOf(x.active, x.at), w, now)
         /\ y.fed = Append(x.fed, w)
         /\ HasFields(y)
  <1> DEFINE later == IF x.at[w] + repeat[w] < now THEN now ELSE x.at[w] + repeat[w]
             s == [heap |-> x.heap, active |-> x.active]
             timed == [heap |-> [x.heap EXCEPT ![HEAP0].at = later], active |-> x.active]
             again == downheap(timed, Cardinality(DOMAIN x.heap), HEAP0)
             gone == Removed(s, w)
             U == DueOf(x.active, x.at)
  <1>1. /\ w \in Timers /\ x.active[w] = HEAP0 /\ HEAP0 # 0
    BY RootFacts DEF HEAP0
  <1>2. x.at \in [Timers -> Nat] /\ N \in Nat /\ Cardinality(DOMAIN x.heap) = N
    BY HeapOKType DEF HeapOK
  <1>3. later \in Nat /\ later >= now
    BY <1>1, <1>2
  <1>4. /\ y.heap = (IF repeat[w] # 0 THEN again ELSE gone).heap
        /\ y.active = (IF repeat[w] # 0 THEN again ELSE gone).active
        /\ y.at = [x.at EXCEPT ![w] = IF repeat[w] # 0 THEN later ELSE 0]
        /\ y.fed = Append(x.fed, w)
        /\ HasFields(y)
    BY DEF Taken, HasFields
  <1>5. timed = Retimed(x.heap, x.active, w, later)
    BY <1>1 DEF Retimed
  <1>6. s.heap = x.heap /\ s.active = x.active
    OBVIOUS
  <1>7. Settled(again, timed, N, x.active[w])
    BY <1>1, <1>2 DEF Settled
  <1>8. gone = Removed(s, w)
    OBVIOUS
  <1> HIDE DEF later, timed, again, gone, s
  <1>9. CASE repeat[w] # 0
    <2>1. HeapFor(again.heap, again.active, [x.at EXCEPT ![w] = later], N, [U EXCEPT ![w] = later])
      BY <1>1, <1>3, <1>5, <1>7, RetimedHeap
    <2>2. HeapFor(y.heap, y.active, y.at, N, [U EXCEPT ![w] = later])
      BY <1>4, <1>9, <2>1
    <2> HIDE DEF U
    <2>3. Behind([U EXCEPT ![w] = later], U, w, now)
      BY <1>3 DEF Behind
    <2> QED
      BY <1>4, <2>2, <2>3 DEF HeapFor, U
  <1>10. CASE repeat[w] = 0
    <2>1. HeapFor(gone.heap, gone.active, [x.at EXCEPT ![w] = 0], N - 1, [U EXCEPT ![w] = -1])
      BY <1>1, <1>6, <1>8, RemovedHeap
    <2>2. HeapFor(y.heap, y.active, y.at, N - 1, [U EXCEPT ![w] = -1])
      BY <1>4, <1>10, <2>1
    <2> HIDE DEF U
    <2>3. Behind([U EXCEPT ![w] = -1], U, w, now)
      BY <1>3 DEF Behind
    <2> QED
      BY <1>4, <2>2, <2>3 DEF HeapFor, U
  <1> QED
    BY <1>9, <1>10

\* The timers whose time D is over before now, and the timers of q.
Over(D, now) == {w \in Timers : D[w] # -1 /\ D[w] < now}
FedSet(q) == {q[i] : i \in DOMAIN q}

\* The timers q have been taken at the time now, in the order of their times D;
\* U are the times afterwards.
FedOK(q, D, now, U) ==
  /\ q \in Seq(Timers)
  /\ FedSet(q) \subseteq Over(D, now)
  /\ \A i, j \in DOMAIN q : i < j => q[i] # q[j] /\ D[q[i]] <= D[q[j]]
  /\ \A v \in FedSet(q) : U[v] = -1 \/ U[v] >= now
  /\ \A v \in Timers \ FedSet(q) : U[v] = D[v]
  /\ \A v \in FedSet(q), w \in Over(D, now) \ FedSet(q) : D[v] <= D[w]

\* The earliest timer is fed after those that were taken before it.
LEMMA FedAppend ==
  ASSUME NEW D \in Dues, NEW now \in Nat, NEW T \in Dues, NEW q, FedOK(q, D, now, T),
         NEW w \in Timers, T[w] # -1, T[w] < now, \A v \in Timers : T[v] # -1 => T[w] <= T[v],
         NEW U, Behind(U, T, w, now)
  PROVE  /\ w \in Over(D, now) \ FedSet(q)
         /\ FedSet(Append(q, w)) = FedSet(q) \cup {w}
         /\ FedOK(Append(q, w), D, now, U)
  <1> DEFINE Q == Append(q, w)
             n == Len(q)
             O == Over(D, now)
  <1>1. /\ q \in Seq(Timers) /\ n \in Nat /\ DOMAIN q = 1..n
        /\ FedSet(q) \subseteq O
        /\ \A i, j \in DOMAIN q : i < j => q[i] # q[j] /\ D[q[i]] <= D[q[j]]
        /\ \A v \in FedSet(q) : T[v] = -1 \/ T[v] >= now
        /\ \A v \in Timers \ FedSet(q) : T[v] = D[v]
        /\ \A v \in FedSet(q), u \in O \ FedSet(q) : D[v] <= D[u]
    BY LenProperties DEF FedOK
  <1>2. /\ Q \in Seq(Timers) /\ DOMAIN Q = 1..(n + 1) /\ Q[n + 1] = w
        /\ \A i \in 1..n : Q[i] = q[i]
    BY <1>1, AppendProperties, LenProperties
  <1>3. PICK x \in Nat \cup {-1} : (x = -1 \/ x >= now) /\ U = [T EXCEPT ![w] = x]
    BY DEF Behind
  <1>4. U[w] = x /\ \A v \in Timers : v # w => U[v] = T[v]
    BY <1>3 DEF Dues
  <1>5. \A v \in Timers : D[v] \in Nat \cup {-1} /\ T[v] \in Nat \cup {-1}
    BY DEF Dues
  <1> HIDE DEF Q, n, O
  <1>6. w \notin FedSet(q)
    BY <1>1, <1>5
  <1>7. T[w] = D[w] /\ w \in O
    BY <1>1, <1>6 DEF O, Over
  <1>8. FedSet(Q) = FedSet(q) \cup {w}
    <2>1. \A i \in 1..n : i \in 1..(n + 1)
      BY <1>1
    <2>2. n + 1 \in 1..(n + 1)
      BY <1>1
    <2>3. \A i \in 1..(n + 1) : i = n + 1 \/ i \in 1..n
      BY <1>1
    <2> QED
      BY <1>1, <1>2, <2>1, <2>2, <2>3 DEF FedSet
  <1>9. \A i \in 1..n : q[i] \in FedSet(q) /\ q[i] \in Timers
    BY <1>1 DEF FedSet
  <1>10. FedSet(Q) \subseteq O
    BY <1>1, <1>7, <1>8
  <1>11. ASSUME NEW i \in DOMAIN Q, NEW j \in DOMAIN Q, i < j
         PROVE  Q[i] # Q[j] /\ D[Q[i]] <= D[Q[j]]
    <2>1. i \in 1..n /\ (j \in 1..n \/ j = n + 1)
      BY <1>1, <1>2, <1>11
    <2>2. CASE j \in 1..n
      BY <1>1, <1>2, <1>11, <2>1, <2>2
    <2>3. CASE j = n + 1
      <3>1. q[i] \in FedSet(q) /\ w \in O \ FedSet(q)
        BY <1>6, <1>7, <1>9, <2>1
      <3> QED
        BY <1>1, <1>2, <2>1, <2>3, <3>1
    <2> QED
      BY <2>1, <2>2, <2>3
  <1>12. \A v \in FedSet(Q) : U[v] = -1 \/ U[v] >= now
    <2>1. \A v \in FedSet(q) : v \in Timers /\ v # w
      BY <1>1, <1>6 DEF O, Over
    <2> QED
      BY <1>1, <1>3, <1>4, <1>8, <2>1
  <1>13. \A v \in Timers \ FedSet(Q) : U[v] = D[v]
    BY <1>1, <1>4, <1>8
  <1>14. ASSUME NEW v \in FedSet(Q), NEW u \in O \ FedSet(Q) PROVE D[v] <= D[u]
    <2>1. u \in Timers /\ u \notin FedSet(q) /\ D[u] # -1
      BY <1>8 DEF O, Over
    <2>2. CASE v = w
      BY <1>1, <1>7, <2>1, <2>2
    <2>3. CASE v \in FedSet(q)
      BY <1>1, <2>1, <2>3
    <2> QED
      BY <1>8, <2>2, <2>3
  <1>15. FedOK(Q, D, now, U)
    BY <1>2, <1>10, <1>11, <1>12, <1>13, <1>14 DEF FedOK, O
  <1> QED
    BY <1>6, <1>7, <1>8, <1>15 DEF Q, O

\* The states of the loop: D are the times when it begins.
ExpireRecords == [heap : UNION {[Slots(n) -> HeapEntries] : n \in Nat},
                  active : [Timers -> Nat], at : [Timers -> Nat], fed : Seq(Timers)]
ExpireStates(D, now) ==
  {x \in ExpireRecords : /\ HeapOK(x.heap, x.active, x.at, Cardinality(DOMAIN x.heap))
                         /\ FedOK(x.fed, D, now, DueOf(x.active, x.at))}
ToExpire(x, D, now) == Over(D, now) \ FedSet(x.fed)

\* A state of the loop is what fits the times.
LEMMA ExpireRecord ==
  ASSUME NEW x, HasFields(x), NEW D, NEW now,
         HeapOK(x.heap, x.active, x.at, Cardinality(DOMAIN x.heap)),
         FedOK(x.fed, D, now, DueOf(x.active, x.at))
  PROVE  x \in ExpireStates(D, now)
  <1> DEFINE n == Cardinality(DOMAIN x.heap)
  <1>1. /\ n \in Nat /\ x.heap \in [Slots(n) -> HeapEntries] /\ x.active \in [Timers -> Nat]
        /\ x.at \in [Timers -> Nat] /\ x.fed \in Seq(Timers)
    BY HeapOKType DEF HeapOK, FedOK
  <1> HIDE DEF n
  <1>2. x.heap \in UNION {[Slots(i) -> HeapEntries] : i \in Nat}
    BY <1>1
  <1>3. x \in ExpireRecords
    BY <1>1, <1>2 DEF ExpireRecords, HasFields
  <1> QED
    BY <1>3 DEF ExpireStates

\* A turn takes a timer whose time is over, as long as there is one.
LEMMA ExpireTurnKeeps ==
  ASSUME repeat \in [Timers -> Nat], NEW now \in Nat, NEW D \in Dues, NEW x \in ExpireStates(D, now)
  PROVE  /\ ExpireTurn(x, now) \in ExpireStates(D, now)
         /\ IF ToExpire(x, D, now) = {} THEN ExpireTurn(x, now) = x
            ELSE \E w \in ToExpire(x, D, now) :
                   ToExpire(ExpireTurn(x, now), D, now) = ToExpire(x, D, now) \ {w}
  <1> DEFINE N == Cardinality(DOMAIN x.heap)
             T == DueOf(x.active, x.at)
             y == Taken(x, now)
             w == x.heap[HEAP0].w
  <1>1. /\ x \in ExpireRecords /\ HeapOK(x.heap, x.active, x.at, N) /\ FedOK(x.fed, D, now, T)
    BY DEF ExpireStates
  <1>2. /\ T \in Dues /\ N \in Nat
        /\ \A v \in Timers : IF T[v] = -1 THEN x.active[v] = 0 ELSE x.active[v] \in DOMAIN x.heap
    BY <1>1, HeapOKType DEF HeapOK, Holds
  <1>3. \A v \in Timers : T[v] \in Nat \cup {-1} /\ D[v] \in Nat \cup {-1}
    BY <1>2 DEF Dues
  <1>4. \A v \in ToExpire(x, D, now) : v \in Timers /\ T[v] = D[v] /\ T[v] # -1 /\ T[v] < now
    BY <1>1 DEF FedOK, ToExpire, Over
  <1> HIDE DEF T
  <1>5. CASE DOMAIN x.heap # {} /\ x.heap[HEAP0].at < now
    <2>1. ExpireTurn(x, now) = y
      BY <1>5 DEF ExpireTurn
    <2>2. /\ w \in Timers /\ T[w] = x.heap[HEAP0].at /\ x.heap[HEAP0].at \in Nat
          /\ \A v \in Timers : T[v] # -1 => x.heap[HEAP0].at <= T[v]
      BY <1>1, <1>5, RootFacts DEF T
    <2> HIDE DEF N, w
    <2>3. /\ HeapOK(y.heap, y.active, y.at, Cardinality(DOMAIN y.heap))
          /\ Behind(DueOf(y.active, y.at), T, w, now)
          /\ y.fed = Append(x.fed, w)
          /\ HasFields(y)
      BY <1>1, <1>5, TakenHeap DEF T, w
    <2> HIDE DEF y
    <2>4. T[w] # -1 /\ T[w] < now /\ \A v \in Timers : T[v] # -1 => T[w] <= T[v]
      BY <1>5, <2>2
    <2>5. /\ w \in Over(D, now) \ FedSet(x.fed)
          /\ FedSet(y.fed) = FedSet(x.fed) \cup {w}
          /\ FedOK(y.fed, D, now, DueOf(y.active, y.at))
      BY <1>1, <1>2, <2>2, <2>3, <2>4, FedAppend
    <2>6. y \in ExpireStates(D, now)
      BY <2>3, <2>5, ExpireRecord
    <2>7. w \in ToExpire(x, D, now) /\ ToExpire(y, D, now) = ToExpire(x, D, now) \ {w}
      BY <2>5 DEF ToExpire
    <2> QED
      BY <2>1, <2>6, <2>7
  <1>6. CASE ~(DOMAIN x.heap # {} /\ x.heap[HEAP0].at < now)
    <2>1. ExpireTurn(x, now) = x
      BY <1>6 DEF ExpireTurn
    <2>2. ASSUME NEW v \in ToExpire(x, D, now) PROVE FALSE
      <3>1. v \in Timers /\ T[v] # -1 /\ T[v] < now /\ T[v] \in Nat
        BY <1>3, <1>4
      <3>2. DOMAIN x.heap # {}
        BY <1>2, <3>1
      <3>3. x.heap[HEAP0].at <= T[v] /\ x.heap[HEAP0].at \in Nat
        BY <1>1, <3>1, <3>2, RootFacts DEF T
      <3> QED
        BY <1>6, <3>1, <3>2, <3>3
    <2>3. ToExpire(x, D, now) = {}
      BY <2>2
    <2> QED
      BY <2>1, <2>3
  <1> QED
    BY <1>5, <1>6

\* As many timers as expire are in the heap.
LEMMA OverCount ==
  ASSUME NEW h, NEW a, NEW t, NEW N, HeapOK(h, a, t, N), NEW now
  PROVE  /\ IsFiniteSet(Over(DueOf(a, t), now))
         /\ Cardinality(Over(DueOf(a, t), now)) \in Nat
         /\ Cardinality(Over(DueOf(a, t), now)) <= N
  <1> DEFINE O == Over(DueOf(a, t), now)
             F == [k \in Slots(N) |-> h[k].w]
             I == {F[k] : k \in Slots(N)}
  <1>1. /\ N \in Nat
        /\ \A v \in Timers : IF DueOf(a, t)[v] = -1 THEN a[v] = 0 ELSE a[v] \in Slots(N) /\ h[a[v]].w = v
    BY DEF HeapOK, Holds
  <1>2. O \subseteq I
    BY <1>1 DEF Over
  <1>3. F \in Surjection(Slots(N), I)
    BY DEF Surjection
  <1>4. IsFiniteSet(Slots(N)) /\ Cardinality(Slots(N)) = N
    BY <1>1, SlotsCount
  <1> HIDE DEF I, F, O
  <1>5. IsFiniteSet(I) /\ Cardinality(I) <= N
    BY <1>3, <1>4, FS_Surjection
  <1>6. IsFiniteSet(O) /\ Cardinality(O) <= Cardinality(I)
    BY <1>2, <1>5, FS_Subset
  <1>7. Cardinality(O) \in Nat /\ Cardinality(I) \in Nat
    BY <1>5, <1>6, FS_CardinalityType
  <1> QED
    BY <1>1, <1>5, <1>6, <1>7 DEF O

\* timers_reify takes exactly the timers whose time is over, in the order of
\* their times, and leaves a heap of the times that are to come.
LEMMA ExpiredFacts ==
  ASSUME repeat \in [Timers -> Nat], HeapOK(timers, ev_active, at, timercnt), NEW now \in Nat,
         NEW x, x = Expired(now)
  PROVE  /\ HeapOK(x.heap, x.active, x.at, Cardinality(DOMAIN x.heap))
         /\ FedOK(x.fed, DueOf(ev_active, at), now, DueOf(x.active, x.at))
         /\ FedSet(x.fed) = Over(DueOf(ev_active, at), now)
  <1> DEFINE T == DueOf(ev_active, at)
             n == timercnt
             x0 == [heap |-> timers, active |-> ev_active, at |-> at, fed |-> <<>>]
             X == ExpireStates(T, now)
             F == [y \in X |-> ExpireTurn(y, now)]
             Y == {y \in X : ToExpire(y, T, now) = {}}
             m == [y \in X |-> Cardinality(ToExpire(y, T, now))]
             Turns(g) == g = [i \in 0..n |-> IF i = 0 THEN x0 ELSE ExpireTurn(g[i - 1], now)]
             f == CHOOSE g : Turns(g)
  <1>1. T \in Dues /\ n \in Nat /\ timercnt = Cardinality(DOMAIN timers)
    BY HeapOKType DEF HeapOK, timercnt
  <1>2. /\ IsFiniteSet(Over(T, now)) /\ Cardinality(Over(T, now)) \in Nat
        /\ Cardinality(Over(T, now)) <= n
    BY OverCount
  <1>3. /\ x0.heap = timers /\ x0.active = ev_active /\ x0.at = at /\ x0.fed = <<>>
        /\ HasFields(x0)
    BY DEF HasFields
  <1>4. FedSet(<<>>) = {} /\ FedOK(<<>>, T, now, T)
    BY EmptySeq DEF FedSet, FedOK
  <1> HIDE DEF x0
  <1>5. x0 \in X
    BY <1>1, <1>3, <1>4, ExpireRecord
  <1>6. ToExpire(x0, T, now) = Over(T, now)
    BY <1>3, <1>4 DEF ToExpire
  <1> HIDE DEF T, n
  <1>7. \A y \in X : /\ ExpireTurn(y, now) \in X
                     /\ y \in Y => ExpireTurn(y, now) = y
                     /\ y \notin Y => \E w \in ToExpire(y, T, now) :
                          ToExpire(ExpireTurn(y, now), T, now) = ToExpire(y, T, now) \ {w}
    BY <1>1, ExpireTurnKeeps
  <1>8. \A y \in X : IsFiniteSet(ToExpire(y, T, now)) /\ Cardinality(ToExpire(y, T, now)) \in Nat
    <2>1. \A y \in X : ToExpire(y, T, now) \subseteq Over(T, now)
      BY DEF ToExpire
    <2>2. \A y \in X : IsFiniteSet(ToExpire(y, T, now))
      BY <1>2, <2>1, FS_Subset
    <2> QED
      BY <2>2, FS_CardinalityType
  <1> HIDE DEF X
  <1>9. F \in [X -> X] /\ m \in [X -> Nat]
    BY <1>7, <1>8
  <1>10. ASSUME NEW y \in X, y \notin Y
         PROVE  Cardinality(ToExpire(ExpireTurn(y, now), T, now)) < Cardinality(ToExpire(y, T, now))
    <2>1. PICK w \in ToExpire(y, T, now) :
            ToExpire(ExpireTurn(y, now), T, now) = ToExpire(y, T, now) \ {w}
      BY <1>7, <1>10
    <2>2. Cardinality(ToExpire(y, T, now) \ {w}) = Cardinality(ToExpire(y, T, now)) - 1
      BY <1>8, FS_RemoveElement
    <2> QED
      BY <1>8, <2>1, <2>2
  <1>11. m[x0] <= n
    BY <1>2, <1>5, <1>6
  <1>12. IsLoop(X, F, Y, m)
    BY <1>7, <1>9, <1>10 DEF IsLoop
  <1>13. PICK g \in [0..n -> X] : TurnsBy(g, n, F, x0)
    <2> HIDE DEF F, Y, m
    <2> QED
      BY <1>1, <1>5, <1>12, TurnsExist
  <1>14. Turns(g)
    <2>1. [i \in 0..n |-> IF i = 0 THEN x0 ELSE F[g[i - 1]]]
            = [i \in 0..n |-> IF i = 0 THEN x0 ELSE ExpireTurn(g[i - 1], now)]
      BY <1>1
    <2> QED
      BY <1>13, <2>1 DEF TurnsBy
  <1>15. Turns(f)
    BY <1>14
  <1>16. Expired(now) = f[n]
    BY DEF Expired, f, Turns, x0, n
  <1> HIDE DEF f
  <1>17. IsRun(f, n, X, F, x0)
    <2>1. f[0] = x0 /\ \A i \in 1..n : f[i] = ExpireTurn(f[i - 1], now)
      BY <1>1, <1>15
    <2> QED
      BY <2>1 DEF IsRun
  <1>18. f[n] \in Y
    <2> HIDE DEF F, Y, m
    <2> QED
      BY <1>1, <1>5, <1>11, <1>12, <1>17, LoopEnds
  <1>19. x \in ExpireStates(T, now) /\ ToExpire(x, T, now) = {}
    BY <1>16, <1>18 DEF X
  <1>20. /\ HeapOK(x.heap, x.active, x.at, Cardinality(DOMAIN x.heap))
         /\ FedOK(x.fed, T, now, DueOf(x.active, x.at))
    BY <1>19 DEF ExpireStates
  <1>21. FedSet(x.fed) = Over(T, now)
    BY <1>19, <1>20 DEF ToExpire, FedOK
  <1> QED
    BY <1>20, <1>21 DEF T

-----------------------------------------------------------------------------
(* The list of pending callbacks.                                            *)

Watchers == Timers \cup {NoTimer}

\* A watcher knows its place in the list, and has one place at most.
PlacesInv ==
  /\ pendingTimers \in Seq(Watchers)
  /\ pending \in [Timers -> Nat]
  /\ \A w \in Timers : pending[w] # 0 =>
       pending[w] \in DOMAIN pendingTimers /\ pendingTimers[pending[w]] = w
  /\ \A i \in DOMAIN pendingTimers : pendingTimers[i] # NoTimer => pending[pendingTimers[i]] = i

\* The callbacks to come, in their order.
ToCall(P) == Only(Reverse(P), Timers)

\* The entries of w are gone, and nothing else.
LEMMA DroppedFromList ==
  ASSUME NEW P \in Seq(Watchers), NEW Q \in Seq(Watchers), Len(P) = Len(Q), NEW w \in Timers,
         \A i \in 1..Len(P) : IF P[i] = w THEN Q[i] = NoTimer ELSE Q[i] = P[i]
  PROVE  ToCall(Q) = Only(ToCall(P), Timers \ {w})
  <1> DEFINE O == Reverse(P)
             R == Reverse(Q)
  <1>1. /\ O \in Seq(Watchers) /\ Len(O) = Len(P) /\ \A i \in 1..Len(P) : O[i] = P[(Len(P) - i) + 1]
        /\ R \in Seq(Watchers) /\ Len(R) = Len(P) /\ \A i \in 1..Len(P) : R[i] = Q[(Len(P) - i) + 1]
    BY ReverseFacts
  <1>2. Len(P) \in Nat
    BY LenProperties
  <1> HIDE DEF O, R
  <1>3. ASSUME NEW i \in 1..Len(R)
        PROVE  (R[i] \in Timers <=> O[i] \in Timers \ {w}) /\ (R[i] \in Timers => R[i] = O[i])
    <2>1. (Len(P) - i) + 1 \in 1..Len(P)
      BY <1>1, <1>2
    <2>2. IF O[i] = w THEN R[i] = NoTimer ELSE R[i] = O[i]
      BY <1>1, <2>1
    <2> QED
      BY <2>2, EvTimersAssumption
  <1>4. Only(R, Timers) = Only(O, Timers \ {w})
    <2>1. Alike(R, O, Timers, Timers \ {w})
      BY <1>1, <1>3 DEF Alike
    <2> QED
      BY <1>1, <2>1, OnlySame
  <1>5. Only(Only(O, Timers), Timers \ {w}) = Only(O, Timers \cap (Timers \ {w}))
    BY <1>1, OnlyAgain
  <1>6. Timers \cap (Timers \ {w}) = Timers \ {w}
    OBVIOUS
  <1> QED
    BY <1>4, <1>5, <1>6 DEF O, R, ToCall

\* clear_pending.
LEMMA ClearPlaces ==
  ASSUME PlacesInv, NEW w \in Timers, clear_pending(w)
  PROVE  /\ PlacesInv'
         /\ ToCall(pendingTimers') = Only(ToCall(pendingTimers), Timers \ {w})
  <1> DEFINE P == pendingTimers
             Q == WithoutEntry(w)
             p == [pending EXCEPT ![w] = 0]
  <1>1. /\ P \in Seq(Watchers) /\ pending \in [Timers -> Nat] /\ DOMAIN P = 1..Len(P) /\ Len(P) \in Nat
        /\ \A v \in Timers : pending[v] # 0 => pending[v] \in 1..Len(P) /\ P[pending[v]] = v
        /\ \A i \in 1..Len(P) : P[i] # NoTimer => pending[P[i]] = i
    BY LenProperties DEF PlacesInv
  <1>2. \A i \in 1..Len(P) : P[i] \in Watchers
    BY <1>1, ElementOfSeq
  <1>3. w # NoTimer /\ NoTimer \in Watchers
    BY EvTimersAssumption DEF Watchers
  <1>4. Q \in Seq(Watchers) /\ Len(Q) = Len(P) /\ DOMAIN Q = 1..Len(P)
    <2>1. CASE pending[w] = 0
      BY <1>1, <2>1 DEF WithoutEntry
    <2>2. CASE pending[w] # 0
      <3>1. Q = [P EXCEPT ![pending[w]] = NoTimer]
        BY <2>2 DEF WithoutEntry
      <3>2. pending[w] \in 1..Len(P)
        BY <1>1, <2>2
      <3>3. Q \in Seq(Watchers) /\ Len(Q) = Len(P)
        <4> HIDE DEF P, Q
        <4> QED
          BY <1>1, <1>3, <3>1, <3>2, ExceptSeq
      <3> QED
        BY <3>3, LenProperties
    <2> QED
      BY <2>1, <2>2
  <1>5. ASSUME NEW i \in 1..Len(P)
        PROVE  IF P[i] = w THEN Q[i] = NoTimer ELSE Q[i] = P[i]
    <2>1. CASE pending[w] = 0
      BY <1>1, <1>3, <2>1 DEF WithoutEntry
    <2>2. CASE pending[w] # 0
      <3>1. Q = [P EXCEPT ![pending[w]] = NoTimer]
        BY <2>2 DEF WithoutEntry
      <3>2. P[i] = w <=> i = pending[w]
        BY <1>1, <1>3, <2>2
      <3> QED
        BY <1>1, <3>1, <3>2
    <2> QED
      BY <2>1, <2>2
  <1>6. ToCall(Q) = Only(ToCall(P), Timers \ {w})
    BY <1>1, <1>4, <1>5, DroppedFromList
  <1>7. /\ p \in [Timers -> Nat] /\ p[w] = 0
        /\ \A v \in Timers : v # w => p[v] = pending[v]
    BY <1>1
  <1> HIDE DEF P, Q, p
  <1>8. \A v \in Timers : p[v] # 0 => p[v] \in 1..Len(P) /\ Q[p[v]] = v
    BY <1>1, <1>5, <1>7
  <1>9. ASSUME NEW i \in 1..Len(P), Q[i] # NoTimer PROVE p[Q[i]] = i
    <2>1. Q[i] = P[i] /\ P[i] # w
      BY <1>5, <1>9
    <2>2. P[i] \in Timers
      BY <1>2, <1>9, <2>1 DEF Watchers
    <2> QED
      BY <1>1, <1>7, <1>9, <2>1, <2>2
  <1>10. pendingTimers' = Q /\ pending' = p
    BY DEF clear_pending, Q, p
  <1> QED
    BY <1>4, <1>6, <1>7, <1>8, <1>9, <1>10 DEF PlacesInv, P

\* ev_invoke_pending: the last entry is the next callback, unless it is none.
LEMMA InvokePlaces ==
  ASSUME PlacesInv, ev_invoke_pending
  PROVE  /\ PlacesInv'
         /\ \/ ToCall(pendingTimers') = ToCall(pendingTimers)
            \/ ToCall(pendingTimers) # <<>> /\ ToCall(pendingTimers') = Tail(ToCall(pendingTimers))
  <1> DEFINE P == pendingTimers
             n == Len(P)
             Q == SubSeq(P, 1, n - 1)
             w == P[n]
             p == [v \in Timers |-> IF v = w THEN 0 ELSE pending[v]]
  <1>1. /\ P \in Seq(Watchers) /\ pending \in [Timers -> Nat] /\ DOMAIN P = 1..n /\ n \in Nat
        /\ \A v \in Timers : pending[v] # 0 => pending[v] \in 1..n /\ P[pending[v]] = v
        /\ \A i \in 1..n : P[i] # NoTimer => pending[P[i]] = i
        /\ P # <<>>
    BY LenProperties DEF PlacesInv, ev_invoke_pending
  <1>2. /\ Q \in Seq(Watchers) /\ Len(Q) = n - 1 /\ n \in Nat \ {0}
        /\ \A i \in 1..(n - 1) : Q[i] = P[i]
    BY <1>1, FrontOf
  <1>3. DOMAIN Q = 1..(n - 1)
    BY <1>2, LenProperties
  <1>4. pendingTimers' = Q /\ pending' = p
    BY DEF ev_invoke_pending
  <1>5. /\ p \in [Timers -> Nat]
        /\ \A v \in Timers : p[v] = IF v = w THEN 0 ELSE pending[v]
    BY <1>1
  <1>6. /\ Reverse(P) # <<>> /\ Head(Reverse(P)) = w /\ Tail(Reverse(P)) = Reverse(Q)
        /\ Reverse(P) \in Seq(Watchers)
    BY <1>1, ReverseTail, ReverseFacts
  <1> HIDE DEF Q, p
  <1>7. ASSUME NEW v \in Timers, p[v] # 0 PROVE p[v] \in 1..(n - 1) /\ Q[p[v]] = v
    <2>1. v # w /\ p[v] = pending[v] /\ pending[v] \in 1..n /\ P[pending[v]] = v
      BY <1>1, <1>5, <1>7
    <2>2. pending[v] # n
      BY <2>1
    <2>3. pending[v] \in 1..(n - 1)
      BY <1>1, <2>1, <2>2
    <2> QED
      BY <1>2, <2>1, <2>3
  <1>8. ASSUME NEW i \in 1..(n - 1), Q[i] # NoTimer PROVE p[Q[i]] = i
    <2>1. i \in 1..n /\ i # n /\ n \in 1..n /\ Q[i] = P[i]
      <3> HIDE DEF n, P
      <3> QED
        BY <1>2
    <2>2. P[i] \in Timers /\ pending[P[i]] = i
      <3>1. P[i] \in Watchers
        BY <1>1, <2>1, ElementOfSeq
      <3> QED
        BY <1>1, <1>8, <2>1, <3>1 DEF Watchers
    <2>3. P[i] # w
      BY <1>1, <1>8, <2>1, <2>2
    <2> QED
      BY <1>5, <2>1, <2>2, <2>3
  <1>9. PlacesInv'
    BY <1>2, <1>3, <1>4, <1>5, <1>7, <1>8 DEF PlacesInv
  <1> HIDE DEF w
  <1>10. \/ ToCall(Q) = ToCall(P)
         \/ ToCall(P) # <<>> /\ ToCall(Q) = Tail(ToCall(P))
    BY <1>6, OnlyTail DEF ToCall
  <1> QED
    BY <1>4, <1>9, <1>10

\* ev_feed_event for the timers q, when none is pending.
LEMMA FedPlaces ==
  ASSUME PlacesInv, pendingTimers = <<>>, NEW q \in Seq(Timers),
         \A i, j \in DOMAIN q : i < j => q[i] # q[j], Fed(Reverse(q))
  PROVE  PlacesInv' /\ ToCall(pendingTimers') = q
  <1> DEFINE r == Reverse(q)
             n == Len(q)
             S == {w \in Timers : pending[w] = 0}
  <1>1. /\ r \in Seq(Timers) /\ Len(r) = n /\ n \in Nat /\ DOMAIN q = 1..n /\ DOMAIN r = 1..n
        /\ \A i \in 1..n : r[i] = q[(n - i) + 1]
        /\ Reverse(r) = q
    BY ReverseFacts, LenProperties
  <1>2. \A w \in Timers : pending[w] = 0
    BY EmptySeq DEF PlacesInv
  <1>3. S = Timers
    BY <1>2
  <1>4. Only(r, S) = r
    BY <1>1, <1>3, OnlyAll
  <1>5. Only(q, Timers) = q
    BY OnlyAll
  <1>6. /\ pendingTimers' = <<>> \o r
        /\ pending' = [w \in Timers |->
             IF \E i \in DOMAIN r : r[i] = w
             THEN Len(pendingTimers) + (CHOOSE i \in DOMAIN r : r[i] = w) ELSE pending[w]]
    BY <1>4 DEF Fed
  <1> HIDE DEF r, n, S
  <1>7. pendingTimers' = r /\ Len(pendingTimers) = 0
    BY <1>1, <1>6, ConcatEmptySeq, EmptySeq
  <1>8. ASSUME NEW i \in 1..n, NEW j \in 1..n, r[i] = r[j] PROVE i = j
    <2>1. (n - i) + 1 \in 1..n /\ (n - j) + 1 \in 1..n
      BY <1>1
    <2>2. ~((n - i) + 1 < (n - j) + 1) /\ ~((n - j) + 1 < (n - i) + 1)
      BY <1>1, <1>8, <2>1
    <2> QED
      BY <1>1, <2>2
  <1>9. ASSUME NEW w \in Timers
        PROVE  /\ pending'[w] \in Nat
               /\ pending'[w] # 0 => pending'[w] \in 1..n /\ r[pending'[w]] = w
               /\ \A i \in 1..n : r[i] = w => pending'[w] = i
    <2>1. CASE \E i \in 1..n : r[i] = w
      <3> DEFINE k == CHOOSE i \in 1..n : r[i] = w
      <3>1. k \in 1..n /\ r[k] = w
        BY <2>1
      <3>2. pending'[w] = 0 + k
        BY <1>1, <1>6, <1>7, <2>1
      <3> HIDE DEF k
      <3>3. pending'[w] = k /\ k \in Nat
        BY <1>1, <3>1, <3>2
      <3> QED
        BY <1>8, <3>1, <3>3
    <2>2. CASE ~\E i \in 1..n : r[i] = w
      BY <1>1, <1>2, <1>6, <2>2
    <2> QED
      BY <2>1, <2>2
  <1>10. pending' \in [Timers -> Nat]
    BY <1>6, <1>9
  <1>11. \A i \in 1..n : r[i] \in Timers
    BY <1>1, ElementOfSeq
  <1>12. r \in Seq(Watchers)
    BY <1>1, SeqMonotonic DEF Watchers
  <1>13. PlacesInv'
    BY <1>1, <1>7, <1>9, <1>10, <1>11, <1>12 DEF PlacesInv
  <1> QED
    BY <1>1, <1>5, <1>7, <1>13 DEF ToCall

\* No callbacks are to come when the list is empty.
LEMMA NothingToCall == ToCall(<<>>) = <<>>
  <1>1. <<>> \in Seq(Timers) /\ Len(<<>>) = 0
    BY EmptySeq
  <1>2. Reverse(<<>>) \in Seq(Timers) /\ Len(Reverse(<<>>)) = 0
    BY <1>1, ReverseFacts
  <1>3. Reverse(<<>>) = <<>>
    BY <1>2, EmptySeq
  <1> QED
    BY <1>3, OnlyEmpty DEF ToCall

-----------------------------------------------------------------------------
(* The timers implement their service.                                       *)

TimersInv ==
  /\ HeapOK(timers, ev_active, at, timercnt)
  /\ repeat \in [Timers -> Nat] /\ mn_now \in Nat
  /\ PlacesInv

\* The service filters lists as the model does.
LEMMA FilterInService ==
  ASSUME NEW s, NEW S
  PROVE  Service!Only(s, S) = Only(s, S)
  BY DEF Service!Only, Only

\* A timer that gets a time not before now is armed.
LEMMA ServiceArms ==
  ASSUME NEW w \in Timers, NEW d \in Nat, d >= mn_now, DueOf(ev_active, at) \in Dues,
         DueOf(ev_active', at') = [DueOf(ev_active, at) EXCEPT ![w] = d],
         \/ ToCall(pendingTimers') = ToCall(pendingTimers)
         \/ ToCall(pendingTimers') = Only(ToCall(pendingTimers), Timers \ {w}),
         mn_now' = mn_now
  PROVE  Service!Arm(w)
  <1> DEFINE T == DueOf(ev_active, at)
             U == DueOf(ev_active', at')
  <1>1. U[w] = d
    BY DEF Dues
  <1>2. U[w] >= mn_now /\ U = [T EXCEPT ![w] = U[w]]
    BY <1>1
  <1>3. Service!Only(ToCall(pendingTimers), Timers \ {w}) = Only(ToCall(pendingTimers), Timers \ {w})
    BY FilterInService
  <1> QED
    BY <1>2, <1>3 DEF Service!Arm, Service!Without, DueOf, ToCall

\* A timer that loses its time, and whose callback is dropped, is disarmed.
LEMMA ServiceDisarms ==
  ASSUME NEW w \in Timers, DueOf(ev_active, at) \in Dues,
         DueOf(ev_active', at') = [DueOf(ev_active, at) EXCEPT ![w] = -1],
         ToCall(pendingTimers') = Only(ToCall(pendingTimers), Timers \ {w}),
         mn_now' = mn_now
  PROVE  Service!Disarm(w)
  <1>1. Service!Only(ToCall(pendingTimers), Timers \ {w}) = Only(ToCall(pendingTimers), Timers \ {w})
    BY FilterInService
  <1> QED
    BY <1>1 DEF Service!Disarm, Service!Without, Service!Never, DueOf, ToCall

\* No timer is armed at first.
LEMMA TimersInitially == TimersInit => TimersInv /\ Service!Init
  <1> SUFFICES ASSUME TimersInit PROVE TimersInv /\ Service!Init
    OBVIOUS
  <1> USE DEF TimersInit
  <1>1. DOMAIN timers = {} /\ timercnt = 0
    BY FS_EmptySet DEF timercnt
  <1>2. Slots(0) = {}
    BY DEF Slots, HEAP0
  <1>3. \A w \in Timers : DueOf(ev_active, at)[w] = -1
    BY DEF DueOf
  <1>4. timers \in [Slots(0) -> HeapEntries]
    BY <1>2
  <1>5. Holds(timers, ev_active, 0, DueOf(ev_active, at), Timers) /\ Ordered(timers, 0)
    BY <1>2, <1>3, <1>4 DEF Holds, Ordered
  <1>6. HeapOK(timers, ev_active, at, timercnt)
    BY <1>1, <1>5 DEF HeapOK
  <1>7. PlacesInv
    BY EmptySeq DEF PlacesInv
  <1>8. ToCall(pendingTimers) = <<>>
    BY NothingToCall
  <1>9. DueOf(ev_active, at) = [w \in Timers |-> -1]
    BY <1>3 DEF DueOf
  <1>10. Service!Init
    BY <1>8, <1>9 DEF Service!Init, Service!Never, DueOf, ToCall
  <1> QED
    BY <1>6, <1>7, <1>10 DEF TimersInv

\* ev_timer_start arms the timer.
LEMMA StartStep ==
  ASSUME TimersInv, NEW w \in Timers, NEW d \in Delays, ev_timer_start(w, d)
  PROVE  TimersInv' /\ Service!Arm(w)
  <1>1. /\ HeapOK(timers, ev_active, at, timercnt) /\ PlacesInv /\ mn_now \in Nat
        /\ repeat \in [Timers -> Nat] /\ mn_now + d \in Nat /\ mn_now + d >= mn_now
    BY EvTimersAssumption DEF TimersInv
  <1>2. /\ ev_active[w] = 0 /\ Start(w, mn_now + d)
        /\ UNCHANGED <<repeat, pendingTimers, pending, mn_now>>
    BY DEF ev_timer_start
  <1>3. /\ HeapOK(timers', ev_active', at', timercnt')
        /\ DueOf(ev_active', at') = [DueOf(ev_active, at) EXCEPT ![w] = mn_now + d]
    BY <1>1, <1>2, StartHeap
  <1>4. PlacesInv'
    BY <1>1, <1>2 DEF PlacesInv
  <1>5. DueOf(ev_active, at) \in Dues
    BY <1>1, HeapOKType
  <1>6. Service!Arm(w)
    BY <1>1, <1>2, <1>3, <1>5, ServiceArms
  <1> QED
    BY <1>1, <1>2, <1>3, <1>4, <1>6 DEF TimersInv

\* A timer that is not active has no time.
LEMMA IdleHeap ==
  ASSUME HeapOK(timers, ev_active, at, timercnt), NEW w \in Timers, ev_active[w] = 0,
         UNCHANGED <<timers, ev_active, at>>
  PROVE  /\ HeapOK(timers', ev_active', at', timercnt')
         /\ DueOf(ev_active', at') = [DueOf(ev_active, at) EXCEPT ![w] = -1]
  <1>1. DueOf(ev_active, at) \in Dues /\ DueOf(ev_active, at)[w] = -1
    BY HeapOKType
  <1>2. [DueOf(ev_active, at) EXCEPT ![w] = -1] = DueOf(ev_active, at)
    BY <1>1 DEF Dues
  <1>3. timercnt' = timercnt
    BY DEF timercnt
  <1> QED
    BY <1>2, <1>3

\* ev_timer_stop disarms the timer, active or not, pending or not.
LEMMA StopStep ==
  ASSUME TimersInv, NEW w \in Timers, ev_timer_stop(w)
  PROVE  TimersInv' /\ Service!Disarm(w)
  <1>1. /\ HeapOK(timers, ev_active, at, timercnt) /\ PlacesInv /\ mn_now \in Nat
        /\ repeat \in [Timers -> Nat]
    BY DEF TimersInv
  <1>2. /\ clear_pending(w) /\ mn_now' = mn_now
        /\ IF ev_active[w] = 0 THEN UNCHANGED <<timers, ev_active, at, repeat>> ELSE Stop(w)
    BY DEF ev_timer_stop
  <1>3. /\ HeapOK(timers', ev_active', at', timercnt')
        /\ DueOf(ev_active', at') = [DueOf(ev_active, at) EXCEPT ![w] = -1]
    BY <1>1, <1>2, StopHeap, IdleHeap
  <1>4. PlacesInv' /\ ToCall(pendingTimers') = Only(ToCall(pendingTimers), Timers \ {w})
    BY <1>1, <1>2, ClearPlaces
  <1>5. DueOf(ev_active, at) \in Dues
    BY <1>1, HeapOKType
  <1>6. Service!Disarm(w)
    BY <1>2, <1>3, <1>4, <1>5, ServiceDisarms
  <1>7. repeat' \in [Timers -> Nat]
    BY <1>1, <1>2 DEF Stop
  <1> QED
    BY <1>1, <1>2, <1>3, <1>4, <1>6, <1>7 DEF TimersInv

\* ev_timer_again arms the timer or disarms it.
LEMMA AgainStep ==
  ASSUME TimersInv, NEW w \in Timers, NEW r \in Delays, ev_timer_again(w, r)
  PROVE  TimersInv' /\ (Service!Arm(w) \/ Service!Disarm(w))
  <1>1. /\ HeapOK(timers, ev_active, at, timercnt) /\ PlacesInv /\ mn_now \in Nat /\ r \in Nat
        /\ repeat \in [Timers -> Nat] /\ mn_now + r \in Nat /\ mn_now + r >= mn_now
    BY EvTimersAssumption DEF TimersInv
  <1>2. /\ clear_pending(w) /\ mn_now' = mn_now
    BY DEF ev_timer_again
  <1>3. PlacesInv' /\ ToCall(pendingTimers') = Only(ToCall(pendingTimers), Timers \ {w})
    BY <1>1, <1>2, ClearPlaces
  <1>4. DueOf(ev_active, at) \in Dues
    BY <1>1, HeapOKType
  <1>5. CASE /\ ev_active[w] # 0 /\ r # 0
             /\ at' = [at EXCEPT ![w] = mn_now + r]
             /\ repeat' = [repeat EXCEPT ![w] = r]
             /\ SetHeap(adjustheap([heap |-> [timers EXCEPT ![ev_active[w]].at = mn_now + r],
                                    active |-> ev_active], timercnt, ev_active[w]))
    <2>1. PICK d : d = mn_now + r
      OBVIOUS
    <2>2. PICK x : x = adjustheap(Retimed(timers, ev_active, w, d), timercnt, ev_active[w])
      OBVIOUS
    <2>3. Settled(x, Retimed(timers, ev_active, w, d), timercnt, ev_active[w])
      BY <2>2 DEF Settled
    <2>4. SetHeap(x)
      BY <1>5, <2>1, <2>2 DEF Retimed
    <2>5. at' = [at EXCEPT ![w] = d] /\ d \in Nat /\ d >= mn_now
      BY <1>1, <1>5, <2>1
    <2>6. /\ HeapOK(timers', ev_active', at', timercnt')
          /\ DueOf(ev_active', at') = [DueOf(ev_active, at) EXCEPT ![w] = d]
      BY <1>1, <1>5, <2>3, <2>4, <2>5, AgainHeap
    <2>7. Service!Arm(w)
      BY <1>2, <1>3, <1>4, <2>5, <2>6, ServiceArms
    <2>8. repeat' \in [Timers -> Nat]
      BY <1>1, <1>5
    <2> QED
      BY <1>1, <1>2, <1>3, <2>6, <2>7, <2>8 DEF TimersInv
  <1>6. CASE ev_active[w] # 0 /\ r = 0 /\ Stop(w)
    <2>1. /\ HeapOK(timers', ev_active', at', timercnt')
          /\ DueOf(ev_active', at') = [DueOf(ev_active, at) EXCEPT ![w] = -1]
      BY <1>1, <1>6, StopHeap
    <2>2. Service!Disarm(w)
      BY <1>2, <1>3, <1>4, <2>1, ServiceDisarms
    <2>3. repeat' \in [Timers -> Nat]
      BY <1>1, <1>6 DEF Stop
    <2> QED
      BY <1>1, <1>2, <1>3, <2>1, <2>2, <2>3 DEF TimersInv
  <1>7. CASE /\ ev_active[w] = 0 /\ r # 0
             /\ Start(w, mn_now + r)
             /\ repeat' = [repeat EXCEPT ![w] = r]
    <2>1. /\ HeapOK(timers', ev_active', at', timercnt')
          /\ DueOf(ev_active', at') = [DueOf(ev_active, at) EXCEPT ![w] = mn_now + r]
      BY <1>1, <1>7, StartHeap
    <2>2. Service!Arm(w)
      BY <1>1, <1>2, <1>3, <1>4, <2>1, ServiceArms
    <2>3. repeat' \in [Timers -> Nat]
      BY <1>1, <1>7
    <2> QED
      BY <1>1, <1>2, <1>3, <2>1, <2>2, <2>3 DEF TimersInv
  <1>8. CASE ev_active[w] = 0 /\ r = 0 /\ UNCHANGED <<timers, ev_active, at, repeat>>
    <2>1. /\ HeapOK(timers', ev_active', at', timercnt')
          /\ DueOf(ev_active', at') = [DueOf(ev_active, at) EXCEPT ![w] = -1]
      BY <1>1, <1>8, IdleHeap
    <2>2. Service!Disarm(w)
      BY <1>2, <1>3, <1>4, <2>1, ServiceDisarms
    <2> QED
      BY <1>1, <1>2, <1>3, <1>8, <2>1, <2>2 DEF TimersInv
  <1> QED
    BY <1>5, <1>6, <1>7, <1>8 DEF ev_timer_again

\* ev_invoke_pending calls the next callback, or no timer.
LEMMA InvokeStep ==
  ASSUME TimersInv, ev_invoke_pending
  PROVE  TimersInv' /\ (Service!Call \/ UNCHANGED Service!vars)
  <1>1. /\ HeapOK(timers, ev_active, at, timercnt) /\ PlacesInv /\ mn_now \in Nat
        /\ repeat \in [Timers -> Nat]
    BY DEF TimersInv
  <1>2. UNCHANGED <<timers, ev_active, at, repeat, mn_now, ops>>
    BY DEF ev_invoke_pending
  <1>3. /\ PlacesInv'
        /\ \/ ToCall(pendingTimers') = ToCall(pendingTimers)
           \/ ToCall(pendingTimers) # <<>> /\ ToCall(pendingTimers') = Tail(ToCall(pendingTimers))
    BY <1>1, InvokePlaces
  <1>4. DueOf(ev_active', at') = DueOf(ev_active, at) /\ timercnt' = timercnt
    BY <1>2 DEF timercnt
  <1>5. Service!Call \/ UNCHANGED Service!vars
    BY <1>2, <1>3, <1>4 DEF Service!Call, Service!vars, DueOf, ToCall
  <1> QED
    BY <1>1, <1>2, <1>3, <1>4, <1>5 DEF TimersInv

\* timers_reify is a turn of the service.
LEMMA TurnStep ==
  ASSUME TimersInv, TimersTurn
  PROVE  TimersInv' /\ Service!Turn
  <1>1. /\ HeapOK(timers, ev_active, at, timercnt) /\ PlacesInv /\ mn_now \in Nat
        /\ repeat \in [Timers -> Nat]
    BY DEF TimersInv
  <1>2. PICK now \in {mn_now'} : timers_reify(now)
    BY DEF TimersTurn
  <1>3. now = mn_now' /\ now \in Nat /\ now >= mn_now /\ pendingTimers = <<>>
    BY <1>1, <1>2, EvTimersAssumption DEF TimersTurn
  <1>4. PICK x : x = Expired(now)
    OBVIOUS
  <1>5. /\ timers' = x.heap /\ ev_active' = x.active /\ at' = x.at /\ Fed(Reverse(x.fed))
        /\ repeat' = [w \in Timers |-> IF x.active[w] = 0 THEN 0 ELSE repeat[w]]
    BY <1>2, <1>4 DEF timers_reify, SetHeap
  <1>6. /\ HeapOK(x.heap, x.active, x.at, Cardinality(DOMAIN x.heap))
        /\ FedOK(x.fed, DueOf(ev_active, at), now, DueOf(x.active, x.at))
        /\ FedSet(x.fed) = Over(DueOf(ev_active, at), now)
    BY <1>1, <1>3, <1>4, ExpiredFacts
  <1>7. HeapOK(timers', ev_active', at', timercnt')
    BY <1>5, <1>6 DEF timercnt
  <1>8. repeat' \in [Timers -> Nat]
    BY <1>1, <1>5
  <1>9. x.fed \in Seq(Timers) /\ \A i, j \in DOMAIN x.fed : i < j => x.fed[i] # x.fed[j]
    BY <1>6 DEF FedOK
  <1>10. PlacesInv' /\ ToCall(pendingTimers') = x.fed
    BY <1>1, <1>3, <1>5, <1>9, FedPlaces
  <1>11. TimersInv'
    BY <1>3, <1>7, <1>8, <1>10 DEF TimersInv
  <1> DEFINE T == DueOf(ev_active, at)
             U == DueOf(ev_active', at')
             q == ToCall(pendingTimers')
             over == {w \in Timers : T[w] # -1 /\ T[w] < mn_now'}
  <1>12. FedOK(q, T, now, U) /\ FedSet(q) = Over(T, now)
    BY <1>5, <1>6, <1>10
  <1> HIDE DEF T, U, q
  <1>13. over = Over(T, now)
    BY <1>3 DEF Over
  <1>14. {q[i] : i \in DOMAIN q} = over
    BY <1>12, <1>13 DEF FedSet
  <1>15. \A i, j \in DOMAIN q : i < j => q[i] # q[j] /\ T[q[i]] <= T[q[j]]
    BY <1>12 DEF FedOK
  <1>16. \A w \in Timers : IF w \in over THEN U[w] = -1 \/ U[w] >= mn_now' ELSE U[w] = T[w]
    BY <1>3, <1>12, <1>13 DEF FedOK
  <1>17. ToCall(pendingTimers) = <<>>
    BY <1>3, NothingToCall
  <1>18. Service!Turn
    BY <1>3, <1>14, <1>15, <1>16, <1>17 DEF Service!Turn, Service!Never, T, U, q, DueOf, ToCall
  <1> QED
    BY <1>11, <1>18

\* Every step keeps the invariant and is a step of the service, or none.
LEMMA TimersStep ==
  TimersInv /\ [TimersNext]_timerVars => TimersInv' /\ [Service!Next]_(Service!vars)
  <1> SUFFICES ASSUME TimersInv, [TimersNext]_timerVars
               PROVE  TimersInv' /\ (Service!Next \/ UNCHANGED Service!vars)
    OBVIOUS
  <1>1. CASE TimersTurn
    BY <1>1, TurnStep DEF Service!Next
  <1>2. CASE ev_invoke_pending
    BY <1>2, InvokeStep DEF Service!Next
  <1>3. ASSUME NEW w \in Timers, NEW d \in Delays, ev_timer_start(w, d)
        PROVE  TimersInv' /\ Service!Next
    BY <1>3, StartStep DEF Service!Next
  <1>4. ASSUME NEW w \in Timers, ev_timer_stop(w)
        PROVE  TimersInv' /\ Service!Next
    BY <1>4, StopStep DEF Service!Next
  <1>5. ASSUME NEW w \in Repeating, NEW r \in Delays, ev_timer_again(w, r)
        PROVE  TimersInv' /\ Service!Next
    <2>1. w \in Timers
      BY EvTimersAssumption
    <2> QED
      BY <1>5, <2>1, AgainStep DEF Service!Next
  <1>6. CASE UNCHANGED timerVars
    <2>1. TimersInv'
      BY <1>6 DEF timerVars, TimersInv, PlacesInv, timercnt
    <2>2. UNCHANGED Service!vars
      BY <1>6 DEF timerVars, Service!vars
    <2> QED
      BY <2>1, <2>2
  <1> QED
    BY <1>1, <1>2, <1>3, <1>4, <1>5, <1>6 DEF TimersNext

\* Every timer that has a time is in the heap once, at the place it keeps of
\* itself, with that time; the heap is in order; a pending timer knows its
\* place in the list of pending callbacks.
THEOREM TimersInvariant == TimersSpec => []TimersInv
  <1>1. TimersInit => TimersInv
    BY TimersInitially
  <1>2. TimersInv /\ [TimersNext]_timerVars => TimersInv'
    BY TimersStep
  <1> QED
    BY <1>1, <1>2, PTL DEF TimersSpec

\* libev's heap and list of pending callbacks implement the timer service: a
\* timer expires once its time has passed and in the order of the times, and
\* one that was stopped is not called.
THEOREM TimersImplementService == TimersSpec => ImplementsService
  <1>1. TimersInit => Service!Init
    BY TimersInitially
  <1>2. TimersInv /\ [TimersNext]_timerVars => [Service!Next]_(Service!vars)
    BY TimersStep
  <1> QED
    BY <1>1, <1>2, TimersInvariant, PTL DEF TimersSpec, ImplementsService, Service!Spec
==============================================================================

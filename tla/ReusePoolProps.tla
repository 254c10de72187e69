---------------------------- MODULE ReusePoolProps ----------------------------
(* What the reuse of connections guarantees, and what it does not. *)
EXTENDS ReusePool

Alive == {k \in {pool[i] : i \in DOMAIN pool} : ~isDestroy[k]}

\* The pool holds at most one connection more than maxIdleConnections, and never
\* two a request could use: the block on TAG keeps the lookup that finds none and
\* the put together (XAsyncCallReuse.kt:43-54), and get has removed the
\* destroyed connections that would make cleanUp give up (XConnectionPool.kt:38).
PoolSound ==
  /\ Cardinality(Alive) <= MaxIdle + 1
  /\ \A j, k \in Alive : j # k => authority[j] # authority[k]

\* A call that execute has left got its answer, was cancelled, or has a callback
\* in a connection whose end will be told; also one whose message is stranded in
\* messageQueue because onOpen drained it too early.  Forgotten are only calls
\* whose execute met an exception, and those of a connection whose last
\* callback did: in cleanUp, when it closed another connection.
NoneForgotten ==
  \A c \in Calls : stack[Worker(c)] = <<>> =>
    \/ c \in answered \cup canceled
    \/ Worker(c) \in thrown
    \/ \E k \in Calls :
         /\ c \in xCallBackMap[k]
         /\ loop[k] # "ended" \/ stack[Loop(k)] # <<>> \/ Loop(k) \in thrown

Waits(t, u) == t # u /\ \E l \in Wanted(Head(stack[t])) : Holds(u, l)
Blocked == {t \in Busy : \E u \in Busy : Waits(t, u)}
Deadlocked(S) == S # {} /\ \A t \in S : \E u \in S : Waits(t, u)

Dying(k) == isDestroy[k] \/ shut[k] \/ inactive[k] \/ loop[k] \in {"down", "ended"}
Place(t) == Head(stack[t]).at

\* Threads can wait for each other for ever, but only if one of these is among
\* them: a thread that holds the monitor of the pool while cleanUp closes the
\* connection it evicts, which is just coming to its end; a thread that tells
\* the end of a connection with the monitor of its socket held, against a send
\* that has the monitor of the connection and wants the socket's; the writer in
\* client_long_send, against an upcall from inside the mutex; an error upcall,
\* against the ping task in its block on TAG.  Over connections that live, and
\* whose socket makes no such call, no threads are stuck.
PoolStuck(S) == \E t \in S : Holds(t, Pool) /\ Dying(On(t))
SendStuck(S) ==
  \E t, u \in S : /\ Place(t) = "offer" /\ Place(u) = "release" /\ On(t) = On(u)
                  /\ Holds(t, Conn(On(u))) /\ Holds(u, Sock(On(t))) /\ Dying(On(t))
MutexStuck(S) == \E t, u \in S : Place(t) = "native" /\ Holds(u, Mutex)
PingStuck(S) == \E t, u \in S : Place(t) = "error" /\ Holds(u, SockTAG)
StuckOnlyWhenDying ==
  \A S \in SUBSET Blocked : Deadlocked(S) =>
    PoolStuck(S) \/ SendStuck(S) \/ MutexStuck(S) \/ PingStuck(S)
===============================================================================

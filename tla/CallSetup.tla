------------------------------ MODULE CallSetup ------------------------------
(***************************************************************************)
(* How a call comes by its resources and loses them: from the request of   *)
(* the application through get_args_params, the resolver, the libev loop,  *)
(* the engine, its application protocol and the task to the connection,    *)
(* and back, with a failure of every external step.  client_short_send and *)
(* client_long_conn followed by client_long_start are the same program but *)
(* where the type of the call says otherwise.                              *)
(*                                                                         *)
(* Each call is a thread of its own.  Calls share the library and the      *)
(* 0-RTT cache, which the upcalls of one connection fill and the next call *)
(* to the same server reads.  A call also keeps what a C program does not: *)
(* which objects it holds, and which it touched or freed without holding   *)
(* them.  What races with the application's calls is in LongClient and     *)
(* ShortCall, what becomes of requests in StreamIO.                        *)
(*                                                                         *)
(* Resolver, sockets, engine and allocator are external; the allocator     *)
(* always finds memory.                                                    *)
(***************************************************************************)
EXTENDS Naturals, Sequences

CONSTANTS
  Calls,        \* the calls, each on a thread of its own
  Servers,      \* authorities, the keys of the 0-RTT cache
  Asked,        \* the requests an application may make
  Lengths,      \* of the tokens and session tickets a server sends
  MaxToken,     \* XQC_MAX_TOKEN_LEN
  MaxSession,   \* MAX_SESSION_TICKET_LEN
  MaxRecvData   \* MAX_REC_DATA_LEN

\* Whether the name and the value of a header are shorter than MAX_HEADER_DATA_LEN.
Headers == [name : BOOLEAN, value : BOOLEAN]

\* SendParams, apart from the tickets.  URL, protocol name and number of headers
\* are taken to fit their arrays.
Requests == [type : {"SHORT", "LONG"}, server : Servers, alpn : {"HQ", "H3"},
             body : BOOLEAN, headers : Seq(Headers), cc : {"BBR", "CUBIC", "RENO"},
             connectTimeOut : Nat, readTimeOut : Nat, maxRecv : Nat]

ASSUME CallSetupAssumption ==
  /\ Asked \subseteq Requests
  /\ Lengths \subseteq Nat \ {0}
  /\ {MaxToken, MaxSession, MaxRecvData} \subseteq Nat

VARIABLES
  lib,      \* "none", "ready", or "failed": JNI_OnLoad
  cache,    \* XRttInfoCache: per server the last token and session ticket
  kernel,   \* which of "epoll" and "eventfd" the kernel offers
  call      \* the calls

vars == <<lib, cache, kernel, call>>

\* A ticket is known by who sent it and how long it is; no ticket has length 0.
NoTicket == [from |-> "nobody", len |-> 0]
Nothing  == [none |-> TRUE]

\* at: where the thread is.  request, token, session: what SendParams holds.
\* held: the objects allocated and not freed.  ptr: those a field points to.
\* watch: the active watchers.  cmd, wake: msg_data.cmd_type and a wakeup.
\* closing: the connection was told to close.  offer: what the engine was told
\* to connect with.  destroys: the MSG_TYPE_DESTROY upcalls.  bad: the objects
\* touched or freed while not held.
Fresh == [at |-> "idle", request |-> Nothing, token |-> NoTicket, session |-> NoTicket,
          args |-> Nothing, held |-> {}, ptr |-> {}, watch |-> {}, cmd |-> "NONE",
          wake |-> FALSE, closing |-> FALSE, offer |-> Nothing, destroys |-> 0, bad |-> {}]

Init ==
  /\ lib = "none"
  /\ cache = [s \in Servers |-> [token |-> NoTicket, session |-> NoTicket]]
  /\ kernel \in SUBSET {"epoll", "eventfd"}
  /\ call = [c \in Calls |-> Fresh]

\* r after touching some objects, allocating some and freeing some.
Account(r, uses, gets, frees) ==
  [r EXCEPT !.held = (@ \cup gets) \ frees, !.ptr = @ \cup gets,
            !.bad = @ \cup ((uses \cup frees) \ (r.held \cup gets))]
\* The objects of S that a test for NULL lets through.
Set(r, S) == S \cap r.ptr
Short(r) == r.at # "idle" /\ r.request.type = "SHORT"

\* The next step of c's thread, from one place in the code to another.
Step(c, from, to, new) ==
  /\ call[c].at \in from
  /\ call' = [call EXCEPT ![c] = [new EXCEPT !.at = to]]

-----------------------------------------------------------------------------
(* The library, the request and its parameters. *)

\* JNI_OnLoad finds both classes and registers their methods, or fails.
Load ==
  /\ lib = "none"
  /\ lib' \in {"ready", "failed"}
  /\ UNCHANGED <<cache, kernel, call>>

\* XAsyncCall.execute, XRealWebSocket.connect: the parameters are collected.
Ask(c, p) ==
  /\ lib = "ready"
  /\ Step(c, {"idle"}, "asked",
          [call[c] EXCEPT !.request = p, !.token = cache[p.server].token])
  /\ UNCHANGED <<lib, cache, kernel>>

AskSession(c) ==
  /\ Step(c, {"asked"}, "params",
          [call[c] EXCEPT !.session = cache[call[c].request.server].session])
  /\ UNCHANGED <<lib, cache, kernel>>

\* Mutant of Fits: what does not fit is cut.
Cut(ticket, max) == [ticket EXCEPT !.len = IF @ < max THEN @ ELSE max]

\* What fits is copied whole, what does not is left out.
Fits(ticket, max) == IF ticket.len < max THEN ticket ELSE NoTicket

\* Of each header the parts that fit, known by its number; the others are empty.
BuildHeaders(headers) ==
  [i \in DOMAIN headers |-> [name  |-> IF headers[i].name THEN i ELSE 0,
                             value |-> IF headers[i].value THEN i ELSE 0]]

\* A read timeout is taken over only where there is no connect timeout.
Args(r) ==
  LET p == r.request IN
  [conn_timeout |-> IF p.connectTimeOut > 0 THEN p.connectTimeOut ELSE 30,
   read_timeout |-> IF p.connectTimeOut > 0 THEN 0 ELSE p.readTimeOut,
   token   |-> Fits(r.token, MaxToken),
   session |-> Fits(r.session, MaxSession),
   recv_body_max_len |-> IF p.maxRecv > 0 THEN p.maxRecv ELSE MaxRecvData,
   headers |-> IF p.alpn = "H3" THEN BuildHeaders(p.headers) ELSE <<>>,
   cc |-> p.cc, alpn |-> p.alpn, type |-> p.type]

GetArgs(c) ==
  LET r == call[c] IN
  /\ Step(c, {"params"}, "args",
          Account([r EXCEPT !.args = Args(r), !.token = NoTicket, !.session = NoTicket], {},
                  {"ref", "args"} \cup (IF r.request.body THEN {"send_body"} ELSE {}), {}))
  /\ UNCHANGED <<lib, cache, kernel>>

-----------------------------------------------------------------------------
(* Upcalls. *)

\* callback_data_to_java, callback_msg_to_java: they need the reference.
Told(r, uses) == Account(r, {"ref", "args"} \cup uses, {}, {})

\* MSG_TYPE_DESTROY deletes the reference.
ToldDestroy(r) ==
  [Account(r, {"args"}, {}, {"ref"}) EXCEPT !.destroys = @ + 1]

-----------------------------------------------------------------------------
(* From the parameters to the loop. *)

Resolve(c) ==
  /\ Step(c, {"args"}, "resolved", Account(call[c], {"args"}, {}, {}))
  /\ UNCHANGED <<lib, cache, kernel>>

\* The failure is reported, then what get_args_params made is freed.
ResolveFails(c) ==
  LET r == call[c] IN
  /\ Step(c, {"args"}, "returned",
          Account([Told(r, {}) EXCEPT !.args = Nothing], {}, {},
                  {"args"} \cup Set(r, {"send_body"})))
  /\ UNCHANGED <<lib, cache, kernel>>

\* client_long_conn ends here, and returns to the application's thread.
MakeContext(c) ==
  LET r == call[c] IN
  /\ Step(c, {"resolved"}, "made",
          Account(r, {"args"}, {"ctx"} \cup (IF Short(r) THEN {} ELSE {"queue"}), {}))
  /\ UNCHANGED <<lib, cache, kernel>>

\* LIBEV_FLAGS may ask for a backend that is not there.
NewLoopFails(c) ==
  /\ Step(c, {"made"}, "tail", Account(call[c], {"ctx"}, {}, {}))
  /\ UNCHANGED <<lib, cache, kernel>>

\* Without epoll libev takes poll or select, which need no descriptor.
Backend == IF "epoll" \in kernel THEN {"backend_fd"} ELSE {}

NewLoop(c) ==
  /\ Step(c, {"made"}, "looped",
          Account([call[c] EXCEPT !.watch = @ \cup {"engine"}], {"ctx"}, {"loop"} \cup Backend, {}))
  /\ UNCHANGED <<lib, cache, kernel>>

EngineFails(c) ==
  /\ Step(c, {"looped"}, "tail", Account(call[c], {"ctx", "args"}, {}, {}))
  /\ UNCHANGED <<lib, cache, kernel>>

\* The protocol cannot be registered: there is an engine all the same.
AlpnFails(c) ==
  /\ Step(c, {"looped"}, "tail", Account(call[c], {"ctx", "args"}, {"engine"}, {}))
  /\ UNCHANGED <<lib, cache, kernel>>

InitEngine(c) ==
  /\ Step(c, {"looped"}, "engine", Account(call[c], {"ctx", "args"}, {"engine"}, {}))
  /\ UNCHANGED <<lib, cache, kernel>>

\* A short call tells Java its context now, and becomes active.
TellContext(c) ==
  LET r == call[c] IN
  /\ Short(r)
  /\ Step(c, {"engine"}, "told", Told(r, {"ctx"}))
  /\ UNCHANGED <<lib, cache, kernel>>

-----------------------------------------------------------------------------
(* The task. *)

TaskObjects == {"tasks", "schedule_info"}

\* The loop's pipe: an eventfd for its writing end alone, or a real pipe.
EvPipe == {"evpipe1"} \cup (IF "eventfd" \in kernel THEN {} ELSE {"evpipe0"})

\* The task, and the watcher of wakeups, with which the loop opens its pipe.
StartTasks(c) ==
  LET r == call[c] IN
  /\ Step(c, {IF Short(r) THEN "told" ELSE "engine"}, "armed",
          [Account(r, {"ctx", "args", "loop"}, TaskObjects \cup EvPipe, {})
             EXCEPT !.watch = @ \cup {"task"}, !.wake = FALSE,
                    !.cmd = IF Short(r) THEN @ ELSE "INIT_TASK"])
  /\ UNCHANGED <<lib, cache, kernel>>

\* The direct call of a short call's schedule callback finds a cancellation.
CancelledBeforeTask(c) ==
  /\ call[c].cmd = "CANCEL"
  /\ Step(c, {"armed"}, "tail", Account(call[c], {"ctx", "tasks"}, {}, {}))
  /\ UNCHANGED <<lib, cache, kernel>>

\* Mutant of CloseTask: the idle timer is left running.
CloseTaskTimer(r) ==
  LET known == "user_conn" \in r.ptr IN
  ToldDestroy(Account([r EXCEPT !.watch = IF known THEN @ \ {"socket"} ELSE @,
                                !.cmd = IF Short(r) THEN @ ELSE "NONE"],
                      {"ctx", "tasks"}, {},
                      IF known THEN {"socket", "user_conn"} ELSE {}))

\* client_close_task: what the task knows of goes, then the reference.
\* task->user_conn keeps its value.
CloseTask(r) ==
  LET known == "user_conn" \in r.ptr IN
  ToldDestroy(Account([r EXCEPT !.watch = IF known THEN @ \ {"socket", "timeout"} ELSE @,
                                !.cmd = IF Short(r) THEN @ ELSE "NONE"],
                      {"ctx", "tasks"}, {},
                      IF known THEN {"socket", "user_conn"} ELSE {}))

\* client_create_socket closes what it opened; the user_conn made for the
\* socket is forgotten, the task destroyed and the loop not run.
SocketFails(c) ==
  LET r == call[c] IN
  /\ r.cmd # "CANCEL"
  /\ Step(c, {"armed"}, "tail",
          CloseTask([r EXCEPT !.held = @ \cup {"user_conn"}]))
  /\ UNCHANGED <<lib, cache, kernel>>

\* The socket and its watchers; the task knows them.
Opened(r) ==
  Account([r EXCEPT !.watch = @ \cup {"socket", "timeout"},
                    !.cmd = IF Short(r) THEN @ ELSE "NONE"],
          {"ctx", "args", "loop", "tasks", "schedule_info"}, {"user_conn", "socket"}, {})

\* The engine cannot connect.  A long call is destroyed; a short one runs its
\* loop without a connection.
ConnectFails(c) ==
  LET r == call[c] IN
  /\ r.cmd # "CANCEL"
  /\ IF Short(r) THEN Step(c, {"armed"}, "run", Opened(r))
                 ELSE Step(c, {"armed"}, "tail", CloseTask(Opened(r)))
  /\ UNCHANGED <<lib, cache, kernel>>

Settings(a) ==
  [cc |-> a.cc, ping_on |-> a.type = "LONG",
   init_idle_time_out |-> a.conn_timeout * 1000, idle_time_out |-> a.read_timeout * 1000]

\* What the engine connects with.
Offer(a) == [settings |-> Settings(a), token |-> a.token, session |-> a.session, alpn |-> a.alpn]

\* Mutant of Connect: the field still points to the body that was freed.
ConnectDangling(c) ==
  LET r    == call[c]
      body == IF Short(r) THEN {} ELSE Set(r, {"send_body"})
  IN /\ r.cmd # "CANCEL"
     /\ Step(c, {"armed"}, "run",
             [Account(Opened(r), {"engine"}, {"conn"}, body) EXCEPT !.offer = Offer(r.args)])
     /\ UNCHANGED <<lib, cache, kernel>>

\* A long call puts the body it came with into its queue, and lets it go.
Connect(c) ==
  LET r    == call[c]
      body == IF Short(r) THEN {} ELSE Set(r, {"send_body"})
  IN /\ r.cmd # "CANCEL"
     /\ Step(c, {"armed"}, "run",
             [Account(Opened(r), {"engine"}, {"conn"}, body)
                EXCEPT !.ptr = @ \ body, !.offer = Offer(r.args)])
     /\ UNCHANGED <<lib, cache, kernel>>

-----------------------------------------------------------------------------
(* The loop runs. *)

Connected(r) == r.at = "run" /\ "conn" \in r.held
\* The engine calls back into the connection's user data.
Engine == {"conn", "engine", "user_conn", "ctx", "loop"}

\* Handshake, transport parameters, ping: told to Java, nothing else changes.
Notify(c) ==
  /\ Connected(call[c])
  /\ Step(c, {"run"}, "run", Told(call[c], Engine))
  /\ UNCHANGED <<lib, cache, kernel>>

SaveToken(c, len) ==
  LET r == call[c] IN
  /\ Connected(r)
  /\ Step(c, {"run"}, "run", Told(r, Engine))
  /\ cache' = [cache EXCEPT ![r.request.server].token = [from |-> r.request.server, len |-> len]]
  /\ UNCHANGED <<lib, kernel>>

SaveSession(c, len) ==
  LET r == call[c] IN
  /\ Connected(r)
  /\ Step(c, {"run"}, "run", Told(r, Engine))
  /\ cache' = [cache EXCEPT ![r.request.server].session = [from |-> r.request.server, len |-> len]]
  /\ UNCHANGED <<lib, kernel>>

\* The answer of a short call goes to a buffer of args; its end closes the
\* connection.
Receive(c) ==
  LET r == call[c] IN
  /\ Connected(r) /\ Short(r) /\ ~r.closing
  /\ \E final \in BOOLEAN :
       Step(c, {"run"}, "run",
            [Told(Account(r, Engine, {"recv_body"}, {}), {}) EXCEPT !.closing = final])
  /\ UNCHANGED <<lib, cache, kernel>>

\* client_idle_callback: nothing was read for conn_timeout, or something was.
IdleFires(c) ==
  LET r == call[c] IN
  /\ "timeout" \in r.watch
  /\ \/ Step(c, {"run"}, "run", Account([r EXCEPT !.watch = @ \ {"timeout"}],
                                        {"user_conn", "ctx", "args"}, {}, {}))
     \/ Step(c, {"run"}, "run",
             Told([r EXCEPT !.watch = @ \ {"timeout"}, !.closing = "conn" \in r.held],
                  {"user_conn", "ctx", "engine", "schedule_info"}))
  /\ UNCHANGED <<lib, cache, kernel>>

\* The application cancels; see LongClient for the moments this leaves out.
Cancel(c) ==
  LET r == call[c] IN
  /\ r.at \in (IF Short(r) THEN {"told", "armed", "run"} ELSE {"run"})
  /\ Step(c, {r.at}, r.at, Account([r EXCEPT !.cmd = "CANCEL", !.wake = TRUE], {"ctx"}, {}, {}))
  /\ UNCHANGED <<lib, cache, kernel>>

ServeCancel(c) ==
  LET r == call[c] IN
  /\ r.wake /\ r.cmd = "CANCEL"
  /\ Step(c, {"run"}, "run",
          Account([r EXCEPT !.wake = FALSE, !.cmd = IF Short(r) THEN @ ELSE "NONE",
                            !.closing = "conn" \in r.held],
                  {"ctx", "tasks", "user_conn", "engine"}, {}, {}))
  /\ UNCHANGED <<lib, cache, kernel>>

\* The close notification, at any time.
CloseNotify(c) ==
  LET r == call[c] IN
  /\ Connected(r)
  /\ Step(c, {"run"}, "run",
          Account([r EXCEPT !.cmd = "DESTROY", !.wake = TRUE],
                  Engine \cup {"tasks", "schedule_info"}, {}, {"conn"}))
  /\ UNCHANGED <<lib, cache, kernel>>

ServeDestroy(c) ==
  LET r == call[c] IN
  /\ r.wake /\ r.cmd = "DESTROY"
  /\ Step(c, {"run"}, "tail", CloseTask([r EXCEPT !.wake = FALSE]))
  /\ UNCHANGED <<lib, cache, kernel>>

-----------------------------------------------------------------------------
(* After fail: everything goes, the loop before the engine. *)

StopWatchers(c) ==
  LET r == call[c] IN
  /\ Step(c, {"tail"}, "stopped",
          Account([r EXCEPT !.watch = @ \ {"engine", "task"}], {"ctx"}, {}, {}))
  /\ UNCHANGED <<lib, cache, kernel>>

DestroyLoop(c) ==
  LET r == call[c] IN
  /\ Step(c, {"stopped"}, "unlooped",
          Account(r, {"ctx"}, {}, Set(r, {"loop", "backend_fd", "evpipe0", "evpipe1"})))
  /\ UNCHANGED <<lib, cache, kernel>>

\* A connection the engine still has is closed, with its notification.
DestroyEngine(c) ==
  LET r    == call[c]
      left == "conn" \in r.held
  IN /\ Step(c, {"unlooped"}, "unengined",
             Account(r, {"ctx"} \cup (IF left THEN Engine ELSE {}), {},
                     Set(r, {"engine"}) \cup (IF left THEN {"conn"} ELSE {})))
     /\ UNCHANGED <<lib, cache, kernel>>

\* Mutant of FreeContext: the receive buffer is forgotten.
FreeContextKeeping(c) ==
  LET r == call[c] IN
  /\ Step(c, {"unengined"}, "returned",
          Account([r EXCEPT !.args = Nothing, !.offer = Nothing], {}, {},
                  {"ctx", "args"} \cup (IF Short(r) THEN {} ELSE {"queue"})
                    \cup Set(r, {"send_body"} \cup TaskObjects)))
  /\ UNCHANGED <<lib, cache, kernel>>

FreeContext(c) ==
  LET r == call[c] IN
  /\ Step(c, {"unengined"}, "returned",
          Account([r EXCEPT !.args = Nothing, !.offer = Nothing], {}, {},
                  {"ctx", "args"} \cup (IF Short(r) THEN {} ELSE {"queue"})
                    \cup Set(r, {"send_body", "recv_body"} \cup TaskObjects)))
  /\ UNCHANGED <<lib, cache, kernel>>

-----------------------------------------------------------------------------
Prepare(c) ==
  \/ \E p \in Asked : Ask(c, p)
  \/ AskSession(c) \/ GetArgs(c)
  \/ Resolve(c) \/ ResolveFails(c) \/ MakeContext(c)
  \/ NewLoop(c) \/ NewLoopFails(c)
  \/ InitEngine(c) \/ EngineFails(c) \/ AlpnFails(c) \/ TellContext(c)

Task(c) ==
  \/ StartTasks(c) \/ CancelledBeforeTask(c)
  \/ SocketFails(c) \/ Connect(c) \/ ConnectFails(c)

Run(c) ==
  \/ Notify(c) \/ Receive(c) \/ IdleFires(c) \/ Cancel(c) \/ ServeCancel(c)
  \/ \E len \in Lengths : SaveToken(c, len) \/ SaveSession(c, len)
  \/ CloseNotify(c) \/ ServeDestroy(c)

Teardown(c) == StopWatchers(c) \/ DestroyLoop(c) \/ DestroyEngine(c) \/ FreeContext(c)

Next == Load \/ \E c \in Calls : Prepare(c) \/ Task(c) \/ Run(c) \/ Teardown(c)

Spec == Init /\ [][Next]_vars

-----------------------------------------------------------------------------
(* Properties. *)

\* Whatever fails, and wherever the close notification, the idle timer and the
\* cancellation come, no call touches an object it does not hold or frees one
\* twice: not the reference after MSG_TYPE_DESTROY, nor a body that went to the
\* queue, nor a user_conn of the engine's.
NoMisuse == \A c \in Calls : call[c].bad = {}

\* libev keeps pointers to watchers, and the engine to the user data of its
\* connections: a watcher is active only while the loop and the object it lives
\* in are held, that of the socket only while the descriptor is open; a
\* connection exists only while its engine, socket, user data and loop do.
Backed ==
  \A c \in Calls :
    LET r == call[c] IN
    /\ r.watch # {} => {"loop", "ctx"} \subseteq r.held
    /\ {"socket", "timeout"} \cap r.watch # {} => {"user_conn", "socket"} \subseteq r.held
    /\ "conn" \in r.held => (Engine \cup {"socket", "args"}) \subseteq r.held

\* A call that returned has released everything but two things the code loses:
\* the reference of a call that ended without MSG_TYPE_DESTROY, that is without
\* a task, and the user_conn of a socket that could not be made.
NothingLeft ==
  \A c \in Calls :
    LET r == call[c] IN
    r.at = "returned" =>
      /\ r.held \subseteq {"ref", "user_conn"}
      /\ "ref" \in r.held <=> r.destroys = 0
      /\ "user_conn" \in r.held => "user_conn" \notin r.ptr
      /\ r.watch = {}

\* A connection offers a token or a session ticket whole or not at all, and
\* only what that very server sent on some connection; its set-up has a limit,
\* the read timeout is the application's or left to the engine, and a header
\* never has the value of another one.
OffersSound ==
  \A c \in Calls :
    LET r == call[c] IN
    r.offer # Nothing =>
      /\ r.offer.token \in {NoTicket} \cup {[from |-> r.request.server, len |-> n] :
                                              n \in {l \in Lengths : l < MaxToken}}
      /\ r.offer.session \in {NoTicket} \cup {[from |-> r.request.server, len |-> n] :
                                                n \in {l \in Lengths : l < MaxSession}}
      /\ r.offer.settings.init_idle_time_out > 0
      /\ r.offer.settings.idle_time_out # 0 =>
           r.offer.settings.idle_time_out = r.request.readTimeOut * 1000
      /\ \A i \in DOMAIN r.args.headers :
           r.args.headers[i].name \in {0, i} /\ r.args.headers[i].value \in {0, i}
=============================================================================

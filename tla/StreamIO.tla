------------------------------ MODULE StreamIO ------------------------------
(***************************************************************************)
(* What becomes of the messages of a context: from the linked list through *)
(* client_long_send_requests (or client_send_requests of a short call) and *)
(* the send functions of H3 and HQ to the engine's streams, and from the   *)
(* read callbacks of these streams to the reports to Java.                 *)
(*                                                                         *)
(* A body is a number of units; what the receive buffer of the C code      *)
(* (4096 bytes) takes is one unit too.  All runs on the loop's thread but  *)
(* client_long_send, which the mutex excludes while the list is drained.   *)
(* The engine is external: it takes some of the units it is offered, none  *)
(* (EAGAIN), or refuses; it calls the write callback after it did not take *)
(* all, the read callback after something arrived, and the close callback  *)
(* at any time, the three from the loop.  What a request sends of a header *)
(* section that was freed is recorded as such (or the process crashes).    *)
(***************************************************************************)
EXTENDS MsgQueue, FiniteSets

CONSTANTS
  MaxMessages,   \* bound on the messages of the application
  Messages,      \* the kinds of message and their lengths, in units
  MaxAnswered,   \* bound on the streams the peer answers on
  MaxReply,      \* bound on the units of a response
  MaxRecv,       \* recv_body_max_len, in units
  MaxSent        \* bound on what is sent on a stream: no more resumptions

ASSUME StreamIOAssumption ==
  /\ Messages \subseteq [what : {"JSON", "BYTE"}, len : Nat]
  /\ {MaxMessages, MaxAnswered, MaxReply, MaxSent} \subseteq Nat
  /\ MaxRecv \in Nat \ {0, 1}    \* recv_body_max_len is more than the 4096 of buff

VARIABLES
  cfg,       \* args: protocol, finish_flag, connection type
  queue,     \* the message list
  msgs,      \* the messages put so far: kind and length
  held,      \* the copies of messages that were allocated and not freed
  pc,        \* "idle", or "drain": inside client_long_send_requests
  active,    \* ctx->active
  headers,   \* what reqs->headers points to: whose section, and whether it is allocated
  us,        \* the xqc_cli_user_stream_t that are allocated: us[0] is args->user_stream
  streams,   \* the engine's streams
  process    \* "up", "closing", "crashed", "freed"

vars == <<cfg, queue, msgs, held, pc, active, headers, us, streams, process>>

\* finish_flag means nothing to H3.
Configs == {c \in [alpn : {"H3", "HQ"}, finish : BOOLEAN, type : {"LONG", "SHORT"}] :
              c.alpn = "H3" => c.finish}

\* calloc: a stream object without request or bodies.  A body is that of a message.
NewStream == [body |-> 0, len |-> 0, offset |-> 0, hdr_sent |-> FALSE, request |-> 0,
              recv |-> <<>>]

\* A stream of the engine: what was sent; what arrived, of which the first
\* `read` units were read; what the read callback is owed; what Java was told.
OpenStream(u) == [user |-> u, open |-> TRUE, sent |-> <<>>, fin |-> FALSE, blocked |-> FALSE,
                  begun |-> FALSE, flags |-> {}, arrived |-> 0, read |-> 0, finIn |-> FALSE,
                  failed |-> FALSE, told |-> <<>>, final |-> 0]

\* A short call starts with its body in args->user_stream: message 1.
Init ==
  /\ cfg \in Configs
  /\ queue = EmptyQueue /\ held = {}
  /\ pc = "idle" /\ active = 1
  /\ headers = [of |-> 0, live |-> TRUE]
  /\ \E n \in {x.len : x \in Messages} :
       /\ msgs = IF cfg.type = "LONG" THEN <<>> ELSE <<[what |-> "BYTE", len |-> n]>>
       /\ us = [u \in {0} |-> IF cfg.type = "LONG" \/ n = 0 THEN NewStream
                              ELSE [NewStream EXCEPT !.body = 1, !.len = n]]
  /\ streams = <<>>
  /\ process = "up"

Running == process \in {"up", "closing"}

-----------------------------------------------------------------------------
(* Sending on a stream: the possible results of the send functions for the *)
(* object u, the engine's stream s and the header section hs.              *)

Units(m, from, n) == [i \in 1..n |-> [what |-> "body", of |-> m, unit |-> from + i]]

\* The engine is offered the rest of the body: it takes n units, or it is
\* blocked, or it refuses.
BodyResults(u, s, fin) ==
  LET rest == u.len - u.offset IN
  {[u |-> u, s |-> [s EXCEPT !.blocked = TRUE], ret |-> 0], [u |-> u, s |-> s, ret |-> -1]}
  \cup {[u |-> [u EXCEPT !.offset = @ + n, !.hdr_sent = (n = rest)],
         s |-> [s EXCEPT !.sent = @ \o Units(u.body, u.offset, n),
                         !.fin = fin /\ n = rest,
                         !.blocked = n < rest],
         ret |-> n] : n \in 1..rest}

\* The header section the request points to now.
Section(hs) == [what |-> IF hs.live THEN "headers" ELSE "freed", of |-> hs.of, unit |-> 0]

\* Mutant of HeaderResults: the headers end the stream, whatever follows.
HeaderResultsFin(u, s, hs) ==
  {[ok |-> FALSE, s |-> s],
   [ok |-> TRUE, s |-> [s EXCEPT !.sent = Append(@, Section(hs)), !.fin = TRUE]]}

HeaderResults(u, s, hs) ==
  {[ok |-> FALSE, s |-> s],
   [ok |-> TRUE, s |-> [s EXCEPT !.sent = Append(@, Section(hs)), !.fin = (u.body = 0)]]}

\* client_send_h3_content.  A resumption starts with the headers again.
h3_content(u, s, hs) ==
  IF u.hdr_sent THEN {[u |-> u, s |-> s, ret |-> 0]}
  ELSE UNION {IF h.ok /\ u.body = 0
              THEN {[u |-> [u EXCEPT !.hdr_sent = TRUE], s |-> h.s, ret |-> 1]}
              ELSE IF u.offset < u.len THEN BodyResults(u, h.s, TRUE)
              ELSE {[u |-> u, s |-> h.s, ret |-> IF h.ok THEN 1 ELSE -1]}
              : h \in HeaderResults(u, s, hs)}

\* client_send_hq_content resets a stream that is kept for the next message.
Reset(u) == IF cfg.finish THEN u ELSE [u EXCEPT !.hdr_sent = FALSE, !.offset = 0]

hq_content(u, s) ==
  IF u.hdr_sent \/ u.offset >= u.len THEN {[u |-> Reset(u), s |-> s, ret |-> 0]}
  ELSE {[r EXCEPT !.u = IF r.ret > 0 THEN Reset(@) ELSE @] : r \in BodyResults(u, s, cfg.finish)}

Content(u, s, hs) == IF cfg.alpn = "H3" THEN h3_content(u, s, hs) ELSE hq_content(u, s)

-----------------------------------------------------------------------------
(* The application's messages.                                             *)

\* malloc finds a place for the node as long as there is one.
FreeAddresses == Addresses \ DOMAIN queue.nodes
FreeAddress == CHOOSE a \in FreeAddresses : TRUE

\* client_long_send, inside the mutex: a copy of the message is put.  The
\* message given before the connection is put by client_long_handle_task.
client_long_send(message) ==
  /\ process = "up" /\ pc = "idle" /\ cfg.type = "LONG" /\ active = 1
  /\ Len(msgs) < MaxMessages /\ FreeAddresses # {}
  /\ LET m == Len(msgs) + 1 IN
     /\ msgs' = Append(msgs, message)
     /\ queue' = queue_put(queue, FreeAddress, m)
     /\ held' = held \cup {m}
  /\ UNCHANGED <<cfg, pc, active, headers, us, streams, process>>

\* The command SEND_DATA is served.
BeginRequests ==
  /\ process = "up" /\ pc = "idle" /\ ~msg_empty(queue)
  /\ pc' = "drain"
  /\ UNCHANGED <<cfg, queue, msgs, held, active, headers, us, streams, process>>

EndRequests ==
  /\ Running /\ pc = "drain" /\ msg_empty(queue)
  /\ pc' = "idle"
  /\ UNCHANGED <<cfg, queue, msgs, held, active, headers, us, streams, process>>

\* After a request failed a message is taken and forgotten with its copy.
DropMessage ==
  /\ Running /\ pc = "drain" /\ ~msg_empty(queue) /\ active < 0
  /\ queue' = queue_get(queue)
  /\ pc' = "idle"
  /\ UNCHANGED <<cfg, msgs, held, active, headers, us, streams, process>>

\* The stream object of args is kept for all messages.
Shared == ~(cfg.finish \/ cfg.alpn = "H3") \/ cfg.type = "SHORT"

\* Mutant of Target: an object for each message, although the stream is kept.
TargetNew == Len(streams) + 1
Target == IF Shared THEN 0 ELSE Len(streams) + 1

\* The object for message m, its old body freed.
Prepared(m) ==
  LET old == IF Shared THEN us[0] ELSE NewStream
  IN [old EXCEPT !.body = m, !.len = msgs[m].len]

\* Mutant of HeadersFor: the tree is deleted before the request is sent.
HeadersForDeleted(m) == IF msgs[m].what = "JSON" THEN [of |-> m, live |-> FALSE] ELSE headers

\* A JSON message has headers, which replace those the request points to.
HeadersFor(m) == IF msgs[m].what = "JSON" THEN [of |-> m, live |-> TRUE] ELSE headers

\* client_send_h3_requests and client_send_hq_requests with the object u: the
\* request is created, or it is that of the stream that is kept.
NeedsStream(u) == cfg.alpn = "H3" \/ cfg.finish \/ u.request = 0

\* The outcomes: the streams, the user stream and the returned value.
Requests(u, t, hs) ==
  IF NeedsStream(u)
  THEN {[streams |-> Append(streams, r.s), u |-> r.u, ret |-> r.ret] :
          r \in Content([u EXCEPT !.request = Len(streams) + 1], OpenStream(t), hs)}
       \cup {[streams |-> streams, u |-> [u EXCEPT !.request = 0], ret |-> -1]}
                                      \* xqc_h3_request_create returns NULL
  ELSE IF streams[u.request].open
  THEN {[streams |-> [streams EXCEPT ![u.request] = r.s], u |-> r.u, ret |-> r.ret] :
          r \in Content(u, streams[u.request], hs)}
  ELSE {[streams |-> streams, u |-> IF ret < 0 THEN u ELSE Reset(u), ret |-> ret] :
          ret \in {-1, 0}}            \* a stream that was freed

Handled(t, r) ==
  /\ streams' = r.streams
  /\ us' = [u \in DOMAIN us \cup {t} |-> IF u = t THEN r.u ELSE us[u]]
  /\ active' = IF r.ret < 0 THEN -1 ELSE active

\* One iteration of client_long_send_requests: the JSON tree of the message and
\* its copy are freed at the end.
SendNext ==
  /\ Running /\ pc = "drain" /\ ~msg_empty(queue) /\ active > 0
  /\ LET m == first_message(queue)
         hs == HeadersFor(m)
     IN /\ \E r \in Requests(Prepared(m), Target, hs) : Handled(Target, r)
        /\ headers' = IF msgs[m].what = "JSON" THEN [hs EXCEPT !.live = FALSE] ELSE hs
        /\ held' = held \ {m}
  /\ queue' = queue_get(queue)
  /\ UNCHANGED <<cfg, msgs, pc, process>>

\* client_send_requests of a short call, once: the body is in args.
SendShort ==
  /\ process = "up" /\ cfg.type = "SHORT" /\ streams = <<>> /\ active = 1
  /\ \E r \in Requests(us[0], 0, headers) : Handled(0, r)
  /\ UNCHANGED <<cfg, queue, msgs, held, pc, headers, process>>

\* Memory that was freed is read: a header section, or a stream of the engine.
ReadsFreed ==
  \/ pc = "drain" /\ active > 0 /\ ~msg_empty(queue)
     /\ LET m == first_message(queue) u == Prepared(m) IN
          \/ cfg.alpn = "H3" /\ ~HeadersFor(m).live
          \/ ~NeedsStream(u) /\ ~streams[u.request].open
  \/ pc = "idle" /\ \E e \in DOMAIN streams :
       streams[e].open /\ streams[e].blocked /\ cfg.alpn = "H3" /\ ~headers.live
Crash ==
  /\ Running /\ ReadsFreed
  /\ process' = "crashed"
  /\ UNCHANGED <<cfg, queue, msgs, held, pc, active, headers, us, streams>>

-----------------------------------------------------------------------------
(* The engine's callbacks for stream e.                                    *)

User(e) == us[streams[e].user]
Called(e) == Running /\ pc = "idle" /\ streams[e].open

\* client_h3_request_write_notify, xqc_client_stream_write_notify
WriteNotify(e) ==
  /\ Called(e) /\ streams[e].blocked /\ ~streams[e].fin
  /\ Len(streams[e].sent) < MaxSent
  /\ \E r \in Content(User(e), [streams[e] EXCEPT !.blocked = FALSE], headers) :
       /\ streams' = [streams EXCEPT ![e] = r.s]
       /\ us' = [us EXCEPT ![streams[e].user] = r.u]
  /\ UNCHANGED <<cfg, queue, msgs, held, pc, active, headers, process>>

\* The peer: header section, body, end of stream.  The engine sets EMPTY_FIN
\* when the end arrives alone, after everything else was notified.
Answered(e) == streams[e].begun \/ streams[e].arrived > 0 \/ streams[e].finIn
Peer(e) ==
  /\ Called(e) /\ streams[e].sent # <<>> /\ ~streams[e].finIn /\ ~streams[e].failed
  /\ Cardinality({f \in DOMAIN streams : Answered(f)} \cup {e}) <= MaxAnswered
  /\ LET s == streams[e] IN
     \/ /\ cfg.alpn = "H3" /\ ~s.begun
        /\ streams' = [streams EXCEPT ![e].begun = TRUE, ![e].flags = @ \cup {"HEADER"}]
     \/ /\ s.arrived < MaxReply /\ (cfg.alpn = "H3" => s.begun)
        /\ streams' = [streams EXCEPT ![e].arrived = @ + 1, ![e].flags = @ \cup {"BODY"}]
     \/ /\ cfg.alpn = "H3" => s.begun
        /\ streams' = [streams EXCEPT ![e].finIn = TRUE,
                                      ![e].flags = IF @ # {} THEN @
                                                     ELSE IF cfg.alpn = "H3" THEN {"EMPTY_FIN"}
                                                     ELSE {"BODY"}]
  /\ UNCHANGED <<cfg, queue, msgs, held, pc, active, headers, us, process>>

\* Mutant of Kept: the unit that did not fit is lost with the report.
KeptNot(buf, a, b) ==
  LET after[n \in a..b] ==
        IF n = a THEN [told |-> <<>>, buf |-> buf]
        ELSE LET r == after[n - 1] IN
             IF Len(r.buf) + 1 < MaxRecv THEN [told |-> r.told, buf |-> Append(r.buf, n)]
             ELSE [told |-> r.told \o r.buf, buf |-> <<>>]
  IN after[b]

\* What the read loop does with the units a + 1 .. b: when the next one would
\* fill the memory, what is there is reported as a part.
Kept(buf, a, b) ==
  LET after[n \in a..b] ==
        IF n = a THEN [told |-> <<>>, buf |-> buf]
        ELSE LET r == after[n - 1] IN
             IF Len(r.buf) + 1 < MaxRecv THEN [told |-> r.told, buf |-> Append(r.buf, n)]
             ELSE [told |-> r.told \o r.buf, buf |-> <<n>>]
  IN after[b]

\* The last report: the stream is finished, and the connection of a short call closed.
Finish(e, s, told) ==
  /\ streams' = [streams EXCEPT ![e] = [s EXCEPT !.told = @ \o told, !.final = @ + 1,
                                                 !.fin = TRUE, !.flags = {}]]
  /\ process' = IF cfg.type = "SHORT" THEN "closing" ELSE process

\* client_h3_request_read_notify
H3Read(e) ==
  LET s == streams[e]
      u == User(e)
      k == Kept(u.recv, s.read, s.arrived)
      onlyHeaders == "HEADER" \in s.flags /\ s.finIn /\ s.arrived = 0
  IN
  \/ onlyHeaders /\ Finish(e, s, u.recv) /\ UNCHANGED us
  \/ /\ ~onlyHeaders /\ "BODY" \notin s.flags
     /\ streams' = [streams EXCEPT ![e].flags = {}]
     /\ UNCHANGED <<us, process>>
  \/ /\ "BODY" \in s.flags
     /\ us' = [us EXCEPT ![s.user].recv = k.buf]
     /\ LET read == [s EXCEPT !.read = s.arrived, !.told = @ \o k.told, !.flags = {}] IN
        IF s.finIn THEN Finish(e, read, k.buf)
        ELSE streams' = [streams EXCEPT ![e] = read] /\ UNCHANGED process

\* xqc_client_stream_read_notify: what was read is reported each time.
HQRead(e) ==
  LET s == streams[e]
      k == Kept([i \in DOMAIN User(e).recv |-> 0], s.read, s.arrived)
      read == [s EXCEPT !.read = s.arrived, !.told = @ \o k.told, !.flags = {}]
  IN
  /\ us' = [us EXCEPT ![s.user].recv = <<>>]
  /\ IF s.finIn THEN Finish(e, read, k.buf)
     ELSE /\ streams' = [streams EXCEPT ![e] = [read EXCEPT !.told = @ \o k.buf]]
          /\ UNCHANGED process

\* The engine fails after n of the units: the callback returns, nothing is told
\* of what it kept.
ReadFails(e) ==
  /\ cfg.alpn = "H3" => "BODY" \in streams[e].flags
  /\ \E n \in streams[e].read..streams[e].arrived :
       LET k == Kept(User(e).recv, streams[e].read, n) IN
       /\ us' = [us EXCEPT ![streams[e].user].recv = k.buf]
       /\ streams' = [streams EXCEPT ![e].read = n, ![e].told = @ \o k.told,
                                     ![e].flags = {}, ![e].failed = TRUE]
  /\ UNCHANGED process

ReadNotify(e) ==
  /\ Called(e) /\ streams[e].flags # {} /\ streams[e].final = 0
  /\ \/ cfg.alpn = "H3" /\ H3Read(e)
     \/ cfg.alpn = "HQ" /\ HQRead(e)
     \/ ReadFails(e)
  /\ UNCHANGED <<cfg, queue, msgs, held, pc, active, headers>>

\* The object of a long connection goes with its stream; the one in args stays.
client_on_stream_fin(u) ==
  IF cfg.type = "LONG" THEN [v \in DOMAIN us \ {u} |-> us[v]] ELSE us

\* An HQ stream that is reused keeps its object, without its bodies.
stream_fin_hq(u) ==
  IF cfg.type = "LONG" /\ ~cfg.finish THEN [us EXCEPT ![u].body = 0]
  ELSE client_on_stream_fin(u)

CloseNotify(e) ==
  /\ Called(e)
  /\ streams' = [streams EXCEPT ![e].open = FALSE, ![e].blocked = FALSE, ![e].flags = {}]
  /\ us' = IF cfg.alpn = "H3" THEN client_on_stream_fin(streams[e].user)
                              ELSE stream_fin_hq(streams[e].user)
  /\ UNCHANGED <<cfg, queue, msgs, held, pc, active, headers, process>>

\* The engine is destroyed after its streams; then the list and the context.
free_ctx ==
  /\ Running /\ pc = "idle" /\ \A e \in DOMAIN streams : ~streams[e].open
  /\ process' = "freed"
  /\ queue' = queue_destroy(queue)
  /\ held' = held \ {m \in held : \E a \in DOMAIN queue.nodes : queue.nodes[a].msg = m}
  /\ us' = [u \in DOMAIN us \ {0} |-> us[u]]
  /\ UNCHANGED <<cfg, msgs, pc, active, headers, streams>>

Next ==
  \/ \E message \in Messages : client_long_send(message)
  \/ BeginRequests \/ EndRequests \/ DropMessage \/ SendNext \/ SendShort \/ Crash
  \/ \E e \in DOMAIN streams :
       WriteNotify(e) \/ Peer(e) \/ ReadNotify(e) \/ CloseNotify(e)
  \/ free_ctx

Spec == Init /\ [][Next]_vars
==============================================================================

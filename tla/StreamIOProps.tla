---------------------------- MODULE StreamIOProps ----------------------------
(* The properties of the stream callbacks. *)
EXTENDS StreamIO

\* The list of xquic_msg_queue.h is a list: each node once, the two ends and the
\* count right.  It holds the last messages of the application in the order in
\* which client_long_send put them (:76, :154), so none overtakes another.
QueueInOrder ==
  LET s == Walk(queue) IN
  /\ IsList(queue, s)
  /\ process # "freed" /\ cfg.type = "LONG" =>
       Contents(queue, s) = [i \in 1..Len(s) |-> Len(msgs) - Len(s) + i]

\* Of what was sent, the units of bodies.
Bodies(sent) ==
  LET upTo[i \in 0..Len(sent)] ==
        IF i = 0 THEN <<>>
        ELSE IF sent[i].what = "body" THEN Append(upTo[i - 1], sent[i]) ELSE upTo[i - 1]
  IN upTo[Len(sent)]
Body(e) == Bodies(streams[e].sent)
Reused == cfg.alpn = "HQ" /\ ~cfg.finish

\* A stream carries the body of its message in order, each unit once, as far as
\* send_offset says, and is ended only with the last unit, or after the whole
\* response (xquic_h3_ctrl.c:33-50, xquic_h3_callbacks.c:244).  On the HQ stream
\* that is kept, a unit is followed by the next one or by the first of the same
\* or a later message: a message the engine took only a part of may be cut or sent
\* anew (xquic_hq_ctrl.c:38-41), but no rest is sent after another has begun.
SentInOrder ==
  /\ ~Reused =>
       \A e \in DOMAIN streams :
         /\ \A i \in DOMAIN Body(e) : Body(e)[i].of = Body(e)[1].of /\ Body(e)[i].unit = i
         /\ streams[e].open /\ process # "freed" => us[streams[e].user].offset = Len(Body(e))
         /\ streams[e].fin /\ streams[e].final = 0 =>
              \/ Body(e) # <<>> /\ Len(Body(e)) = msgs[Body(e)[1].of].len
              \/ cfg.type = "SHORT" /\ msgs[1].len = 0
  /\ Reused =>
       \A e \in DOMAIN streams : \A i \in 2..Len(Body(e)) :
         LET x == Body(e)[i] y == Body(e)[i - 1] IN
         \/ x.of = y.of /\ x.unit = y.unit + 1
         \/ x.of >= y.of /\ x.unit = 1

\* What is reported of a response is its beginning, in order, no unit twice and
\* none left out where a part was full; the final report comes once, after the
\* peer's end, with all of it (xquic_h3_callbacks.c:187-241, hq :100-152).
ReceivedInOrder ==
  \A e \in DOMAIN streams : LET s == streams[e] IN
    /\ \A i \in DOMAIN s.told : s.told[i] = i
    /\ Len(s.told) <= s.read
    /\ s.final <= 1
    /\ s.final = 1 => s.finIn /\ Len(s.told) = s.arrived
    /\ s.open /\ ~s.failed /\ s.final = 0 /\ process # "freed" =>
         s.told \o us[s.user].recv = [i \in 1..s.read |-> i]

\* A callback finds its xqc_cli_user_stream_t; what outlives its stream is only
\* the object of a request that could not be created, which is leaked, and that
\* of args (LC:588, H3:102, HQ:191).  The copy of a message is in the list, or
\* it was sent and freed; a copy is lost only after active became -1 (LC:580).
Accounted ==
  /\ process # "freed" => 0 \in DOMAIN us
  /\ \A e \in DOMAIN streams :
       streams[e].open => /\ streams[e].user \in DOMAIN us
                          /\ us[streams[e].user].request = e
  /\ \A u \in DOMAIN us \ {0} :
       \/ u \in DOMAIN streams /\ streams[u].open /\ streams[u].user = u
       \/ us[u].request = 0 /\ active < 0
  /\ LET queued == {queue.nodes[a].msg : a \in DOMAIN queue.nodes} IN
     queued \subseteq held /\ (held # queued => active < 0)
  /\ QueueInOrder

\* A request's headers are those of its message, or of no message.  Freed ones
\* are read only when a request is resumed after cJSON_Delete (LC:692), or for a
\* BYTE message after a JSON one, whose count and headers stay in the request
\* (H3C:79-81).
New(e, i) == e \notin DOMAIN streams \/ i > Len(streams[e].sent)
HeadersWindow ==
  [][\A e \in DOMAIN streams' : \A i \in DOMAIN streams'[e].sent :
       LET x == streams'[e].sent[i] IN
       New(e, i) /\ x.what # "body" =>
         IF x.what = "headers" THEN x.of \in {0, e}
         ELSE \/ e \in DOMAIN streams
              \/ msgs[e].what = "BYTE" /\ msgs[x.of].what = "JSON" /\ x.of < e]_vars
==============================================================================

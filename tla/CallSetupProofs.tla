--------------------------- MODULE CallSetupProofs ---------------------------
(***************************************************************************)
(* Proofs about the set-up and the release of a call, for any number of    *)
(* calls and servers, any requests, tickets and limits.                    *)
(***************************************************************************)
EXTENDS CallSetup, TLAPS

Objects == {"ref", "args", "send_body", "recv_body", "ctx", "queue", "loop", "backend_fd",
            "evpipe0", "evpipe1", "engine", "tasks", "schedule_info", "user_conn", "socket",
            "conn"}
Watchers == {"engine", "task", "socket", "timeout"}
Places == {"idle", "asked", "params", "args", "resolved", "made", "looped", "engine", "told",
           "armed", "run", "tail", "stopped", "unlooped", "unengined", "returned"}

\* The tickets a server may have sent, and those of less than a limit.
TicketsOf(s) == {NoTicket} \cup {[from |-> s, len |-> n] : n \in Lengths}
Fitting(s, max) == {NoTicket} \cup {[from |-> s, len |-> n] : n \in {l \in Lengths : l < max}}

-----------------------------------------------------------------------------
(* The inductive invariant, about one call: its record r. *)

\* Where the thread is after what, and before what.
Early    == {"idle", "asked", "params"}
HasCtx   == {"made", "looped", "engine", "told", "armed", "run", "tail", "stopped",
             "unlooped", "unengined"}
Unlooped == {"unlooped", "unengined", "returned"}
Late     == {"tail", "stopped"} \cup Unlooped

LoopObjects == {"loop", "backend_fd", "evpipe0", "evpipe1"}

Fields == {"at", "request", "token", "session", "args", "held", "ptr", "watch", "cmd",
           "wake", "closing", "offer", "destroys", "bad"}

IsRecord(r) == r = [f \in Fields |-> r[f]]

\* The record has its fields, and sets of the right things.
Shaped(r) ==
  /\ IsRecord(r)
  /\ r.at \in Places
  /\ r.at # "idle" => r.request \in Asked
  /\ r.ptr \subseteq Objects /\ r.held \subseteq r.ptr \cup {"user_conn"}
  /\ r.watch \subseteq Watchers
  /\ r.destroys \in {0, 1}

\* What a call has at each place ...
Has(r) ==
  /\ r.at \notin Early \cup {"returned"} => "args" \in r.held
  /\ r.at \in HasCtx => "ctx" \in r.held /\ (r.request.type = "LONG" => "queue" \in r.held)
  /\ r.at \in {"looped", "engine", "told", "armed", "run"} => "loop" \in r.held
  /\ r.at \in {"engine", "told", "armed", "run"} => "engine" \in r.held
  /\ r.at \in {"armed", "run"} => {"tasks", "schedule_info"} \subseteq r.held
  /\ r.at = "run" => {"user_conn", "socket"} \subseteq r.held /\ "user_conn" \in r.ptr
  /\ "ref" \in r.held <=> r.at \notin Early /\ r.destroys = 0
  /\ r.destroys = 1 => r.at \in Late

\* ... what it no longer has, or not yet ...
HasNot(r) ==
  /\ r.at \in Early => r.ptr = {} /\ r.held = {}
  /\ r.at \in {"args", "resolved"} => r.ptr \subseteq {"ref", "args", "send_body"}
  /\ r.at \notin {"run"} \cup Late => "user_conn" \notin r.ptr \cup r.held
  /\ "queue" \in r.ptr => r.at # "idle" /\ r.request.type = "LONG"
  /\ r.at # "run" => r.held \cap {"socket", "conn"} = {}
  /\ "user_conn" \in r.held \cap r.ptr => r.at = "run"
  /\ r.at \in Unlooped => r.held \cap LoopObjects = {}
  /\ r.at \in {"unengined", "returned"} => "engine" \notin r.held
  /\ r.at = "returned" => r.held \subseteq {"ref", "user_conn"}
  /\ r.cmd = "DESTROY" => r.at \in {"run"} \cup Late /\ "conn" \notin r.held

\* ... and that a field tested for NULL points to something, as long as it is
\* going to be freed.
Points(r) ==
  \A x \in r.ptr \ r.held :
    /\ x \in LoopObjects => r.at \in Unlooped
    /\ x = "engine" => r.at \in {"unengined", "returned"}
    /\ x \in {"tasks", "schedule_info", "send_body", "recv_body"} => r.at = "returned"

Watching(r) ==
  /\ r.watch # {} => {"loop", "ctx"} \subseteq r.held
  /\ r.at # "run" => r.watch \subseteq {"engine", "task"}
  /\ r.at \in {"stopped"} \cup Unlooped => r.watch = {}

ResInv(r) == Shaped(r) /\ Has(r) /\ HasNot(r) /\ Points(r) /\ Watching(r) /\ r.bad = {}

-----------------------------------------------------------------------------
(* Records. *)

\* a and b agree on the fields that Account leaves alone.
Rest(a, b) ==
  /\ a.request = b.request /\ a.token = b.token /\ a.session = b.session /\ a.args = b.args
  /\ a.watch = b.watch /\ a.cmd = b.cmd /\ a.wake = b.wake /\ a.closing = b.closing
  /\ a.offer = b.offer /\ a.destroys = b.destroys

\* a and b agree on the request and on what comes of it.
Same(a, b) ==
  /\ a.request = b.request /\ a.token = b.token /\ a.session = b.session
  /\ a.args = b.args /\ a.offer = b.offer

\* What Account leaves of a record's fields.
LEMMA AccountFields ==
  ASSUME NEW r, IsRecord(r), NEW U, NEW G, NEW F
  PROVE  LET a == Account(r, U, G, F) IN
         /\ IsRecord(a)
         /\ a.held = (r.held \cup G) \ F
         /\ a.ptr = r.ptr \cup G
         /\ r.bad = {} /\ U \cup F \subseteq r.held \cup G => a.bad = {}
         /\ a.at = r.at /\ Rest(a, r)
  BY DEF Account, Fields, IsRecord, Rest

\* A step that touches, allocates and frees, and leaves the thread elsewhere.
Moved(b, U, G, F, to) == [Account(b, U, G, F) EXCEPT !.at = to]

\* What a step that touches, allocates and frees leaves of them.
LEMMA MovedFields ==
  ASSUME NEW b, IsRecord(b), NEW U, NEW G, NEW F, NEW to
  PROVE  LET n == Moved(b, U, G, F, to) IN
         /\ IsRecord(n)
         /\ n.at = to
         /\ n.held = (b.held \cup G) \ F
         /\ n.ptr = b.ptr \cup G
         /\ b.bad = {} /\ U \cup F \subseteq b.held \cup G => n.bad = {}
         /\ Rest(n, b)
  <1> DEFINE a == Account(b, U, G, F)
  <1>1. /\ IsRecord(a) /\ Rest(a, b) /\ a.held = (b.held \cup G) \ F /\ a.ptr = b.ptr \cup G
        /\ b.bad = {} /\ U \cup F \subseteq b.held \cup G => a.bad = {}
    BY AccountFields
  <1> HIDE DEF a
  <1>2. LET n == [a EXCEPT !.at = to] IN
        /\ IsRecord(n) /\ n.at = to /\ n.held = a.held /\ n.ptr = a.ptr /\ n.bad = a.bad
        /\ Rest(n, a)
    BY <1>1 DEF IsRecord, Fields, Rest
  <1> QED
    BY <1>1, <1>2 DEF Moved, Rest, a

USE DEF Early, HasCtx, Unlooped, Late, LoopObjects

-----------------------------------------------------------------------------
(* From the parameters to the loop: what each step needs, it has. *)

\* Whoever asked, asked for one of the two types of calls.
LEMMA ShortOrLong ==
  ASSUME NEW r, ResInv(r), r.at # "idle"
  PROVE  r.request.type \in {"SHORT", "LONG"}
  BY CallSetupAssumption DEF ResInv, Shaped, Requests

\* get_args_params allocates the reference, args and the copy of the body.
LEMMA GetArgsKeeps ==
  ASSUME NEW r, ResInv(r), r.at = "params"
  PROVE  LET n == Moved([r EXCEPT !.args = Args(r), !.token = NoTicket, !.session = NoTicket],
                         {}, ({"ref", "args"} \cup (IF r.request.body THEN {"send_body"} ELSE {})),
                         {}, "args")
         IN ResInv(n) /\ n.at = "args" /\ n.token = NoTicket /\ n.session = NoTicket
            /\ n.args = Args(r) /\ n.offer = r.offer /\ n.request = r.request
  <1> DEFINE b == [r EXCEPT !.args = Args(r), !.token = NoTicket, !.session = NoTicket]
             uses == {}
             gets == ({"ref", "args"} \cup (IF r.request.body THEN {"send_body"} ELSE {}))
             frees == {}
             n == Moved(b, uses, gets, frees, "args")
  <1>1. IsRecord(r) /\ r.bad = {}
    BY DEF ResInv, Shaped
  <1>2. /\ IsRecord(b)
        /\ b.held = r.held /\ b.ptr = r.ptr /\ b.bad = r.bad /\ b.request = r.request
        /\ b.watch = r.watch /\ b.cmd = r.cmd /\ b.destroys = r.destroys
        /\ b.token = NoTicket /\ b.session = NoTicket /\ b.args = Args(r)
        /\ b.offer = r.offer
    BY <1>1 DEF IsRecord, Fields, Same
  <1>3. uses \cup frees \subseteq r.held \cup gets
    BY DEF ResInv, Has, Shaped
  <1> HIDE DEF uses, gets, frees, b
  <1>4. /\ IsRecord(n) /\ n.at = "args" /\ n.bad = {}
        /\ n.held = (r.held \cup gets) \ frees /\ n.ptr = r.ptr \cup gets
        /\ n.request = r.request /\ n.watch = r.watch /\ n.cmd = r.cmd
        /\ n.destroys = r.destroys
        /\ n.token = NoTicket /\ n.session = NoTicket /\ n.args = Args(r)
        /\ n.offer = r.offer
    BY <1>1, <1>2, <1>3, MovedFields DEF Rest, Same
  <1> HIDE DEF n
  <1> USE DEF uses, gets, frees
  <1>5. Shaped(n)
    BY <1>4 DEF ResInv, Shaped, Objects, Watchers, Places
  <1>6. Has(n)
    BY <1>4 DEF ResInv, Has, Shaped
  <1>7. HasNot(n)
    BY <1>4 DEF ResInv, HasNot, Shaped
  <1>8. Points(n)
    BY <1>4 DEF ResInv, Points
  <1>9. Watching(n)
    BY <1>4 DEF ResInv, Watching, Has, Shaped
  <1> QED
    BY <1>4, <1>5, <1>6, <1>7, <1>8, <1>9 DEF ResInv, n, b

\* The resolver writes its address into args.
LEMMA ResolveKeeps ==
  ASSUME NEW r, ResInv(r), r.at = "args"
  PROVE  LET n == Moved(r, {"args"}, {}, {}, "resolved")
         IN ResInv(n) /\ n.at = "resolved" /\ Same(n, r)
  <1> DEFINE uses == {"args"}
             gets == {}
             frees == {}
             n == Moved(r, uses, gets, frees, "resolved")
  <1>1. IsRecord(r) /\ r.bad = {}
    BY DEF ResInv, Shaped
  <1>3. uses \cup frees \subseteq r.held \cup gets
    BY DEF ResInv, Has, Shaped
  <1> HIDE DEF uses, gets, frees
  <1>4. /\ IsRecord(n) /\ n.at = "resolved" /\ n.bad = {}
        /\ n.held = (r.held \cup gets) \ frees /\ n.ptr = r.ptr \cup gets
        /\ n.request = r.request /\ n.watch = r.watch /\ n.cmd = r.cmd
        /\ n.destroys = r.destroys
        /\ Same(n, r)
    BY <1>1, <1>3, MovedFields DEF Rest, Same
  <1> HIDE DEF n
  <1> USE DEF uses, gets, frees
  <1>5. Shaped(n)
    BY <1>4 DEF ResInv, Shaped, Objects, Watchers, Places
  <1>6. Has(n)
    BY <1>4 DEF ResInv, Has, Shaped
  <1>7. HasNot(n)
    BY <1>4 DEF ResInv, HasNot, Shaped
  <1>8. Points(n)
    BY <1>4 DEF ResInv, Points
  <1>9. Watching(n)
    BY <1>4 DEF ResInv, Watching, Has, Shaped
  <1> QED
    BY <1>4, <1>5, <1>6, <1>7, <1>8, <1>9 DEF ResInv, n

\* The context is allocated; that of a long call has a queue.
LEMMA MakeContextKeeps ==
  ASSUME NEW r, ResInv(r), r.at = "resolved"
  PROVE  LET n == Moved(r, {"args"}, ({"ctx"} \cup (IF Short(r) THEN {} ELSE {"queue"})), {},
                         "made")
         IN ResInv(n) /\ n.at = "made" /\ Same(n, r)
  <1> DEFINE uses == {"args"}
             gets == ({"ctx"} \cup (IF Short(r) THEN {} ELSE {"queue"}))
             frees == {}
             n == Moved(r, uses, gets, frees, "made")
  <1>1. IsRecord(r) /\ r.bad = {}
    BY DEF ResInv, Shaped
  <1>3. uses \cup frees \subseteq r.held \cup gets
    BY ShortOrLong DEF ResInv, Has, Shaped
  <1> HIDE DEF uses, gets, frees
  <1>4. /\ IsRecord(n) /\ n.at = "made" /\ n.bad = {}
        /\ n.held = (r.held \cup gets) \ frees /\ n.ptr = r.ptr \cup gets
        /\ n.request = r.request /\ n.watch = r.watch /\ n.cmd = r.cmd
        /\ n.destroys = r.destroys
        /\ Same(n, r)
    BY <1>1, <1>3, MovedFields DEF Rest, Same
  <1> HIDE DEF n
  <1> USE DEF uses, gets, frees
  <1>5. Shaped(n)
    BY <1>4, ShortOrLong DEF ResInv, Shaped, Objects, Watchers, Places, Short
  <1>6. Has(n)
    BY <1>4, ShortOrLong DEF ResInv, Has, Shaped, Short
  <1>7. HasNot(n)
    BY <1>4, ShortOrLong DEF ResInv, HasNot, Shaped, Short
  <1>8. Points(n)
    BY <1>4, ShortOrLong DEF ResInv, Points, Short
  <1>9. Watching(n)
    BY <1>4, ShortOrLong DEF ResInv, Watching, Has, Shaped, Short
  <1> QED
    BY <1>4, <1>5, <1>6, <1>7, <1>8, <1>9 DEF ResInv, n

\* ev_loop_new may fail: the loop is not there, and its field is NULL.
LEMMA NewLoopFailsKeeps ==
  ASSUME NEW r, ResInv(r), r.at = "made"
  PROVE  LET n == Moved(r, {"ctx"}, {}, {}, "tail")
         IN ResInv(n) /\ n.at = "tail" /\ Same(n, r)
  <1> DEFINE uses == {"ctx"}
             gets == {}
             frees == {}
             n == Moved(r, uses, gets, frees, "tail")
  <1>1. IsRecord(r) /\ r.bad = {}
    BY DEF ResInv, Shaped
  <1>3. uses \cup frees \subseteq r.held \cup gets
    BY DEF ResInv, Has, Shaped
  <1> HIDE DEF uses, gets, frees
  <1>4. /\ IsRecord(n) /\ n.at = "tail" /\ n.bad = {}
        /\ n.held = (r.held \cup gets) \ frees /\ n.ptr = r.ptr \cup gets
        /\ n.request = r.request /\ n.watch = r.watch /\ n.cmd = r.cmd
        /\ n.destroys = r.destroys
        /\ Same(n, r)
    BY <1>1, <1>3, MovedFields DEF Rest, Same
  <1> HIDE DEF n
  <1> USE DEF uses, gets, frees
  <1>5. Shaped(n)
    BY <1>4 DEF ResInv, Shaped, Objects, Watchers, Places
  <1>6. Has(n)
    BY <1>4 DEF ResInv, Has, Shaped
  <1>7. HasNot(n)
    BY <1>4 DEF ResInv, HasNot, Shaped
  <1>8. Points(n)
    BY <1>4 DEF ResInv, Points
  <1>9. Watching(n)
    BY <1>4 DEF ResInv, Watching, Has, Shaped
  <1> QED
    BY <1>4, <1>5, <1>6, <1>7, <1>8, <1>9 DEF ResInv, n

\* The loop is there with what its backend needs, and the engine's timer watched.
LEMMA NewLoopKeeps ==
  ASSUME NEW r, ResInv(r), r.at = "made"
  PROVE  LET n == Moved([r EXCEPT !.watch = @ \cup {"engine"}], {"ctx"}, ({"loop"} \cup Backend),
                         {}, "looped")
         IN ResInv(n) /\ n.at = "looped" /\ Same(n, r)
  <1> DEFINE b == [r EXCEPT !.watch = @ \cup {"engine"}]
             uses == {"ctx"}
             gets == ({"loop"} \cup Backend)
             frees == {}
             n == Moved(b, uses, gets, frees, "looped")
  <1>1. IsRecord(r) /\ r.bad = {}
    BY DEF ResInv, Shaped
  <1>2. /\ IsRecord(b)
        /\ b.held = r.held /\ b.ptr = r.ptr /\ b.bad = r.bad /\ b.request = r.request
        /\ b.cmd = r.cmd /\ b.destroys = r.destroys
        /\ b.watch = r.watch \cup {"engine"}
        /\ Same(b, r)
    BY <1>1 DEF IsRecord, Fields, Same
  <1>3. uses \cup frees \subseteq r.held \cup gets
    BY DEF ResInv, Has, Shaped
  <1> HIDE DEF uses, gets, frees, b
  <1>4. /\ IsRecord(n) /\ n.at = "looped" /\ n.bad = {}
        /\ n.held = (r.held \cup gets) \ frees /\ n.ptr = r.ptr \cup gets
        /\ n.request = r.request /\ n.cmd = r.cmd /\ n.destroys = r.destroys
        /\ n.watch = r.watch \cup {"engine"}
        /\ Same(n, r)
    BY <1>1, <1>2, <1>3, MovedFields DEF Rest, Same
  <1> HIDE DEF n
  <1> USE DEF uses, gets, frees
  <1>5. Shaped(n)
    BY <1>4 DEF ResInv, Shaped, Objects, Watchers, Places, Backend
  <1>6. Has(n)
    BY <1>4 DEF ResInv, Has, Shaped, Backend
  <1>7. HasNot(n)
    BY <1>4 DEF ResInv, HasNot, Shaped, Backend
  <1>8. Points(n)
    BY <1>4 DEF ResInv, Points, Backend
  <1>9. Watching(n)
    BY <1>4 DEF ResInv, Watching, Has, Shaped, Backend
  <1> QED
    BY <1>4, <1>5, <1>6, <1>7, <1>8, <1>9 DEF ResInv, n, b

\* The engine may not be created; the loop is there.
LEMMA EngineFailsKeeps ==
  ASSUME NEW r, ResInv(r), r.at = "looped"
  PROVE  LET n == Moved(r, {"ctx", "args"}, {}, {}, "tail")
         IN ResInv(n) /\ n.at = "tail" /\ Same(n, r)
  <1> DEFINE uses == {"ctx", "args"}
             gets == {}
             frees == {}
             n == Moved(r, uses, gets, frees, "tail")
  <1>1. IsRecord(r) /\ r.bad = {}
    BY DEF ResInv, Shaped
  <1>3. uses \cup frees \subseteq r.held \cup gets
    BY DEF ResInv, Has, Shaped
  <1> HIDE DEF uses, gets, frees
  <1>4. /\ IsRecord(n) /\ n.at = "tail" /\ n.bad = {}
        /\ n.held = (r.held \cup gets) \ frees /\ n.ptr = r.ptr \cup gets
        /\ n.request = r.request /\ n.watch = r.watch /\ n.cmd = r.cmd
        /\ n.destroys = r.destroys
        /\ Same(n, r)
    BY <1>1, <1>3, MovedFields DEF Rest, Same
  <1> HIDE DEF n
  <1> USE DEF uses, gets, frees
  <1>5. Shaped(n)
    BY <1>4 DEF ResInv, Shaped, Objects, Watchers, Places
  <1>6. Has(n)
    BY <1>4 DEF ResInv, Has, Shaped
  <1>7. HasNot(n)
    BY <1>4 DEF ResInv, HasNot, Shaped
  <1>8. Points(n)
    BY <1>4 DEF ResInv, Points
  <1>9. Watching(n)
    BY <1>4 DEF ResInv, Watching, Has, Shaped
  <1> QED
    BY <1>4, <1>5, <1>6, <1>7, <1>8, <1>9 DEF ResInv, n

\* The protocol may not be registered; the engine is there.
LEMMA AlpnFailsKeeps ==
  ASSUME NEW r, ResInv(r), r.at = "looped"
  PROVE  LET n == Moved(r, {"ctx", "args"}, {"engine"}, {}, "tail")
         IN ResInv(n) /\ n.at = "tail" /\ Same(n, r)
  <1> DEFINE uses == {"ctx", "args"}
             gets == {"engine"}
             frees == {}
             n == Moved(r, uses, gets, frees, "tail")
  <1>1. IsRecord(r) /\ r.bad = {}
    BY DEF ResInv, Shaped
  <1>3. uses \cup frees \subseteq r.held \cup gets
    BY DEF ResInv, Has, Shaped
  <1> HIDE DEF uses, gets, frees
  <1>4. /\ IsRecord(n) /\ n.at = "tail" /\ n.bad = {}
        /\ n.held = (r.held \cup gets) \ frees /\ n.ptr = r.ptr \cup gets
        /\ n.request = r.request /\ n.watch = r.watch /\ n.cmd = r.cmd
        /\ n.destroys = r.destroys
        /\ Same(n, r)
    BY <1>1, <1>3, MovedFields DEF Rest, Same
  <1> HIDE DEF n
  <1> USE DEF uses, gets, frees
  <1>5. Shaped(n)
    BY <1>4 DEF ResInv, Shaped, Objects, Watchers, Places
  <1>6. Has(n)
    BY <1>4 DEF ResInv, Has, Shaped
  <1>7. HasNot(n)
    BY <1>4 DEF ResInv, HasNot, Shaped
  <1>8. Points(n)
    BY <1>4 DEF ResInv, Points
  <1>9. Watching(n)
    BY <1>4 DEF ResInv, Watching, Has, Shaped
  <1> QED
    BY <1>4, <1>5, <1>6, <1>7, <1>8, <1>9 DEF ResInv, n

\* The engine is there.
LEMMA InitEngineKeeps ==
  ASSUME NEW r, ResInv(r), r.at = "looped"
  PROVE  LET n == Moved(r, {"ctx", "args"}, {"engine"}, {}, "engine")
         IN ResInv(n) /\ n.at = "engine" /\ Same(n, r)
  <1> DEFINE uses == {"ctx", "args"}
             gets == {"engine"}
             frees == {}
             n == Moved(r, uses, gets, frees, "engine")
  <1>1. IsRecord(r) /\ r.bad = {}
    BY DEF ResInv, Shaped
  <1>3. uses \cup frees \subseteq r.held \cup gets
    BY DEF ResInv, Has, Shaped
  <1> HIDE DEF uses, gets, frees
  <1>4. /\ IsRecord(n) /\ n.at = "engine" /\ n.bad = {}
        /\ n.held = (r.held \cup gets) \ frees /\ n.ptr = r.ptr \cup gets
        /\ n.request = r.request /\ n.watch = r.watch /\ n.cmd = r.cmd
        /\ n.destroys = r.destroys
        /\ Same(n, r)
    BY <1>1, <1>3, MovedFields DEF Rest, Same
  <1> HIDE DEF n
  <1> USE DEF uses, gets, frees
  <1>5. Shaped(n)
    BY <1>4 DEF ResInv, Shaped, Objects, Watchers, Places
  <1>6. Has(n)
    BY <1>4 DEF ResInv, Has, Shaped
  <1>7. HasNot(n)
    BY <1>4 DEF ResInv, HasNot, Shaped
  <1>8. Points(n)
    BY <1>4 DEF ResInv, Points
  <1>9. Watching(n)
    BY <1>4 DEF ResInv, Watching, Has, Shaped
  <1> QED
    BY <1>4, <1>5, <1>6, <1>7, <1>8, <1>9 DEF ResInv, n

\* The context is told to Java while the reference is held.
LEMMA TellContextKeeps ==
  ASSUME NEW r, ResInv(r), r.at = "engine"
  PROVE  LET n == Moved(r, ({"ref", "args"} \cup {"ctx"}), {}, {}, "told")
         IN ResInv(n) /\ n.at = "told" /\ Same(n, r)
  <1> DEFINE uses == ({"ref", "args"} \cup {"ctx"})
             gets == {}
             frees == {}
             n == Moved(r, uses, gets, frees, "told")
  <1>1. IsRecord(r) /\ r.bad = {}
    BY DEF ResInv, Shaped
  <1>3. uses \cup frees \subseteq r.held \cup gets
    BY DEF ResInv, Has, Shaped
  <1> HIDE DEF uses, gets, frees
  <1>4. /\ IsRecord(n) /\ n.at = "told" /\ n.bad = {}
        /\ n.held = (r.held \cup gets) \ frees /\ n.ptr = r.ptr \cup gets
        /\ n.request = r.request /\ n.watch = r.watch /\ n.cmd = r.cmd
        /\ n.destroys = r.destroys
        /\ Same(n, r)
    BY <1>1, <1>3, MovedFields DEF Rest, Same
  <1> HIDE DEF n
  <1> USE DEF uses, gets, frees
  <1>5. Shaped(n)
    BY <1>4 DEF ResInv, Shaped, Objects, Watchers, Places
  <1>6. Has(n)
    BY <1>4 DEF ResInv, Has, Shaped
  <1>7. HasNot(n)
    BY <1>4 DEF ResInv, HasNot, Shaped
  <1>8. Points(n)
    BY <1>4 DEF ResInv, Points
  <1>9. Watching(n)
    BY <1>4 DEF ResInv, Watching, Has, Shaped
  <1> QED
    BY <1>4, <1>5, <1>6, <1>7, <1>8, <1>9 DEF ResInv, n

\* A name that is not resolved ends the call: args and the body are freed.
LEMMA ResolveFailsKeeps ==
  ASSUME NEW r, ResInv(r), r.at = "args"
  PROVE  LET n == Moved([Told(r, {}) EXCEPT !.args = Nothing], {}, {},
                        {"args"} \cup Set(r, {"send_body"}), "returned")
         IN /\ ResInv(n) /\ n.at = "returned"
            /\ n.token = r.token /\ n.session = r.session /\ n.offer = r.offer
            /\ n.request = r.request
  <1> DEFINE none == {}
             uses == {"ref", "args"} \cup {}
             a == Account(r, uses, none, none)
             b == [a EXCEPT !.args = Nothing]
             frees == {"args"} \cup Set(r, {"send_body"})
             n == Moved(b, none, none, frees, "returned")
  <1>1. IsRecord(r) /\ r.bad = {}
    BY DEF ResInv, Shaped
  <1>2. uses \cup none \subseteq r.held \cup none
        /\ none \cup frees \subseteq r.held \cup none
    BY DEF ResInv, Has, Shaped, Points, Set
  <1> HIDE DEF uses, none, frees
  <1>3. IsRecord(a) /\ Rest(a, r) /\ a.held = (r.held \cup none) \ none
        /\ a.ptr = r.ptr \cup none /\ a.bad = {}
    BY <1>1, <1>2, AccountFields
  <1>4. a.held = r.held /\ a.ptr = r.ptr
    BY <1>3 DEF none
  <1> HIDE DEF a
  <1>5. IsRecord(b) /\ b.held = r.held /\ b.ptr = r.ptr /\ b.bad = {} /\ b.watch = r.watch
        /\ b.request = r.request /\ b.destroys = r.destroys /\ b.cmd = r.cmd
        /\ b.token = r.token /\ b.session = r.session /\ b.offer = r.offer
    BY <1>3, <1>4 DEF Rest, IsRecord, Fields
  <1> HIDE DEF b
  <1>6. IsRecord(n) /\ n.at = "returned" /\ n.bad = {}
        /\ n.held = (r.held \cup none) \ frees /\ n.ptr = r.ptr \cup none
        /\ n.watch = r.watch /\ n.request = r.request
        /\ n.destroys = r.destroys /\ n.cmd = r.cmd
        /\ n.token = r.token /\ n.session = r.session /\ n.offer = r.offer
    BY <1>2, <1>5, MovedFields DEF Rest
  <1> HIDE DEF n
  <1> USE DEF none, frees, Set
  <1>7. Shaped(n)
    BY <1>6 DEF ResInv, Shaped, Objects, Watchers, Places
  <1>8. Has(n)
    BY <1>6 DEF ResInv, Has, Shaped
  <1>9. HasNot(n)
    BY <1>6 DEF ResInv, HasNot, Shaped, Has
  <1>10. Points(n)
    BY <1>6 DEF ResInv, Points
  <1>11. r.watch = {}
    BY DEF ResInv, Watching, HasNot, Shaped
  <1>12. Watching(n)
    BY <1>6, <1>11 DEF Watching
  <1> QED
    BY <1>6, <1>7, <1>8, <1>9, <1>10, <1>12 DEF ResInv, n, b, a, uses, Told

\* A short call cancelled before its task leaves the task to the tail.
LEMMA CancelledBeforeTaskKeeps ==
  ASSUME NEW r, ResInv(r), r.at = "armed"
  PROVE  LET n == Moved(r, {"ctx", "tasks"}, {}, {}, "tail")
         IN ResInv(n) /\ n.at = "tail" /\ Same(n, r)
  <1> DEFINE uses == {"ctx", "tasks"}
             gets == {}
             frees == {}
             n == Moved(r, uses, gets, frees, "tail")
  <1>1. IsRecord(r) /\ r.bad = {}
    BY DEF ResInv, Shaped
  <1>3. uses \cup frees \subseteq r.held \cup gets
    BY DEF ResInv, Has, Shaped
  <1> HIDE DEF uses, gets, frees
  <1>4. /\ IsRecord(n) /\ n.at = "tail" /\ n.bad = {}
        /\ n.held = (r.held \cup gets) \ frees /\ n.ptr = r.ptr \cup gets
        /\ n.request = r.request /\ n.watch = r.watch /\ n.cmd = r.cmd
        /\ n.destroys = r.destroys
        /\ Same(n, r)
    BY <1>1, <1>3, MovedFields DEF Rest, Same
  <1> HIDE DEF n
  <1> USE DEF uses, gets, frees
  <1>5. Shaped(n)
    BY <1>4 DEF ResInv, Shaped, Objects, Watchers, Places
  <1>6. Has(n)
    BY <1>4 DEF ResInv, Has, Shaped
  <1>7. HasNot(n)
    BY <1>4 DEF ResInv, HasNot, Shaped
  <1>8. Points(n)
    BY <1>4 DEF ResInv, Points
  <1>9. Watching(n)
    BY <1>4 DEF ResInv, Watching, Has, Shaped
  <1> QED
    BY <1>4, <1>5, <1>6, <1>7, <1>8, <1>9 DEF ResInv, n

\* The task and the pipe of the loop are there, and the wakeups watched.
LEMMA StartTasksKeeps ==
  ASSUME NEW r, ResInv(r), r.at \in {"told", "engine"}, NEW cmd, cmd # "DESTROY" \/ cmd = r.cmd
  PROVE  LET n == [[Account(r, {"ctx", "args", "loop"}, TaskObjects \cup EvPipe, {})
                      EXCEPT !.watch = @ \cup {"task"}, !.wake = FALSE, !.cmd = cmd]
                      EXCEPT !.at = "armed"]
         IN ResInv(n) /\ n.at = "armed" /\ Same(n, r)
  <1> DEFINE uses == {"ctx", "args", "loop"}
             gets == TaskObjects \cup EvPipe
             a == Account(r, uses, gets, {})
             n == [[a EXCEPT !.watch = @ \cup {"task"}, !.wake = FALSE, !.cmd = cmd]
                     EXCEPT !.at = "armed"]
  <1>1. IsRecord(r) /\ r.bad = {}
    BY DEF ResInv, Shaped
  <1>2. uses \cup {} \subseteq r.held \cup gets
    BY DEF ResInv, Has, Shaped
  <1> HIDE DEF uses, gets
  <1>3. IsRecord(a) /\ a.held = (r.held \cup gets) \ {} /\ a.ptr = r.ptr \cup gets
        /\ a.bad = {} /\ Rest(a, r)
    BY <1>1, <1>2, AccountFields
  <1> HIDE DEF a
  <1>4. /\ IsRecord(n) /\ n.at = "armed" /\ n.bad = {}
        /\ n.held = (r.held \cup gets) \ {} /\ n.ptr = r.ptr \cup gets
        /\ n.request = r.request /\ n.destroys = r.destroys
        /\ n.watch = r.watch \cup {"task"} /\ n.cmd = cmd /\ Same(n, r)
    BY <1>3 DEF Rest, IsRecord, Fields, Same
  <1> HIDE DEF n
  <1> USE DEF gets, TaskObjects, EvPipe
  <1>5. Shaped(n)
    BY <1>4 DEF ResInv, Shaped, Objects, Watchers, Places
  <1>6. Has(n)
    BY <1>4 DEF ResInv, Has, Shaped
  <1>7. HasNot(n)
    BY <1>4 DEF ResInv, HasNot, Shaped
  <1>8. Points(n)
    BY <1>4 DEF ResInv, Points
  <1>9. Watching(n)
    BY <1>4 DEF ResInv, Watching, Has, Shaped
  <1> QED
    BY <1>4, <1>5, <1>6, <1>7, <1>8, <1>9 DEF ResInv, n, a, uses

-----------------------------------------------------------------------------
(* The task. *)

\* A call whose task can be closed: it has what CloseTask touches, no connection,
\* and a socket only if the task knows of it.
Closable(x) ==
  /\ IsRecord(x) /\ x.bad = {} /\ x.destroys = 0
  /\ x.request \in Asked
  /\ x.ptr \subseteq Objects /\ x.held \subseteq x.ptr \cup {"user_conn"}
  /\ x.watch \subseteq Watchers
  /\ {"ref", "args", "ctx", "loop", "engine", "tasks", "schedule_info"} \subseteq x.held
  /\ x.request.type = "LONG" <=> "queue" \in x.held
  /\ "queue" \in x.ptr => x.request.type = "LONG"
  /\ "conn" \notin x.held
  /\ "user_conn" \in x.ptr => {"user_conn", "socket"} \subseteq x.held
  /\ "user_conn" \notin x.ptr => "socket" \notin x.held
        /\ x.watch \subseteq {"engine", "task"}
  /\ \A o \in x.ptr \ x.held :
       o \notin LoopObjects \cup {"engine", "tasks", "schedule_info", "send_body", "recv_body"}

\* client_close_task frees what the task knows of, and the reference, once.
LEMMA CloseTaskKeeps ==
  ASSUME NEW x, Closable(x)
  PROVE  LET n == [CloseTask(x) EXCEPT !.at = "tail"]
         IN ResInv(n) /\ n.at = "tail" /\ Same(n, x)
  <1> DEFINE known == "user_conn" \in x.ptr
             gone == IF known THEN {"socket", "user_conn"} ELSE {}
             b == [x EXCEPT !.watch = IF known THEN @ \ {"socket", "timeout"} ELSE @,
                            !.cmd = IF Short(x) THEN @ ELSE "NONE"]
             none == {}
             touched == {"ctx", "tasks"}
             a == Account(b, touched, none, gone)
             told == {"args"}
             ref == {"ref"}
             d == Account(a, told, none, ref)
             n == [[d EXCEPT !.destroys = @ + 1] EXCEPT !.at = "tail"]
  <1>1. /\ IsRecord(b) /\ b.held = x.held /\ b.ptr = x.ptr /\ b.bad = {}
        /\ b.request = x.request /\ b.destroys = 0
        /\ b.watch = IF known THEN x.watch \ {"socket", "timeout"} ELSE x.watch
        /\ Same(b, x)
    BY DEF Closable, IsRecord, Fields, Same
  <1> HIDE DEF b
  <1>2. touched \cup gone \subseteq x.held \cup none
    BY DEF Closable
  <1>3. told \cup ref \subseteq ((x.held \cup none) \ gone) \cup none
    BY DEF Closable
  <1> HIDE DEF touched, gone, told, ref, none
  <1>4. IsRecord(a) /\ Rest(a, b) /\ a.held = (x.held \cup none) \ gone
        /\ a.ptr = x.ptr \cup none /\ a.bad = {}
    BY <1>1, <1>2, AccountFields
  <1> HIDE DEF a
  <1>5. IsRecord(d) /\ Rest(d, a) /\ d.held = (((x.held \cup none) \ gone) \cup none) \ ref
        /\ d.ptr = (x.ptr \cup none) \cup none /\ d.bad = {}
    BY <1>4, <1>3, AccountFields
  <1> HIDE DEF d
  <1>6. /\ IsRecord(n) /\ n.at = "tail" /\ n.bad = {} /\ n.request = d.request
        /\ n.held = d.held /\ n.ptr = d.ptr /\ n.watch = d.watch
        /\ n.destroys = d.destroys + 1 /\ Same(n, d)
    BY <1>5 DEF IsRecord, Fields, Same
  <1> HIDE DEF n
  <1>7. /\ n.held = (x.held \ gone) \ ref /\ n.ptr = x.ptr /\ n.request = x.request
        /\ n.watch = (IF known THEN x.watch \ {"socket", "timeout"} ELSE x.watch)
        /\ n.destroys = 1 /\ Same(n, x)
    BY <1>1, <1>4, <1>5, <1>6 DEF Rest, none, Same
  <1> USE DEF gone, ref, none
  <1>8. Shaped(n)
    BY <1>6, <1>7 DEF Closable, Shaped, Objects, Watchers, Places
  <1>9. Has(n)
    BY <1>6, <1>7 DEF Closable, Has
  <1>10. HasNot(n)
    BY <1>6, <1>7 DEF Closable, HasNot
  <1>11. Points(n)
    BY <1>6, <1>7 DEF Closable, Points
  <1>12. Watching(n)
    BY <1>6, <1>7 DEF Closable, Watching, Watchers
  <1> QED
    BY <1>6, <1>7, <1>8, <1>9, <1>10, <1>11, <1>12
       DEF ResInv, n, d, a, b, told, touched, CloseTask, ToldDestroy

\* The task does not know the user_conn of a socket that was not made.
LEMMA SocketFailsKeeps ==
  ASSUME NEW r, ResInv(r), r.at = "armed"
  PROVE  LET x == [r EXCEPT !.held = @ \cup {"user_conn"}] IN Closable(x) /\ Same(x, r)
  <1> DEFINE x == [r EXCEPT !.held = @ \cup {"user_conn"}]
  <1>1. IsRecord(r) /\ r.bad = {} /\ r.at = "armed"
    BY DEF ResInv, Shaped
  <1>2. /\ IsRecord(x) /\ x.held = r.held \cup {"user_conn"} /\ x.ptr = r.ptr /\ x.bad = {}
        /\ x.request = r.request /\ x.destroys = r.destroys /\ x.watch = r.watch
        /\ Same(x, r)
    BY <1>1 DEF IsRecord, Fields, Same
  <1> HIDE DEF x
  <1> QED
    BY <1>1, <1>2 DEF Closable, ResInv, Shaped, Has, HasNot, Points, Watching, x

\* With the socket, its user data and two more watchers.
LEMMA OpenedFields ==
  ASSUME NEW r, ResInv(r), r.at = "armed"
  PROVE  LET o == Opened(r) IN
         /\ IsRecord(o) /\ o.bad = {} /\ o.at = "armed"
         /\ o.held = r.held \cup {"user_conn", "socket"}
         /\ o.ptr = r.ptr \cup {"user_conn", "socket"}
         /\ o.watch = r.watch \cup {"socket", "timeout"}
         /\ o.request = r.request /\ o.destroys = r.destroys
         /\ o.cmd = (IF Short(r) THEN r.cmd ELSE "NONE")
         /\ Same(o, r)
  <1> DEFINE b == [r EXCEPT !.watch = @ \cup {"socket", "timeout"},
                            !.cmd = IF Short(r) THEN @ ELSE "NONE"]
             uses == {"ctx", "args", "loop", "tasks", "schedule_info"}
             gets == {"user_conn", "socket"}
             none == {}
             o == Account(b, uses, gets, none)
  <1>1. IsRecord(r) /\ r.bad = {} /\ r.at = "armed"
    BY DEF ResInv, Shaped
  <1>2. /\ IsRecord(b) /\ b.held = r.held /\ b.ptr = r.ptr /\ b.bad = {} /\ b.at = "armed"
        /\ b.watch = r.watch \cup {"socket", "timeout"}
        /\ b.cmd = (IF Short(r) THEN r.cmd ELSE "NONE")
        /\ b.request = r.request /\ b.destroys = r.destroys
        /\ Same(b, r)
    BY <1>1 DEF IsRecord, Fields, Same
  <1> HIDE DEF b
  <1>3. uses \cup none \subseteq r.held \cup gets
    BY <1>1 DEF ResInv, Has
  <1> HIDE DEF uses, gets, none
  <1>4. /\ IsRecord(o) /\ Rest(o, b) /\ o.at = b.at /\ o.bad = {}
        /\ o.held = (r.held \cup gets) \ none /\ o.ptr = r.ptr \cup gets
    BY <1>2, <1>3, AccountFields
  <1> HIDE DEF o
  <1>5. o.held = r.held \cup gets
    BY <1>4 DEF none
  <1> QED
    BY <1>2, <1>4, <1>5 DEF Rest, Same, Opened, o, b, uses, gets, none

\* What is opened can be closed again by the task.
LEMMA OpenedClosable ==
  ASSUME NEW r, ResInv(r), r.at = "armed"
  PROVE  Closable(Opened(r)) /\ Same(Opened(r), r)
  <1> DEFINE o == Opened(r)
  <1>1. /\ IsRecord(o) /\ o.bad = {}
        /\ o.held = r.held \cup {"user_conn", "socket"}
        /\ o.ptr = r.ptr \cup {"user_conn", "socket"}
        /\ o.watch = r.watch \cup {"socket", "timeout"}
        /\ o.request = r.request /\ o.destroys = r.destroys /\ r.at = "armed" /\ Same(o, r)
    BY OpenedFields
  <1> HIDE DEF o
  <1>2. r.request.type \in {"SHORT", "LONG"}
    BY <1>1, ShortOrLong
  <1> QED
    BY <1>1, <1>2
       DEF Closable, ResInv, Shaped, Has, HasNot, Points, Watching, Objects, Watchers, o

\* Entering the loop, without a connection ...
LEMMA ConnectFailsKeeps ==
  ASSUME NEW r, ResInv(r), r.at = "armed"
  PROVE  LET n == [Opened(r) EXCEPT !.at = "run"] IN ResInv(n) /\ n.at = "run" /\ Same(n, r)
  <1> DEFINE o == Opened(r)
             n == [o EXCEPT !.at = "run"]
  <1>1. /\ IsRecord(o) /\ o.bad = {}
        /\ o.held = r.held \cup {"user_conn", "socket"}
        /\ o.ptr = r.ptr \cup {"user_conn", "socket"}
        /\ o.watch = r.watch \cup {"socket", "timeout"}
        /\ o.request = r.request /\ o.destroys = r.destroys /\ r.at = "armed"
        /\ o.cmd = (IF Short(r) THEN r.cmd ELSE "NONE") /\ Same(o, r)
    BY OpenedFields
  <1> HIDE DEF o
  <1>2. /\ IsRecord(n) /\ n.at = "run" /\ n.bad = {} /\ n.held = o.held /\ n.ptr = o.ptr
        /\ n.watch = o.watch /\ n.request = o.request /\ n.destroys = o.destroys
        /\ n.cmd = o.cmd /\ Same(n, r)
    BY <1>1 DEF IsRecord, Fields, Same
  <1> HIDE DEF n
  <1>3. Shaped(n)
    BY <1>1, <1>2 DEF ResInv, Shaped, Objects, Watchers, Places
  <1>4. Has(n)
    BY <1>1, <1>2 DEF ResInv, Has, Shaped
  <1>5. HasNot(n)
    BY <1>1, <1>2 DEF ResInv, HasNot, Shaped
  <1>6. Points(n)
    BY <1>1, <1>2 DEF ResInv, Points
  <1>7. Watching(n)
    BY <1>1, <1>2 DEF ResInv, Watching, Has
  <1> QED
    BY <1>2, <1>3, <1>4, <1>5, <1>6, <1>7 DEF ResInv, n, o

\* ... and with one: the body a long call came with is freed, and no field
\* points to it any more.
\* The connection has its offer, and the body went to the queue.
Connecting(a, body, offer) ==
  [[a EXCEPT !.ptr = @ \ body, !.offer = offer] EXCEPT !.at = "run"]

\* A connection is there; a long call's body went to its queue, and its field is
\* cleared.
LEMMA ConnectKeeps ==
  ASSUME NEW r, ResInv(r), r.at = "armed", NEW offer,
         NEW body, body = IF Short(r) THEN {} ELSE Set(r, {"send_body"}),
         NEW a, a = Account(Opened(r), {"engine"}, {"conn"}, body),
         NEW n, n = Connecting(a, body, offer)
  PROVE  /\ ResInv(n) /\ n.at = "run" /\ n.request = r.request /\ n.token = r.token
            /\ n.session = r.session /\ n.args = r.args /\ n.offer = offer
  <1> DEFINE o == Opened(r)
             uses == {"engine"}
             gets == {"conn"}
  <1>0. a = Account(o, uses, gets, body)
    OBVIOUS
  <1>1. /\ IsRecord(o) /\ o.bad = {}
        /\ o.held = r.held \cup {"user_conn", "socket"}
        /\ o.ptr = r.ptr \cup {"user_conn", "socket"}
        /\ o.watch = r.watch \cup {"socket", "timeout"}
        /\ o.request = r.request /\ o.destroys = r.destroys /\ r.at = "armed"
        /\ o.cmd = (IF Short(r) THEN r.cmd ELSE "NONE") /\ Same(o, r)
    BY OpenedFields
  <1> HIDE DEF o
  <1>2. body \subseteq {"send_body"} /\ body \subseteq r.held
    BY <1>1 DEF ResInv, Points, Set
  <1>3. uses \cup body \subseteq o.held \cup gets
    BY <1>1, <1>2 DEF ResInv, Has
  <1> HIDE DEF uses, gets
  <1>4. /\ IsRecord(a) /\ Rest(a, o) /\ a.held = (o.held \cup gets) \ body
        /\ a.ptr = o.ptr \cup gets /\ a.bad = {}
    BY <1>0, <1>1, <1>3, AccountFields
  <1>5. /\ IsRecord(n) /\ n.at = "run" /\ n.bad = {} /\ n.held = a.held
        /\ n.ptr = a.ptr \ body /\ n.watch = a.watch /\ n.request = a.request
        /\ n.destroys = a.destroys /\ n.cmd = a.cmd
        /\ n.token = a.token /\ n.session = a.session /\ n.args = a.args /\ n.offer = offer
    BY <1>4 DEF IsRecord, Fields, Connecting
  <1>6. /\ n.held = (r.held \cup {"user_conn", "socket", "conn"}) \ body
        /\ n.ptr = (r.ptr \cup {"user_conn", "socket", "conn"}) \ body
        /\ n.watch = r.watch \cup {"socket", "timeout"} /\ n.request = r.request
        /\ n.destroys = r.destroys /\ n.cmd = (IF Short(r) THEN r.cmd ELSE "NONE")
        /\ n.token = r.token /\ n.session = r.session /\ n.args = r.args
    BY <1>1, <1>2, <1>4, <1>5 DEF Rest, gets, Same
  <1>7. Shaped(n)
    BY <1>1, <1>2, <1>5, <1>6 DEF ResInv, Shaped, Objects, Watchers, Places
  <1>8. Has(n)
    BY <1>1, <1>2, <1>5, <1>6 DEF ResInv, Has, Shaped
  <1>9. HasNot(n)
    BY <1>1, <1>2, <1>5, <1>6 DEF ResInv, HasNot, Shaped
  <1>10. Points(n)
    BY <1>1, <1>2, <1>5, <1>6 DEF ResInv, Points
  <1>11. Watching(n)
    BY <1>1, <1>2, <1>5, <1>6 DEF ResInv, Watching, Has
  <1> QED
    BY <1>5, <1>6, <1>7, <1>8, <1>9, <1>10, <1>11 DEF ResInv

-----------------------------------------------------------------------------
(* The loop runs. *)

\* What happens in the loop, up to the end of the task: only the receive buffer
\* is allocated, only the connection is freed, and no watcher starts.
LEMMA RunKeeps ==
  ASSUME NEW r, ResInv(r), r.at = "run", NEW n, NEW gets, NEW frees,
         gets \subseteq {"recv_body"}, frees \subseteq {"conn"},
         IsRecord(n), n.at = "run", n.bad = {},
         n.held = (r.held \cup gets) \ frees, n.ptr = r.ptr \cup gets,
         n.request = r.request, n.destroys = r.destroys, n.watch \subseteq r.watch,
         n.cmd = "DESTROY" => "conn" \notin n.held
  PROVE  ResInv(n)
  <1>1. Shaped(n)
    BY DEF ResInv, Shaped, Objects, Watchers
  <1>2. Has(n)
    BY DEF ResInv, Has
  <1>3. HasNot(n)
    BY DEF ResInv, HasNot, Has
  <1>4. Points(n)
    BY DEF ResInv, Points
  <1>5. Watching(n)
    BY DEF ResInv, Watching, Has
  <1> QED
    BY <1>1, <1>2, <1>3, <1>4, <1>5 DEF ResInv

\* An upcall of the connection finds the reference and args.
LEMMA NotifyKeeps ==
  ASSUME NEW r, ResInv(r), r.at = "run", "conn" \in r.held
  PROVE  LET n == Moved(r, ({"ref", "args"} \cup Engine), {}, {}, "run")
         IN ResInv(n) /\ n.at = "run" /\ Same(n, r)
  <1> DEFINE uses == ({"ref", "args"} \cup Engine)
             gets == {}
             frees == {}
             n == Moved(r, uses, gets, frees, "run")
  <1>1. IsRecord(r) /\ r.bad = {}
    BY DEF ResInv, Shaped
  <1>3. uses \cup frees \subseteq r.held \cup gets
    BY DEF ResInv, Has, Shaped, Engine
  <1> HIDE DEF uses, gets, frees
  <1>4. /\ IsRecord(n) /\ n.at = "run" /\ n.bad = {}
        /\ n.held = (r.held \cup gets) \ frees /\ n.ptr = r.ptr \cup gets
        /\ n.request = r.request /\ n.watch = r.watch /\ n.cmd = r.cmd
        /\ n.destroys = r.destroys
        /\ Same(n, r)
    BY <1>1, <1>3, MovedFields DEF Rest, Same
  <1> HIDE DEF n
  <1>5. /\ gets \subseteq {"recv_body"} /\ frees \subseteq {"conn"}
        /\ n.watch \subseteq r.watch /\ (n.cmd = "DESTROY" => "conn" \notin n.held)
    BY <1>4 DEF gets, frees, ResInv, HasNot
  <1> QED
    BY <1>4, <1>5, RunKeeps DEF n, uses, gets, frees

\* The answer has a buffer of its own.
LEMMA ReceiveKeeps ==
  ASSUME NEW r, ResInv(r), r.at = "run", "conn" \in r.held, NEW final
  PROVE  LET n == [[Told(Account(r, Engine, {"recv_body"}, {}), {}) EXCEPT !.closing = final]
                      EXCEPT !.at = "run"]
         IN ResInv(n) /\ n.at = "run" /\ Same(n, r)
  <1> DEFINE uses == Engine
             gets == {"recv_body"}
             none == {}
             a == Account(r, uses, gets, none)
             told == {"ref", "args"} \cup {}
             d == Account(a, told, none, none)
             n == [[d EXCEPT !.closing = final] EXCEPT !.at = "run"]
  <1>1. IsRecord(r) /\ r.bad = {}
    BY DEF ResInv, Shaped
  <1>2. uses \cup none \subseteq r.held \cup gets
    BY DEF ResInv, Has, Engine
  <1>3. told \cup none \subseteq ((r.held \cup gets) \ none) \cup none
    BY DEF ResInv, Has, Shaped
  <1> HIDE DEF uses, gets, none, told
  <1>4. /\ IsRecord(a) /\ Rest(a, r) /\ a.bad = {}
        /\ a.held = (r.held \cup gets) \ none /\ a.ptr = r.ptr \cup gets
    BY <1>1, <1>2, AccountFields
  <1> HIDE DEF a
  <1>5. /\ IsRecord(d) /\ Rest(d, a) /\ d.bad = {}
        /\ d.held = (a.held \cup none) \ none /\ d.ptr = a.ptr \cup none
    BY <1>3, <1>4, AccountFields
  <1> HIDE DEF d
  <1>6. /\ IsRecord(n) /\ n.at = "run" /\ n.bad = {} /\ n.held = d.held /\ n.ptr = d.ptr
        /\ n.request = d.request /\ n.destroys = d.destroys /\ n.watch = d.watch
        /\ n.cmd = d.cmd /\ Same(n, d)
    BY <1>5 DEF IsRecord, Fields, Same
  <1> HIDE DEF n
  <1>7. /\ n.held = (r.held \cup gets) \ none /\ n.ptr = r.ptr \cup gets
        /\ n.request = r.request /\ n.destroys = r.destroys /\ n.watch \subseteq r.watch
        /\ n.cmd = r.cmd /\ Same(n, r)
    BY <1>4, <1>5, <1>6 DEF none, Rest, Same
  <1>8. /\ gets \subseteq {"recv_body"} /\ none \subseteq {"conn"}
        /\ (n.cmd = "DESTROY" => "conn" \notin n.held)
    BY <1>7 DEF gets, none, ResInv, HasNot
  <1> QED
    BY <1>6, <1>7, <1>8, RunKeeps DEF n, d, a, uses, gets, none, told, Told

\* The idle timer finds the call read something, and starts again.
LEMMA IdleRestartsKeeps ==
  ASSUME NEW r, ResInv(r), r.at = "run"
  PROVE  LET n == Moved([r EXCEPT !.watch = @ \ {"timeout"}], {"user_conn", "ctx", "args"}, {}, {},
                         "run")
         IN ResInv(n) /\ n.at = "run" /\ Same(n, r)
  <1> DEFINE b == [r EXCEPT !.watch = @ \ {"timeout"}]
             uses == {"user_conn", "ctx", "args"}
             gets == {}
             frees == {}
             n == Moved(b, uses, gets, frees, "run")
  <1>1. IsRecord(r) /\ r.bad = {}
    BY DEF ResInv, Shaped
  <1>2. /\ IsRecord(b) /\ b.held = r.held /\ b.ptr = r.ptr /\ b.bad = {}
        /\ b.request = r.request /\ b.cmd = r.cmd /\ b.destroys = r.destroys
        /\ b.watch = r.watch \ {"timeout"}
        /\ Same(b, r)
    BY <1>1 DEF IsRecord, Fields, Same
  <1>3. uses \cup frees \subseteq r.held \cup gets
    BY DEF ResInv, Has, Shaped, Engine
  <1> HIDE DEF uses, gets, frees, b
  <1>4. /\ IsRecord(n) /\ n.at = "run" /\ n.bad = {}
        /\ n.held = (r.held \cup gets) \ frees /\ n.ptr = r.ptr \cup gets
        /\ n.request = r.request /\ n.cmd = r.cmd /\ n.destroys = r.destroys
        /\ n.watch = r.watch \ {"timeout"}
        /\ Same(n, r)
    BY <1>1, <1>2, <1>3, MovedFields DEF Rest, Same
  <1> HIDE DEF n
  <1>5. /\ gets \subseteq {"recv_body"} /\ frees \subseteq {"conn"}
        /\ n.watch \subseteq r.watch /\ (n.cmd = "DESTROY" => "conn" \notin n.held)
    BY <1>4 DEF gets, frees, ResInv, HasNot
  <1> QED
    BY <1>4, <1>5, RunKeeps DEF n, b, uses, gets, frees

\* The idle timer finds nothing was read, tells Java and closes the connection.
LEMMA IdleExpiresKeeps ==
  ASSUME NEW r, ResInv(r), r.at = "run", NEW closing
  PROVE  LET n == Moved([r EXCEPT !.watch = @ \ {"timeout"}, !.closing = closing],
                         ({"ref", "args"} \cup {"user_conn", "ctx", "engine", "schedule_info"}),
                         {}, {}, "run")
         IN ResInv(n) /\ n.at = "run" /\ Same(n, r)
  <1> DEFINE b == [r EXCEPT !.watch = @ \ {"timeout"}, !.closing = closing]
             uses == ({"ref", "args"} \cup {"user_conn", "ctx", "engine", "schedule_info"})
             gets == {}
             frees == {}
             n == Moved(b, uses, gets, frees, "run")
  <1>1. IsRecord(r) /\ r.bad = {}
    BY DEF ResInv, Shaped
  <1>2. /\ IsRecord(b) /\ b.held = r.held /\ b.ptr = r.ptr /\ b.bad = {}
        /\ b.request = r.request /\ b.cmd = r.cmd /\ b.destroys = r.destroys
        /\ b.watch = r.watch \ {"timeout"}
        /\ Same(b, r)
    BY <1>1 DEF IsRecord, Fields, Same
  <1>3. uses \cup frees \subseteq r.held \cup gets
    BY DEF ResInv, Has, Shaped, Engine
  <1> HIDE DEF uses, gets, frees, b
  <1>4. /\ IsRecord(n) /\ n.at = "run" /\ n.bad = {}
        /\ n.held = (r.held \cup gets) \ frees /\ n.ptr = r.ptr \cup gets
        /\ n.request = r.request /\ n.cmd = r.cmd /\ n.destroys = r.destroys
        /\ n.watch = r.watch \ {"timeout"}
        /\ Same(n, r)
    BY <1>1, <1>2, <1>3, MovedFields DEF Rest, Same
  <1> HIDE DEF n
  <1>5. /\ gets \subseteq {"recv_body"} /\ frees \subseteq {"conn"}
        /\ n.watch \subseteq r.watch /\ (n.cmd = "DESTROY" => "conn" \notin n.held)
    BY <1>4 DEF gets, frees, ResInv, HasNot
  <1> QED
    BY <1>4, <1>5, RunKeeps DEF n, b, uses, gets, frees

\* A wakeup that finds a cancellation closes the connection.
LEMMA ServeCancelKeeps ==
  ASSUME NEW r, ResInv(r), r.at = "run", NEW cmd, cmd # "DESTROY", NEW closing
  PROVE  LET n == Moved([r EXCEPT !.wake = FALSE, !.cmd = cmd, !.closing = closing],
                         {"ctx", "tasks", "user_conn", "engine"}, {}, {}, "run")
         IN ResInv(n) /\ n.at = "run" /\ Same(n, r)
  <1> DEFINE b == [r EXCEPT !.wake = FALSE, !.cmd = cmd, !.closing = closing]
             uses == {"ctx", "tasks", "user_conn", "engine"}
             gets == {}
             frees == {}
             n == Moved(b, uses, gets, frees, "run")
  <1>1. IsRecord(r) /\ r.bad = {}
    BY DEF ResInv, Shaped
  <1>2. /\ IsRecord(b) /\ b.held = r.held /\ b.ptr = r.ptr /\ b.bad = {}
        /\ b.request = r.request /\ b.watch = r.watch /\ b.destroys = r.destroys
        /\ b.cmd = cmd
        /\ Same(b, r)
    BY <1>1 DEF IsRecord, Fields, Same
  <1>3. uses \cup frees \subseteq r.held \cup gets
    BY DEF ResInv, Has, Shaped, Engine
  <1> HIDE DEF uses, gets, frees, b
  <1>4. /\ IsRecord(n) /\ n.at = "run" /\ n.bad = {}
        /\ n.held = (r.held \cup gets) \ frees /\ n.ptr = r.ptr \cup gets
        /\ n.request = r.request /\ n.watch = r.watch /\ n.destroys = r.destroys
        /\ n.cmd = cmd
        /\ Same(n, r)
    BY <1>1, <1>2, <1>3, MovedFields DEF Rest, Same
  <1> HIDE DEF n
  <1>5. /\ gets \subseteq {"recv_body"} /\ frees \subseteq {"conn"}
        /\ n.watch \subseteq r.watch /\ (n.cmd = "DESTROY" => "conn" \notin n.held)
    BY <1>4 DEF gets, frees, ResInv, HasNot
  <1> QED
    BY <1>4, <1>5, RunKeeps DEF n, b, uses, gets, frees

\* The close notification frees the connection, and commands the end.
LEMMA CloseNotifyKeeps ==
  ASSUME NEW r, ResInv(r), r.at = "run", "conn" \in r.held
  PROVE  LET n == Moved([r EXCEPT !.cmd = "DESTROY", !.wake = TRUE],
                         (Engine \cup {"tasks", "schedule_info"}), {}, {"conn"}, "run")
         IN ResInv(n) /\ n.at = "run" /\ Same(n, r)
  <1> DEFINE b == [r EXCEPT !.cmd = "DESTROY", !.wake = TRUE]
             uses == (Engine \cup {"tasks", "schedule_info"})
             gets == {}
             frees == {"conn"}
             n == Moved(b, uses, gets, frees, "run")
  <1>1. IsRecord(r) /\ r.bad = {}
    BY DEF ResInv, Shaped
  <1>2. /\ IsRecord(b) /\ b.held = r.held /\ b.ptr = r.ptr /\ b.bad = {}
        /\ b.request = r.request /\ b.watch = r.watch /\ b.destroys = r.destroys
        /\ b.cmd = "DESTROY"
        /\ Same(b, r)
    BY <1>1 DEF IsRecord, Fields, Same
  <1>3. uses \cup frees \subseteq r.held \cup gets
    BY DEF ResInv, Has, Shaped, Engine
  <1> HIDE DEF uses, gets, frees, b
  <1>4. /\ IsRecord(n) /\ n.at = "run" /\ n.bad = {}
        /\ n.held = (r.held \cup gets) \ frees /\ n.ptr = r.ptr \cup gets
        /\ n.request = r.request /\ n.watch = r.watch /\ n.destroys = r.destroys
        /\ n.cmd = "DESTROY"
        /\ Same(n, r)
    BY <1>1, <1>2, <1>3, MovedFields DEF Rest, Same
  <1> HIDE DEF n
  <1>5. /\ gets \subseteq {"recv_body"} /\ frees \subseteq {"conn"}
        /\ n.watch \subseteq r.watch /\ (n.cmd = "DESTROY" => "conn" \notin n.held)
    BY <1>4 DEF gets, frees, ResInv, HasNot
  <1> QED
    BY <1>4, <1>5, RunKeeps DEF n, b, uses, gets, frees

\* A cancellation is a command, at any place where the context is known.
LEMMA CancelKeeps ==
  ASSUME NEW r, ResInv(r), r.at \in {"told", "armed", "run"}
  PROVE  LET n == Moved([r EXCEPT !.cmd = "CANCEL", !.wake = TRUE], {"ctx"}, {}, {}, r.at)
         IN ResInv(n) /\ Same(n, r) /\ n.at = r.at
  <1> DEFINE b == [r EXCEPT !.cmd = "CANCEL", !.wake = TRUE]
             uses == {"ctx"}
             none == {}
             n == Moved(b, uses, none, none, r.at)
  <1>1. IsRecord(r) /\ r.bad = {}
    BY DEF ResInv, Shaped
  <1>2. /\ IsRecord(b) /\ b.held = r.held /\ b.ptr = r.ptr /\ b.bad = {}
        /\ b.watch = r.watch
        /\ b.request = r.request /\ b.destroys = r.destroys /\ b.cmd = "CANCEL"
        /\ Same(b, r)
    BY <1>1 DEF IsRecord, Fields, Same
  <1>3. uses \cup none \subseteq r.held \cup none
    BY DEF ResInv, Has
  <1> HIDE DEF b, uses, none
  <1>4. /\ IsRecord(n) /\ n.at = r.at /\ n.bad = {}
        /\ n.held = (r.held \cup none) \ none /\ n.ptr = r.ptr \cup none
        /\ n.request = r.request /\ n.watch = r.watch /\ n.destroys = r.destroys
        /\ n.cmd = "CANCEL" /\ Same(n, r)
    BY <1>1, <1>2, <1>3, MovedFields DEF Rest, Same
  <1>5. n.held = r.held /\ n.ptr = r.ptr
    BY <1>4 DEF none
  <1> HIDE DEF n
  <1>6. Shaped(n) /\ Has(n) /\ HasNot(n)
    BY <1>4, <1>5 DEF ResInv, Shaped, Has, HasNot
  <1>7. Points(n) /\ Watching(n)
    BY <1>4, <1>5 DEF ResInv, Points, Watching
  <1> QED
    BY <1>4, <1>6, <1>7 DEF ResInv, n, b, uses, none

\* The wakeup that finds the end closes the task.
LEMMA ServeDestroyKeeps ==
  ASSUME NEW r, ResInv(r), r.at = "run", r.cmd = "DESTROY"
  PROVE  LET x == [r EXCEPT !.wake = FALSE] IN Closable(x) /\ Same(x, r)
  <1> DEFINE x == [r EXCEPT !.wake = FALSE]
  <1>1. IsRecord(r) /\ r.bad = {} /\ r.at = "run"
    BY DEF ResInv, Shaped
  <1>2. /\ IsRecord(x) /\ x.held = r.held /\ x.ptr = r.ptr /\ x.bad = {}
        /\ x.request = r.request /\ x.destroys = r.destroys /\ x.watch = r.watch
        /\ Same(x, r)
    BY <1>1 DEF IsRecord, Fields, Same
  <1>3. r.request.type \in {"SHORT", "LONG"}
    BY <1>1, ShortOrLong
  <1> HIDE DEF x
  <1> QED
    BY <1>1, <1>2, <1>3 DEF Closable, ResInv, Shaped, Has, HasNot, Points, Watching, x

-----------------------------------------------------------------------------
(* Everything goes. *)

\* The watchers that are left are stopped while their loop is there.
LEMMA StopWatchersKeeps ==
  ASSUME NEW r, ResInv(r), r.at = "tail"
  PROVE  LET n == Moved([r EXCEPT !.watch = @ \ {"engine", "task"}], {"ctx"}, {}, {}, "stopped")
         IN ResInv(n) /\ n.at = "stopped" /\ Same(n, r)
  <1> DEFINE b == [r EXCEPT !.watch = @ \ {"engine", "task"}]
             uses == {"ctx"}
             gets == {}
             frees == {}
             n == Moved(b, uses, gets, frees, "stopped")
  <1>1. IsRecord(r) /\ r.bad = {}
    BY DEF ResInv, Shaped
  <1>2. /\ IsRecord(b)
        /\ b.held = r.held /\ b.ptr = r.ptr /\ b.bad = r.bad /\ b.request = r.request
        /\ b.cmd = r.cmd /\ b.destroys = r.destroys
        /\ b.watch = r.watch \ {"engine", "task"}
        /\ Same(b, r)
    BY <1>1 DEF IsRecord, Fields, Same
  <1>3. uses \cup frees \subseteq r.held \cup gets
    BY DEF ResInv, Has, Shaped
  <1> HIDE DEF uses, gets, frees, b
  <1>4. /\ IsRecord(n) /\ n.at = "stopped" /\ n.bad = {}
        /\ n.held = (r.held \cup gets) \ frees /\ n.ptr = r.ptr \cup gets
        /\ n.request = r.request /\ n.cmd = r.cmd /\ n.destroys = r.destroys
        /\ n.watch = r.watch \ {"engine", "task"}
        /\ Same(n, r)
    BY <1>1, <1>2, <1>3, MovedFields DEF Rest, Same
  <1> HIDE DEF n
  <1> USE DEF uses, gets, frees
  <1>5. Shaped(n)
    BY <1>4 DEF ResInv, Shaped, Objects, Watchers, Places
  <1>6. Has(n)
    BY <1>4 DEF ResInv, Has, Shaped
  <1>7. HasNot(n)
    BY <1>4 DEF ResInv, HasNot, Shaped
  <1>8. Points(n)
    BY <1>4 DEF ResInv, Points
  <1>9. Watching(n)
    BY <1>4 DEF ResInv, Watching, Has, Shaped
  <1> QED
    BY <1>4, <1>5, <1>6, <1>7, <1>8, <1>9 DEF ResInv, n, b

\* The loop goes, with its pipe and backend.
LEMMA DestroyLoopKeeps ==
  ASSUME NEW r, ResInv(r), r.at = "stopped"
  PROVE  LET n == Moved(r, {"ctx"}, {}, Set(r, {"loop", "backend_fd", "evpipe0", "evpipe1"}),
                         "unlooped")
         IN ResInv(n) /\ n.at = "unlooped" /\ Same(n, r)
  <1> DEFINE uses == {"ctx"}
             gets == {}
             frees == Set(r, {"loop", "backend_fd", "evpipe0", "evpipe1"})
             n == Moved(r, uses, gets, frees, "unlooped")
  <1>1. IsRecord(r) /\ r.bad = {}
    BY DEF ResInv, Shaped
  <1>3. uses \cup frees \subseteq r.held \cup gets
    BY DEF ResInv, Has, Shaped, Set, Points
  <1> HIDE DEF uses, gets, frees
  <1>4. /\ IsRecord(n) /\ n.at = "unlooped" /\ n.bad = {}
        /\ n.held = (r.held \cup gets) \ frees /\ n.ptr = r.ptr \cup gets
        /\ n.request = r.request /\ n.watch = r.watch /\ n.cmd = r.cmd
        /\ n.destroys = r.destroys
        /\ Same(n, r)
    BY <1>1, <1>3, MovedFields DEF Rest, Same
  <1> HIDE DEF n
  <1> USE DEF uses, gets, frees
  <1>5. Shaped(n)
    BY <1>4 DEF ResInv, Shaped, Objects, Watchers, Places, Set
  <1>6. Has(n)
    BY <1>4 DEF ResInv, Has, Shaped, Set
  <1>7. HasNot(n)
    BY <1>4 DEF ResInv, HasNot, Shaped, Set
  <1>8. Points(n)
    BY <1>4 DEF ResInv, Points, Set
  <1>9. Watching(n)
    BY <1>4 DEF ResInv, Watching, Has, Shaped, Set
  <1> QED
    BY <1>4, <1>5, <1>6, <1>7, <1>8, <1>9 DEF ResInv, n

\* No connection is left: its close notification came before the task's end.
LEMMA DestroyEngineKeeps ==
  ASSUME NEW r, ResInv(r), r.at = "unlooped"
  PROVE  LET n == Moved(r, ({"ctx"} \cup (IF "conn" \in r.held THEN Engine ELSE {})), {},
                         (Set(r, {"engine"}) \cup (IF "conn" \in r.held THEN {"conn"} ELSE {})),
                         "unengined")
         IN ResInv(n) /\ n.at = "unengined" /\ Same(n, r)
  <1> DEFINE uses == ({"ctx"} \cup (IF "conn" \in r.held THEN Engine ELSE {}))
             gets == {}
             frees == (Set(r, {"engine"}) \cup (IF "conn" \in r.held THEN {"conn"} ELSE {}))
             n == Moved(r, uses, gets, frees, "unengined")
  <1>1. IsRecord(r) /\ r.bad = {}
    BY DEF ResInv, Shaped
  <1>3. uses \cup frees \subseteq r.held \cup gets
    BY DEF ResInv, Has, Shaped, Set, Points, HasNot
  <1> HIDE DEF uses, gets, frees
  <1>4. /\ IsRecord(n) /\ n.at = "unengined" /\ n.bad = {}
        /\ n.held = (r.held \cup gets) \ frees /\ n.ptr = r.ptr \cup gets
        /\ n.request = r.request /\ n.watch = r.watch /\ n.cmd = r.cmd
        /\ n.destroys = r.destroys
        /\ Same(n, r)
    BY <1>1, <1>3, MovedFields DEF Rest, Same
  <1> HIDE DEF n
  <1> USE DEF uses, gets, frees
  <1>5. Shaped(n)
    BY <1>4 DEF ResInv, Shaped, Objects, Watchers, Places, Set
  <1>6. Has(n)
    BY <1>4 DEF ResInv, Has, Shaped, Set
  <1>7. HasNot(n)
    BY <1>4 DEF ResInv, HasNot, Shaped, Set
  <1>8. Points(n)
    BY <1>4 DEF ResInv, Points, Set
  <1>9. Watching(n)
    BY <1>4 DEF ResInv, Watching, Has, Shaped, Set
  <1> QED
    BY <1>4, <1>5, <1>6, <1>7, <1>8, <1>9 DEF ResInv, n

\* What is left goes, each object once.
LEMMA FreeContextKeeps ==
  ASSUME NEW r, ResInv(r), r.at = "unengined"
  PROVE  LET n == Moved([r EXCEPT !.args = Nothing, !.offer = Nothing], {}, {},
                         ({"ctx", "args"} \cup (IF Short(r) THEN {} ELSE {"queue"})
                            \cup Set(r, {"send_body", "recv_body"} \cup TaskObjects)), "returned")
         IN ResInv(n) /\ n.at = "returned" /\ n.token = r.token /\ n.session = r.session
            /\ n.offer = Nothing /\ n.request = r.request
  <1> DEFINE b == [r EXCEPT !.args = Nothing, !.offer = Nothing]
             uses == {}
             gets == {}
             frees == ({"ctx", "args"} \cup (IF Short(r) THEN {} ELSE {"queue"})
                         \cup Set(r, {"send_body", "recv_body"} \cup TaskObjects))
             n == Moved(b, uses, gets, frees, "returned")
  <1>1. IsRecord(r) /\ r.bad = {}
    BY DEF ResInv, Shaped
  <1>2. /\ IsRecord(b)
        /\ b.held = r.held /\ b.ptr = r.ptr /\ b.bad = r.bad /\ b.request = r.request
        /\ b.watch = r.watch /\ b.cmd = r.cmd /\ b.destroys = r.destroys
        /\ b.token = r.token /\ b.session = r.session /\ b.offer = Nothing
    BY <1>1 DEF IsRecord, Fields, Same
  <1>3. uses \cup frees \subseteq r.held \cup gets
    BY ShortOrLong DEF ResInv, Has, Shaped, Set, Points, TaskObjects, Short
  <1> HIDE DEF uses, gets, frees, b
  <1>4. /\ IsRecord(n) /\ n.at = "returned" /\ n.bad = {}
        /\ n.held = (r.held \cup gets) \ frees /\ n.ptr = r.ptr \cup gets
        /\ n.request = r.request /\ n.watch = r.watch /\ n.cmd = r.cmd
        /\ n.destroys = r.destroys
        /\ n.token = r.token /\ n.session = r.session /\ n.offer = Nothing
    BY <1>1, <1>2, <1>3, MovedFields DEF Rest, Same
  <1> HIDE DEF n
  <1> USE DEF uses, gets, frees
  <1>5. Shaped(n)
    BY <1>4, ShortOrLong DEF ResInv, Shaped, Objects, Watchers, Places, Set, TaskObjects, Short
  <1>6. Has(n)
    BY <1>4, ShortOrLong DEF ResInv, Has, Shaped, Set, TaskObjects, Short
  <1>7. HasNot(n)
    BY <1>4, ShortOrLong DEF ResInv, HasNot, Shaped, Set, TaskObjects, Short, Objects
  <1>8. Points(n)
    BY <1>4, ShortOrLong DEF ResInv, Points, Set, TaskObjects, Short
  <1>9. Watching(n)
    BY <1>4, ShortOrLong DEF ResInv, Watching, Has, Shaped, Set, TaskObjects, Short
  <1> QED
    BY <1>4, <1>5, <1>6, <1>7, <1>8, <1>9 DEF ResInv, n, b

-----------------------------------------------------------------------------
(* What a connection is offered. *)

\* The arguments made of a request: their tickets are the server's and fit, the
\* set-up has a limit, each header has its own parts.
ArgsSound(p, a) ==
  /\ a.token \in Fitting(p.server, MaxToken) /\ a.session \in Fitting(p.server, MaxSession)
  /\ a.conn_timeout \in Nat \ {0}
  /\ a.read_timeout = 0 \/ a.read_timeout = p.readTimeOut
  /\ \A i \in DOMAIN a.headers : a.headers[i].name \in {0, i} /\ a.headers[i].value \in {0, i}

OfferInv(r) ==
  /\ r.at = "idle" => r.token = NoTicket /\ r.session = NoTicket
  /\ r.at # "idle" => /\ r.token \in TicketsOf(r.request.server)
                      /\ r.session \in TicketsOf(r.request.server)
  /\ r.at \notin Early \cup {"returned"} => ArgsSound(r.request, r.args)
  /\ r.offer # Nothing => /\ r.at \in ({"run"} \cup Late) \ {"returned"}
                          /\ r.offer = Offer(r.args)

\* The cache has a server's tickets under its name.
CacheInv ==
  /\ DOMAIN cache = Servers
  /\ \A s \in Servers :
       /\ cache[s] = [token |-> cache[s].token, session |-> cache[s].session]
       /\ cache[s].token \in TicketsOf(s) /\ cache[s].session \in TicketsOf(s)

\* The parts of a request that the offer is made of.
LEMMA RequestParts ==
  ASSUME NEW p \in Asked
  PROVE  /\ p.server \in Servers /\ p.connectTimeOut \in Nat /\ p.readTimeOut \in Nat
         /\ p.headers \in Seq(Headers)
  BY CallSetupAssumption DEF Requests

\* A ticket that is copied is the server's and fits.
LEMMA FitsFits ==
  ASSUME NEW s, NEW t \in TicketsOf(s), NEW max \in Nat
  PROVE  Fits(t, max) \in Fitting(s, max)
  BY CallSetupAssumption DEF Fits, TicketsOf, Fitting, NoTicket

\* get_args_params makes sound arguments of the tickets it was given.
LEMMA ArgsAreSound ==
  ASSUME NEW r, r.request \in Asked, r.token \in TicketsOf(r.request.server),
         r.session \in TicketsOf(r.request.server)
  PROVE  ArgsSound(r.request, Args(r))
  <1> DEFINE p == r.request
             a == Args(r)
  <1>1. a.token \in Fitting(p.server, MaxToken) /\ a.session \in Fitting(p.server, MaxSession)
    BY FitsFits, CallSetupAssumption DEF Args
  <1>2. a.conn_timeout \in Nat \ {0} /\ (a.read_timeout = 0 \/ a.read_timeout = p.readTimeOut)
    BY RequestParts DEF Args
  <1>3. \A i \in DOMAIN a.headers : a.headers[i].name \in {0, i} /\ a.headers[i].value \in {0, i}
    <2>1. a.headers = IF p.alpn = "H3" THEN BuildHeaders(p.headers) ELSE <<>>
      BY DEF Args
    <2>2. \A i \in DOMAIN BuildHeaders(p.headers) :
            /\ BuildHeaders(p.headers)[i].name \in {0, i}
            /\ BuildHeaders(p.headers)[i].value \in {0, i}
      BY DEF BuildHeaders
    <2> QED
      BY <2>1, <2>2
  <1> QED
    BY <1>1, <1>2, <1>3 DEF ArgsSound

\* A step that leaves the request, the arguments and the offer alone.
LEMMA OfferStays ==
  ASSUME NEW r, NEW n, OfferInv(r), Same(n, r),
         r.at \notin Early \cup {"returned"},
         n.at \notin Early \cup {"returned"},
         r.at \in {"run"} \cup Late => n.at \in {"run"} \cup Late
  PROVE  OfferInv(n)
  BY DEF OfferInv, Same

-----------------------------------------------------------------------------
(* Every step keeps the invariant. *)

SetupInv ==
  /\ DOMAIN call = Calls
  /\ \A c \in Calls : ResInv(call[c]) /\ OfferInv(call[c])
  /\ CacheInv

\* From the request to the engine.
LEMMA PrepareStep ==
  ASSUME SetupInv, NEW c \in Calls, Prepare(c)
  PROVE  ResInv(call'[c]) /\ OfferInv(call'[c])
  <1> DEFINE r == call[c]
             n == call'[c]
  <1>0. ResInv(r) /\ OfferInv(r)
    BY DEF SetupInv
  <1>1. ASSUME NEW p \in Asked, Ask(c, p) PROVE ResInv(n) /\ OfferInv(n)
    <2>1. /\ r.at = "idle" /\ IsRecord(r) /\ p.server \in Servers
          /\ n = [[r EXCEPT !.request = p, !.token = cache[p.server].token] EXCEPT !.at = "asked"]
      BY <1>0, <1>1, RequestParts DEF SetupInv, ResInv, Shaped, Ask, Step
    <2>2. cache[p.server].token \in TicketsOf(p.server) /\ NoTicket \in TicketsOf(p.server)
      BY <2>1 DEF SetupInv, CacheInv, TicketsOf
    <2>3. /\ IsRecord(n) /\ n.at = "asked" /\ n.request = p
          /\ n.held = r.held /\ n.ptr = r.ptr /\ n.bad = r.bad /\ n.watch = r.watch
          /\ n.destroys = r.destroys /\ n.cmd = r.cmd
      BY <2>1 DEF IsRecord, Fields
    <2>4. n.token = cache[p.server].token /\ n.session = r.session /\ n.offer = r.offer
      BY <2>1 DEF IsRecord, Fields
    <2> HIDE DEF n
    <2>5. Shaped(n) /\ Has(n)
      BY <1>0, <2>1, <2>3 DEF ResInv, Shaped, Has, Places
    <2>6. HasNot(n) /\ Points(n) /\ Watching(n)
      BY <1>0, <2>1, <2>3 DEF ResInv, Shaped, HasNot, Points, Watching
    <2> QED
      BY <1>0, <2>1, <2>2, <2>3, <2>4, <2>5, <2>6 DEF ResInv, OfferInv
  <1>2. CASE AskSession(c)
    <2> DEFINE t == cache[r.request.server].session
    <2>1. /\ r.at = "asked" /\ IsRecord(r) /\ r.request \in Asked
          /\ n = [[r EXCEPT !.session = t] EXCEPT !.at = "params"]
      BY <1>0, <1>2 DEF SetupInv, ResInv, Shaped, AskSession, Step
    <2>2. t \in TicketsOf(r.request.server)
      BY <2>1, RequestParts DEF SetupInv, CacheInv
    <2> HIDE DEF t
    <2>3. /\ IsRecord(n) /\ n.at = "params" /\ n.request = r.request
          /\ n.held = r.held /\ n.ptr = r.ptr /\ n.bad = r.bad /\ n.watch = r.watch
          /\ n.destroys = r.destroys /\ n.cmd = r.cmd
      BY <2>1 DEF IsRecord, Fields
    <2>4. n.token = r.token /\ n.session = t /\ n.offer = r.offer
      BY <2>1 DEF IsRecord, Fields
    <2> HIDE DEF n
    <2>5. Shaped(n) /\ Has(n)
      BY <1>0, <2>1, <2>3 DEF ResInv, Shaped, Has, Places
    <2>6. HasNot(n) /\ Points(n) /\ Watching(n)
      BY <1>0, <2>1, <2>3 DEF ResInv, Shaped, HasNot, Points, Watching
    <2> QED
      BY <1>0, <2>1, <2>2, <2>3, <2>4, <2>5, <2>6 DEF ResInv, OfferInv, n
  <1>3. CASE GetArgs(c)
    <2> DEFINE got == {"ref", "args"} \cup (IF r.request.body THEN {"send_body"} ELSE {})
    <2>1. /\ r.at = "params" /\ r.request \in Asked
          /\ n = Moved([r EXCEPT !.args = Args(r), !.token = NoTicket, !.session = NoTicket],
                       {}, got, {}, "args")
      BY <1>0, <1>3 DEF SetupInv, ResInv, Shaped, GetArgs, Step, Moved
    <2> DEFINE m == Moved([r EXCEPT !.args = Args(r), !.token = NoTicket, !.session = NoTicket],
                          {}, got, {}, "args")
    <2>2. /\ ResInv(m) /\ m.at = "args" /\ m.token = NoTicket /\ m.session = NoTicket
          /\ m.args = Args(r) /\ m.offer = r.offer /\ m.request = r.request
      BY <1>0, <2>1, GetArgsKeeps, Zenon
    <2> HIDE DEF m
    <2>3. ArgsSound(r.request, Args(r))
      BY <1>0, <2>1, ArgsAreSound DEF OfferInv
    <2> HIDE DEF n
    <2> QED
      BY <1>0, <2>1, <2>2, <2>3 DEF OfferInv, TicketsOf, n, m
  <1>4. CASE Resolve(c)
    <2>1. r.at = "args" /\ n = Moved(r, {"args"}, {}, {}, "resolved")
      BY <1>4 DEF SetupInv, Resolve, Step, Moved
    <2> QED
      BY <1>0, <2>1, ResolveKeeps, OfferStays
  <1>5. CASE ResolveFails(c)
    <2>1. /\ r.at = "args"
          /\ n = Moved([Told(r, {}) EXCEPT !.args = Nothing], {}, {},
                       {"args"} \cup Set(r, {"send_body"}), "returned")
      BY <1>5 DEF SetupInv, ResolveFails, Step, Moved
    <2>2. /\ ResInv(n) /\ n.at = "returned" /\ n.token = r.token /\ n.session = r.session
          /\ n.offer = r.offer /\ n.request = r.request
      BY <1>0, <2>1, ResolveFailsKeeps
    <2> HIDE DEF n
    <2> QED
      BY <1>0, <2>1, <2>2 DEF OfferInv, n
  <1>6. CASE MakeContext(c)
    <2>1. r.at = "resolved" /\ n = Moved(r, {"args"},
                       {"ctx"} \cup (IF Short(r) THEN {} ELSE {"queue"}), {}, "made")
      BY <1>6 DEF SetupInv, MakeContext, Step, Moved
    <2> QED
      BY <1>0, <2>1, MakeContextKeeps, OfferStays
  <1>7. CASE NewLoopFails(c)
    <2>1. r.at = "made" /\ n = Moved(r, {"ctx"}, {}, {}, "tail")
      BY <1>7 DEF SetupInv, NewLoopFails, Step, Moved
    <2> QED
      BY <1>0, <2>1, NewLoopFailsKeeps, OfferStays
  <1>8. CASE NewLoop(c)
    <2>1. r.at = "made" /\ n = Moved([r EXCEPT !.watch = @ \cup {"engine"}], {"ctx"},
                       {"loop"} \cup Backend, {}, "looped")
      BY <1>8 DEF SetupInv, NewLoop, Step, Moved
    <2> QED
      BY <1>0, <2>1, NewLoopKeeps, OfferStays
  <1>9. CASE EngineFails(c)
    <2>1. r.at = "looped" /\ n = Moved(r, {"ctx", "args"}, {}, {}, "tail")
      BY <1>9 DEF SetupInv, EngineFails, Step, Moved
    <2> QED
      BY <1>0, <2>1, EngineFailsKeeps, OfferStays
  <1>10. CASE AlpnFails(c)
    <2>1. r.at = "looped" /\ n = Moved(r, {"ctx", "args"}, {"engine"}, {}, "tail")
      BY <1>10 DEF SetupInv, AlpnFails, Step, Moved
    <2> QED
      BY <1>0, <2>1, AlpnFailsKeeps, OfferStays
  <1>11. CASE InitEngine(c)
    <2>1. r.at = "looped" /\ n = Moved(r, {"ctx", "args"}, {"engine"}, {}, "engine")
      BY <1>11 DEF SetupInv, InitEngine, Step, Moved
    <2> QED
      BY <1>0, <2>1, InitEngineKeeps, OfferStays
  <1>12. CASE TellContext(c)
    <2>1. r.at = "engine" /\ n = Moved(r, {"ref", "args"} \cup {"ctx"}, {}, {}, "told")
      BY <1>12 DEF SetupInv, TellContext, Step, Moved, Told
    <2> QED
      BY <1>0, <2>1, TellContextKeeps, OfferStays
  <1> QED
    BY <1>1, <1>2, <1>3, <1>4, <1>5, <1>6, <1>7, <1>8, <1>9, <1>10, <1>11, <1>12 DEF Prepare

\* The task, its socket and its connection.
LEMMA TaskStep ==
  ASSUME SetupInv, NEW c \in Calls, Task(c)
  PROVE  ResInv(call'[c]) /\ OfferInv(call'[c])
  <1> DEFINE r == call[c]
             n == call'[c]
  <1>0. ResInv(r) /\ OfferInv(r)
    BY DEF SetupInv
  <1>1. CASE StartTasks(c)
    <2> DEFINE cmd == IF Short(r) THEN r.cmd ELSE "INIT_TASK"
    <2>1. /\ r.at \in {"told", "engine"} /\ (cmd # "DESTROY" \/ cmd = r.cmd)
          /\ n = [[Account(r, {"ctx", "args", "loop"}, TaskObjects \cup EvPipe, {})
                     EXCEPT !.watch = @ \cup {"task"}, !.wake = FALSE, !.cmd = cmd]
                     EXCEPT !.at = "armed"]
      <3>1. /\ r.at \in {"told", "engine"}
            /\ n = [[Account(r, {"ctx", "args", "loop"}, TaskObjects \cup EvPipe, {})
                       EXCEPT !.watch = @ \cup {"task"}, !.wake = FALSE,
                              !.cmd = IF Short(r) THEN @ ELSE "INIT_TASK"]
                       EXCEPT !.at = "armed"]
        BY <1>1 DEF SetupInv, StartTasks, Step
      <3>2. Account(r, {"ctx", "args", "loop"}, TaskObjects \cup EvPipe, {}).cmd = r.cmd
        BY <1>0, AccountFields DEF ResInv, Shaped, Rest
      <3> QED
        BY <3>1, <3>2
    <2> HIDE DEF cmd
    <2> DEFINE m == [[Account(r, {"ctx", "args", "loop"}, TaskObjects \cup EvPipe, {})
                        EXCEPT !.watch = @ \cup {"task"}, !.wake = FALSE, !.cmd = cmd]
                        EXCEPT !.at = "armed"]
    <2>2. ResInv(m) /\ m.at = "armed" /\ Same(m, r)
      BY <1>0, <2>1, StartTasksKeeps, Zenon
    <2> HIDE DEF m
    <2>3. n = m
      BY <2>1 DEF m
    <2> QED
      BY <1>0, <2>1, <2>2, <2>3, OfferStays
  <1>2. CASE CancelledBeforeTask(c)
    <2>1. r.at = "armed" /\ n = Moved(r, {"ctx", "tasks"}, {}, {}, "tail")
      BY <1>2 DEF SetupInv, CancelledBeforeTask, Step, Moved
    <2> QED
      BY <1>0, <2>1, CancelledBeforeTaskKeeps, OfferStays
  <1>3. CASE SocketFails(c)
    <2> DEFINE x == [r EXCEPT !.held = @ \cup {"user_conn"}]
    <2>1. r.at = "armed" /\ n = [CloseTask(x) EXCEPT !.at = "tail"]
      BY <1>3 DEF SetupInv, SocketFails, Step
    <2>2. Closable(x) /\ Same(x, r)
      BY <1>0, <2>1, SocketFailsKeeps
    <2> HIDE DEF x
    <2>3. ResInv(n) /\ n.at = "tail" /\ Same(n, r)
      BY <2>1, <2>2, CloseTaskKeeps DEF Same
    <2> QED
      BY <1>0, <2>1, <2>3, OfferStays
  <1>4. CASE ConnectFails(c) /\ Short(r)
    <2>1. r.at = "armed" /\ n = [Opened(r) EXCEPT !.at = "run"]
      BY <1>4 DEF SetupInv, ConnectFails, Step
    <2> QED
      BY <1>0, <2>1, ConnectFailsKeeps, OfferStays
  <1>5. CASE ConnectFails(c) /\ ~Short(r)
    <2>1. r.at = "armed" /\ n = [CloseTask(Opened(r)) EXCEPT !.at = "tail"]
      BY <1>5 DEF SetupInv, ConnectFails, Step
    <2>2. Closable(Opened(r)) /\ Same(Opened(r), r)
      BY <1>0, <2>1, OpenedClosable
    <2>3. ResInv(n) /\ n.at = "tail" /\ Same(n, r)
      BY <2>1, <2>2, CloseTaskKeeps DEF Same
    <2> QED
      BY <1>0, <2>1, <2>3, OfferStays
  <1>6. CASE Connect(c)
    <2> DEFINE body  == IF Short(r) THEN {} ELSE Set(r, {"send_body"})
               offer == Offer(r.args)
               a     == Account(Opened(r), {"engine"}, {"conn"}, body)
    <2>1. r.at = "armed" /\ ResInv(r)
      BY <1>0, <1>6 DEF Connect, Step
    <2>2. n = Connecting(a, body, offer)
      BY <1>6 DEF SetupInv, Connect, Step, Connecting
    <2>3. /\ body = IF Short(r) THEN {} ELSE Set(r, {"send_body"})
          /\ a = Account(Opened(r), {"engine"}, {"conn"}, body)
      OBVIOUS
    <2> HIDE DEF body, offer, a, n
    <2>4. /\ ResInv(n) /\ n.at = "run" /\ n.request = r.request /\ n.token = r.token
          /\ n.session = r.session /\ n.args = r.args /\ n.offer = offer
      BY <2>1, <2>2, <2>3, ConnectKeeps
    <2> QED
      BY <1>0, <2>1, <2>4 DEF OfferInv, offer, n
  <1> QED
    BY <1>1, <1>2, <1>3, <1>4, <1>5, <1>6 DEF Task

\* The loop, with the upcalls, the timer and the commands it serves.
LEMMA RunStep ==
  ASSUME SetupInv, NEW c \in Calls, Run(c)
  PROVE  ResInv(call'[c]) /\ OfferInv(call'[c])
  <1> DEFINE r == call[c]
             n == call'[c]
  <1>0. ResInv(r) /\ OfferInv(r)
    BY DEF SetupInv
  <1>1. CASE Notify(c)
    <2>1. /\ r.at = "run" /\ "conn" \in r.held
          /\ n = Moved(r, {"ref", "args"} \cup Engine, {}, {}, "run")
      BY <1>1 DEF SetupInv, Notify, Step, Moved, Connected, Told
    <2> QED
      BY <1>0, <2>1, NotifyKeeps, OfferStays
  <1>2. ASSUME NEW len \in Lengths, SaveToken(c, len) \/ SaveSession(c, len)
        PROVE  ResInv(n) /\ OfferInv(n)
    <2>1. /\ r.at = "run" /\ "conn" \in r.held
          /\ n = Moved(r, {"ref", "args"} \cup Engine, {}, {}, "run")
      BY <1>2 DEF SetupInv, SaveToken, SaveSession, Step, Moved, Connected, Told
    <2> QED
      BY <1>0, <2>1, NotifyKeeps, OfferStays
  <1>3. CASE Receive(c)
    <2>1. PICK final \in BOOLEAN :
            /\ r.at = "run" /\ "conn" \in r.held
            /\ n = [[Told(Account(r, Engine, {"recv_body"}, {}), {}) EXCEPT !.closing = final]
                      EXCEPT !.at = "run"]
      BY <1>3 DEF SetupInv, Receive, Connected, Step
    <2> DEFINE m == [[Told(Account(r, Engine, {"recv_body"}, {}), {}) EXCEPT !.closing = final]
                        EXCEPT !.at = "run"]
    <2>2. ResInv(m) /\ m.at = "run" /\ Same(m, r)
      BY <1>0, <2>1, ReceiveKeeps, Zenon
    <2> HIDE DEF m
    <2>3. n = m
      BY <2>1 DEF m
    <2> QED
      BY <1>0, <2>1, <2>2, <2>3, OfferStays
  <1>4. CASE IdleFires(c)
    <2> DEFINE closing == "conn" \in r.held
    <2>1. /\ r.at = "run"
          /\ \/ n = Moved([r EXCEPT !.watch = @ \ {"timeout"}], {"user_conn", "ctx", "args"},
                          {}, {}, "run")
             \/ n = Moved([r EXCEPT !.watch = @ \ {"timeout"}, !.closing = closing],
                          {"ref", "args"} \cup {"user_conn", "ctx", "engine", "schedule_info"},
                          {}, {}, "run")
      BY <1>4 DEF SetupInv, IdleFires, Step, Moved, Told
    <2> HIDE DEF closing
    <2> DEFINE l == Moved([r EXCEPT !.watch = @ \ {"timeout"}], {"user_conn", "ctx", "args"},
                          {}, {}, "run")
               m == Moved([r EXCEPT !.watch = @ \ {"timeout"}, !.closing = closing],
                          {"ref", "args"} \cup {"user_conn", "ctx", "engine", "schedule_info"},
                          {}, {}, "run")
    <2>2. ResInv(l) /\ l.at = "run" /\ Same(l, r)
      BY <1>0, <2>1, IdleRestartsKeeps, Zenon
    <2>3. ResInv(m) /\ m.at = "run" /\ Same(m, r)
      BY <1>0, <2>1, IdleExpiresKeeps, Zenon
    <2> HIDE DEF l, m
    <2>4. n = l \/ n = m
      BY <2>1 DEF l, m
    <2> QED
      BY <1>0, <2>1, <2>2, <2>3, <2>4, OfferStays
  <1>5. CASE Cancel(c)
    <2>1. /\ r.at \in {"told", "armed", "run"}
          /\ n = Moved([r EXCEPT !.cmd = "CANCEL", !.wake = TRUE], {"ctx"}, {}, {}, r.at)
      BY <1>5 DEF SetupInv, Cancel, Step, Moved
    <2> QED
      BY <1>0, <2>1, CancelKeeps, OfferStays
  <1>6. CASE ServeCancel(c)
    <2> DEFINE closing == "conn" \in r.held
               cmd == IF Short(r) THEN r.cmd ELSE "NONE"
    <2>1. /\ r.at = "run" /\ cmd # "DESTROY"
          /\ n = Moved([r EXCEPT !.wake = FALSE, !.cmd = cmd, !.closing = closing],
                       {"ctx", "tasks", "user_conn", "engine"}, {}, {}, "run")
      BY <1>6 DEF SetupInv, ServeCancel, Step, Moved
    <2> HIDE DEF closing, cmd
    <2> DEFINE m == Moved([r EXCEPT !.wake = FALSE, !.cmd = cmd, !.closing = closing],
                          {"ctx", "tasks", "user_conn", "engine"}, {}, {}, "run")
    <2>2. ResInv(m) /\ m.at = "run" /\ Same(m, r)
      BY <1>0, <2>1, ServeCancelKeeps, Zenon
    <2> HIDE DEF m
    <2>3. n = m
      BY <2>1 DEF m
    <2> QED
      BY <1>0, <2>1, <2>2, <2>3, OfferStays
  <1>7. CASE CloseNotify(c)
    <2>1. /\ r.at = "run" /\ "conn" \in r.held
          /\ n = Moved([r EXCEPT !.cmd = "DESTROY", !.wake = TRUE],
                       Engine \cup {"tasks", "schedule_info"}, {}, {"conn"}, "run")
      BY <1>7 DEF SetupInv, CloseNotify, Step, Moved, Connected
    <2> QED
      BY <1>0, <2>1, CloseNotifyKeeps, OfferStays
  <1>8. CASE ServeDestroy(c)
    <2> DEFINE x == [r EXCEPT !.wake = FALSE]
    <2>1. r.at = "run" /\ r.cmd = "DESTROY" /\ n = [CloseTask(x) EXCEPT !.at = "tail"]
      BY <1>8 DEF SetupInv, ServeDestroy, Step
    <2>2. Closable(x) /\ Same(x, r)
      BY <1>0, <2>1, ServeDestroyKeeps
    <2> HIDE DEF x
    <2>3. ResInv(n) /\ n.at = "tail" /\ Same(n, r)
      BY <2>1, <2>2, CloseTaskKeeps DEF Same
    <2> QED
      BY <1>0, <2>1, <2>3, OfferStays
  <1> QED
    BY <1>1, <1>2, <1>3, <1>4, <1>5, <1>6, <1>7, <1>8 DEF Run

\* After fail.
LEMMA TeardownStep ==
  ASSUME SetupInv, NEW c \in Calls, Teardown(c)
  PROVE  ResInv(call'[c]) /\ OfferInv(call'[c])
  <1> DEFINE r == call[c]
             n == call'[c]
  <1>0. ResInv(r) /\ OfferInv(r)
    BY DEF SetupInv
  <1>1. CASE StopWatchers(c)
    <2>1. r.at = "tail" /\ n = Moved([r EXCEPT !.watch = @ \ {"engine", "task"}], {"ctx"}, {}, {},
                                     "stopped")
      BY <1>1 DEF SetupInv, StopWatchers, Step, Moved
    <2> QED
      BY <1>0, <2>1, StopWatchersKeeps, OfferStays
  <1>2. CASE DestroyLoop(c)
    <2>1. r.at = "stopped" /\ n = Moved(r, {"ctx"}, {},
                       Set(r, {"loop", "backend_fd", "evpipe0", "evpipe1"}), "unlooped")
      BY <1>2 DEF SetupInv, DestroyLoop, Step, Moved
    <2> QED
      BY <1>0, <2>1, DestroyLoopKeeps, OfferStays
  <1>3. CASE DestroyEngine(c)
    <2>1. r.at = "unlooped" /\ n = Moved(r,
                       {"ctx"} \cup (IF "conn" \in r.held THEN Engine ELSE {}), {},
                       Set(r, {"engine"}) \cup (IF "conn" \in r.held THEN {"conn"} ELSE {}),
                       "unengined")
      BY <1>3 DEF SetupInv, DestroyEngine, Step, Moved
    <2> QED
      BY <1>0, <2>1, DestroyEngineKeeps, OfferStays
  <1>4. CASE FreeContext(c)
    <2>1. /\ r.at = "unengined"
          /\ n = Moved([r EXCEPT !.args = Nothing, !.offer = Nothing], {}, {},
                       {"ctx", "args"} \cup (IF Short(r) THEN {} ELSE {"queue"})
                         \cup Set(r, {"send_body", "recv_body"} \cup TaskObjects), "returned")
      BY <1>4 DEF SetupInv, FreeContext, Step, Moved
    <2>2. /\ ResInv(n) /\ n.at = "returned" /\ n.token = r.token /\ n.session = r.session
          /\ n.offer = Nothing /\ n.request = r.request
      BY <1>0, <2>1, FreeContextKeeps
    <2> HIDE DEF n
    <2> QED
      BY <1>0, <2>1, <2>2 DEF OfferInv, n
  <1> QED
    BY <1>1, <1>2, <1>3, <1>4 DEF Teardown

\* A step of one call leaves the records of the others alone.
LEMMA OthersStay ==
  ASSUME SetupInv, NEW c \in Calls, Prepare(c) \/ Task(c) \/ Run(c) \/ Teardown(c)
  PROVE  DOMAIN call' = Calls /\ \A d \in Calls \ {c} : call'[d] = call[d]
  <1>1. CASE Prepare(c)
    <2>1. ASSUME NEW p \in Asked, Ask(c, p)
          PROVE  DOMAIN call' = Calls /\ \A d \in Calls \ {c} : call'[d] = call[d]
      BY <2>1 DEF SetupInv, Ask, Step
    <2>2. CASE AskSession(c)
      BY <2>2 DEF SetupInv, AskSession, Step
    <2>3. CASE GetArgs(c)
      BY <2>3 DEF SetupInv, GetArgs, Step
    <2>4. CASE Resolve(c)
      BY <2>4 DEF SetupInv, Resolve, Step
    <2>5. CASE ResolveFails(c)
      BY <2>5 DEF SetupInv, ResolveFails, Step
    <2>6. CASE MakeContext(c)
      BY <2>6 DEF SetupInv, MakeContext, Step
    <2>7. CASE NewLoop(c)
      BY <2>7 DEF SetupInv, NewLoop, Step
    <2>8. CASE NewLoopFails(c)
      BY <2>8 DEF SetupInv, NewLoopFails, Step
    <2>9. CASE InitEngine(c)
      BY <2>9 DEF SetupInv, InitEngine, Step
    <2>10. CASE EngineFails(c)
      BY <2>10 DEF SetupInv, EngineFails, Step
    <2>11. CASE AlpnFails(c)
      BY <2>11 DEF SetupInv, AlpnFails, Step
    <2>12. CASE TellContext(c)
      BY <2>12 DEF SetupInv, TellContext, Step
    <2> QED
      BY <1>1, <2>1, <2>2, <2>3, <2>4, <2>5, <2>6, <2>7, <2>8, <2>9, <2>10, <2>11, <2>12
         DEF Prepare
  <1>2. CASE Task(c)
    <2>1. CASE StartTasks(c)
      BY <2>1 DEF SetupInv, StartTasks, Step
    <2>2. CASE CancelledBeforeTask(c)
      BY <2>2 DEF SetupInv, CancelledBeforeTask, Step
    <2>3. CASE SocketFails(c)
      BY <2>3 DEF SetupInv, SocketFails, Step
    <2>4. CASE Connect(c)
      BY <2>4 DEF SetupInv, Connect, Step
    <2>5. CASE ConnectFails(c)
      BY <2>5 DEF SetupInv, ConnectFails, Step
    <2> QED
      BY <1>2, <2>1, <2>2, <2>3, <2>4, <2>5 DEF Task
  <1>3. CASE Run(c)
    <2>1. ASSUME NEW len \in Lengths, SaveToken(c, len) \/ SaveSession(c, len)
          PROVE  DOMAIN call' = Calls /\ \A d \in Calls \ {c} : call'[d] = call[d]
      BY <2>1 DEF SetupInv, SaveToken, SaveSession, Step
    <2>2. CASE Notify(c)
      BY <2>2 DEF SetupInv, Notify, Step
    <2>3. CASE Receive(c)
      BY <2>3 DEF SetupInv, Receive, Step
    <2>4. CASE IdleFires(c)
      BY <2>4 DEF SetupInv, IdleFires, Step
    <2>5. CASE Cancel(c)
      BY <2>5 DEF SetupInv, Cancel, Step
    <2>6. CASE ServeCancel(c)
      BY <2>6 DEF SetupInv, ServeCancel, Step
    <2>7. CASE CloseNotify(c)
      BY <2>7 DEF SetupInv, CloseNotify, Step
    <2>8. CASE ServeDestroy(c)
      BY <2>8 DEF SetupInv, ServeDestroy, Step
    <2> QED
      BY <1>3, <2>1, <2>2, <2>3, <2>4, <2>5, <2>6, <2>7, <2>8 DEF Run
  <1>4. CASE Teardown(c)
    <2>1. CASE StopWatchers(c)
      BY <2>1 DEF SetupInv, StopWatchers, Step
    <2>2. CASE DestroyLoop(c)
      BY <2>2 DEF SetupInv, DestroyLoop, Step
    <2>3. CASE DestroyEngine(c)
      BY <2>3 DEF SetupInv, DestroyEngine, Step
    <2>4. CASE FreeContext(c)
      BY <2>4 DEF SetupInv, FreeContext, Step
    <2> QED
      BY <1>4, <2>1, <2>2, <2>3, <2>4 DEF Teardown
  <1> QED
    BY <1>1, <1>2, <1>3, <1>4

\* The cache keeps under a server's name what that server sent: a connection
\* saves what it is told under the name of the server it asked for.
LEMMA CacheKeeps ==
  ASSUME SetupInv, NEW c \in Calls, Prepare(c) \/ Task(c) \/ Run(c) \/ Teardown(c)
  PROVE  CacheInv'
  <1> DEFINE s == call[c].request.server
  <1>1. ASSUME NEW len \in Lengths, SaveToken(c, len) \/ SaveSession(c, len)
        PROVE  CacheInv'
    <2> DEFINE new == [from |-> s, len |-> len]
    <2>1. s \in Servers
      <3>1. ResInv(call[c]) /\ call[c].at = "run"
        BY <1>1 DEF SetupInv, SaveToken, SaveSession, Connected
      <3> QED
        BY <3>1, RequestParts DEF ResInv, Shaped
    <2>2. new \in TicketsOf(s)
      BY DEF TicketsOf
    <2>3. \/ cache' = [cache EXCEPT ![s].token = new]
          \/ cache' = [cache EXCEPT ![s].session = new]
      BY <1>1 DEF SaveToken, SaveSession
    <2> HIDE DEF new, s
    <2>4. DOMAIN cache' = Servers /\ \A t \in Servers \ {s} : cache'[t] = cache[t]
      BY <2>1, <2>3 DEF SetupInv, CacheInv
    <2>5. /\ cache[s] = [token |-> cache[s].token, session |-> cache[s].session]
          /\ cache[s].token \in TicketsOf(s) /\ cache[s].session \in TicketsOf(s)
      BY <2>1 DEF SetupInv, CacheInv
    <2>6. \/ cache'[s] = [token |-> new, session |-> cache[s].session]
          \/ cache'[s] = [token |-> cache[s].token, session |-> new]
      BY <2>1, <2>3, <2>5 DEF SetupInv, CacheInv
    <2>7. /\ cache'[s] = [token |-> cache'[s].token, session |-> cache'[s].session]
          /\ cache'[s].token \in TicketsOf(s) /\ cache'[s].session \in TicketsOf(s)
      BY <2>2, <2>5, <2>6
    <2> QED
      BY <2>4, <2>7 DEF SetupInv, CacheInv
  <1>2. CASE UNCHANGED cache
    BY <1>2 DEF SetupInv, CacheInv
  <1>3. CASE Prepare(c)
    BY <1>2, <1>3
       DEF Prepare, Ask, AskSession, GetArgs, Resolve, ResolveFails, MakeContext, NewLoop,
           NewLoopFails, InitEngine, EngineFails, AlpnFails, TellContext
  <1>4. CASE Task(c)
    BY <1>2, <1>4 DEF Task, StartTasks, CancelledBeforeTask, SocketFails, Connect, ConnectFails
  <1>5. CASE Run(c)
    BY <1>1, <1>2, <1>5 DEF Run, Notify, Receive, IdleFires, Cancel, ServeCancel, CloseNotify,
                            ServeDestroy
  <1>6. CASE Teardown(c)
    BY <1>2, <1>6 DEF Teardown, StopWatchers, DestroyLoop, DestroyEngine, FreeContext
  <1> QED
    BY <1>3, <1>4, <1>5, <1>6

\* Nothing is asked and nothing saved yet.
LEMMA SetupInit == Init => SetupInv
  <1> SUFFICES ASSUME Init PROVE SetupInv
    OBVIOUS
  <1>1. CacheInv
    BY DEF Init, CacheInv, TicketsOf
  <1>2. ResInv(Fresh)
    <2>1. /\ Fresh.at = "idle" /\ Fresh.held = {} /\ Fresh.ptr = {} /\ Fresh.watch = {}
          /\ Fresh.cmd = "NONE" /\ Fresh.destroys = 0 /\ Fresh.bad = {}
      BY DEF Fresh
    <2>2. IsRecord(Fresh)
      BY DEF Fresh, IsRecord, Fields
    <2>3. Shaped(Fresh)
      BY <2>1, <2>2 DEF Shaped, Places
    <2> QED
      BY <2>1, <2>3 DEF ResInv, Has, HasNot, Points, Watching
  <1>3. OfferInv(Fresh)
    BY DEF Fresh, OfferInv
  <1> QED
    BY <1>1, <1>2, <1>3 DEF Init, SetupInv

\* Every step of every call keeps what is true of all of them.
LEMMA SetupNext == SetupInv /\ [Next]_vars => SetupInv'
  <1> SUFFICES ASSUME SetupInv, [Next]_vars PROVE SetupInv'
    OBVIOUS
  <1>1. CASE UNCHANGED vars
    BY <1>1 DEF SetupInv, CacheInv, vars
  <1>2. CASE Load
    BY <1>2 DEF Load, SetupInv, CacheInv
  <1>3. ASSUME NEW c \in Calls, Prepare(c) \/ Task(c) \/ Run(c) \/ Teardown(c)
        PROVE  SetupInv'
    <2>1. ResInv(call'[c]) /\ OfferInv(call'[c])
      BY <1>3, PrepareStep, TaskStep, RunStep, TeardownStep
    <2>2. DOMAIN call' = Calls /\ \A d \in Calls \ {c} : call'[d] = call[d]
      BY <1>3, OthersStay
    <2>3. CacheInv'
      BY <1>3, CacheKeeps
    <2> QED
      BY <2>1, <2>2, <2>3 DEF SetupInv
  <1> QED
    BY <1>1, <1>2, <1>3 DEF Next

-----------------------------------------------------------------------------
(* The theorems. *)

\* The invariant: what each call holds, what its fields point to and what its
\* connection was offered, at each place of its thread.
THEOREM SetupInvariant == Spec => []SetupInv
  <1> QED
    BY SetupInit, SetupNext, PTL DEF Spec

\* No call touches an object it does not hold, or frees one twice, whatever fails
\* between get_args_params and the end of client_short_send or client_long_start.
THEOREM NothingIsMisused == Spec => []NoMisuse
  <1>1. SetupInv => NoMisuse
    BY DEF SetupInv, ResInv, NoMisuse
  <1> QED
    BY <1>1, SetupInvariant, PTL

\* An active watcher has its loop and its object, and a connection its engine,
\* socket, user data and loop.
THEOREM WatchersAreBacked == Spec => []Backed
  <1>1. ASSUME SetupInv, NEW c \in Calls
        PROVE  LET r == call[c] IN
               /\ r.watch # {} => {"loop", "ctx"} \subseteq r.held
               /\ {"socket", "timeout"} \cap r.watch # {} =>
                    {"user_conn", "socket"} \subseteq r.held
               /\ "conn" \in r.held => (Engine \cup {"socket", "args"}) \subseteq r.held
    <2> DEFINE r == call[c]
    <2>1. ResInv(r)
      BY <1>1 DEF SetupInv
    <2> HIDE DEF r
    <2>2. r.watch # {} => {"loop", "ctx"} \subseteq r.held
      BY <2>1 DEF ResInv, Watching
    <2>3. {"socket", "timeout"} \cap r.watch # {} => {"user_conn", "socket"} \subseteq r.held
      BY <2>1 DEF ResInv, Watching, Has
    <2>4. "conn" \in r.held => (Engine \cup {"socket", "args"}) \subseteq r.held
      BY <2>1 DEF ResInv, Has, HasNot, Engine
    <2> QED
      BY <2>2, <2>3, <2>4 DEF r
  <1>2. SetupInv => Backed
    BY <1>1 DEF Backed
  <1> QED
    BY <1>2, SetupInvariant, PTL

\* A call that returned has released everything but the reference of a call
\* without a task and the user_conn of a socket that could not be made.
THEOREM NothingIsLeft == Spec => []NothingLeft
  <1>1. SetupInv => NothingLeft
    BY DEF SetupInv, ResInv, Has, HasNot, Watching, NothingLeft
  <1> QED
    BY <1>1, SetupInvariant, PTL

\* A connection offers only whole tickets of its own server, with a limit on its
\* set-up and no header that took over the value of another.
THEOREM OffersAreSound == Spec => []OffersSound
  <1>1. ASSUME NEW r, r.offer # Nothing, ArgsSound(r.request, r.args), r.offer = Offer(r.args)
        PROVE  /\ r.offer.token \in Fitting(r.request.server, MaxToken)
               /\ r.offer.session \in Fitting(r.request.server, MaxSession)
               /\ r.offer.settings.init_idle_time_out > 0
               /\ r.offer.settings.idle_time_out # 0 =>
                    r.offer.settings.idle_time_out = r.request.readTimeOut * 1000
               /\ \A i \in DOMAIN r.args.headers :
                    r.args.headers[i].name \in {0, i} /\ r.args.headers[i].value \in {0, i}
    <2>1. /\ r.offer.token = r.args.token /\ r.offer.session = r.args.session
          /\ r.offer.settings.init_idle_time_out = r.args.conn_timeout * 1000
          /\ r.offer.settings.idle_time_out = r.args.read_timeout * 1000
      BY <1>1 DEF Offer, Settings
    <2>2. r.args.conn_timeout * 1000 > 0
      BY <1>1 DEF ArgsSound
    <2> QED
      BY <1>1, <2>1, <2>2 DEF ArgsSound
  <1>2. ASSUME SetupInv, NEW c \in Calls, call[c].offer # Nothing
        PROVE  ArgsSound(call[c].request, call[c].args) /\ call[c].offer = Offer(call[c].args)
    BY <1>2 DEF SetupInv, OfferInv
  <1>3. SetupInv => OffersSound
    BY <1>1, <1>2 DEF OffersSound, Fitting
  <1> QED
    BY <1>3, SetupInvariant, PTL

===============================================================================

------------------------------- MODULE Proxy -------------------------------
(***************************************************************************)
(* The coroutine-driven reverse proxy (net_components/proxy.hpp) with the  *)
(* awaiters that suspend its coroutines (task.hpp), and, external to the   *)
(* code, the descriptors, the poller's registrations, the clients and the  *)
(* upstreams.                                                              *)
(*                                                                         *)
(* One step of the loop thread is one system call of the coroutine it is   *)
(* running, or one event, accept(), reap or wait of the loop.  Coroutines  *)
(* that only pass a result up (read_until(), read_n(), write_all_async(),  *)
(* acquire_upstream(), connect_upstream()) are part of the caller: a frame *)
(* and the frames it awaits suspend and resume together.                   *)
(*                                                                         *)
(* Data travels in pieces, and a read() takes all that has arrived.  A     *)
(* request is a head, with a body behind it for some clients; clients send *)
(* the next one when they have the reply.  A response is a head that says  *)
(* how its body is delimited, and the body; it is shorter than 4096 bytes. *)
(***************************************************************************)
EXTENDS Naturals, Sequences, FiniteSets

CONSTANTS
  Clients,      \* client connections; each is served by one coroutine
  Upstreams,    \* "host:port" keys
  routes_,      \* the route table: a sequence of [prefix, up]
  Url,          \* what each client asks for
  Matches,      \* the pairs <<url, prefix>> for which prefix is one of url
  max_retries_,
  PoolDepth,    \* 64, the cap of release_upstream()
  AcceptBatch,  \* 128, the connections accept_clients() takes at a time
  Fds,          \* descriptor numbers
  Requests,     \* bound: how many requests each client sends
  WithBody,     \* clients whose requests have a body
  Framings,     \* how upstreams delimit bodies: "length", "eof", "chunked",
                \* "chunked-close" (chunked, and the connection is closed),
                \* "chunked-cut" (closed after the head)
  Cuts,         \* framings whose responses may be cut short
  AtOnce,       \* what connect() may say at once: "connected", "refused"
  Leavers,      \* clients that may close early
  Blocks,       \* writes that may find a full buffer: "send", "reply"
  MayStop,      \* whether somebody calls stop()
  None

ASSUME ProxyAssumption ==
  /\ Clients \cap Upstreams = {} /\ None \notin Clients \cup Upstreams \cup Fds
  /\ routes_ \in Seq([prefix : {routes_[i].prefix : i \in DOMAIN routes_}, up : Upstreams])
  /\ max_retries_ \in Nat /\ PoolDepth \in Nat /\ AcceptBatch \in Nat /\ Fds \subseteq Nat
  /\ Requests \in [Clients -> Nat \ {0}] /\ WithBody \subseteq Clients
  /\ Cuts \subseteq Framings /\ AtOnce \subseteq {"connected", "refused"}
  /\ Leavers \subseteq Clients /\ Blocks \subseteq {"send", "reply"}
  /\ MayStop \in BOOLEAN

VARIABLES
  \* clients, upstreams and kernel
  client,      \* each client is "new", "open" or "gone"
  sent,        \* pieces each client has sent
  wire,        \* those of them that have not been read
  got,         \* replies each client has received
  backlog,     \* connections waiting for accept()
  listen_edge, \* a connection arrived since the listen fd was last reported
  sock,        \* open descriptors, see Socket
  \* the proxy
  co,          \* the coroutine of each client, see Coroutine
  live_tasks_, \* the coroutine each client descriptor stands for
  pools_,      \* idle connections of each upstream
  healthy,     \* health_[u].healthy
  reg,         \* the poller's registration of each descriptor: [who, dir]
  \* the loop thread
  phase,       \* "wait", "events", "accept" or "stopped"
  batch,       \* events of the current iteration still to be handled
  accepted,    \* connections of the current accept_clients()
  active,      \* the client whose coroutine is running
  running_

users == <<client, sent, backlog, listen_edge>>
loop == <<phase, batch, accepted, active, running_>>
vars == <<users, wire, got, sock, co, live_tasks_, pools_, healthy, reg, loop>>

(* A piece of data is a part of the request, or of the response to it. *)
Piece(part, k, n) == [part |-> part, of |-> <<k, n>>]
Fin == [part |-> "fin", of |-> <<>>]
Eof(q) == q # <<>> /\ q[Len(q)] = Fin
Arrived(q) == SelectSeq(q, LAMBDA x : x # Fin)
Has(q, parts) == \E i \in DOMAIN q : q[i].part \in parts

Request(k, n) ==
  <<Piece("head", k, n)>> \o IF k \in WithBody THEN <<Piece("body", k, n)>> ELSE <<>>
RequestLen(k) == Len(Request(k, 1))
(* The piece after the first i that client k sends. *)
PieceAfter(k, i) == Request(k, (i \div RequestLen(k)) + 1)[(i % RequestLen(k)) + 1]

Heads == {"length", "eof", "chunked"}

(* What an upstream sends in answer to request rq. *)
Response(fr, rq) ==
  [i \in DOMAIN fr |-> IF fr[i] = "fin" THEN Fin ELSE [part |-> fr[i], of |-> rq]]
Layout(fr) ==
  CASE fr = "length" -> <<"length", "body">>
    [] fr = "eof" -> <<"eof", "body", "fin">>
    [] fr = "chunked" -> <<"chunked", "body", "last">>
    [] fr = "chunked-close" -> <<"chunked", "body", "last", "fin">>
    [] fr = "chunked-cut" -> <<"chunked", "fin">>

(* A coroutine frame: where it is, the request it is at, the attempt, its two
   descriptors, the response so far, whether a write has stopped half way, and
   whether it has the whole request. *)
Coroutine(at, f) ==
  [at |-> at, n |-> 1, attempt |-> 0, fd |-> f, up_fd |-> None, buf |-> <<>>,
   half |-> FALSE, whole |-> TRUE]
(* A socket: whom it is connected to; whether the send buffer is full; and, of one
   to an upstream, how far the connect is, what has arrived and not been read, the
   request the upstream has to answer, and the pieces of the answer it has not sent,
   which it may leave at that. *)
Socket(to, st) ==
  [to |-> to, full |-> FALSE, st |-> st, q |-> <<>>, req |-> None, todo |-> <<>>,
   cut |-> FALSE]
NoSocket == Socket(None, "none")
NoReg == [who |-> None, dir |-> "none"]
ListenEvent == [fd |-> None, who |-> None]

Init ==
  /\ client = [k \in Clients |-> "new"] /\ sent = [k \in Clients |-> 0]
  /\ wire = [k \in Clients |-> <<>>] /\ got = [k \in Clients |-> <<>>]
  /\ backlog = <<>> /\ listen_edge = FALSE
  /\ sock = [f \in Fds |-> NoSocket]
  /\ co = [k \in Clients |-> Coroutine("none", None)]
  /\ live_tasks_ = [f \in Fds |-> None]
  /\ pools_ = [u \in Upstreams |-> <<>>] /\ healthy = [u \in Upstreams |-> TRUE]
  /\ reg = [f \in Fds |-> NoReg]
  /\ phase = "wait" /\ batch = {} /\ accepted = 0 /\ active = None /\ running_ = TRUE

Free == {f \in Fds : sock[f] = NoSocket}
(* The kernel gives out the lowest free number. *)
Lowest(f) == f \in Free /\ \A g \in Free : f <= g
Close(f) == [sock EXCEPT ![f] = NoSocket]

----------------------------------------------------------------------------
(* The poller, as IoAwaiter and resume_handle() use it: add() fails when the
   descriptor is registered already, and IoAwaiter does not look; a fresh
   registration reports a descriptor that is ready at once. *)
Add(f, k, dir) ==
  IF reg[f] = NoReg THEN [reg EXCEPT ![f] = [who |-> k, dir |-> dir]] ELSE reg

Ready(f) ==
  \/ reg[f].dir = "R" /\ (IF sock[f].to \in Clients THEN wire[sock[f].to] ELSE sock[f].q) # <<>>
  \/ reg[f].dir = "W" /\ ~sock[f].full /\ sock[f].st # "connecting"

(* co_await IoAwaiter: the coroutine of k, now at `frame', waits for f and
   control goes back to whoever resumed it.  For a coroutine that has only just
   been started that is accept_clients(), which files it. *)
Await(k, frame, f, dir) ==
  /\ co' = [co EXCEPT ![k] = frame]
  /\ reg' = Add(f, k, dir)
  /\ active' = None
  /\ live_tasks_' = IF phase = "accept" THEN [live_tasks_ EXCEPT ![frame.fd] = k]
                                        ELSE live_tasks_
  /\ UNCHANGED <<phase, batch, accepted, running_>>

(* co_return of serve_client(): accept_clients() closes the descriptor of a
   coroutine that ends before it was filed; nobody closes it later. *)
Return(k) ==
  /\ co' = [co EXCEPT ![k] = Coroutine("done", co[k].fd)]
  /\ active' = None
  /\ sock' = IF phase = "accept" THEN Close(co[k].fd) ELSE sock
  /\ UNCHANGED <<live_tasks_, reg, phase, batch, accepted, running_>>

(* The coroutine goes on without suspending. *)
GoOn(k, frame) ==
  /\ co' = [co EXCEPT ![k] = frame]
  /\ UNCHANGED <<live_tasks_, reg, loop>>

(* What has arrived and not been read; read() finds nothing yet, or the end. *)
DropFirst(q, n) == SubSeq(q, n + 1, Len(q))
Nothing(q) == q = <<>>
AtEof(q) == q = <<Fin>>
Data(q) == ~Nothing(q) /\ ~AtEof(q)

----------------------------------------------------------------------------
(* serve_client(): the route of a request, the first whose prefix matches or else
   the last. *)
RouteOf(k) ==
  LET hits == {i \in DOMAIN routes_ : <<Url[k], routes_[i].prefix>> \in Matches}
  IN  routes_[IF hits = {} THEN Len(routes_)
                           ELSE CHOOSE i \in hits : \A j \in hits : i <= j].up

(* 502 Bad Gateway, which says Connection: close. *)
BadGateway(frame) == [frame EXCEPT !.at = "reply", !.up_fd = None, !.buf = <<>>, !.half = FALSE]

(* Routing and the health gate.  is_healthy() forgets a failure once the cooldown
   is over, which it may be or not. *)
Route(k, frame) ==
  \/ /\ routes_ # <<>>
     /\ healthy' = [healthy EXCEPT ![RouteOf(k)] = TRUE]
     /\ GoOn(k, [frame EXCEPT !.at = "acquire", !.attempt = 0])
  \/ /\ routes_ # <<>> => ~healthy[RouteOf(k)]
     /\ GoOn(k, BadGateway(frame)) /\ UNCHANGED healthy

(* The head, and the body if it came in the same read. *)
ReadRequest(k) ==
  LET c == co[k]
      data == Arrived(wire[k]) IN
  /\ c.at = "head"
  /\ UNCHANGED <<users, got, pools_>>
  /\ \/ /\ Data(wire[k])
        /\ wire' = [wire EXCEPT ![k] = DropFirst(@, Len(data))]
        /\ IF Len(data) < Len(Request(k, c.n))
           THEN GoOn(k, [c EXCEPT !.at = "body"]) /\ UNCHANGED healthy
           ELSE Route(k, c)
        /\ UNCHANGED sock
     \/ Nothing(wire[k]) /\ Await(k, c, c.fd, "R") /\ UNCHANGED <<sock, wire, healthy>>
     \/ AtEof(wire[k]) /\ Return(k) /\ UNCHANGED <<wire, healthy>>

(* The rest of the body; a client that closes here has its request forwarded as
   far as it got. *)
ReadBody(k) ==
  LET c == co[k] IN
  /\ c.at = "body"
  /\ UNCHANGED <<users, got, sock, pools_>>
  /\ \/ /\ Data(wire[k])
        /\ wire' = [wire EXCEPT ![k] = DropFirst(@, 1)] /\ Route(k, c)
     \/ Nothing(wire[k]) /\ Await(k, c, c.fd, "R") /\ UNCHANGED <<wire, healthy>>
     \/ AtEof(wire[k]) /\ Route(k, [c EXCEPT !.whole = FALSE]) /\ UNCHANGED wire

----------------------------------------------------------------------------
(* serve_client(): the attempts.  One that fails marks the upstream unhealthy
   and goes on to the next, if there is one.  The slip does not count them. *)
RetryForever(k) == [co[k] EXCEPT !.at = "acquire", !.up_fd = None, !.buf = <<>>, !.half = FALSE]
NextAttempt(k) ==
  IF co[k].attempt < max_retries_
  THEN [co[k] EXCEPT !.at = "acquire", !.attempt = @ + 1, !.up_fd = None, !.buf = <<>>,
                     !.half = FALSE]
  ELSE BadGateway(co[k])

mark_unhealthy(k) == [healthy EXCEPT ![RouteOf(k)] = FALSE]

FailAttempt(k) ==
  /\ GoOn(k, NextAttempt(k))
  /\ healthy' = mark_unhealthy(k)
  /\ sock' = Close(co[k].up_fd)

(* acquire_upstream(): the oldest pooled connection, or a new one.  The slip looks
   at front() and forgets pop_front(). *)
AcquireFront(k) ==
  /\ co[k].at = "acquire" /\ pools_[RouteOf(k)] # <<>>
  /\ GoOn(k, [co[k] EXCEPT !.at = "send", !.up_fd = Head(pools_[RouteOf(k)])])
  /\ UNCHANGED <<users, wire, got, sock, pools_, healthy>>
AcquirePooled(k) ==
  LET pool == pools_[RouteOf(k)] IN
  /\ co[k].at = "acquire" /\ pool # <<>>
  /\ pools_' = [pools_ EXCEPT ![RouteOf(k)] = Tail(@)]
  /\ GoOn(k, [co[k] EXCEPT !.at = "send", !.up_fd = Head(pool)])
  /\ UNCHANGED <<users, wire, got, sock, healthy>>

(* connect_upstream() up to the connect(), which completes, goes on or fails. *)
AcquireNew(k) ==
  /\ co[k].at = "acquire" /\ pools_[RouteOf(k)] = <<>>
  /\ UNCHANGED <<users, wire, got, pools_>>
  /\ \/ /\ \E f \in Fds :
              /\ Lowest(f)
              /\ \/ /\ "connected" \in AtOnce
                    /\ sock' = [sock EXCEPT ![f] = Socket(RouteOf(k), "open")]
                    /\ GoOn(k, [co[k] EXCEPT !.at = "send", !.up_fd = f])
                 \/ /\ sock' = [sock EXCEPT ![f] = Socket(RouteOf(k), "connecting")]
                    /\ Await(k, [co[k] EXCEPT !.at = "connect", !.up_fd = f], f, "W")
        /\ UNCHANGED healthy
     \/ /\ Free = {} \/ "refused" \in AtOnce
        /\ GoOn(k, NextAttempt(k)) /\ healthy' = mark_unhealthy(k)
        /\ UNCHANGED sock

(* ... and what SO_ERROR says when the descriptor turns writable. *)
Connect(k) ==
  /\ co[k].at = "connect"
  /\ UNCHANGED <<users, wire, got, pools_>>
  /\ IF sock[co[k].up_fd].st = "open"
     THEN GoOn(k, [co[k] EXCEPT !.at = "send"]) /\ UNCHANGED <<sock, healthy>>
     ELSE FailAttempt(k)

(* write_all_async() to the upstream. *)
SendRequest(k) ==
  LET c == co[k]
      f == c.up_fd IN
  /\ c.at = "send"
  /\ UNCHANGED <<users, wire, got, pools_>>
  /\ \/ /\ sock' = [sock EXCEPT ![f].req = IF c.whole /\ ~Eof(sock[f].q) THEN <<k, c.n>> ELSE None]
        /\ GoOn(k, [c EXCEPT !.at = "up_head", !.half = FALSE])
        /\ UNCHANGED healthy
     \/ /\ "send" \in Blocks /\ ~c.half
        /\ sock' = [sock EXCEPT ![f].full = TRUE]
        /\ Await(k, [c EXCEPT !.half = TRUE], f, "W")
        /\ UNCHANGED healthy
     \/ Eof(sock[f].q) /\ FailAttempt(k)

(* read_until() for the head of the response. *)
ReadHead(k) ==
  LET c == co[k]
      f == c.up_fd
      data == Arrived(sock[f].q) IN
  /\ c.at = "up_head"
  /\ UNCHANGED <<users, wire, got, pools_>>
  /\ \/ /\ Data(sock[f].q)
        /\ GoOn(k, [c EXCEPT !.buf = @ \o data,
                             !.at = IF Has(c.buf \o data, Heads) THEN "up_body" ELSE "up_head"])
        /\ sock' = [sock EXCEPT ![f].q = DropFirst(@, Len(data))]
        /\ UNCHANGED healthy
     \/ Nothing(sock[f].q) /\ Await(k, c, f, "R") /\ UNCHANGED <<sock, healthy>>
     \/ AtEof(sock[f].q) /\ FailAttempt(k)

(* release_upstream(), which serve_client() calls with reusable = true for every
   response it takes for complete, and the reply is ready. *)
Release(k) ==
  LET u == RouteOf(k)
      f == co[k].up_fd IN
  /\ GoOn(k, [co[k] EXCEPT !.at = "reply", !.up_fd = None])
  /\ IF Len(pools_[u]) >= PoolDepth
     THEN sock' = Close(f) /\ UNCHANGED pools_
     ELSE pools_' = [pools_ EXCEPT ![u] = Append(@, f)] /\ UNCHANGED sock

HeadOf(buf) == SelectSeq(buf, LAMBDA x : x.part \in Heads)[1].part

(* Nothing more is read: the body is there, or a Content-Length body ends early.
   The end of a chunked body is searched for as text, anywhere in what has been read;
   "last" stands for its first occurrence, so chunks are taken not to contain it.
   The slip is content with the head. *)
HeadIsEnough(k) == HeadOf(co[k].buf) = "length"
BodyComplete(k) ==
  LET buf == co[k].buf IN
  \/ HeadOf(buf) = "length" /\ (Has(buf, {"body"}) \/ AtEof(sock[co[k].up_fd].q))
  \/ HeadOf(buf) = "chunked" /\ Has(buf, {"last"})

(* The body.  By Content-Length read_n() asks for what is missing and takes no
   more; a chunked body without a size line waits for one, and goes round for ever
   once the upstream has closed; otherwise read_n(4096) is the next call. *)
ReadResponse(k) ==
  LET c == co[k]
      f == c.up_fd
      head == HeadOf(c.buf)
      size_line == Has(c.buf, {"body", "last"})
      n == IF head = "length" THEN 1 ELSE Len(Arrived(sock[f].q)) IN
  /\ c.at = "up_body"
  /\ UNCHANGED <<users, wire, got, healthy>>
  /\ \/ BodyComplete(k) /\ Release(k)
     \/ /\ ~BodyComplete(k) /\ (head = "eof" \/ size_line)
        /\ GoOn(k, [c EXCEPT !.at = "rest"]) /\ UNCHANGED <<sock, pools_>>
     \/ /\ ~BodyComplete(k) /\ head # "eof" /\ ~size_line
        /\ \/ /\ Data(sock[f].q)
              /\ GoOn(k, [c EXCEPT !.buf = @ \o SubSeq(sock[f].q, 1, n)])
              /\ sock' = [sock EXCEPT ![f].q = DropFirst(@, n)]
           \/ Nothing(sock[f].q) /\ Await(k, c, f, "R") /\ UNCHANGED sock
           \/ AtEof(sock[f].q) /\ GoOn(k, [c EXCEPT !.at = "spin"]) /\ UNCHANGED sock
        /\ UNCHANGED pools_

(* read_n(4096) again and again: each call returns when the upstream has closed,
   for a response is shorter than that, and an empty one ends the loop. *)
ReadRest(k) ==
  LET c == co[k]
      f == c.up_fd
      data == Arrived(sock[f].q) IN
  /\ c.at = "rest"
  /\ UNCHANGED <<users, wire, got, healthy>>
  /\ \/ /\ Data(sock[f].q)
        /\ GoOn(k, [c EXCEPT !.buf = @ \o data])
        /\ sock' = [sock EXCEPT ![f].q = DropFirst(@, Len(data))]
        /\ UNCHANGED pools_
     \/ Nothing(sock[f].q) /\ Await(k, c, f, "R") /\ UNCHANGED <<sock, pools_>>
     \/ AtEof(sock[f].q) /\ Release(k)

(* write_all_async() to the client.  After a 502, after a failed write and when
   the client asked for Connection: close (it does in its last request) the
   coroutine returns; otherwise it reads the next request. *)
Reply(k) ==
  LET c == co[k] IN
  /\ c.at = "reply"
  /\ UNCHANGED <<users, wire, pools_, healthy>>
  /\ \/ /\ got' = IF client[k] = "open" THEN [got EXCEPT ![k] = Append(@, c.buf)] ELSE got
        /\ IF c.buf = <<>> \/ c.n = Requests[k]
           THEN Return(k)
           ELSE GoOn(k, [Coroutine("head", c.fd) EXCEPT !.n = c.n + 1]) /\ UNCHANGED sock
     \/ /\ "reply" \in Blocks /\ ~c.half
        /\ sock' = [sock EXCEPT ![c.fd].full = TRUE]
        /\ Await(k, [c EXCEPT !.half = TRUE], c.fd, "W")
        /\ UNCHANGED got
     \/ client[k] = "gone" /\ Return(k) /\ UNCHANGED got

Run(k) ==
  /\ active = k
  /\ \/ ReadRequest(k) \/ ReadBody(k) \/ AcquirePooled(k) \/ AcquireNew(k) \/ Connect(k)
     \/ SendRequest(k) \/ ReadHead(k) \/ ReadResponse(k) \/ ReadRest(k) \/ Reply(k)

----------------------------------------------------------------------------
(* loop(): wait() returns what is ready; with nothing ready it times out, and the
   loop looks at running_ again. *)
Wait ==
  /\ phase = "wait" /\ running_
  /\ batch' = {[fd |-> f, who |-> reg[f].who] : f \in {g \in Fds : Ready(g)}}
              \cup (IF listen_edge THEN {ListenEvent} ELSE {})
  /\ batch' # {}
  /\ phase' = "events" /\ listen_edge' = FALSE
  /\ UNCHANGED <<client, sent, backlog, wire, got, sock, co, live_tasks_, pools_, healthy,
                 reg, accepted, active, running_>>

(* resume_handle(): the registration goes first, then the coroutine runs.  The slip
   leaves the registration in place. *)
ResumeOnly(e) ==
  /\ phase = "events" /\ active = None
  /\ e \in batch /\ e # ListenEvent
  /\ batch' = batch \ {e} /\ active' = e.who
  /\ UNCHANGED <<users, wire, got, sock, co, live_tasks_, pools_, healthy, reg, phase, accepted,
                 running_>>
Resume(e) ==
  /\ phase = "events" /\ active = None
  /\ e \in batch /\ e # ListenEvent
  /\ batch' = batch \ {e}
  /\ reg' = [reg EXCEPT ![e.fd] = NoReg]
  /\ active' = e.who
  /\ UNCHANGED <<users, wire, got, sock, co, live_tasks_, pools_, healthy, phase, accepted, running_>>

BeginAccept ==
  /\ phase = "events" /\ active = None /\ ListenEvent \in batch
  /\ batch' = batch \ {ListenEvent} /\ phase' = "accept"
  /\ UNCHANGED <<users, wire, got, sock, co, live_tasks_, pools_, healthy, reg, accepted, active,
                 running_>>

(* accept_clients(): a connection, the coroutine for it and its first resume. *)
CanAccept == accepted < AcceptBatch /\ backlog # <<>> /\ Free # {}
Accept ==
  /\ phase = "accept" /\ active = None /\ CanAccept
  /\ LET k == Head(backlog) IN
     /\ \E f \in Fds :
          /\ Lowest(f)
          /\ sock' = [sock EXCEPT ![f] = Socket(k, "open")]
          /\ co' = [co EXCEPT ![k] = Coroutine("head", f)]
     /\ active' = k
  /\ backlog' = Tail(backlog) /\ accepted' = accepted + 1
  /\ UNCHANGED <<client, sent, listen_edge, wire, got, live_tasks_, pools_, healthy, reg,
                 phase, batch, running_>>

(* ... until accept() fails, for nobody waits or no descriptor is free, or the
   batch is full. *)
EndAccept ==
  /\ phase = "accept" /\ active = None /\ ~CanAccept
  /\ phase' = "events" /\ accepted' = 0
  /\ UNCHANGED <<users, wire, got, sock, co, live_tasks_, pools_, healthy, reg, batch, active,
                 running_>>

(* The end of an iteration: reap_finished_tasks(). *)
Reap ==
  /\ phase = "events" /\ batch = {} /\ active = None
  /\ live_tasks_' = [f \in Fds |-> IF live_tasks_[f] # None /\ co[live_tasks_[f]].at = "done"
                                   THEN None ELSE live_tasks_[f]]
  /\ phase' = "wait"
  /\ UNCHANGED <<users, wire, got, sock, co, pools_, healthy, reg, batch, accepted, active,
                 running_>>

(* stop(), on another thread: the loop leaves at its next look at running_, and
   after the join stop() destroys the coroutines and closes what is pooled. *)
Stop ==
  /\ MayStop /\ running_
  /\ running_' = FALSE
  /\ UNCHANGED <<users, wire, got, sock, co, live_tasks_, pools_, healthy, reg, phase, batch,
                 accepted, active>>

ClosePooled ==
  /\ phase' = "stopped"
  /\ live_tasks_' = [f \in Fds |-> None]
  /\ co' = [k \in Clients |-> IF \E f \in Fds : live_tasks_[f] = k
                              THEN Coroutine("none", None) ELSE co[k]]
  /\ sock' = [f \in Fds |-> IF \E u \in Upstreams : \E i \in DOMAIN pools_[u] : pools_[u][i] = f
                            THEN NoSocket ELSE sock[f]]
  /\ pools_' = [u \in Upstreams |-> <<>>]
  /\ reg' = [f \in Fds |-> NoReg]
  /\ UNCHANGED <<users, wire, got, healthy, batch, accepted, active, running_>>
(* The slip waits for the coroutines to finish. *)
FinishDrained ==
  /\ phase = "wait" /\ ~running_ /\ \A f \in Fds : live_tasks_[f] = None
  /\ ClosePooled
FinishStop == phase = "wait" /\ ~running_ /\ ClosePooled

LoopStep ==
  \/ Wait \/ BeginAccept \/ Accept \/ EndAccept \/ Reap \/ FinishStop
  \/ \E e \in batch : Resume(e)
  \/ \E k \in Clients : Run(k)

----------------------------------------------------------------------------
(* External: clients. *)
ClientConnect(k) ==
  /\ client[k] = "new"
  /\ client' = [client EXCEPT ![k] = "open"]
  /\ backlog' = Append(backlog, k) /\ listen_edge' = TRUE
  /\ UNCHANGED <<sent, wire, got, sock, co, live_tasks_, pools_, healthy, reg, loop>>

(* The next piece, once every earlier request has its reply, and none was a 502. *)
ClientSend(k) ==
  /\ client[k] = "open" /\ sent[k] < Requests[k] * RequestLen(k)
  /\ LET x == PieceAfter(k, sent[k]) IN
     /\ x.of[2] <= Len(got[k]) + 1 /\ \A i \in DOMAIN got[k] : got[k][i] # <<>>
     /\ wire' = [wire EXCEPT ![k] = Append(@, x)]
  /\ sent' = [sent EXCEPT ![k] = @ + 1]
  /\ UNCHANGED <<client, backlog, listen_edge, got, sock, co, live_tasks_, pools_, healthy, reg,
                 loop>>

ClientLeave(k) ==
  /\ client[k] = "open" /\ k \in Leavers
  /\ client' = [client EXCEPT ![k] = "gone"]
  /\ wire' = [wire EXCEPT ![k] = Append(@, Fin)]
  /\ UNCHANGED <<sent, backlog, listen_edge, got, sock, co, live_tasks_, pools_, healthy, reg,
                 loop>>

(* What happens at the far end of a socket touches the socket only. *)
FarEnd(f, s) ==
  /\ sock' = [sock EXCEPT ![f] = s]
  /\ UNCHANGED <<users, wire, got, co, live_tasks_, pools_, healthy, reg, loop>>

(* A peer reads, or its connection breaks: there is room in the send buffer. *)
Drain(f) == sock[f].full /\ FarEnd(f, [sock[f] EXCEPT !.full = FALSE])

(* External: upstreams.  A connection that was under way completes or not. *)
Connected(f) ==
  /\ sock[f].st = "connecting"
  /\ \E st \in {"open", "refused"} : FarEnd(f, [sock[f] EXCEPT !.st = st])

(* It answers a request it has in full, in the form it likes, piece by piece. *)
Answer(f) ==
  /\ sock[f].req # None /\ sock[f].todo = <<>>
  /\ \E fr \in Framings :
        LET r == Response(Layout(fr), sock[f].req) IN
        FarEnd(f, [sock[f] EXCEPT !.q = Append(@, r[1]), !.req = None, !.todo = Tail(r),
                                  !.cut = fr \in Cuts])

SendPiece(f) ==
  /\ sock[f].todo # <<>>
  /\ LET x == Head(sock[f].todo) IN
     FarEnd(f, [sock[f] EXCEPT !.q = Append(@, x), !.todo = Tail(@),
                               !.req = IF x = Fin THEN None ELSE @])

(* It closes: an idle connection, one whose request it has not answered, or, for
   the framings in Cuts, in the middle of a response. *)
CloseByPeer(f) ==
  /\ sock[f].to \in Upstreams /\ sock[f].st = "open" /\ ~Eof(sock[f].q)
  /\ sock[f].todo = <<>> \/ sock[f].cut
  /\ FarEnd(f, [sock[f] EXCEPT !.q = Append(@, Fin), !.req = None, !.todo = <<>>])

PeerStep(f) == Drain(f) \/ Connected(f) \/ Answer(f) \/ SendPiece(f) \/ CloseByPeer(f)

Next ==
  \/ LoopStep \/ Stop
  \/ \E k \in Clients : ClientConnect(k) \/ ClientSend(k) \/ ClientLeave(k)
  \/ \E f \in Fds : PeerStep(f)

Spec == Init /\ [][Next]_vars

(* The loop thread runs; a peer that has stopped reading starts again or goes, and an
   upstream finishes the connects, requests and responses it has begun, or closes. *)
Fairness ==
  /\ WF_vars(LoopStep)
  /\ \A f \in Fds : WF_vars(Drain(f) \/ Connected(f) \/ Answer(f) \/ SendPiece(f))
FairSpec == Spec /\ Fairness

----------------------------------------------------------------------------
(* What a coroutine that is suspended at `at' waits for. *)
AwaitedFd(k) == IF co[k].at \in {"head", "body", "reply"} THEN co[k].fd ELSE co[k].up_fd
AwaitedDir(k) == IF co[k].at \in {"connect", "send", "reply"} THEN "W" ELSE "R"
Suspended(k) == active # k /\ co[k].at \notin {"none", "done"}

TypeOK ==
  /\ client \in [Clients -> {"new", "open", "gone"}] /\ listen_edge \in BOOLEAN
  /\ \A f \in Fds : sock[f].to \in Clients \cup Upstreams \cup {None}
  /\ live_tasks_ \in [Fds -> Clients \cup {None}] /\ healthy \in [Upstreams -> BOOLEAN]
  /\ reg \in [Fds -> [who : Clients \cup {None}, dir : {"none", "R", "W"}]]
  /\ phase \in {"wait", "events", "accept", "stopped"} /\ active \in Clients \cup {None}

(* Every suspended coroutine is filed and registered on exactly the descriptor,
   and for the direction, it waits for; no other registration exists; and an event
   not yet handled still names a coroutine suspended on its descriptor.  So
   resume_handle() never resumes a frame that is running, finished or destroyed,
   and no coroutine waits for an event that cannot come. *)
HandlesAreSuspended ==
  /\ \A k \in Clients : Suspended(k) =>
        /\ live_tasks_[co[k].fd] = k
        /\ reg[AwaitedFd(k)] = [who |-> k, dir |-> AwaitedDir(k)]
  /\ \A f \in Fds : reg[f] # NoReg => Suspended(reg[f].who) /\ AwaitedFd(reg[f].who) = f
  /\ \A e \in batch \ {ListenEvent} : reg[e.fd].who = e.who /\ e.who # None

(* While the proxy runs, every open upstream connection has exactly one owner: it
   is pooled once, for its own upstream, or one unfinished coroutine holds it, whose
   request is routed there; and pools and coroutines hold open connections only. *)
ConnectionsHaveOneOwner ==
  LET Holders(f) == {k \in Clients : co[k].up_fd = f /\ co[k].at \notin {"none", "done"}}
      Places(f) == {p \in Upstreams \X (1..PoolDepth) :
                       p[2] <= Len(pools_[p[1]]) /\ pools_[p[1]][p[2]] = f}
  IN
  phase # "stopped" =>
    \A f \in Fds :
      /\ Cardinality(Holders(f)) + Cardinality(Places(f)) = (IF sock[f].to \in Upstreams THEN 1 ELSE 0)
      /\ \A k \in Holders(f) : sock[f].to = RouteOf(k)
      /\ \A p \in Places(f) : sock[f].to = p[1]

(* The i-th reply of a client is a 502 or the response to its i-th request, from
   its first piece on, without anything left over from another response. *)
RepliesAreOwn ==
  \A k \in Clients : \A i \in DOMAIN got[k] :
    LET r == got[k][i]
        whole(fr) == Arrived(Response(Layout(fr), <<k, i>>)) IN
    r = <<>> \/ \E fr \in Framings : \E n \in 1..Len(whole(fr)) : r = SubSeq(whole(fr), 1, n)

(* The proxy's one thread is caught in the loop of ReadResponse that never suspends. *)
Spinning == \E k \in Clients : co[k].at = "spin"

(* Unless the proxy is stopped or the client leaves, a client that has sent a request
   in full gets its reply: no wait of the coroutine is for ever.  The exception is a
   chunked response that ends before its first size line, which stops the thread for
   all clients (README, "Where comments and code part"). *)
AwaitsReply(k) == sent[k] >= (Len(got[k]) + 1) * RequestLen(k)
RequestsAnswered ==
  \A k \in Clients :
    AwaitsReply(k) ~> ~AwaitsReply(k) \/ client[k] = "gone" \/ ~running_ \/ Spinning

(* stop() returns, whatever the coroutines are waiting for, unless one of them never
   comes to wait: the join in stop() then hangs. *)
StopReturns == ~running_ ~> phase = "stopped" \/ Spinning

(* "EOF - server closed (Connection: close path)": a client that has the reply to
   its last request, which asks for Connection: close, sees its connection closed. *)
ClosedAfterLastReply ==
  \A k \in Clients :
    Len(got[k]) = Requests[k] ~> (\A f \in Fds : sock[f].to # k) \/ client[k] = "gone" \/ ~running_

============================================================================

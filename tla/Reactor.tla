------------------------------ MODULE Reactor ------------------------------
(***************************************************************************)
(* One reactor shard (src/muses/net/reactor.hpp): the reactor thread, the  *)
(* workers that run the handler, the outbox between them, and, external to *)
(* the code, the kernel's descriptors, its edge-triggered epoll instance   *)
(* and the clients.                                                        *)
(*                                                                         *)
(* The reactor thread takes one step per event of a batch, per accept(),   *)
(* per handback and per sweep; a worker one per push, close() and wakeup().*)
(* A response is Parts write()s long and a request is two fragments, so an *)
(* event may end inside a request.  The read loop of an event is one step: *)
(* what arrives while it runs counts as having been there, and how the     *)
(* data falls into read()s shows in where the first job is cut (Cuts).     *)
(***************************************************************************)
EXTENDS Naturals, Sequences, FiniteSets

CONSTANTS
  Clients,         \* client sockets
  Fds,             \* descriptor numbers the process may use for clients
  OutboxCapacity,  \* cells of outbox_
  MaxConnections,  \* max_connections_; 0 switches the gate off
  IdleSweep,       \* idle_timeout_ # 0
  Hangups,         \* how clients may leave: "fin" (orderly), "rst" (reset)
  MayStop,         \* whether somebody calls stop()
  Failures,        \* calls that may fail: "wait", "add" (of the poller), "accept"
  Fragments,       \* bound: how many request fragments each client sends
  AcceptBatch,     \* kAcceptBatch
  Parts,           \* bound: write() calls a response needs
  None             \* no client, no connection, no response

ASSUME ReactorAssumption ==
  /\ Fds \subseteq Nat \ {0} /\ OutboxCapacity \in Nat /\ MaxConnections \in Nat
  /\ IdleSweep \in BOOLEAN /\ MayStop \in BOOLEAN
  /\ Hangups \subseteq {"fin", "rst"} /\ Failures \subseteq {"wait", "add", "accept"}
  /\ AcceptBatch \in Nat \ {0} /\ Fragments \in [Clients -> Nat] /\ Parts \in Nat \ {0}

VARIABLES
  \* the kernel and the clients
  backlog,      \* connections waiting for accept()
  left,         \* how each client is: "new", "no" (has not left), "fin", "rst"
  sent,         \* fragments each client has sent
  listen_edge,  \* a connection arrived since the listen fd was last reported
  \* the shard: one record, so that handlers can be composed as functions
  s,
  \* the reactor thread and the workers
  phase,        \* where loop() is: "check", "wait", "events", "outbox", "stopped"
  batch,        \* events of the current iteration still to be handled
  accepted,     \* accepts of the current accept_all()
  running,      \* running_
  outbox        \* outbox_: handbacks [fd, keep, resp]

vars == <<backlog, left, sent, listen_edge, s, phase, batch, accepted, running, outbox>>
kernel == <<backlog, left, sent, listen_edge>>
loop == <<phase, batch, accepted, running>>

(* The listening descriptor, and the only event it has. *)
listen_fd == 0
ListenEvent == [fd |-> listen_fd, mask |-> {"readable"}]

(* Fields of s.  owner: which client an open descriptor belongs to; interest
   and edge: the poller's registration and its pending edge; unread: fragments
   waiting at a client's socket; full: clients whose send buffer is full; got:
   responses a client has received; conns: connections_; jobs: requests with
   the workers, [fd, who, n, at]. *)
NoConn == None

(* A fresh Connection.  who and next are ghosts: the client it was accepted
   for, and the number of jobs carved out of its buffer. *)
NewConn(k) ==
  [who |-> k, next |-> 0, buf |-> 0, dispatched |-> FALSE, writing |-> FALSE,
   resp |-> None, parts |-> 0, keep |-> FALSE]

(* A response is named by the job it answers. *)
Replies == (Clients \X (Nat \ {0})) \cup {None}
Connection ==
  [who : Clients, next : Nat, buf : Nat, dispatched : BOOLEAN, writing : BOOLEAN,
   resp : Replies, parts : Nat, keep : BOOLEAN]

ASSUME NoneAssumption == None \notin Clients /\ None \notin Connection

Init ==
  /\ backlog = <<>> /\ listen_edge = FALSE
  /\ left = [k \in Clients |-> "new"]
  /\ sent = [k \in Clients |-> 0]
  /\ s = [conns |-> [f \in Fds |-> NoConn], owner |-> [f \in Fds |-> None],
          interest |-> [f \in Fds |-> "none"], edge |-> [f \in Fds |-> FALSE],
          unread |-> [k \in Clients |-> 0], got |-> [k \in Clients |-> <<>>],
          full |-> {}, jobs |-> {}]
  /\ phase = "check" /\ batch = {} /\ accepted = 0 /\ running = TRUE
  /\ outbox = <<>>

Live == {f \in Fds : s.conns[f] # NoConn}
Serves(k) == {f \in Fds : s.owner[f] = k}
Waits(k) == \E i \in DOMAIN backlog : backlog[i] = k

-----------------------------------------------------------------------------
(* The handlers, as functions of the shard *)

(* close_connection(): nothing to do without an entry; otherwise poller_->del,
   ::close of whatever the descriptor is by now, erase.  The slip forgets the
   ::close. *)
EraseOnly(st, D) ==
  LET here == {f \in D : st.conns[f] # NoConn}
      At(fn, v) == [f \in Fds |-> IF f \in here THEN v ELSE fn[f]]
  IN  [st EXCEPT !.conns = At(@, NoConn), !.interest = At(@, "none"),
                 !.edge = At(@, FALSE)]

CloseAll(st, D) ==
  LET here == {f \in D : st.conns[f] # NoConn}
      At(fn, v) == [f \in Fds |-> IF f \in here THEN v ELSE fn[f]]
  IN  [st EXCEPT !.conns = At(@, NoConn), !.owner = At(@, None),
                 !.interest = At(@, "none"), !.edge = At(@, FALSE)]

close_connection(st, f) == CloseAll(st, {f})

(* dispatch_to_worker(): carve [0, scan_pos), which is c requests, off the buffer and
   hand it to the pool.  The slip forgets to set the re-entry guard. *)
JobOf(f, c) == [fd |-> f, who |-> c.who, n |-> c.next + 1, at |-> "run"]

DispatchUnguarded(st, f, c) ==
  LET conn == st.conns[f]
  IN  [st EXCEPT !.conns[f] = [conn EXCEPT !.next = @ + 1, !.buf = @ - 2 * c],
                 !.jobs = @ \cup {JobOf(f, conn)}]

dispatch_to_worker(st, f, c) ==
  LET conn == st.conns[f]
  IN  [st EXCEPT !.conns[f] = [conn EXCEPT !.dispatched = TRUE, !.next = @ + 1,
                                           !.buf = @ - 2 * c],
                 !.jobs = @ \cup {JobOf(f, conn)}]

(* The read loop of on_client_event() and drain_into_buffer(): everything
   there is goes into read_buf; a peer that has left, or a descriptor that is
   not open any more, closes the connection. *)
ReadAll(st, f) ==
  LET k == st.owner[f]
  IN  IF k = None \/ left[k] \in {"fin", "rst"}
      THEN close_connection(st, f)
      ELSE [st EXCEPT !.conns[f].buf = @ + st.unread[k], !.unread[k] = 0]

(* Where on_client_event() may cut, in requests: scan_pos is behind the first end
   that the last read() saw, and three bytes before the end of the buffer if that
   read() saw none.  One read() of everything leaves it behind the first request;
   several may leave it behind any (RequestScan has the bytes).  What a cut leaves of
   a fragment counts as that fragment. *)
Cuts(st, f) ==
  LET conn == st.conns[f]
      k == st.owner[f]
  IN  IF conn = NoConn \/ k = None THEN {1}
      ELSE {1} \cup 1..((conn.buf + st.unread[k]) \div 2)

(* Dispatch what the scan of on_client_event() has found complete, or, with c = 1,
   what check_buffered_request() does. *)
DispatchIfComplete(st, f, c) ==
  IF st.conns[f] # NoConn /\ st.conns[f].buf >= 2 * c
  THEN dispatch_to_worker(st, f, c) ELSE st

(* finish_response(): re-arm, then the speculative drain for the edges that
   were swallowed while dispatched; the slip leaves both out. *)
FinishNoRearm(st, f) ==
  IF ~st.conns[f].keep
  THEN close_connection(st, f)
  ELSE DispatchIfComplete([st EXCEPT !.conns[f].dispatched = FALSE], f, 1)

finish_response(st, f) ==
  IF ~st.conns[f].keep
  THEN close_connection(st, f)
  ELSE DispatchIfComplete(
         ReadAll([st EXCEPT !.conns[f].dispatched = FALSE, !.interest[f] = "R",
                            !.edge[f] = TRUE], f), f, 1)

(* continue_write() when p parts remain after try_write(); the write fails
   when the peer has reset the connection or the descriptor is closed. *)
continue_write(st, f, p) ==
  LET c == st.conns[f]
      k == st.owner[f]
  IN  IF k = None \/ left[k] = "rst"
      THEN close_connection(st, f)
      ELSE IF p > 0
      THEN [st EXCEPT !.conns[f] = [c EXCEPT !.writing = TRUE, !.parts = p],
                      !.interest[f] = "W", !.edge[f] = TRUE, !.full = @ \cup {k}]
      ELSE finish_response(
             [st EXCEPT !.got[k] = Append(@, c.resp),
                        !.conns[f] = [c EXCEPT !.writing = FALSE, !.resp = None,
                                               !.parts = 0]], f)

(* begin_write() and what drain_outbox() does with one handback. *)
Handback(st, hb, p) ==
  IF st.conns[hb.fd] = NoConn THEN st
  ELSE IF hb.resp = None /\ ~hb.keep THEN close_connection(st, hb.fd)
  ELSE continue_write(
         [st EXCEPT !.conns[hb.fd] = [@ EXCEPT !.resp = hb.resp,
                                               !.keep = hb.keep]], hb.fd, p)

(* on_client_event(): Closed first, then Writable, then Readable; a connection
   whose request is with a worker is left alone. *)
ReadEvent(st, f, c) ==
  IF st.conns[f] = NoConn \/ st.conns[f].dispatched THEN st
  ELSE DispatchIfComplete(ReadAll(st, f), f, c)

on_client_event(st, f, mask, p, c) ==
  IF "closed" \in mask THEN close_connection(st, f)
  ELSE IF "writable" \in mask
  THEN IF st.conns[f] # NoConn /\ st.conns[f].writing
       THEN continue_write(st, f, p) ELSE st
  ELSE IF "readable" \in mask THEN ReadEvent(st, f, c) ELSE st

-----------------------------------------------------------------------------
(* Clients and kernel (external) *)

(* An arrival or a drained send buffer raises the edge of the descriptor. *)
Touched(k) == [f \in Fds |-> s.edge[f] \/ s.owner[f] = k]

Connect(k) ==
  /\ left[k] = "new" /\ left' = [left EXCEPT ![k] = "no"]
  /\ backlog' = Append(backlog, k)
  /\ listen_edge' = TRUE
  /\ UNCHANGED <<sent, s, loop, outbox>>

Send(k) ==
  /\ left[k] = "no" /\ sent[k] < Fragments[k]
  /\ sent' = [sent EXCEPT ![k] = @ + 1]
  /\ s' = [s EXCEPT !.unread[k] = @ + 1, !.edge = Touched(k)]
  /\ UNCHANGED <<backlog, left, listen_edge, loop, outbox>>

Hangup(k) ==
  /\ left[k] = "no"
  /\ \E how \in Hangups : left' = [left EXCEPT ![k] = how]
  /\ s' = [s EXCEPT !.edge = Touched(k)]
  /\ UNCHANGED <<backlog, sent, listen_edge, loop, outbox>>

(* The client reads, so that there is room in the send buffer again. *)
Drain(k) ==
  /\ k \in s.full
  /\ s' = [s EXCEPT !.full = @ \ {k}, !.edge = Touched(k)]
  /\ UNCHANGED <<kernel, loop, outbox>>

(* What epoll reports for a descriptor with a pending edge.  EPOLLRDHUP is not
   subscribed to, so an orderly close only makes the socket readable; a reset
   is reported as EPOLLERR | EPOLLHUP, whatever the interest. *)
Mask(f) ==
  LET k == s.owner[f]
  IN  IF s.interest[f] = "none" \/ k = None THEN {}
      ELSE IF left[k] = "rst" THEN {"readable", "writable", "closed"}
      ELSE {m \in {"readable", "writable"} :
              \/ m = "writable" /\ s.interest[f] = "W" /\ k \notin s.full
              \/ m = "readable" /\ s.interest[f] = "R"
                 /\ (s.unread[k] > 0 \/ left[k] = "fin")}

-----------------------------------------------------------------------------
(* The reactor thread *)

(* The condition of loop(). *)
LoopCheck ==
  /\ phase = "check" /\ running
  /\ phase' = "wait"
  /\ UNCHANGED <<kernel, s, batch, accepted, running, outbox>>

(* poller_->wait(): one event per descriptor, edges consumed.  An empty batch
   is the 100ms timeout or a wakeup(). *)
Wait ==
  LET due == {f \in Fds : s.edge[f] /\ Mask(f) # {}}
  IN  /\ phase = "wait"
      /\ batch' = {[fd |-> f, mask |-> Mask(f)] : f \in due}
                  \cup (IF listen_edge THEN {ListenEvent} ELSE {})
      /\ s' = [s EXCEPT !.edge = [f \in Fds |-> @[f] /\ f \notin due]]
      /\ listen_edge' = FALSE
      /\ phase' = "events" /\ accepted' = 0
      /\ UNCHANGED <<backlog, left, sent, running, outbox>>

(* A wait() that fails starts the loop over. *)
WaitFails ==
  /\ "wait" \in Failures /\ phase = "wait" /\ phase' = "check"
  /\ UNCHANGED <<kernel, s, batch, accepted, running, outbox>>

(* What may remain of a response of n parts after a write to f: nothing is
   taken while the send buffer is full, and something is when f was reported
   writable. *)
Remaining(f, n) == IF s.owner[f] \in s.full THEN {n} ELSE 0..n

ClientEvent ==
  /\ phase = "events"
  /\ \E e \in batch :
       /\ e.fd # listen_fd
       /\ \E p \in IF s.conns[e.fd] = NoConn THEN {0}
                   ELSE Remaining(e.fd, s.conns[e.fd].parts) :
          \E c \in Cuts(s, e.fd) :
            /\ "writable" \in e.mask => p = 0 \/ p < s.conns[e.fd].parts
            /\ s' = on_client_event(s, e.fd, e.mask, p, c)
       /\ batch' = batch \ {e}
  /\ UNCHANGED <<kernel, phase, accepted, running, outbox>>

(* The gate of accept_all(). *)
AtCap(n) == MaxConnections # 0 /\ n >= MaxConnections

(* Whether the accept loop goes round again. *)
CanAccept == /\ accepted < AcceptBatch
             /\ backlog # <<>> /\ ~AtCap(Cardinality(Live))
             /\ \E f \in Fds : s.owner[f] = None

(* One round of accept_all(): the kernel hands out the lowest free number;
   emplace() leaves an entry that is still there as it is.  When poller_->add()
   fails, the descriptor is closed and the entry erased. *)
AcceptOne ==
  LET k == Head(backlog)
  IN  /\ phase = "events" /\ ListenEvent \in batch
      /\ CanAccept
      /\ backlog' = Tail(backlog) /\ accepted' = accepted + 1
      /\ \E f \in Fds :
           /\ s.owner[f] = None /\ \A g \in Fds : s.owner[g] = None => f <= g
           /\ \/ s' = [s EXCEPT !.owner[f] = k, !.interest[f] = "R", !.edge[f] = TRUE,
                                !.conns[f] = IF @ = NoConn THEN NewConn(k) ELSE @]
              \/ "add" \in Failures /\ s' = [s EXCEPT !.conns[f] = NoConn]
      /\ UNCHANGED <<left, sent, listen_edge, phase, batch, running, outbox>>

(* accept_all() ends: nothing pending, a full batch or house, no descriptor, or an
   accept() that fails for another reason. *)
AcceptEnd ==
  /\ phase = "events" /\ (~CanAccept \/ "accept" \in Failures)
  /\ ListenEvent \in batch
  /\ batch' = batch \ {ListenEvent}
  /\ UNCHANGED <<kernel, s, phase, accepted, running, outbox>>

EventsEnd ==
  /\ phase = "events" /\ batch = {} /\ phase' = "outbox"
  /\ UNCHANGED <<kernel, s, batch, accepted, running, outbox>>

(* drain_outbox() *)
DrainOne ==
  /\ phase = "outbox" /\ outbox # <<>>
  /\ outbox' = Tail(outbox)
  /\ \E p \in Remaining(Head(outbox).fd, Parts) : s' = Handback(s, Head(outbox), p)
  /\ UNCHANGED <<kernel, loop>>

(* drain_outbox() finds nothing more; sweep_idle_connections(): any connection may
   have been idle for too long. *)
Sweep ==
  /\ phase = "outbox" /\ outbox = <<>>
  /\ phase' = "check"
  /\ \E D \in SUBSET (IF IdleSweep THEN Live ELSE {}) : s' = CloseAll(s, D)
  /\ UNCHANGED <<kernel, batch, accepted, running, outbox>>

-----------------------------------------------------------------------------
(* The workers *)

(* The handler answers, with or without keep-alive, or throws; then the push.
   A full or stopped outbox refuses. *)
WorkerPush(j) ==
  /\ j.at = "run"
  /\ \E r \in {"keep", "last", "fail"} :
       LET hb == [fd |-> j.fd, keep |-> r = "keep",
                  resp |-> IF r = "fail" THEN None ELSE <<j.who, j.n>>]
           refused == phase = "stopped" \/ Len(outbox) >= OutboxCapacity
       IN  /\ outbox' = IF refused THEN outbox ELSE Append(outbox, hb)
           /\ s' = [s EXCEPT !.jobs = (@ \ {j}) \cup
                       {[j EXCEPT !.at = IF refused THEN "close" ELSE "wakeup"]}]
  /\ UNCHANGED <<kernel, loop>>

(* ::close(fd) after a refusal: the kernel also forgets the registration. *)
WorkerClose(j) ==
  /\ j.at = "close"
  /\ s' = [s EXCEPT !.owner[j.fd] = None, !.interest[j.fd] = "none",
                    !.edge[j.fd] = FALSE, !.jobs = @ \ {j}]
  /\ UNCHANGED <<kernel, loop, outbox>>

(* poller_->wakeup() *)
WorkerWakeup(j) ==
  /\ j.at = "wakeup"
  /\ s' = [s EXCEPT !.jobs = @ \ {j}]
  /\ UNCHANGED <<kernel, loop, outbox>>

(* stop(), first half: clear the flag. *)
Stop ==
  /\ MayStop /\ running /\ running' = FALSE
  /\ UNCHANGED <<kernel, s, phase, batch, accepted, outbox>>

(* stop(), second half, once loop() has returned: stop the outbox, close
   everything and drop the poller.  The slip forgets the connections. *)
StopLeavesOpen ==
  /\ ~running /\ phase = "check" /\ phase' = "stopped"
  /\ UNCHANGED <<kernel, s, batch, accepted, running, outbox>>

StopJoined ==
  /\ ~running /\ phase = "check" /\ phase' = "stopped"
  /\ s' = CloseAll(s, Live)
  /\ UNCHANGED <<kernel, batch, accepted, running, outbox>>

ReactorStep ==
  \/ LoopCheck \/ Wait \/ WaitFails \/ ClientEvent \/ AcceptOne \/ AcceptEnd
  \/ EventsEnd \/ DrainOne \/ Sweep

WorkerStep == \E j \in s.jobs : WorkerPush(j) \/ WorkerClose(j) \/ WorkerWakeup(j)

Next ==
  \/ \E k \in Clients : Connect(k) \/ Send(k) \/ Hangup(k) \/ Drain(k)
  \/ ReactorStep
  \/ WorkerStep
  \/ Stop \/ StopJoined

Spec == Init /\ [][Next]_vars

(* The threads keep running, and clients read what they are sent. *)
FairSpec ==
  /\ Spec /\ WF_vars(ReactorStep) /\ WF_vars(WorkerStep) /\ WF_vars(StopJoined)
  /\ \A k \in Clients : WF_vars(Drain(k))

-----------------------------------------------------------------------------
(* Properties *)

Jobs == [fd : Fds, who : Clients, n : Nat \ {0}, at : {"run", "wakeup", "close"}]
Shards ==
  [conns : [Fds -> Connection \cup {NoConn}], owner : [Fds -> Clients \cup {None}],
   interest : [Fds -> {"none", "R", "W"}], edge : [Fds -> BOOLEAN],
   unread : [Clients -> Nat], got : [Clients -> Seq(Replies)],
   full : SUBSET Clients, jobs : SUBSET Jobs]
Handbacks == [fd : Fds, keep : BOOLEAN, resp : Replies]
Events ==
  [fd : Fds \cup {listen_fd}, mask : SUBSET {"readable", "writable", "closed"}]

(* Connection entries, poller registrations, jobs, handbacks and events keep
   their form. *)
TypeOK ==
  /\ backlog \in Seq(Clients) /\ listen_edge \in BOOLEAN
  /\ left \in [Clients -> {"new", "no", "fin", "rst"}] /\ sent \in [Clients -> Nat]
  /\ s \in Shards /\ outbox \in Seq(Handbacks) /\ batch \subseteq Events
  /\ phase \in {"check", "wait", "events", "outbox", "stopped"}
  /\ accepted \in Nat /\ running \in BOOLEAN

(* Every client receives the responses to the jobs cut out of its own stream, in the
   order of the stream and each once, pipelined requests and data that arrives while
   a job is with a worker included: dispatch_to_worker(), drain_outbox() and
   finish_response() route by descriptor number alone.  (Where the stream is cut is
   the subject of RequestScan.) *)
RepliesMatchRequests ==
  \A k \in Clients : \A i \in 1..Len(s.got[k]) : s.got[k][i] = <<k, i>>

(* `dispatched` is true exactly while one request of the connection is on its
   way: with a worker, in the outbox, or parked half-written (the comment on
   Connection::dispatched, and the re-entry guard of on_client_event()).  So an
   outbox with a cell per descriptor never refuses a handback, and no worker
   closes a descriptor itself, until stop(). *)
InFlight(f) ==
  Cardinality({j \in s.jobs : j.fd = f /\ j.at # "wakeup"})
  + Cardinality({i \in DOMAIN outbox : outbox[i].fd = f})
  + (IF s.conns[f].writing THEN 1 ELSE 0)

DispatchedIsAccurate ==
  /\ \A f \in Live : InFlight(f) = IF s.conns[f].dispatched THEN 1 ELSE 0
  /\ running => \A j \in s.jobs : j.at # "close"

(* connections_, the poller and the kernel agree: a descriptor is open and
   registered exactly when it has a Connection, and that Connection is the one
   of the client at the other end, also after an add() that failed.
   close_connection() therefore never hits somebody else's socket. *)
EntriesOwnTheirSockets ==
  \A f \in Fds : /\ f \in Live <=> s.owner[f] # None
                 /\ f \in Live <=> s.interest[f] # "none"
                 /\ f \in Live => s.conns[f].who = s.owner[f]

(* The part of it that makes a second close harmless: the descriptor of an
   entry is closed, or still the one of that entry's client.  The code keeps to
   it only while no worker closes a descriptor itself, as DispatchedIsAccurate says
   of an outbox with a cell per descriptor (README, "Where comments and code part"). *)
SecondCloseIsHarmless ==
  \A f \in Live : s.owner[f] \in {None, s.conns[f].who}

(* No worker calls wakeup() on the poller after stop() has dropped it.  The code
   does not keep to it (README, "Where comments and code part"). *)
PollerOutlivesWorkers == phase = "stopped" => \A j \in s.jobs : j.at # "wakeup"

(* A complete request of a connected client is dealt with, unless the connection goes
   away: no edge that was consumed while the connection was dispatched or writing is
   lost for good.  Each request is handed to a worker, on its own or behind its
   predecessor in one job, and every job is answered; and a client that never sends
   more before it has its response gets a response for each request. *)
Gone(k) == left[k] # "no" \/ (Serves(k) = {} /\ ~Waits(k)) \/ ~running

HandedOver(k, n) ==
  \E f \in Serves(k) : /\ s.conns[f] # NoConn
                       /\ sent[k] - s.unread[k] - s.conns[f].buf >= 2 * n
                       /\ Len(s.got[k]) = s.conns[f].next

Patient(k) == sent[k] <= 2 * (Len(s.got[k]) + 1)

EveryRequestAnswered ==
  \A k \in Clients : \A n \in 1..(Fragments[k] \div 2) :
    /\ (left[k] = "no" /\ sent[k] >= 2 * n) ~> HandedOver(k, n) \/ Gone(k)
    /\ []Patient(k) =>
         ((left[k] = "no" /\ sent[k] >= 2 * n) ~> Len(s.got[k]) >= n \/ Gone(k))

(* A connection that the peer has closed is noticed and its descriptor freed. *)
HangupsReclaimed ==
  \A k \in Clients : (left[k] \in {"fin", "rst"} /\ Serves(k) # {}) ~> Serves(k) = {} \/ ~running

(* No client waits in the backlog for ever while the reactor could accept it: what
   accept_all() leaves behind is picked up later.  The code does not keep to it
   (README, "Where comments and code part"). *)
BacklogServed ==
  \A k \in Clients :
    []<>(\/ ~running \/ ~Waits(k) \/ AtCap(Cardinality(Live))
         \/ \A f \in Fds : s.owner[f] # None)

(* stop() gets through, whatever the workers are doing, and leaves no client
   descriptor open behind it, the ones that workers close because the outbox is
   stopped included. *)
StopCompletes ==
  ~running ~> (phase = "stopped" /\ s.jobs = {} /\ \A f \in Fds : s.owner[f] = None)

=============================================================================

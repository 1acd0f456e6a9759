--------------------------- MODULE ReactorProofs ---------------------------
(***************************************************************************)
(* Proofs about one reactor shard, for any number of clients, descriptors, *)
(* pipelined requests and writes per response, where clients leave in an   *)
(* orderly way, the idle sweep is off and the outbox has a cell per        *)
(* descriptor.                                                             *)
(*                                                                         *)
(* ReactorInv, the inductive invariant, says of every descriptor where its *)
(* request is: nowhere, with a worker, in the outbox, or half written.     *)
(* The handlers are functions of the shard that call each other, so each   *)
(* has a lemma of its own about what it makes of a shard that is in order  *)
(* (ShardInv), or in order but for the descriptor it works on (Rest).      *)
(* Leaves without arithmetic name Zenon.                                   *)
(***************************************************************************)
EXTENDS Reactor, TLAPS

(* What the results need of the constants. *)
Orderly == Hangups \subseteq {"fin"} /\ ~IdleSweep
RoomForAll == IsFiniteSet(Fds) /\ Cardinality(Fds) <= OutboxCapacity

(* Where the request of the connection at f is. *)
Running(st, f) == \E j \in st.jobs : j.fd = f /\ j.at = "run"
Queued(ob, f) == \E i \in DOMAIN ob : ob[i].fd = f
Quiet(st, ob, f) == ~Running(st, f) /\ ~Queued(ob, f)

(* A job and a handback are about the request their connection is at. *)
JobIsCurrent(st, j) == j.who = st.conns[j.fd].who /\ j.n = st.conns[j.fd].next
ReplyIsCurrent(c, hb) == (hb.resp = None /\ ~hb.keep) \/ hb.resp = <<c.who, c.next>>

Idle(st, f) ==
  /\ ~st.conns[f].dispatched /\ ~st.conns[f].writing
  /\ Len(st.got[st.conns[f].who]) = st.conns[f].next
Busy(st, ob, f) ==
  /\ st.conns[f].dispatched
  /\ Len(st.got[st.conns[f].who]) + 1 = st.conns[f].next
  /\ \/ st.conns[f].writing /\ Quiet(st, ob, f)
        /\ st.conns[f].resp = <<st.conns[f].who, st.conns[f].next>>
     \/ ~st.conns[f].writing /\ (Running(st, f) <=> ~Queued(ob, f))
  /\ \A j \in st.jobs : j.fd = f /\ j.at = "run" => JobIsCurrent(st, j)
  /\ \A i \in DOMAIN ob : ob[i].fd = f =>
       /\ ReplyIsCurrent(st.conns[f], ob[i])
       /\ \A h \in DOMAIN ob : ob[h].fd = f => h = i

FdInv(st, ob, f) ==
  IF st.conns[f] = NoConn THEN Quiet(st, ob, f)
  ELSE (Idle(st, f) /\ Quiet(st, ob, f)) \/ Busy(st, ob, f)

(* connections_, poller and kernel agree, and a client has one descriptor. *)
Entries(st) ==
  /\ \A f \in Fds : /\ st.conns[f] = NoConn <=> st.owner[f] = None
                    /\ st.owner[f] = None <=> st.interest[f] = "none"
                    /\ st.conns[f] # NoConn => st.conns[f].who = st.owner[f]
  /\ \A f, g \in Fds : st.owner[f] # None /\ st.owner[f] = st.owner[g] => f = g

InOrder(st) == \A k \in Clients : \A i \in 1..Len(st.got[k]) : st.got[k][i] = <<k, i>>

(* A client that has not been accepted has no descriptor and no response. *)
Strangers(st) ==
  \A k \in Clients : left[k] = "new" \/ Waits(k) =>
    st.got[k] = <<>> /\ \A f \in Fds : st.owner[f] # k

Rest(st, ob, f) ==
  /\ st \in Shards /\ Entries(st) /\ InOrder(st) /\ Strangers(st)
  /\ \A j \in st.jobs : j.at # "close"
  /\ \A g \in Fds \ {f} : FdInv(st, ob, g)
ShardInv(st, ob) ==
  /\ st \in Shards /\ Entries(st) /\ InOrder(st) /\ Strangers(st)
  /\ \A j \in st.jobs : j.at # "close"
  /\ \A g \in Fds : FdInv(st, ob, g)

(* A client connects once. *)
ArrivalsInv ==
  /\ \A i, j \in DOMAIN backlog : backlog[i] = backlog[j] => i = j
  /\ \A k \in Clients : left[k] = "new" => ~Waits(k)

NobodyResets ==
  /\ \A k \in Clients : left[k] # "rst"
  /\ \A e \in batch : "closed" \notin e.mask

(* After stop() nothing is written any more, and there is nothing left to close. *)
AllClosed ==
  \A f \in Fds : s.conns[f] = NoConn /\ s.owner[f] = None /\ s.interest[f] = "none"

ReactorInv ==
  /\ TypeOK /\ NobodyResets /\ (~running => MayStop)
  /\ phase # "stopped" => ShardInv(s, outbox) /\ ArrivalsInv
  /\ phase = "stopped" => InOrder(s) /\ ~running /\ AllClosed

-----------------------------------------------------------------------------
(* Shards *)

LEMMA ShardFields ==
  ASSUME NEW st \in Shards
  PROVE  /\ st.conns \in [Fds -> Connection \cup {NoConn}]
         /\ st.owner \in [Fds -> Clients \cup {None}]
         /\ st.interest \in [Fds -> {"none", "R", "W"}] /\ st.edge \in [Fds -> BOOLEAN]
         /\ st.unread \in [Clients -> Nat] /\ st.got \in [Clients -> Seq(Replies)]
         /\ st.full \in SUBSET Clients /\ st.jobs \in SUBSET Jobs
BY Zenon DEF Shards

LEMMA ConnectionFields ==
  ASSUME NEW c \in Connection
  PROVE  /\ c.who \in Clients /\ c.next \in Nat /\ c.buf \in Nat
         /\ c.dispatched \in BOOLEAN /\ c.writing \in BOOLEAN
         /\ c.resp \in Replies /\ c.parts \in Nat /\ c.keep \in BOOLEAN
         /\ c # NoConn
BY Zenon, NoneAssumption DEF Connection, NoConn

(* What one descriptor does leaves the others as they were. *)
LEMMA Frame ==
  ASSUME NEW st, NEW ob, NEW f \in Fds, NEW k, Rest(st, ob, f), st.owner[f] = k, k # None,
         NEW t \in Shards,
         \A g \in Fds \ {f} : t.conns[g] = st.conns[g],
         \A j \in st.jobs \cup t.jobs : j.fd # f => (j \in st.jobs <=> j \in t.jobs),
         \A m \in Clients \ {k} : t.got[m] = st.got[m],
         NEW g \in Fds \ {f}
  PROVE  FdInv(t, ob, g)
<1>1. FdInv(st, ob, g) /\ st \in Shards /\ Entries(st)
  BY Zenon DEF Rest
<1>2. Running(t, g) <=> Running(st, g)
  BY Zenon DEF Running
<1>3. Quiet(t, ob, g) <=> Quiet(st, ob, g)
  BY Zenon, <1>2 DEF Quiet
<1>4. CASE st.conns[g] = NoConn
  BY Zenon, <1>1, <1>3, <1>4 DEF FdInv
<1>5. CASE st.conns[g] # NoConn
  <2>1. st.conns[g].who \in Clients \ {k}
    BY <1>1, <1>5, ShardFields, ConnectionFields DEF Entries
  <2>2. t.got[st.conns[g].who] = st.got[st.conns[g].who] /\ t.conns[g] = st.conns[g]
    BY Zenon, <2>1
  <2>3. Idle(st, g) => Idle(t, g)
    BY Zenon, <2>2 DEF Idle
  <2>4. ASSUME NEW j \in t.jobs, j.fd = g,
               \A i \in st.jobs : i.fd = g /\ i.at = "run" => JobIsCurrent(st, i), j.at = "run"
        PROVE  JobIsCurrent(t, j)
    BY Zenon, <2>2, <2>4 DEF JobIsCurrent
  <2>5. Busy(st, ob, g) => Busy(t, ob, g)
    BY Zenon, <1>2, <1>3, <2>2, <2>4 DEF Busy
  <2>6. QED BY <1>1, <1>3, <1>5, <2>2, <2>3, <2>5 DEF FdInv
<1>6. QED BY Zenon, <1>4, <1>5

(* What client k has received, and the response it is due. *)
WithNext(q, k) == Append(q, <<k, Len(q) + 1>>)

(* A step that works on the connection at f, or closes it, and gives its client at
   most the response that is due, keeps what Rest says. *)
LEMMA Local ==
  ASSUME NEW st, NEW ob, NEW f \in Fds, NEW k, Rest(st, ob, f), st.owner[f] = k, k # None,
         NEW t \in Shards,
         \A g \in Fds \ {f} : /\ t.conns[g] = st.conns[g] /\ t.owner[g] = st.owner[g]
                              /\ t.interest[g] = st.interest[g],
         \A j \in st.jobs \cup t.jobs : j.fd # f => (j \in st.jobs <=> j \in t.jobs),
         \A j \in t.jobs : j.at # "close",
         \A m \in Clients \ {k} : t.got[m] = st.got[m],
         t.got[k] = st.got[k] \/ t.got[k] = WithNext(st.got[k], k),
         \/ t.conns[f] = NoConn /\ t.owner[f] = None /\ t.interest[f] = "none"
         \/ /\ t.conns[f] # NoConn /\ t.conns[f].who = k /\ t.owner[f] = k
            /\ t.interest[f] # "none"
  PROVE  Rest(t, ob, f)
<1>1. st \in Shards /\ Entries(st) /\ InOrder(st) /\ k \in Clients
  BY ShardFields DEF Rest
<1>2. \A g \in Fds \ {f} : FdInv(t, ob, g)
  BY Frame
<1>3. Entries(t)
  <2>1. \A g \in Fds : /\ t.conns[g] = NoConn <=> t.owner[g] = None
                       /\ t.owner[g] = None <=> t.interest[g] = "none"
                       /\ t.conns[g] # NoConn => t.conns[g].who = t.owner[g]
    BY <1>1 DEF Entries
  <2>2. ASSUME NEW g \in Fds, NEW h \in Fds, t.owner[g] # None, t.owner[g] = t.owner[h]
        PROVE  g = h
    BY <1>1, <2>2 DEF Entries
  <2>3. QED BY Zenon, <2>1, <2>2 DEF Entries
<1>4. InOrder(t)
  <2> SUFFICES ASSUME NEW m \in Clients, NEW i \in 1..Len(t.got[m]) PROVE t.got[m][i] = <<m, i>>
    BY Zenon DEF InOrder
  <2>1. CASE t.got[m] = st.got[m]
    BY <1>1, <2>1 DEF InOrder
  <2>2. CASE t.got[m] # st.got[m]
    <3> DEFINE q == st.got[m]
    <3>1. m = k /\ t.got[m] = Append(q, <<m, Len(q) + 1>>) /\ q \in Seq(Replies)
      BY Zenon, <1>1, <2>2, ShardFields DEF WithNext
    <3>2. \A h \in 1..Len(q) : q[h] = <<m, h>>
      BY Zenon, <1>1 DEF InOrder
    <3> HIDE DEF q
    <3> DEFINE x == <<m, Len(q) + 1>>
    <3>3. i \in 1..Len(Append(q, x)) /\ t.got[m] = Append(q, x)
      BY Zenon, <3>1
    <3> HIDE DEF x
    <3>4. i \in 1..Len(q) \/ (i = Len(q) + 1 /\ Append(q, x)[i] = x)
      BY <3>1, <3>3
    <3>5. i \in 1..Len(q) => Append(q, x)[i] = q[i]
      BY <3>1
    <3>6. QED BY Zenon, <3>2, <3>3, <3>4, <3>5 DEF x
  <2>3. QED BY Zenon, <2>1, <2>2
<1>5. Strangers(t)
  <2> SUFFICES ASSUME NEW m \in Clients, left[m] = "new" \/ Waits(m)
               PROVE  t.got[m] = <<>> /\ \A g \in Fds : t.owner[g] # m
    BY Zenon DEF Strangers
  <2>1. st.got[m] = <<>> /\ \A g \in Fds : st.owner[g] # m
    BY Zenon DEF Rest, Strangers
  <2>2. m # k /\ m # None
    BY Zenon, <2>1, NoneAssumption
  <2>3. QED BY Zenon, <2>1, <2>2
<1>6. QED BY Zenon, <1>2, <1>3, <1>4, <1>5 DEF Rest

LEMMA Whole ==
  ASSUME NEW st, NEW ob, NEW f \in Fds, Rest(st, ob, f), FdInv(st, ob, f)
  PROVE  ShardInv(st, ob)
BY Zenon DEF Rest, ShardInv

LEMMA CloseFields ==
  ASSUME NEW st \in Shards, NEW f \in Fds, st.conns[f] # NoConn
  PROVE  LET t == close_connection(st, f)
         IN  /\ t \in Shards /\ t.jobs = st.jobs /\ t.got = st.got
             /\ t.conns[f] = NoConn /\ t.owner[f] = None /\ t.interest[f] = "none"
             /\ \A g \in Fds \ {f} : /\ t.conns[g] = st.conns[g] /\ t.owner[g] = st.owner[g]
                                     /\ t.interest[g] = st.interest[g]
<1> DEFINE At(fn, v) ==
             [g \in Fds |-> IF g \in {h \in {f} : st.conns[h] # NoConn} THEN v ELSE fn[g]]
           c == At(st.conns, NoConn)
           o == At(st.owner, None)
           i == At(st.interest, "none")
           e == At(st.edge, FALSE)
<1>1. close_connection(st, f) = [st EXCEPT !.conns = c, !.owner = o, !.interest = i, !.edge = e]
  BY Zenon DEF close_connection, CloseAll
<1>2. /\ c \in [Fds -> Connection \cup {NoConn}] /\ o \in [Fds -> Clients \cup {None}]
      /\ i \in [Fds -> {"none", "R", "W"}] /\ e \in [Fds -> BOOLEAN]
  BY ZenonT(30), ShardFields
<1>3. /\ c[f] = NoConn /\ o[f] = None /\ i[f] = "none"
      /\ \A g \in Fds \ {f} : c[g] = st.conns[g] /\ o[g] = st.owner[g] /\ i[g] = st.interest[g]
  OBVIOUS
<1> HIDE DEF c, o, i, e
<1>4. LET t == [st EXCEPT !.conns = c, !.owner = o, !.interest = i, !.edge = e]
      IN  /\ t \in Shards /\ t.conns = c /\ t.owner = o /\ t.interest = i
          /\ t.jobs = st.jobs /\ t.got = st.got
  BY Zenon, <1>2 DEF Shards
<1>5. QED BY <1>1, <1>3, <1>4

(* close_connection() of a connection whose request is nowhere. *)
LEMMA CloseKeeps ==
  ASSUME NEW st, NEW ob, NEW f \in Fds, Rest(st, ob, f), Quiet(st, ob, f), st.conns[f] # NoConn
  PROVE  ShardInv(close_connection(st, f), ob)
<1> DEFINE t == close_connection(st, f)
<1>1. st \in Shards /\ Entries(st) /\ \A j \in st.jobs : j.at # "close"
  BY Zenon DEF Rest
<1>2. /\ t \in Shards /\ t.jobs = st.jobs /\ t.got = st.got
      /\ t.conns[f] = NoConn /\ t.owner[f] = None /\ t.interest[f] = "none"
      /\ \A g \in Fds \ {f} : /\ t.conns[g] = st.conns[g] /\ t.owner[g] = st.owner[g]
                              /\ t.interest[g] = st.interest[g]
  BY Zenon, <1>1, CloseFields
<1>3. st.owner[f] # None
  BY Zenon, <1>1 DEF Entries
<1> HIDE DEF t
<1>4. Rest(t, ob, f)
  BY <1>1, <1>2, <1>3, Local
<1>5. FdInv(t, ob, f)
  BY Zenon, <1>2 DEF FdInv, Quiet, Running
<1>6. ShardInv(t, ob)
  BY Zenon, <1>4, <1>5, Whole
<1>7. QED BY Zenon, <1>6 DEF t

(* The handlers, from the innermost out. *)

LEMMA DispatchFields ==
  ASSUME NEW st \in Shards, NEW f \in Fds, st.conns[f] # NoConn, NEW m \in Nat,
         st.conns[f].buf >= 2 * m
  PROVE  LET t == dispatch_to_worker(st, f, m)
             c == st.conns[f]
         IN  /\ t \in Shards /\ t.got = st.got /\ t.owner = st.owner /\ t.interest = st.interest
             /\ \A g \in Fds \ {f} : t.conns[g] = st.conns[g]
             /\ t.conns[f] # NoConn /\ t.conns[f].who = c.who /\ t.conns[f].next = c.next + 1
             /\ t.conns[f].dispatched /\ t.conns[f].writing = c.writing
             /\ t.jobs = st.jobs \cup {JobOf(f, c)}
<1> DEFINE c == st.conns[f]
           a == c.next + 1
           b == c.buf - 2 * m
           d == [c EXCEPT !.dispatched = TRUE, !.next = a, !.buf = b]
           t == [st EXCEPT !.conns[f] = d, !.jobs = @ \cup {JobOf(f, c)}]
<1>1. c \in Connection /\ c.buf \in Nat /\ c.next \in Nat /\ c.who \in Clients
  BY ShardFields, ConnectionFields
<1>2. c.buf >= 2 * m
  OBVIOUS
<1>3. dispatch_to_worker(st, f, m) = t
  BY Zenon DEF dispatch_to_worker
<1>4. JobOf(f, c) \in Jobs
  BY <1>1 DEF JobOf, Jobs
<1>5. a \in Nat /\ b \in Nat
  BY <1>1, <1>2
<1> HIDE DEF c, a, b
<1>6. /\ d \in Connection /\ d.who = c.who /\ d.next = a /\ d.dispatched
      /\ d.writing = c.writing
  BY Zenon, <1>1, <1>5 DEF Connection
<1> HIDE DEF d
<1> DEFINE n == [st.conns EXCEPT ![f] = d]
           j == st.jobs \cup {JobOf(f, c)}
<1>7. /\ n \in [Fds -> Connection \cup {NoConn}] /\ n[f] = d
      /\ \A g \in Fds \ {f} : n[g] = st.conns[g]
  BY Zenon, <1>6, ShardFields
<1>8. j \in SUBSET Jobs
  BY Zenon, <1>4, ShardFields
<1>9. t = [st EXCEPT !.conns = n, !.jobs = j]
  BY Zenon DEF Shards
<1> HIDE DEF n, j, t
<1>10. /\ t \in Shards /\ t.conns = n /\ t.jobs = j /\ t.got = st.got
      /\ t.owner = st.owner /\ t.interest = st.interest
  BY Zenon, <1>7, <1>8, <1>9 DEF Shards
<1>11. d # NoConn
  BY Zenon, <1>6, ConnectionFields
<1>12. QED BY <1>3, <1>7, <1>10, <1>11, <1>6 DEF j, c, a

LEMMA DispatchKeeps ==
  ASSUME NEW st, NEW ob, NEW f \in Fds, ShardInv(st, ob), NEW m \in Nat,
         st.conns[f] # NoConn => ~st.conns[f].dispatched
  PROVE  ShardInv(DispatchIfComplete(st, f, m), ob)
<1>1. CASE ~(st.conns[f] # NoConn /\ st.conns[f].buf >= 2 * m)
  BY Zenon, <1>1 DEF DispatchIfComplete
<1>2. CASE st.conns[f] # NoConn /\ st.conns[f].buf >= 2 * m
  <2> DEFINE t == dispatch_to_worker(st, f, m)
             c == st.conns[f]
             k == st.owner[f]
  <2>1. DispatchIfComplete(st, f, m) = t
    BY Zenon, <1>2 DEF DispatchIfComplete
  <2>2. /\ st \in Shards /\ Entries(st) /\ \A j \in st.jobs : j.at # "close"
        /\ Rest(st, ob, f) /\ Idle(st, f) /\ Quiet(st, ob, f)
    BY Zenon, <1>2 DEF ShardInv, Rest, FdInv, Busy
  <2>3. /\ t \in Shards /\ t.got = st.got /\ t.owner = st.owner /\ t.interest = st.interest
        /\ \A g \in Fds \ {f} : t.conns[g] = st.conns[g]
        /\ t.conns[f] # NoConn /\ t.conns[f].who = c.who /\ t.conns[f].next = c.next + 1
        /\ t.conns[f].dispatched /\ t.conns[f].writing = c.writing
        /\ t.jobs = st.jobs \cup {JobOf(f, c)}
    BY Zenon, <1>2, <2>2, DispatchFields
  <2>4. k # None /\ c.who = k /\ st.interest[f] # "none"
    BY Zenon, <1>2, <2>2 DEF Entries
  <2>5. /\ JobOf(f, c).fd = f /\ JobOf(f, c).who = c.who /\ JobOf(f, c).n = c.next + 1
        /\ JobOf(f, c).at = "run"
    BY Zenon DEF JobOf
  <2>6. ~c.writing /\ Len(st.got[c.who]) = c.next /\ c.next \in Nat /\ ~Running(st, f)
    BY <1>2, <2>2, ShardFields, ConnectionFields DEF Idle, Quiet
  <2> HIDE DEF t, c, k
  <2>7. Rest(t, ob, f)
    BY <2>2, <2>3, <2>4, <2>5, Local DEF k
  <2>8. Running(t, f) /\ ~Queued(ob, f)
    BY Zenon, <2>2, <2>3, <2>5 DEF Running, Quiet
  <2>9. \A j \in t.jobs : j.fd = f /\ j.at = "run" => JobIsCurrent(t, j)
    BY Zenon, <2>3, <2>5, <2>6 DEF Running, JobIsCurrent
  <2>10. Busy(t, ob, f)
    BY <2>3, <2>6, <2>8, <2>9 DEF Busy, Queued
  <2>11. QED BY <2>1, <2>3, <2>7, <2>10, Whole DEF FdInv
<1>3. QED BY Zenon, <1>1, <1>2

LEMMA ReadFields ==
  ASSUME NEW st \in Shards, NEW f \in Fds, st.conns[f] # NoConn, NEW k \in Clients,
         st.owner[f] = k, left[k] \notin {"fin", "rst"}, None \notin Clients
  PROVE  LET t == ReadAll(st, f)
             c == st.conns[f]
         IN  /\ t \in Shards /\ t.got = st.got /\ t.owner = st.owner /\ t.interest = st.interest
             /\ t.jobs = st.jobs /\ \A g \in Fds \ {f} : t.conns[g] = st.conns[g]
             /\ t.conns[f] # NoConn /\ t.conns[f].who = c.who /\ t.conns[f].next = c.next
             /\ t.conns[f].dispatched = c.dispatched /\ t.conns[f].writing = c.writing
<1> DEFINE c == st.conns[f]
           d == [c EXCEPT !.buf = @ + st.unread[k]]
           n == [st.conns EXCEPT ![f] = d]
           u == [st.unread EXCEPT ![k] = 0]
           t == [st EXCEPT !.conns = n, !.unread = u]
<1>1. ReadAll(st, f) = [st EXCEPT !.conns[f].buf = @ + st.unread[k], !.unread[k] = 0]
  BY Zenon DEF ReadAll
<1>2. ReadAll(st, f) = t
  BY Zenon, <1>1 DEF Shards
<1>3. c \in Connection /\ st.unread[k] \in Nat
  BY ShardFields
<1> DEFINE v == st.unread[k]
<1> HIDE DEF c, v
<1>4. /\ d \in Connection /\ d.who = c.who /\ d.next = c.next
      /\ d.dispatched = c.dispatched /\ d.writing = c.writing
  BY <1>3 DEF Connection, v
<1> HIDE DEF d
<1>5. /\ n \in [Fds -> Connection \cup {NoConn}] /\ n[f] = d
      /\ \A g \in Fds \ {f} : n[g] = st.conns[g]
      /\ u \in [Clients -> Nat]
  BY Zenon, <1>4, ShardFields
<1> HIDE DEF n, u, t
<1>6. /\ t \in Shards /\ t.conns = n /\ t.jobs = st.jobs /\ t.got = st.got
      /\ t.owner = st.owner /\ t.interest = st.interest
  BY Zenon, <1>5 DEF Shards, t
<1>7. d # NoConn
  BY Zenon, <1>4, ConnectionFields
<1>8. QED BY <1>2, <1>4, <1>5, <1>6, <1>7 DEF c

LEMMA ReadKeeps ==
  ASSUME NEW st, NEW ob, NEW f \in Fds, ShardInv(st, ob), st.conns[f] # NoConn,
         ~st.conns[f].dispatched
  PROVE  /\ ShardInv(ReadAll(st, f), ob)
         /\ ReadAll(st, f).conns[f] # NoConn => ~ReadAll(st, f).conns[f].dispatched
<1> DEFINE t == ReadAll(st, f)
           k == st.owner[f]
<1>1. /\ st \in Shards /\ Entries(st) /\ \A j \in st.jobs : j.at # "close"
      /\ Rest(st, ob, f) /\ Idle(st, f) /\ Quiet(st, ob, f)
  BY Zenon DEF ShardInv, Rest, FdInv, Busy
<1>2. k \in Clients /\ k # None /\ st.interest[f] # "none" /\ st.conns[f].who = k
  BY <1>1, ShardFields DEF Entries
<1>3. CASE left[k] \in {"fin", "rst"}
  <2>1. t = close_connection(st, f)
    BY Zenon, <1>3 DEF ReadAll
  <2>2. ShardInv(t, ob)
    BY Zenon, <1>1, <2>1, CloseKeeps
  <2>3. t.conns[f] = NoConn
    BY <1>1, <2>1, CloseFields
  <2>4. QED BY Zenon, <2>2, <2>3
<1>4. CASE left[k] \notin {"fin", "rst"}
  <2> DEFINE c == st.conns[f]
  <2>1. /\ t \in Shards /\ t.got = st.got /\ t.owner = st.owner /\ t.interest = st.interest
        /\ t.jobs = st.jobs /\ \A g \in Fds \ {f} : t.conns[g] = st.conns[g]
        /\ t.conns[f] # NoConn /\ t.conns[f].who = c.who /\ t.conns[f].next = c.next
        /\ t.conns[f].dispatched = c.dispatched /\ t.conns[f].writing = c.writing
    BY Zenon, <1>1, <1>2, <1>4, ReadFields, NoneAssumption
  <2> HIDE DEF t
  <2>2. Rest(t, ob, f)
    BY <1>1, <1>2, <2>1, Local
  <2>3. Idle(t, f) /\ Quiet(t, ob, f)
    BY Zenon, <1>1, <2>1 DEF Idle, Quiet, Running
  <2>4. ShardInv(t, ob)
    BY Zenon, <2>1, <2>2, <2>3, Whole DEF FdInv
  <2>5. QED BY Zenon, <2>1, <2>4 DEF t
<1>5. QED BY Zenon, <1>3, <1>4

LEMMA ReadEventKeeps ==
  ASSUME NEW st, NEW ob, NEW f \in Fds, ShardInv(st, ob), NEW m \in Nat
  PROVE  ShardInv(ReadEvent(st, f, m), ob)
<1>1. CASE st.conns[f] = NoConn \/ st.conns[f].dispatched
  BY Zenon, <1>1 DEF ReadEvent
<1>2. CASE ~(st.conns[f] = NoConn \/ st.conns[f].dispatched)
  <2> DEFINE t == ReadAll(st, f)
  <2>1. ShardInv(t, ob) /\ (t.conns[f] # NoConn => ~t.conns[f].dispatched)
    BY Zenon, <1>2, ReadKeeps
  <2>2. ReadEvent(st, f, m) = DispatchIfComplete(t, f, m)
    BY Zenon, <1>2 DEF ReadEvent
  <2> HIDE DEF t
  <2>3. QED BY Zenon, <2>1, <2>2, DispatchKeeps
<1>3. QED BY Zenon, <1>1, <1>2

LEMMA RearmFields ==
  ASSUME NEW st \in Shards, NEW f \in Fds, st.conns[f] # NoConn
  PROVE  LET t == [st EXCEPT !.conns[f].dispatched = FALSE, !.interest[f] = "R", !.edge[f] = TRUE]
             c == st.conns[f]
         IN  /\ t \in Shards /\ t.got = st.got /\ t.owner = st.owner /\ t.jobs = st.jobs
             /\ \A g \in Fds \ {f} : t.conns[g] = st.conns[g] /\ t.interest[g] = st.interest[g]
             /\ t.conns[f] # NoConn /\ t.conns[f].who = c.who /\ t.conns[f].next = c.next
             /\ ~t.conns[f].dispatched /\ t.conns[f].writing = c.writing
             /\ t.interest[f] = "R"
<1> DEFINE c == st.conns[f]
           d == [c EXCEPT !.dispatched = FALSE]
           n == [st.conns EXCEPT ![f] = d]
           i == [st.interest EXCEPT ![f] = "R"]
           e == [st.edge EXCEPT ![f] = TRUE]
           t == [st EXCEPT !.conns = n, !.interest = i, !.edge = e]
<1>1. [st EXCEPT !.conns[f].dispatched = FALSE, !.interest[f] = "R", !.edge[f] = TRUE] = t
  BY Zenon DEF Shards
<1>2. c \in Connection
  BY Zenon, ShardFields
<1> HIDE DEF c
<1>3. /\ d \in Connection /\ d.who = c.who /\ d.next = c.next
      /\ ~d.dispatched /\ d.writing = c.writing
  BY Zenon, <1>2 DEF Connection
<1> HIDE DEF d
<1>4. /\ n \in [Fds -> Connection \cup {NoConn}] /\ n[f] = d
      /\ \A g \in Fds \ {f} : n[g] = st.conns[g] /\ i[g] = st.interest[g]
      /\ i \in [Fds -> {"none", "R", "W"}] /\ i[f] = "R" /\ e \in [Fds -> BOOLEAN]
  BY Zenon, <1>3, ShardFields
<1> HIDE DEF n, i, e, t
<1>5. /\ t \in Shards /\ t.conns = n /\ t.jobs = st.jobs /\ t.got = st.got
      /\ t.owner = st.owner /\ t.interest = i
  BY Zenon, <1>4 DEF Shards, t
<1>6. d # NoConn
  BY Zenon, <1>3, ConnectionFields
<1>7. QED BY ZenonT(30), <1>1, <1>3, <1>4, <1>5, <1>6 DEF c

(* finish_response() after the response has been written. *)
LEMMA FinishKeeps ==
  ASSUME NEW st, NEW ob, NEW f \in Fds, Rest(st, ob, f), Quiet(st, ob, f),
         st.conns[f] # NoConn, ~st.conns[f].writing,
         Len(st.got[st.conns[f].who]) = st.conns[f].next
  PROVE  ShardInv(finish_response(st, f), ob)
<1>1. CASE ~st.conns[f].keep
  BY Zenon, <1>1, CloseKeeps DEF finish_response
<1>2. CASE st.conns[f].keep
  <2> DEFINE t == [st EXCEPT !.conns[f].dispatched = FALSE, !.interest[f] = "R", !.edge[f] = TRUE]
             u == ReadAll(t, f)
             c == st.conns[f]
  <2>1. finish_response(st, f) = DispatchIfComplete(u, f, 1) /\ 1 \in Nat
    BY Zenon, <1>2 DEF finish_response
  <2>2. st \in Shards /\ Entries(st) /\ \A j \in st.jobs : j.at # "close"
    BY Zenon DEF Rest
  <2>3. /\ t \in Shards /\ t.got = st.got /\ t.owner = st.owner /\ t.jobs = st.jobs
        /\ \A g \in Fds \ {f} : t.conns[g] = st.conns[g] /\ t.interest[g] = st.interest[g]
        /\ t.conns[f] # NoConn /\ t.conns[f].who = c.who /\ t.conns[f].next = c.next
        /\ ~t.conns[f].dispatched /\ t.conns[f].writing = c.writing
        /\ t.interest[f] = "R"
    BY Zenon, <2>2, RearmFields
  <2>4. st.owner[f] # None /\ c.who = st.owner[f]
    BY Zenon, <2>2 DEF Entries
  <2> HIDE DEF t
  <2>5. Rest(t, ob, f)
    BY <2>2, <2>3, <2>4, Local
  <2>6. Idle(t, f) /\ Quiet(t, ob, f)
    BY Zenon, <2>3 DEF Idle, Quiet, Running
  <2>7. ShardInv(t, ob)
    BY Zenon, <2>3, <2>5, <2>6, Whole DEF FdInv
  <2>8. ShardInv(u, ob) /\ (u.conns[f] # NoConn => ~u.conns[f].dispatched)
    BY Zenon, <2>3, <2>7, ReadKeeps
  <2> HIDE DEF u
  <2>9. QED BY Zenon, <2>1, <2>8, DispatchKeeps
<1>3. QED BY Zenon, <1>1, <1>2

(* What continue_write() makes of the shard before it waits, and before it calls
   finish_response(). *)
Parked(st, f, p, k) ==
  LET c == st.conns[f]
  IN  [st EXCEPT !.conns[f] = [c EXCEPT !.writing = TRUE, !.parts = p],
                 !.interest[f] = "W", !.edge[f] = TRUE, !.full = @ \cup {k}]
Written(st, f, k) ==
  LET c == st.conns[f]
  IN  [st EXCEPT !.got[k] = Append(@, c.resp),
                 !.conns[f] = [c EXCEPT !.writing = FALSE, !.resp = None, !.parts = 0]]

LEMMA ParkFields ==
  ASSUME NEW st \in Shards, NEW f \in Fds, st.conns[f] # NoConn, NEW p \in Nat, NEW k \in Clients
  PROVE  LET c == st.conns[f]
             t == Parked(st, f, p, k)
         IN  /\ t \in Shards /\ t.got = st.got /\ t.owner = st.owner /\ t.jobs = st.jobs
             /\ \A g \in Fds \ {f} : t.conns[g] = st.conns[g] /\ t.interest[g] = st.interest[g]
             /\ t.conns[f] # NoConn /\ t.conns[f].who = c.who /\ t.conns[f].next = c.next
             /\ t.conns[f].dispatched = c.dispatched /\ t.conns[f].writing
             /\ t.conns[f].resp = c.resp /\ t.interest[f] = "W"
<1> DEFINE c == st.conns[f]
           d == [c EXCEPT !.writing = TRUE, !.parts = p]
           n == [st.conns EXCEPT ![f] = d]
           i == [st.interest EXCEPT ![f] = "W"]
           e == [st.edge EXCEPT ![f] = TRUE]
           w == st.full \cup {k}
           t == [st EXCEPT !.conns = n, !.interest = i, !.edge = e, !.full = w]
<1>1. Parked(st, f, p, k) = t
  BY Zenon DEF Shards, Parked
<1>2. c \in Connection
  BY Zenon, ShardFields
<1> HIDE DEF c
<1>3. /\ d \in Connection /\ d.who = c.who /\ d.next = c.next
      /\ d.dispatched = c.dispatched /\ d.writing /\ d.resp = c.resp
  BY Zenon, <1>2 DEF Connection
<1> HIDE DEF d
<1>4. /\ n \in [Fds -> Connection \cup {NoConn}] /\ n[f] = d
      /\ \A g \in Fds \ {f} : n[g] = st.conns[g] /\ i[g] = st.interest[g]
      /\ i \in [Fds -> {"none", "R", "W"}] /\ i[f] = "W" /\ e \in [Fds -> BOOLEAN]
      /\ w \in SUBSET Clients
  BY Zenon, <1>3, ShardFields
<1> HIDE DEF n, i, e, t, w
<1>5. /\ t \in Shards /\ t.conns = n /\ t.jobs = st.jobs /\ t.got = st.got
      /\ t.owner = st.owner /\ t.interest = i
  BY Zenon, <1>4 DEF Shards, t
<1>6. d # NoConn
  BY Zenon, <1>3, ConnectionFields
<1>7. QED BY ZenonT(30), <1>1, <1>3, <1>4, <1>5, <1>6 DEF c, d

LEMMA WrittenFields ==
  ASSUME NEW st \in Shards, NEW f \in Fds, st.conns[f] # NoConn, NEW k \in Clients
  PROVE  LET c == st.conns[f]
             t == Written(st, f, k)
         IN  /\ t \in Shards /\ t.owner = st.owner /\ t.jobs = st.jobs /\ t.interest = st.interest
             /\ \A g \in Fds \ {f} : t.conns[g] = st.conns[g]
             /\ \A m \in Clients \ {k} : t.got[m] = st.got[m]
             /\ t.got[k] = Append(st.got[k], c.resp)
             /\ t.conns[f] # NoConn /\ t.conns[f].who = c.who /\ t.conns[f].next = c.next
             /\ ~t.conns[f].writing
<1> DEFINE c == st.conns[f]
           d == [c EXCEPT !.writing = FALSE, !.resp = None, !.parts = 0]
           n == [st.conns EXCEPT ![f] = d]
           g == [st.got EXCEPT ![k] = Append(@, c.resp)]
           t == [st EXCEPT !.got = g, !.conns = n]
<1>1. Written(st, f, k) = t
  BY Zenon DEF Shards, Written
<1>2. c \in Connection /\ c.resp \in Replies /\ None \in Replies
  BY ShardFields, ConnectionFields DEF Replies
<1> HIDE DEF c
<1>3. /\ d \in Connection /\ d.who = c.who /\ d.next = c.next /\ ~d.writing
  BY Zenon, <1>2 DEF Connection
<1>4. /\ g \in [Clients -> Seq(Replies)] /\ g[k] = Append(st.got[k], c.resp)
      /\ \A m \in Clients \ {k} : g[m] = st.got[m]
  BY <1>2, ShardFields
<1> HIDE DEF d, g
<1>5. /\ n \in [Fds -> Connection \cup {NoConn}] /\ n[f] = d
      /\ \A h \in Fds \ {f} : n[h] = st.conns[h]
  BY Zenon, <1>3, ShardFields
<1> HIDE DEF n, t
<1>6. /\ t \in Shards /\ t.conns = n /\ t.jobs = st.jobs /\ t.got = g
      /\ t.owner = st.owner /\ t.interest = st.interest
  BY Zenon, <1>4, <1>5 DEF Shards, t
<1>7. d # NoConn
  BY Zenon, <1>3, ConnectionFields
<1>8. QED BY ZenonT(30), <1>1, <1>3, <1>4, <1>5, <1>6, <1>7 DEF c, d

(* The connection at f has the response to its request, and the client has not. *)
Owed(st, f) ==
  /\ st.conns[f] # NoConn /\ st.conns[f].dispatched
  /\ Len(st.got[st.conns[f].who]) + 1 = st.conns[f].next
  /\ st.conns[f].resp = <<st.conns[f].who, st.conns[f].next>>

(* continue_write() of a response that nobody else has in hand. *)
LEMMA WriteKeeps ==
  ASSUME NEW st, NEW ob, NEW f \in Fds, NEW p \in Nat, Rest(st, ob, f), Quiet(st, ob, f),
         Owed(st, f), \A k \in Clients : left[k] # "rst"
  PROVE  ShardInv(continue_write(st, f, p), ob)
<1> DEFINE c == st.conns[f]
           k == st.owner[f]
<1>1. /\ st \in Shards /\ Entries(st) /\ c # NoConn
      /\ \A j \in st.jobs : j.at # "close"
  BY Zenon DEF Rest, Owed
<1>2. k \in Clients /\ k # None /\ st.interest[f] # "none" /\ c.who = k /\ c \in Connection
  BY <1>1, ShardFields DEF Entries
<1>3. CASE p > 0
  <2> DEFINE t == Parked(st, f, p, k)
  <2>1. continue_write(st, f, p) = t
    BY ZenonT(30), <1>2, <1>3 DEF continue_write, Parked
  <2>2. /\ t \in Shards /\ t.got = st.got /\ t.owner = st.owner /\ t.jobs = st.jobs
        /\ \A g \in Fds \ {f} : t.conns[g] = st.conns[g] /\ t.interest[g] = st.interest[g]
        /\ t.conns[f] # NoConn /\ t.conns[f].who = c.who /\ t.conns[f].next = c.next
        /\ t.conns[f].dispatched = c.dispatched /\ t.conns[f].writing
        /\ t.conns[f].resp = c.resp /\ t.interest[f] = "W"
    BY <1>1, <1>2, ParkFields
  <2> HIDE DEF t
  <2>3. Rest(t, ob, f)
    BY <1>1, <1>2, <2>2, Local
  <2>4. Quiet(t, ob, f)
    BY Zenon, <2>2 DEF Quiet, Running
  <2>5. Busy(t, ob, f)
    BY Zenon, <2>2, <2>4 DEF Busy, Quiet, Running, Queued, Owed
  <2>6. QED BY Zenon, <2>1, <2>2, <2>3, <2>5, Whole DEF FdInv
<1>4. CASE ~(p > 0)
  <2> DEFINE t == Written(st, f, k)
  <2>1. continue_write(st, f, p) = finish_response(t, f)
    BY ZenonT(30), <1>2, <1>4 DEF continue_write, Written
  <2>2. /\ t \in Shards /\ t.owner = st.owner /\ t.jobs = st.jobs /\ t.interest = st.interest
        /\ \A g \in Fds \ {f} : t.conns[g] = st.conns[g]
        /\ \A m \in Clients \ {k} : t.got[m] = st.got[m]
        /\ t.got[k] = Append(st.got[k], c.resp)
        /\ t.conns[f] # NoConn /\ t.conns[f].who = c.who /\ t.conns[f].next = c.next
        /\ ~t.conns[f].writing
    BY ZenonT(30), <1>1, <1>2, WrittenFields
  <2>3. /\ st.got[k] \in Seq(Replies) /\ c.resp = <<k, Len(st.got[k]) + 1>> /\ c.resp \in Replies
        /\ c.next = Len(st.got[k]) + 1 /\ t.conns[f].who = k /\ t.conns[f].next = c.next
    <3> HIDE DEF t, k
    <3>1. st.got[k] \in Seq(Replies) /\ c.resp \in Replies /\ c.next \in Nat
      BY Zenon, <1>1, <1>2, ShardFields, ConnectionFields
    <3>2. QED BY Zenon, <1>2, <2>2, <3>1 DEF Owed
  <2> HIDE DEF t, c
  <2>4. Rest(t, ob, f)
    <3>1. t.got[k] = WithNext(st.got[k], k)
      BY Zenon, <2>2, <2>3 DEF WithNext
    <3>2. st.owner[f] = k /\ t.owner[f] = k /\ t.conns[f].who = k
      BY Zenon, <2>2, <2>3
    <3> HIDE DEF k
    <3>3. QED BY <1>1, <1>2, <2>2, <3>1, <3>2, Local
  <2>5. Quiet(t, ob, f)
    BY Zenon, <2>2 DEF Quiet, Running
  <2>6. Len(Append(st.got[k], c.resp)) = Len(st.got[k]) + 1
    BY <2>3
  <2>7. Len(t.got[t.conns[f].who]) = t.conns[f].next
    BY Zenon, <2>2, <2>3, <2>6
  <2>8. QED BY Zenon, <2>1, <2>2, <2>4, <2>5, <2>7, FinishKeeps
<1>5. QED BY Zenon, <1>3, <1>4

LEMMA TailOf ==
  ASSUME NEW S, NEW q \in Seq(S), q # <<>>
  PROVE  /\ 1 \in DOMAIN q /\ Head(q) = q[1] /\ q[1] \in S
         /\ \A i \in DOMAIN Tail(q) : i + 1 \in DOMAIN q /\ i + 1 # 1 /\ Tail(q)[i] = q[i + 1]
         /\ \A i \in DOMAIN q : i # 1 => i - 1 \in DOMAIN Tail(q) /\ Tail(q)[i - 1] = q[i]
OBVIOUS

(* The handbacks that remain are about the other descriptors. *)
LEMMA PopKeeps ==
  ASSUME NEW st, NEW ob \in Seq(Handbacks), ob # <<>>, ShardInv(st, ob)
  PROVE  LET f == Head(ob).fd
         IN  /\ f \in Fds /\ Head(ob) \in Handbacks /\ st.conns[f] # NoConn
             /\ Busy(st, ob, f) /\ ReplyIsCurrent(st.conns[f], Head(ob))
             /\ Rest(st, Tail(ob), f) /\ Quiet(st, Tail(ob), f)
<1> DEFINE f == Head(ob).fd
           tl == Tail(ob)
<1>1. /\ 1 \in DOMAIN ob /\ Head(ob) = ob[1] /\ ob[1] \in Handbacks
      /\ \A i \in DOMAIN tl : i + 1 \in DOMAIN ob /\ i + 1 # 1 /\ tl[i] = ob[i + 1]
      /\ \A i \in DOMAIN ob : i # 1 => i - 1 \in DOMAIN tl /\ tl[i - 1] = ob[i]
  BY Zenon, TailOf
<1>2. f \in Fds /\ Queued(ob, f)
  BY Zenon, <1>1 DEF Handbacks, Queued
<1> HIDE DEF tl
<1>3. FdInv(st, ob, f)
  BY Zenon, <1>2 DEF ShardInv
<1>4. st.conns[f] # NoConn /\ Busy(st, ob, f)
  BY Zenon, <1>2, <1>3 DEF FdInv, Quiet
<1>5. ReplyIsCurrent(st.conns[f], Head(ob)) /\ \A h \in DOMAIN ob : ob[h].fd = f => h = 1
  BY <1>1, <1>4 DEF Busy
<1>6. Quiet(st, tl, f)
  <2>1. ~Queued(tl, f)
    BY Zenon, <1>1, <1>5 DEF Queued
  <2>2. ~Running(st, f)
    BY Zenon, <1>2, <1>4 DEF Busy, Quiet
  <2>3. QED BY Zenon, <2>1, <2>2 DEF Quiet
<1>7. ASSUME NEW g \in Fds \ {f} PROVE FdInv(st, tl, g)
  <2>1. FdInv(st, ob, g)
    BY Zenon DEF ShardInv
  <2>2. Queued(tl, g) <=> Queued(ob, g)
    <3>1. Queued(tl, g) => Queued(ob, g)
      BY <1>1 DEF Queued
    <3>2. ASSUME NEW i \in DOMAIN ob, ob[i].fd = g PROVE Queued(tl, g)
      BY Zenon, <1>1, <3>2 DEF Queued
    <3>3. QED BY Zenon, <3>1, <3>2 DEF Queued
  <2>3. Quiet(st, tl, g) <=> Quiet(st, ob, g)
    BY Zenon, <2>2 DEF Quiet
  <2>4. ASSUME Busy(st, ob, g) PROVE Busy(st, tl, g)
    <3>1. ASSUME NEW i \in DOMAIN tl, tl[i].fd = g
          PROVE  /\ ReplyIsCurrent(st.conns[g], tl[i])
                 /\ \A h \in DOMAIN tl : tl[h].fd = g => h = i
      <4>1. i + 1 \in DOMAIN ob /\ ob[i + 1] = tl[i]
        BY Zenon, <1>1
      <4>2. ReplyIsCurrent(st.conns[g], ob[i + 1]) /\ \A h \in DOMAIN ob : ob[h].fd = g => h = i + 1
        BY Zenon, <2>4, <3>1, <4>1 DEF Busy
      <4>3. ASSUME NEW h \in DOMAIN tl, tl[h].fd = g PROVE h = i
        <5>1. h + 1 = i + 1
          BY Zenon, <1>1, <4>2, <4>3
        <5>2. i \in Nat /\ h \in Nat
          BY DEF tl
        <5>3. QED BY <5>1, <5>2
      <4>4. QED BY Zenon, <4>1, <4>2, <4>3
    <3>2. QED BY Zenon, <2>2, <2>3, <2>4, <3>1 DEF Busy
  <2>5. QED BY Zenon, <2>1, <2>3, <2>4 DEF FdInv
<1>8. Rest(st, tl, f)
  BY Zenon, <1>7 DEF Rest, ShardInv
<1>9. QED BY <1>1, <1>2, <1>4, <1>5, <1>6, <1>8 DEF tl

Answering(st, f, hb) ==
  [st EXCEPT !.conns[f] = [@ EXCEPT !.resp = hb.resp, !.keep = hb.keep]]

LEMMA AnsweringFields ==
  ASSUME NEW st \in Shards, NEW f \in Fds, st.conns[f] # NoConn, NEW hb \in Handbacks
  PROVE  LET c == st.conns[f]
             t == Answering(st, f, hb)
         IN  /\ t \in Shards /\ t.got = st.got /\ t.owner = st.owner /\ t.jobs = st.jobs
             /\ t.interest = st.interest
             /\ \A g \in Fds \ {f} : t.conns[g] = st.conns[g]
             /\ t.conns[f] # NoConn /\ t.conns[f].who = c.who /\ t.conns[f].next = c.next
             /\ t.conns[f].dispatched = c.dispatched /\ t.conns[f].resp = hb.resp
<1> DEFINE c == st.conns[f]
           d == [c EXCEPT !.resp = hb.resp, !.keep = hb.keep]
           n == [st.conns EXCEPT ![f] = d]
           t == [st EXCEPT !.conns = n]
<1>1. Answering(st, f, hb) = t
  BY Zenon DEF Shards, Answering
<1>2. c \in Connection /\ hb.resp \in Replies /\ hb.keep \in BOOLEAN
  BY Zenon, ShardFields DEF Handbacks
<1> HIDE DEF c
<1>3. /\ d \in Connection /\ d.who = c.who /\ d.next = c.next
      /\ d.dispatched = c.dispatched /\ d.resp = hb.resp
  BY Zenon, <1>2 DEF Connection
<1> HIDE DEF d
<1>4. /\ n \in [Fds -> Connection \cup {NoConn}] /\ n[f] = d
      /\ \A g \in Fds \ {f} : n[g] = st.conns[g]
  BY <1>3, ShardFields
<1> HIDE DEF n, t
<1>5. /\ t \in Shards /\ t.conns = n /\ t.jobs = st.jobs /\ t.got = st.got
      /\ t.owner = st.owner /\ t.interest = st.interest
  BY Zenon, <1>4 DEF Shards, t
<1>6. d # NoConn
  BY Zenon, <1>3, ConnectionFields
<1>7. QED BY <1>1, <1>3, <1>4, <1>5, <1>6 DEF c

(* drain_outbox(), one handback. *)
LEMMA HandbackKeeps ==
  ASSUME NEW st, NEW ob \in Seq(Handbacks), ob # <<>>, ShardInv(st, ob), NEW p \in Nat,
         \A k \in Clients : left[k] # "rst"
  PROVE  ShardInv(Handback(st, Head(ob), p), Tail(ob))
<1> DEFINE hb == Head(ob)
           f == hb.fd
           tl == Tail(ob)
<1>1. /\ f \in Fds /\ hb \in Handbacks /\ st.conns[f] # NoConn
      /\ Busy(st, ob, f) /\ ReplyIsCurrent(st.conns[f], hb)
      /\ Rest(st, tl, f) /\ Quiet(st, tl, f)
  BY Zenon, PopKeeps
<1> HIDE DEF hb, tl
<1>2. CASE hb.resp = None /\ ~hb.keep
  <2>1. Handback(st, hb, p) = close_connection(st, f)
    BY <1>1, <1>2 DEF Handback
  <2>2. QED BY <1>1, <2>1, CloseKeeps DEF hb, tl
<1>3. CASE ~(hb.resp = None /\ ~hb.keep)
  <2> DEFINE t == Answering(st, f, hb)
             c == st.conns[f]
  <2>1. Handback(st, hb, p) = continue_write(t, f, p)
    BY Zenon, <1>1, <1>3 DEF Handback, Answering
  <2>2. st \in Shards /\ Entries(st) /\ \A j \in st.jobs : j.at # "close"
    BY Zenon, <1>1 DEF Rest
  <2>3. /\ t \in Shards /\ t.got = st.got /\ t.owner = st.owner /\ t.jobs = st.jobs
        /\ t.interest = st.interest
        /\ \A g \in Fds \ {f} : t.conns[g] = st.conns[g]
        /\ t.conns[f] # NoConn /\ t.conns[f].who = c.who /\ t.conns[f].next = c.next
        /\ t.conns[f].dispatched = c.dispatched /\ t.conns[f].resp = hb.resp
    BY ZenonT(30), <1>1, <2>2, AnsweringFields
  <2>4. st.owner[f] # None /\ c.who = st.owner[f] /\ st.interest[f] # "none"
    BY Zenon, <1>1, <2>2 DEF Entries
  <2> HIDE DEF t, f
  <2>5. Rest(t, tl, f)
    BY <1>1, <2>2, <2>3, <2>4, Local
  <2>6. Quiet(t, tl, f)
    BY Zenon, <1>1, <2>3 DEF Quiet, Running
  <2>7. Owed(t, f)
    BY Zenon, <1>1, <1>3, <2>3 DEF Owed, ReplyIsCurrent, Busy
  <2>8. ShardInv(continue_write(t, f, p), tl)
    BY Zenon, <1>1, <2>5, <2>6, <2>7, WriteKeeps
  <2>9. QED BY Zenon, <2>1, <2>8 DEF hb, tl
<1>4. QED BY Zenon, <1>2, <1>3

(* on_client_event(), as long as nobody resets a connection. *)
LEMMA EventKeeps ==
  ASSUME NEW st, NEW ob, NEW f \in Fds, ShardInv(st, ob), NEW p \in Nat, NEW mask,
         "closed" \notin mask, \A k \in Clients : left[k] # "rst", NEW m \in Nat
  PROVE  ShardInv(on_client_event(st, f, mask, p, m), ob)
<1>1. CASE "writable" \in mask /\ st.conns[f] # NoConn /\ st.conns[f].writing
  <2>1. on_client_event(st, f, mask, p, m) = continue_write(st, f, p)
    BY Zenon, <1>1 DEF on_client_event
  <2>2. Rest(st, ob, f) /\ FdInv(st, ob, f)
    BY Zenon DEF Rest, ShardInv
  <2>3. Quiet(st, ob, f) /\ Owed(st, f)
    BY Zenon, <1>1, <2>2 DEF FdInv, Idle, Busy, Owed
  <2>4. QED BY <2>1, <2>2, <2>3, WriteKeeps
<1>2. CASE "writable" \in mask /\ ~(st.conns[f] # NoConn /\ st.conns[f].writing)
  BY Zenon, <1>2 DEF on_client_event
<1>3. CASE "writable" \notin mask /\ "readable" \in mask
  BY Zenon, <1>3, ReadEventKeeps DEF on_client_event
<1>4. CASE "writable" \notin mask /\ "readable" \notin mask
  BY Zenon, <1>4 DEF on_client_event
<1>5. QED BY <1>1, <1>2, <1>3, <1>4

-----------------------------------------------------------------------------
(* The steps *)

LEMMA SameShard ==
  ASSUME NEW st, NEW t \in Shards, NEW ob, ShardInv(st, ob), t.conns = st.conns,
         t.owner = st.owner, t.interest = st.interest, t.got = st.got, t.jobs = st.jobs
  PROVE  ShardInv(t, ob)
<1>1. Entries(t) /\ InOrder(t) /\ Strangers(t) /\ \A j \in t.jobs : j.at # "close"
  BY DEF ShardInv, Entries, InOrder, Strangers
<1>2. ASSUME NEW g \in Fds PROVE FdInv(t, ob, g)
  <2>1. FdInv(st, ob, g)
    BY Zenon DEF ShardInv
  <2>2. Quiet(t, ob, g) <=> Quiet(st, ob, g)
    BY Zenon DEF Quiet, Running
  <2>3. Idle(t, g) <=> Idle(st, g)
    BY Zenon DEF Idle
  <2>4. Busy(t, ob, g) <=> Busy(st, ob, g)
    BY <2>2 DEF Busy, Running, JobIsCurrent
  <2>5. QED BY Zenon, <2>1, <2>2, <2>3, <2>4 DEF FdInv
<1>3. QED BY Zenon, <1>1, <1>2 DEF ShardInv

LEMMA Carry ==
  ASSUME NEW t, NEW ob, ShardInv(t, ob), s' = t, outbox' = ob, UNCHANGED <<backlog, left>>
  PROVE  ShardInv(s, outbox)'
<1>1. Strangers(s)'
  BY Zenon DEF ShardInv, Strangers, Waits
<1>2. QED BY Zenon, <1>1 DEF ShardInv

-----------------------------------------------------------------------------
(* Steps *)

LEMMA InvInit == Init => ReactorInv
<1> SUFFICES ASSUME Init PROVE ReactorInv
  OBVIOUS
<1>1. TypeOK
  <2>1. s \in Shards
    BY DEF Init, Shards
  <2>2. /\ backlog = <<>> /\ listen_edge = FALSE /\ left = [k \in Clients |-> "new"]
        /\ sent = [k \in Clients |-> 0] /\ phase = "check" /\ batch = {} /\ accepted = 0
        /\ running = TRUE /\ outbox = <<>>
    BY Zenon DEF Init
  <2>3. listen_edge \in BOOLEAN /\ running \in BOOLEAN /\ batch \subseteq Events
    BY Zenon, <2>2
  <2>4. backlog \in Seq(Clients) /\ outbox \in Seq(Handbacks) /\ accepted \in Nat
    BY <2>2
  <2>5. left \in [Clients -> {"new", "no", "fin", "rst"}] /\ sent \in [Clients -> Nat]
    BY Zenon, <2>2
  <2>6. phase \in {"check", "wait", "events", "outbox", "stopped"}
    BY Zenon, <2>2
  <2>7. QED BY Zenon, <2>1, <2>3, <2>4, <2>5, <2>6 DEF TypeOK
<1>2. NobodyResets
  BY Zenon DEF Init, NobodyResets
<1>3. ShardInv(s, outbox)
  <2>1. Entries(s) /\ InOrder(s) /\ Strangers(s)
    BY NoneAssumption DEF Init, Entries, InOrder, Strangers, NoConn
  <2>2. \A g \in Fds : FdInv(s, outbox, g)
    BY DEF Init, FdInv, Quiet, Running, Queued
  <2>3. QED BY ZenonT(30), <1>1, <2>1, <2>2 DEF Init, ShardInv, TypeOK
<1>4. ArrivalsInv
  BY DEF Init, ArrivalsInv, Waits
<1>5. QED BY Zenon, <1>1, <1>2, <1>3, <1>4 DEF Init, ReactorInv

(* Steps of clients, the kernel and workers that leave connections_ alone. *)
LEMMA Outside ==
  ASSUME ReactorInv, TypeOK', NobodyResets', phase' = phase, running' = running,
         s'.conns = s.conns, s'.owner = s.owner, s'.interest = s.interest, s'.got = s.got,
         phase # "stopped" => ShardInv(s, outbox)' /\ ArrivalsInv'
  PROVE  ReactorInv'
<1>1. InOrder(s) => InOrder(s)'
  BY Zenon DEF InOrder
<1>2. AllClosed => AllClosed'
  BY Zenon DEF AllClosed
<1>3. QED BY Zenon, <1>1, <1>2 DEF ReactorInv

LEMMA ConnectStep ==
  ASSUME ReactorInv, NEW k \in Clients, Connect(k)
  PROVE  ReactorInv'
<1>1. /\ left[k] = "new" /\ left' = [left EXCEPT ![k] = "no"] /\ backlog' = Append(backlog, k)
      /\ listen_edge' = TRUE
      /\ UNCHANGED <<sent, s, phase, batch, accepted, running, outbox>>
  BY Zenon DEF Connect, loop
<1>2. TypeOK
  BY Zenon DEF ReactorInv
<1>3. left \in [Clients -> {"new", "no", "fin", "rst"}] /\ backlog \in Seq(Clients)
  BY Zenon, <1>2 DEF TypeOK
<1>4. /\ left' \in [Clients -> {"new", "no", "fin", "rst"}] /\ left'[k] = "no"
      /\ \A m \in Clients \ {k} : left'[m] = left[m]
  BY Zenon, <1>1, <1>3
<1>5. /\ backlog' \in Seq(Clients) /\ DOMAIN backlog' = 1..(Len(backlog) + 1)
      /\ DOMAIN backlog = 1..Len(backlog) /\ backlog'[Len(backlog) + 1] = k
      /\ \A i \in 1..Len(backlog) : backlog'[i] = backlog[i]
  BY <1>1, <1>3
<1>6. TypeOK'
  BY <1>1, <1>2, <1>4, <1>5 DEF TypeOK
<1>7. NobodyResets'
  BY Zenon, <1>1, <1>4 DEF ReactorInv, NobodyResets
<1>8. ASSUME NEW m \in Clients PROVE Waits(m)' <=> Waits(m) \/ m = k
  BY <1>3, <1>5 DEF Waits
<1>9. CASE phase # "stopped"
  <2>1. ShardInv(s, outbox) /\ ArrivalsInv
    BY Zenon, <1>9 DEF ReactorInv
  <2>2. ArrivalsInv'
    <3>1. ~Waits(k)
      BY Zenon, <1>1, <2>1 DEF ArrivalsInv
    <3>2. \A i, j \in DOMAIN backlog' : backlog'[i] = backlog'[j] => i = j
      BY <1>3, <1>5, <2>1, <3>1 DEF ArrivalsInv, Waits
    <3>3. \A m \in Clients : left'[m] = "new" => ~Waits(m)'
      BY Zenon, <1>4, <1>8, <2>1 DEF ArrivalsInv
    <3>4. QED BY Zenon, <3>2, <3>3 DEF ArrivalsInv
  <2>3. Strangers(s)'
    BY Zenon, <1>1, <1>4, <1>8, <2>1 DEF ShardInv, Strangers
  <2>4. ShardInv(s, outbox)'
    BY Zenon, <1>1, <2>1, <2>3 DEF ShardInv
  <2>5. QED BY Zenon, <1>1, <1>6, <1>7, <2>2, <2>4, Outside
<1>10. QED BY <1>1, <1>6, <1>7, <1>9, Outside

(* A step that changes nothing of connections_, the sockets and the jobs. *)
LEMMA OnlyEdges ==
  ASSUME ReactorInv, phase # "stopped", s' \in Shards, UNCHANGED <<outbox, backlog>>,
         s'.conns = s.conns, s'.owner = s.owner, s'.interest = s.interest,
         s'.got = s.got, s'.jobs = s.jobs,
         \A m \in Clients : left'[m] = "new" <=> left[m] = "new"
  PROVE  ShardInv(s, outbox)' /\ ArrivalsInv'
<1>1. ShardInv(s, outbox) /\ ArrivalsInv
  BY Zenon DEF ReactorInv
<1>2. ShardInv(s', outbox)
  BY Zenon, <1>1, SameShard
<1>3. \A m \in Clients : Waits(m)' <=> Waits(m)
  BY Zenon DEF Waits
<1>4. Strangers(s)'
  BY Zenon, <1>2, <1>3 DEF ShardInv, Strangers
<1>5. ShardInv(s, outbox)'
  BY Zenon, <1>2, <1>4 DEF ShardInv
<1>6. ArrivalsInv'
  BY Zenon, <1>1, <1>3 DEF ArrivalsInv
<1>7. QED BY Zenon, <1>5, <1>6

LEMMA SendStep ==
  ASSUME ReactorInv, NEW k \in Clients, Send(k)
  PROVE  ReactorInv'
<1>1. /\ sent' = [sent EXCEPT ![k] = @ + 1]
      /\ s' = [s EXCEPT !.unread[k] = @ + 1, !.edge = Touched(k)]
      /\ UNCHANGED <<backlog, left, listen_edge, phase, batch, accepted, running, outbox>>
  BY Zenon DEF Send, loop
<1>2. TypeOK /\ s \in Shards
  BY Zenon DEF ReactorInv, TypeOK
<1> DEFINE u == [s.unread EXCEPT ![k] = @ + 1]
           e == Touched(k)
<1>3. u \in [Clients -> Nat] /\ e \in [Fds -> BOOLEAN]
  BY <1>2, ShardFields DEF Touched
<1>4. s' = [s EXCEPT !.unread = u, !.edge = e]
  BY Zenon, <1>1
<1> HIDE DEF u, e
<1>6. /\ s' \in Shards /\ s'.conns = s.conns /\ s'.owner = s.owner
      /\ s'.interest = s.interest /\ s'.got = s.got /\ s'.jobs = s.jobs
  BY Zenon, <1>2, <1>3, <1>4 DEF Shards
<1>7. TypeOK'
  BY <1>1, <1>2, <1>6 DEF TypeOK
<1>8. NobodyResets'
  BY Zenon, <1>1 DEF ReactorInv, NobodyResets
<1>9. QED BY <1>1, <1>6, <1>7, <1>8, Outside, OnlyEdges

LEMMA HangupStep ==
  ASSUME ReactorInv, Orderly, NEW k \in Clients, Hangup(k)
  PROVE  ReactorInv'
<1>1. /\ left[k] = "no" /\ left' = [left EXCEPT ![k] = "fin"]
      /\ s' = [s EXCEPT !.edge = Touched(k)]
      /\ UNCHANGED <<backlog, sent, listen_edge, phase, batch, accepted, running, outbox>>
  BY Zenon DEF Hangup, Orderly, loop
<1>2. TypeOK /\ s \in Shards
  BY Zenon DEF ReactorInv, TypeOK
<1>3. left \in [Clients -> {"new", "no", "fin", "rst"}]
  BY Zenon, <1>2 DEF TypeOK
<1>4. /\ left' \in [Clients -> {"new", "no", "fin", "rst"}] /\ left'[k] = "fin"
      /\ \A m \in Clients \ {k} : left'[m] = left[m]
  BY Zenon, <1>1, <1>3
<1> DEFINE e == Touched(k)
<1>5. e \in [Fds -> BOOLEAN] /\ s' = [s EXCEPT !.edge = e]
  BY Zenon, <1>1, <1>2, ShardFields DEF Touched
<1> HIDE DEF e
<1>7. /\ s' \in Shards /\ s'.conns = s.conns /\ s'.owner = s.owner
      /\ s'.interest = s.interest /\ s'.got = s.got /\ s'.jobs = s.jobs
  BY Zenon, <1>2, <1>5 DEF Shards
<1>8. TypeOK'
  BY Zenon, <1>1, <1>2, <1>4, <1>7 DEF TypeOK
<1>9. NobodyResets'
  BY Zenon, <1>1, <1>4 DEF ReactorInv, NobodyResets
<1>10. \A m \in Clients : left'[m] = "new" <=> left[m] = "new"
  BY Zenon, <1>1, <1>4
<1>11. QED BY <1>1, <1>7, <1>8, <1>9, <1>10, Outside, OnlyEdges

LEMMA DrainStep ==
  ASSUME ReactorInv, NEW k \in Clients, Drain(k)
  PROVE  ReactorInv'
<1>1. /\ s' = [s EXCEPT !.full = @ \ {k}, !.edge = Touched(k)]
      /\ UNCHANGED <<backlog, left, sent, listen_edge, phase, batch, accepted, running, outbox>>
  BY Zenon DEF Drain, loop, kernel
<1>2. TypeOK /\ s \in Shards
  BY Zenon DEF ReactorInv, TypeOK
<1> DEFINE e == Touched(k)
           w == s.full \ {k}
<1>3. e \in [Fds -> BOOLEAN] /\ w \in SUBSET Clients
  BY Zenon, <1>2, ShardFields DEF Touched
<1>4. s' = [s EXCEPT !.full = w, !.edge = e]
  BY Zenon, <1>1
<1> HIDE DEF e, w
<1>5. /\ s' \in Shards /\ s'.conns = s.conns /\ s'.owner = s.owner
      /\ s'.interest = s.interest /\ s'.got = s.got /\ s'.jobs = s.jobs
  BY ZenonT(30), <1>2, <1>3, <1>4 DEF Shards
<1>6. TypeOK'
  BY Zenon, <1>1, <1>2, <1>5 DEF TypeOK
<1>7. NobodyResets'
  BY Zenon, <1>1 DEF ReactorInv, NobodyResets
<1>8. QED BY <1>1, <1>5, <1>6, <1>7, Outside, OnlyEdges

(* Steps of the reactor thread, which has not been joined. *)
LEMMA Inside ==
  ASSUME ReactorInv, TypeOK', NobodyResets', running' = running, phase' # "stopped",
         ShardInv(s, outbox)', ArrivalsInv'
  PROVE  ReactorInv'
BY Zenon DEF ReactorInv

LEMMA WaitStep ==
  ASSUME ReactorInv, Wait
  PROVE  ReactorInv'
<1> DEFINE due == {f \in Fds : s.edge[f] /\ Mask(f) # {}}
           e == [f \in Fds |-> s.edge[f] /\ f \notin due]
           events == {[fd |-> f, mask |-> Mask(f)] : f \in due}
<1>1. /\ phase = "wait" /\ batch' = events \cup (IF listen_edge THEN {ListenEvent} ELSE {})
      /\ s' = [s EXCEPT !.edge = e]
      /\ listen_edge' = FALSE /\ phase' = "events" /\ accepted' = 0
      /\ UNCHANGED <<backlog, left, sent, running, outbox>>
  BY Zenon DEF Wait
<1>2. TypeOK /\ s \in Shards /\ NobodyResets
  BY Zenon DEF ReactorInv, TypeOK
<1>3. e \in [Fds -> BOOLEAN]
  BY Zenon, <1>2, ShardFields
<1> HIDE DEF e
<1>4. /\ s' \in Shards /\ s'.conns = s.conns /\ s'.owner = s.owner
      /\ s'.interest = s.interest /\ s'.got = s.got /\ s'.jobs = s.jobs
  BY Zenon, <1>1, <1>2, <1>3 DEF Shards
<1>5. ASSUME NEW f \in Fds PROVE Mask(f) \in SUBSET {"readable", "writable"}
  BY <1>2, ShardFields DEF Mask, NobodyResets
<1>6. \A x \in events : x \in Events /\ "closed" \notin x.mask
  BY <1>5 DEF Events
<1>7. ListenEvent \in Events /\ "closed" \notin ListenEvent.mask
  BY Zenon DEF ListenEvent, Events, listen_fd
<1> HIDE DEF events
<1>8. batch' \subseteq Events /\ \A x \in batch' : "closed" \notin x.mask
  BY Zenon, <1>1, <1>6, <1>7
<1>9. TypeOK'
  BY Zenon, <1>1, <1>2, <1>4, <1>8 DEF TypeOK
<1>10. NobodyResets'
  BY Zenon, <1>1, <1>2, <1>8 DEF NobodyResets
<1>11. QED BY <1>1, <1>4, <1>9, <1>10, Inside, OnlyEdges

(* A handler has run: clients and backlog are as they were. *)
LEMMA HandlerStep ==
  ASSUME ReactorInv, phase # "stopped", phase' # "stopped", NEW t, NEW ob, s' = t, outbox' = ob,
         ShardInv(t, ob), ob \in Seq(Handbacks), UNCHANGED kernel, batch' \subseteq batch,
         phase' \in {"check", "wait", "events", "outbox"}, accepted' = accepted, running' = running
  PROVE  ReactorInv'
<1>1. TypeOK /\ NobodyResets /\ ArrivalsInv
  BY Zenon DEF ReactorInv
<1>2. t \in Shards
  BY Zenon DEF ShardInv
<1>3. TypeOK'
  BY Zenon, <1>1, <1>2 DEF TypeOK, kernel
<1>4. NobodyResets'
  BY Zenon, <1>1 DEF NobodyResets, kernel
<1>5. ShardInv(s, outbox)'
  BY Zenon, Carry DEF kernel
<1>6. ArrivalsInv'
  BY Zenon, <1>1 DEF ArrivalsInv, Waits, kernel
<1>7. QED BY Zenon, <1>3, <1>4, <1>5, <1>6, Inside

LEMMA ClientEventStep ==
  ASSUME ReactorInv, ClientEvent
  PROVE  ReactorInv'
<1>1. /\ phase = "events"
      /\ UNCHANGED <<backlog, left, sent, listen_edge, phase, accepted, running, outbox>>
  BY Zenon DEF ClientEvent, kernel
<1>2. PICK x \in batch :
        /\ x.fd # listen_fd
        /\ \E p \in IF s.conns[x.fd] = NoConn THEN {0} ELSE Remaining(x.fd, s.conns[x.fd].parts) :
             \E m \in Cuts(s, x.fd) : s' = on_client_event(s, x.fd, x.mask, p, m)
        /\ batch' = batch \ {x}
  BY Zenon DEF ClientEvent
<1>3. TypeOK /\ NobodyResets /\ ShardInv(s, outbox)
  BY Zenon, <1>1 DEF ReactorInv
<1>4. s \in Shards /\ outbox \in Seq(Handbacks) /\ x \in Events
  BY Zenon, <1>2, <1>3 DEF TypeOK
<1>5. x.fd \in Fds /\ "closed" \notin x.mask
  BY Zenon, <1>2, <1>3, <1>4 DEF Events, NobodyResets
<1>6. PICK p \in IF s.conns[x.fd] = NoConn THEN {0} ELSE Remaining(x.fd, s.conns[x.fd].parts) :
        \E m \in Cuts(s, x.fd) : s' = on_client_event(s, x.fd, x.mask, p, m)
  BY Zenon, <1>2
<1>7. p \in Nat
  <2>1. CASE s.conns[x.fd] = NoConn
    BY <1>6, <2>1
  <2>2. CASE s.conns[x.fd] # NoConn
    <3>1. s.conns[x.fd].parts \in Nat
      BY <1>4, <1>5, <2>2, ShardFields, ConnectionFields
    <3>2. p \in Remaining(x.fd, s.conns[x.fd].parts)
      BY Zenon, <1>6, <2>2
    <3>3. QED BY <3>1, <3>2 DEF Remaining
  <2>3. QED BY Zenon, <2>1, <2>2
<1>8. PICK m \in Cuts(s, x.fd) : s' = on_client_event(s, x.fd, x.mask, p, m)
  BY Zenon, <1>6
<1>9. m \in Nat
  BY <1>8 DEF Cuts
<1> DEFINE t == on_client_event(s, x.fd, x.mask, p, m)
<1>10. ShardInv(t, outbox) /\ s' = t
  BY Zenon, <1>3, <1>5, <1>7, <1>8, <1>9, EventKeeps DEF NobodyResets
<1> HIDE DEF t
<1>11. UNCHANGED kernel /\ batch' \subseteq batch
  BY Zenon, <1>1, <1>2 DEF kernel
<1>12. QED BY <1>1, <1>4, <1>10, <1>11, HandlerStep

LEMMA DrainOneStep ==
  ASSUME ReactorInv, DrainOne
  PROVE  ReactorInv'
<1>1. /\ phase = "outbox" /\ outbox # <<>> /\ outbox' = Tail(outbox)
      /\ UNCHANGED kernel /\ UNCHANGED <<phase, batch, accepted, running>>
  BY Zenon DEF DrainOne, loop
<1>2. PICK p \in Remaining(Head(outbox).fd, Parts) : s' = Handback(s, Head(outbox), p)
  BY Zenon DEF DrainOne
<1>3. p \in Nat
  BY <1>2, ReactorAssumption DEF Remaining
<1>4. ShardInv(s, outbox) /\ outbox \in Seq(Handbacks) /\ NobodyResets
  BY Zenon, <1>1 DEF ReactorInv, TypeOK
<1> DEFINE t == Handback(s, Head(outbox), p)
           ob == Tail(outbox)
<1>5. ShardInv(t, ob) /\ s' = t
  BY Zenon, <1>1, <1>2, <1>3, <1>4, HandbackKeeps DEF NobodyResets
<1>6. ob \in Seq(Handbacks) /\ outbox' = ob
  BY <1>1, <1>4
<1> HIDE DEF t, ob
<1>7. QED BY Zenon, <1>1, <1>5, <1>6, HandlerStep

LEMMA NothingDone ==
  ASSUME ReactorInv, LoopCheck \/ WaitFails \/ AcceptEnd \/ EventsEnd
  PROVE  ReactorInv'
<1>1. /\ phase # "stopped" /\ phase' # "stopped" /\ phase' \in {"check", "wait", "events", "outbox"}
      /\ UNCHANGED kernel /\ UNCHANGED <<s, accepted, running, outbox>> /\ batch' \subseteq batch
  BY Zenon DEF LoopCheck, WaitFails, AcceptEnd, EventsEnd
<1>2. ShardInv(s, outbox) /\ outbox \in Seq(Handbacks)
  BY Zenon, <1>1 DEF ReactorInv, TypeOK
<1>3. QED BY Zenon, <1>1, <1>2, HandlerStep

LEMMA SweepStep ==
  ASSUME ReactorInv, Orderly, Sweep
  PROVE  ReactorInv'
<1>1. /\ phase = "outbox" /\ phase' = "check" /\ s' = CloseAll(s, {})
      /\ UNCHANGED kernel /\ UNCHANGED <<batch, accepted, running, outbox>>
  BY Zenon DEF Sweep, Orderly
<1>2. ShardInv(s, outbox) /\ outbox \in Seq(Handbacks) /\ s \in Shards
  BY Zenon, <1>1 DEF ReactorInv, TypeOK
<1> DEFINE At(fn, v) == [f \in Fds |-> IF f \in {h \in {} : s.conns[h] # NoConn} THEN v ELSE fn[f]]
           c == At(s.conns, NoConn)
           o == At(s.owner, None)
           i == At(s.interest, "none")
           e == At(s.edge, FALSE)
           t == [s EXCEPT !.conns = c, !.owner = o, !.interest = i, !.edge = e]
<1>3. s' = t
  BY Zenon, <1>1 DEF CloseAll
<1>4. c = s.conns /\ o = s.owner /\ i = s.interest /\ e = s.edge
  BY Zenon, <1>2, ShardFields
<1> HIDE DEF c, o, i, e
<1>5. /\ t \in Shards /\ t.conns = s.conns /\ t.owner = s.owner /\ t.interest = s.interest
      /\ t.got = s.got /\ t.jobs = s.jobs
  BY Zenon, <1>2, <1>4 DEF Shards
<1> HIDE DEF t
<1>6. ShardInv(t, outbox)
  BY Zenon, <1>2, <1>5, SameShard
<1>7. QED BY Zenon, <1>1, <1>2, <1>3, <1>6, HandlerStep

(* accept_all(), one connection: the kernel's number has no entry, and the client
   has no other descriptor. *)
LEMMA AcceptOneStep ==
  ASSUME ReactorInv, AcceptOne
  PROVE  ReactorInv'
<1> DEFINE k == Head(backlog)
<1>1. /\ phase = "events" /\ CanAccept /\ backlog' = Tail(backlog) /\ accepted' = accepted + 1
      /\ UNCHANGED <<left, sent, listen_edge, phase, batch, running, outbox>>
  BY DEF AcceptOne
<1>2. /\ TypeOK /\ NobodyResets /\ ShardInv(s, outbox) /\ ArrivalsInv /\ s \in Shards
      /\ backlog \in Seq(Clients)
  BY <1>1 DEF ReactorInv, TypeOK
<1>3. PICK f \in Fds :
        /\ s.owner[f] = None
        /\ \/ s' = [s EXCEPT !.owner[f] = k, !.interest[f] = "R", !.edge[f] = TRUE,
                             !.conns[f] = IF @ = NoConn THEN NewConn(k) ELSE @]
           \/ s' = [s EXCEPT !.conns[f] = NoConn]
  BY Zenon DEF AcceptOne
<1>4. /\ backlog # <<>> /\ k \in Clients /\ Waits(k) /\ backlog' \in Seq(Clients)
      /\ \A i \in DOMAIN backlog' :
           i + 1 \in DOMAIN backlog /\ i + 1 # 1 /\ backlog'[i] = backlog[i + 1]
      /\ k = backlog[1] /\ 1 \in DOMAIN backlog
  <2>1. backlog # <<>>
    BY Zenon, <1>1 DEF CanAccept
  <2>2. QED BY <1>1, <1>2, <2>1, TailOf DEF Waits
<1>5. \A m \in Clients : Waits(m)' => Waits(m) /\ m # k
  BY <1>2, <1>4 DEF Waits, ArrivalsInv
<1> HIDE DEF k
<1>6. /\ s.got[k] = <<>> /\ left[k] # "new" /\ \A g \in Fds : s.owner[g] # k
  BY Zenon, <1>2, <1>4 DEF ShardInv, Strangers, ArrivalsInv
<1>7. s.conns[f] = NoConn /\ k # None
  BY Zenon, <1>2, <1>3, <1>4, NoneAssumption DEF ShardInv, Entries
<1>8. ArrivalsInv'
  <2>1. \A a, b \in DOMAIN backlog' : backlog'[a] = backlog'[b] => a = b
    <3> SUFFICES ASSUME NEW a \in DOMAIN backlog', NEW b \in DOMAIN backlog',
                        backlog'[a] = backlog'[b]
                 PROVE  a = b
      OBVIOUS
    <3>1. a + 1 = b + 1
      BY Zenon, <1>2, <1>4 DEF ArrivalsInv
    <3>2. a \in Nat /\ b \in Nat
      BY <1>4
    <3>3. QED BY <3>1, <3>2
  <2>2. QED BY Zenon, <1>1, <1>2, <1>5, <2>1 DEF ArrivalsInv
<1>9. CASE s' = [s EXCEPT !.owner[f] = k, !.interest[f] = "R", !.edge[f] = TRUE,
                          !.conns[f] = IF @ = NoConn THEN NewConn(k) ELSE @]
  <2> DEFINE d == NewConn(k)
             n == [s.conns EXCEPT ![f] = d]
             o == [s.owner EXCEPT ![f] = k]
             i == [s.interest EXCEPT ![f] = "R"]
             e == [s.edge EXCEPT ![f] = TRUE]
  <2>1. /\ d \in Connection /\ d.who = k /\ d.next = 0 /\ ~d.dispatched /\ ~d.writing
    BY Zenon, <1>4 DEF NewConn, Connection, Replies
  <2>2. d # NoConn
    BY Zenon, <2>1, ConnectionFields
  <2>3. s' = [s EXCEPT !.owner = o, !.interest = i, !.edge = e, !.conns = n]
    BY <1>7, <1>9 DEF Shards
  <2> HIDE DEF d
  <2>4. /\ n \in [Fds -> Connection \cup {NoConn}] /\ o \in [Fds -> Clients \cup {None}]
         /\ i \in [Fds -> {"none", "R", "W"}] /\ e \in [Fds -> BOOLEAN]
         /\ n[f] = d /\ o[f] = k /\ i[f] = "R"
         /\ \A g \in Fds \ {f} : n[g] = s.conns[g] /\ o[g] = s.owner[g] /\ i[g] = s.interest[g]
    BY <1>2, <1>3, <1>4, <2>1, ShardFields
  <2> HIDE DEF n, o, i, e
  <2>5. /\ s' \in Shards /\ s'.conns = n /\ s'.owner = o /\ s'.interest = i
         /\ s'.got = s.got /\ s'.jobs = s.jobs
    BY ZenonT(30), <1>2, <2>3, <2>4 DEF Shards
  <2>6. TypeOK'
    BY <1>1, <1>2, <1>4, <2>5 DEF TypeOK
  <2>7. NobodyResets'
    BY Zenon, <1>1, <1>2 DEF NobodyResets
  <2>8. Entries(s)'
    BY <1>2, <1>3, <1>6, <1>7, <2>1, <2>2, <2>4, <2>5 DEF ShardInv, Entries
  <2>9. InOrder(s)' /\ Strangers(s)' /\ \A j \in s'.jobs : j.at # "close"
    <3>1. InOrder(s)' /\ \A j \in s'.jobs : j.at # "close"
      BY <1>2, <2>5 DEF ShardInv, InOrder
    <3>2. Strangers(s)'
      BY <1>1, <1>2, <1>5, <1>6, <2>4, <2>5 DEF ShardInv, Strangers
    <3>3. QED BY Zenon, <3>1, <3>2
  <2>10. ASSUME NEW g \in Fds PROVE FdInv(s', outbox, g)
    <3>1. FdInv(s, outbox, g)
      BY Zenon, <1>2 DEF ShardInv
    <3>2. Quiet(s', outbox, g) <=> Quiet(s, outbox, g)
      BY Zenon, <2>5 DEF Quiet, Running
    <3>3. CASE g = f
      <4>1. Idle(s', f)
        BY <1>6, <2>1, <2>4, <2>5 DEF Idle
      <4>2. QED BY ZenonT(30), <1>7, <2>2, <2>4, <2>5, <3>1, <3>2, <3>3, <4>1 DEF FdInv
    <3>4. CASE g # f
      <4>1. s'.conns[g] = s.conns[g] /\ s'.got = s.got /\ s'.jobs = s.jobs
        BY Zenon, <2>4, <2>5, <3>4
      <4>2. Idle(s', g) <=> Idle(s, g)
        BY ZenonT(30), <4>1 DEF Idle
      <4>3. Busy(s, outbox, g) => Busy(s', outbox, g)
        BY <3>2, <4>1 DEF Busy, Running, JobIsCurrent
      <4>4. QED BY Zenon, <3>1, <3>2, <4>1, <4>2, <4>3 DEF FdInv
    <3>5. QED BY Zenon, <3>3, <3>4
  <2>11. ShardInv(s, outbox)'
    BY Zenon, <1>1, <2>5, <2>8, <2>9, <2>10 DEF ShardInv
  <2>12. QED BY <1>1, <1>8, <2>6, <2>7, <2>11, Inside
<1>10. CASE s' = [s EXCEPT !.conns[f] = NoConn]
  <2>1. [s.conns EXCEPT ![f] = NoConn] = s.conns
    BY Zenon, <1>2, <1>3, <1>7, ShardFields
  <2>2. /\ s' \in Shards /\ s'.conns = s.conns /\ s'.owner = s.owner
        /\ s'.interest = s.interest /\ s'.got = s.got /\ s'.jobs = s.jobs
    BY Zenon, <1>2, <1>10, <2>1 DEF Shards
  <2>3. ShardInv(s', outbox)
    BY Zenon, <1>2, <2>2, SameShard
  <2>4. Strangers(s)'
    BY Zenon, <1>1, <1>5, <2>3 DEF ShardInv, Strangers
  <2>5. ShardInv(s, outbox)'
    BY Zenon, <1>1, <2>3, <2>4 DEF ShardInv
  <2>6. TypeOK'
    BY <1>1, <1>2, <1>4, <2>2 DEF TypeOK
  <2>7. NobodyResets'
    BY Zenon, <1>1, <1>2 DEF NobodyResets
  <2>8. QED BY <1>1, <1>8, <2>5, <2>6, <2>7, Inside
<1>11. QED BY Zenon, <1>3, <1>9, <1>10

(* A worker's handback takes the place of its job. *)
LEMMA AppendTo ==
  ASSUME NEW S, NEW q \in Seq(S), NEW x \in S
  PROVE  /\ Append(q, x) \in Seq(S) /\ Len(q) \in Nat /\ DOMAIN q = 1..Len(q)
         /\ DOMAIN Append(q, x) = 1..(Len(q) + 1) /\ Append(q, x)[Len(q) + 1] = x
         /\ \A i \in DOMAIN q : i \in DOMAIN Append(q, x) /\ Append(q, x)[i] = q[i]
         /\ \A i \in DOMAIN Append(q, x) : i \in DOMAIN q \/ i = Len(q) + 1
OBVIOUS

LEMMA RunsAlone ==
  ASSUME NEW st, NEW ob, ShardInv(st, ob), NEW j \in st.jobs, j.at = "run"
  PROVE  /\ j.fd \in Fds /\ st.conns[j.fd] # NoConn /\ Busy(st, ob, j.fd)
         /\ ~st.conns[j.fd].writing /\ ~Queued(ob, j.fd) /\ JobIsCurrent(st, j)
         /\ \A h \in st.jobs : h.fd = j.fd /\ h.at = "run" => h = j
<1>1. st \in Shards /\ st.jobs \subseteq Jobs
  BY Zenon, ShardFields DEF ShardInv
<1>2. j.fd \in Fds
  BY Zenon, <1>1 DEF Jobs
<1>3. Running(st, j.fd) /\ FdInv(st, ob, j.fd)
  BY Zenon, <1>2 DEF Running, ShardInv
<1>4. st.conns[j.fd] # NoConn /\ Busy(st, ob, j.fd)
  BY ZenonT(30), <1>3 DEF FdInv, Quiet
<1>5. /\ ~st.conns[j.fd].writing /\ ~Queued(ob, j.fd)
      /\ \A h \in st.jobs : h.fd = j.fd /\ h.at = "run" => JobIsCurrent(st, h)
  BY <1>3, <1>4 DEF Busy, Quiet
<1>6. ASSUME NEW h \in st.jobs, h.fd = j.fd, h.at = "run" PROVE h = j
  <2>1. h.who = j.who /\ h.n = j.n
    BY Zenon, <1>5, <1>6 DEF JobIsCurrent
  <2>2. QED BY <1>1, <1>6, <2>1 DEF Jobs
<1>7. QED BY <1>2, <1>4, <1>5, <1>6

LEMMA PushKeeps ==
  ASSUME NEW st, NEW ob \in Seq(Handbacks), ShardInv(st, ob), NEW j \in st.jobs, j.at = "run",
         NEW hb \in Handbacks, hb.fd = j.fd,
         \A c : c.who = j.who /\ c.next = j.n => ReplyIsCurrent(c, hb),
         NEW w, w.at = "wakeup",
         NEW t \in Shards, t.conns = st.conns, t.owner = st.owner, t.interest = st.interest,
         t.got = st.got, t.jobs = (st.jobs \ {j}) \cup {w}
  PROVE  ShardInv(t, Append(ob, hb))
<1> DEFINE f == j.fd
           new == Append(ob, hb)
           last == Len(ob) + 1
<1>1. /\ f \in Fds /\ st.conns[f] # NoConn /\ Busy(st, ob, f)
      /\ ~st.conns[f].writing /\ ~Queued(ob, f) /\ JobIsCurrent(st, j)
      /\ \A h \in st.jobs : h.fd = f /\ h.at = "run" => h = j
  BY Zenon, RunsAlone
<1>2. /\ last \in DOMAIN new /\ new[last] = hb /\ last \notin DOMAIN ob
      /\ \A i \in DOMAIN ob : i \in DOMAIN new /\ new[i] = ob[i]
      /\ \A i \in DOMAIN new : i \in DOMAIN ob \/ i = last
  BY AppendTo
<1> HIDE DEF f, new, last
<1>3. Entries(t) /\ InOrder(t) /\ Strangers(t) /\ \A h \in t.jobs : h.at # "close"
  BY DEF ShardInv, Entries, InOrder, Strangers
<1>4. ASSUME NEW g \in Fds, g # f PROVE FdInv(t, new, g)
  <2>1. FdInv(st, ob, g)
    BY Zenon DEF ShardInv
  <2>2. Running(t, g) <=> Running(st, g)
    BY ZenonT(30), <1>4 DEF Running, f
  <2>3. Queued(new, g) <=> Queued(ob, g)
    BY <1>2, <1>4 DEF Queued, f
  <2>4. Idle(t, g) <=> Idle(st, g)
    BY ZenonT(30) DEF Idle
  <2>5. ASSUME Busy(st, ob, g) PROVE Busy(t, new, g)
    <3>1. \A h \in t.jobs : h.fd = g /\ h.at = "run" => JobIsCurrent(t, h)
      BY <2>5 DEF Busy, JobIsCurrent
    <3>2. \A i \in DOMAIN new : new[i].fd = g => i \in DOMAIN ob /\ ob[i].fd = g /\ new[i] = ob[i]
      BY Zenon, <1>2, <1>4 DEF f
    <3>3. \A i \in DOMAIN new : new[i].fd = g =>
            /\ ReplyIsCurrent(st.conns[g], new[i])
            /\ \A h \in DOMAIN new : new[h].fd = g => h = i
      BY Zenon, <2>5, <3>2 DEF Busy
    <3>4. QED BY SMTT(30), <2>2, <2>3, <2>5, <3>1, <3>3 DEF Busy, Quiet
  <2>6. QED BY Zenon, <2>1, <2>2, <2>3, <2>4, <2>5 DEF FdInv, Quiet
<1>5. FdInv(t, new, f)
  <2>1. ~Running(t, f)
    BY <1>1 DEF Running
  <2>2. Queued(new, f)
    BY Zenon, <1>2 DEF Queued, f
  <2>3. \A h \in t.jobs : h.fd = f /\ h.at = "run" => JobIsCurrent(t, h)
    BY Zenon, <2>1 DEF Running
  <2>4. \A i \in DOMAIN new : new[i].fd = f => i = last
    BY <1>1, <1>2 DEF Queued
  <2>5. ReplyIsCurrent(st.conns[f], hb)
    BY Zenon, <1>1 DEF JobIsCurrent, f
  <2>6. \A i \in DOMAIN new : new[i].fd = f =>
          /\ ReplyIsCurrent(st.conns[f], new[i])
          /\ \A h \in DOMAIN new : new[h].fd = f => h = i
    BY SMTT(30), <1>2, <2>4, <2>5
  <2>7. Busy(t, new, f)
    BY SMTT(60), <1>1, <2>1, <2>2, <2>3, <2>6 DEF Busy
  <2>8. QED BY <1>1, <2>7 DEF FdInv
<1>6. QED BY Zenon, <1>3, <1>4, <1>5 DEF ShardInv, new

(* No two handbacks, and no handback and job, have a descriptor in common: with a
   cell for each the outbox has room. *)
LEMMA JobsFields ==
  ASSUME NEW st \in Shards, NEW J \in SUBSET Jobs, NEW t, t = [st EXCEPT !.jobs = J]
  PROVE  /\ t \in Shards /\ t.conns = st.conns /\ t.owner = st.owner
         /\ t.interest = st.interest /\ t.got = st.got /\ t.jobs = J
BY Zenon DEF Shards

LEMMA WorkerWakeupStep ==
  ASSUME ReactorInv, NEW j \in s.jobs, WorkerWakeup(j)
  PROVE  ReactorInv'
<1> DEFINE J == s.jobs \ {j}
<1>1. /\ j.at = "wakeup" /\ s' = [s EXCEPT !.jobs = J] /\ UNCHANGED kernel
      /\ UNCHANGED <<phase, batch, accepted, running, outbox>>
  BY Zenon DEF WorkerWakeup, loop
<1>2. TypeOK /\ NobodyResets /\ s \in Shards
  BY Zenon DEF ReactorInv, TypeOK
<1>3. J \in SUBSET Jobs
  BY Zenon, <1>2, ShardFields
<1>4. /\ s' \in Shards /\ s'.conns = s.conns /\ s'.owner = s.owner
      /\ s'.interest = s.interest /\ s'.got = s.got /\ s'.jobs = J
  BY <1>1, <1>2, <1>3, JobsFields
<1>5. TypeOK'
  BY Zenon, <1>1, <1>2, <1>4 DEF TypeOK, kernel
<1>6. NobodyResets'
  BY Zenon, <1>1, <1>2 DEF NobodyResets, kernel
<1>7. CASE phase # "stopped"
  <2>1. ShardInv(s, outbox) /\ ArrivalsInv
    BY Zenon, <1>7 DEF ReactorInv
  <2>2. Entries(s') /\ InOrder(s') /\ Strangers(s') /\ \A h \in s'.jobs : h.at # "close"
    BY <1>4, <2>1 DEF ShardInv, Entries, InOrder, Strangers
  <2>3. ASSUME NEW g \in Fds PROVE FdInv(s', outbox, g)
    <3>1. FdInv(s, outbox, g)
      BY Zenon, <2>1 DEF ShardInv
    <3>2. Running(s', g) <=> Running(s, g)
      BY Zenon, <1>1, <1>4 DEF Running
    <3>3. Idle(s', g) <=> Idle(s, g)
      BY ZenonT(30), <1>4 DEF Idle
    <3>4. Busy(s, outbox, g) => Busy(s', outbox, g)
      BY <1>4, <3>2 DEF Busy, Quiet, JobIsCurrent
    <3>5. QED BY Zenon, <1>4, <3>1, <3>2, <3>3, <3>4 DEF FdInv, Quiet
  <2>4. ShardInv(s', outbox)
    BY Zenon, <1>4, <2>2, <2>3 DEF ShardInv
  <2>5. ShardInv(s, outbox)'
    BY Zenon, <1>1, <2>4, Carry DEF kernel
  <2>6. ArrivalsInv'
    BY Zenon, <1>1, <2>1 DEF ArrivalsInv, Waits, kernel
  <2>7. QED BY Zenon, <1>1, <1>4, <1>5, <1>6, <2>5, <2>6, Outside
<1>8. CASE phase = "stopped"
  BY <1>1, <1>4, <1>5, <1>6, <1>8, Outside
<1>9. QED BY Zenon, <1>7, <1>8

(* Only after stop() does a worker have to close a descriptor. *)
LEMMA WorkerCloseStep ==
  ASSUME ReactorInv, NEW j \in s.jobs, WorkerClose(j)
  PROVE  ReactorInv'
<1> DEFINE o == [s.owner EXCEPT ![j.fd] = None]
           i == [s.interest EXCEPT ![j.fd] = "none"]
           e == [s.edge EXCEPT ![j.fd] = FALSE]
           J == s.jobs \ {j}
<1>1. /\ j.at = "close" /\ s' = [s EXCEPT !.owner = o, !.interest = i, !.edge = e, !.jobs = J]
      /\ UNCHANGED kernel /\ UNCHANGED <<phase, batch, accepted, running, outbox>>
  BY Zenon DEF WorkerClose, loop
<1>2. TypeOK /\ NobodyResets /\ s \in Shards
  BY Zenon DEF ReactorInv, TypeOK
<1>3. phase = "stopped"
  BY Zenon, <1>1 DEF ReactorInv, ShardInv
<1>4. /\ o \in [Fds -> Clients \cup {None}] /\ i \in [Fds -> {"none", "R", "W"}]
      /\ e \in [Fds -> BOOLEAN] /\ J \in SUBSET Jobs
  BY Zenon, <1>2, ShardFields
<1>5. o = s.owner /\ i = s.interest
  <2>1. AllClosed /\ j.fd \in Fds
    BY Zenon, <1>2, <1>3, ShardFields DEF ReactorInv, Jobs
  <2>2. QED BY Zenon, <1>2, <2>1, ShardFields DEF AllClosed
<1> HIDE DEF o, i, e, J
<1>6. /\ s' \in Shards /\ s'.conns = s.conns /\ s'.got = s.got
      /\ s'.owner = s.owner /\ s'.interest = s.interest
  BY Zenon, <1>1, <1>2, <1>4, <1>5 DEF Shards
<1>7. TypeOK'
  BY Zenon, <1>1, <1>2, <1>6 DEF TypeOK, kernel
<1>8. NobodyResets'
  BY Zenon, <1>1, <1>2 DEF NobodyResets, kernel
<1>9. QED BY <1>1, <1>3, <1>6, <1>7, <1>8, Outside

LEMMA StopStep ==
  ASSUME ReactorInv, Stop
  PROVE  ReactorInv'
<1>1. /\ MayStop /\ running /\ running' = FALSE /\ UNCHANGED kernel
      /\ UNCHANGED <<s, phase, batch, accepted, outbox>>
  BY Zenon DEF Stop
<1>2. phase # "stopped" /\ TypeOK /\ NobodyResets /\ ShardInv(s, outbox) /\ ArrivalsInv
  BY Zenon, <1>1 DEF ReactorInv
<1>3. TypeOK' /\ NobodyResets'
  BY Zenon, <1>1, <1>2 DEF TypeOK, NobodyResets, kernel
<1>4. ShardInv(s, outbox)'
  BY Zenon, <1>1, <1>2, Carry DEF kernel
<1>5. ArrivalsInv'
  BY Zenon, <1>1, <1>2 DEF ArrivalsInv, Waits, kernel
<1>6. QED BY <1>1, <1>2, <1>3, <1>4, <1>5 DEF ReactorInv

LEMMA StopJoinedStep ==
  ASSUME ReactorInv, StopJoined
  PROVE  ReactorInv'
<1> DEFINE here == {f \in Live : s.conns[f] # NoConn}
           At(fn, v) == [f \in Fds |-> IF f \in here THEN v ELSE fn[f]]
           c == At(s.conns, NoConn)
           o == At(s.owner, None)
           i == At(s.interest, "none")
           e == At(s.edge, FALSE)
<1>1. /\ ~running /\ phase = "check" /\ phase' = "stopped" /\ UNCHANGED kernel
      /\ UNCHANGED <<batch, accepted, running, outbox>>
      /\ s' = [s EXCEPT !.conns = c, !.owner = o, !.interest = i, !.edge = e]
  BY Zenon DEF StopJoined, CloseAll
<1>2. TypeOK /\ NobodyResets /\ ShardInv(s, outbox) /\ s \in Shards
  BY Zenon, <1>1 DEF ReactorInv, TypeOK
<1>3. /\ c \in [Fds -> Connection \cup {NoConn}] /\ o \in [Fds -> Clients \cup {None}]
      /\ i \in [Fds -> {"none", "R", "W"}] /\ e \in [Fds -> BOOLEAN]
      /\ \A f \in Fds : c[f] = NoConn
      /\ \A f \in Fds : f \in here => o[f] = None /\ i[f] = "none"
      /\ \A f \in Fds : f \notin here => o[f] = s.owner[f] /\ i[f] = s.interest[f]
      /\ \A f \in Fds : f \in here <=> s.conns[f] # NoConn
  BY ZenonT(30), <1>2, ShardFields DEF Live
<1> HIDE DEF c, o, i, e
<1>4. s' \in Shards /\ s'.conns = c /\ s'.owner = o /\ s'.interest = i /\ s'.got = s.got
  BY Zenon, <1>1, <1>2, <1>3 DEF Shards
<1>5. TypeOK'
  BY Zenon, <1>1, <1>2, <1>4 DEF TypeOK, kernel
<1>6. NobodyResets'
  BY Zenon, <1>1, <1>2 DEF NobodyResets, kernel
<1>7. InOrder(s)'
  BY Zenon, <1>2, <1>4 DEF ShardInv, InOrder
<1>8. AllClosed'
  BY Zenon, <1>2, <1>3, <1>4 DEF AllClosed, ShardInv, Entries
<1>9. QED BY <1>1, <1>5, <1>6, <1>7, <1>8 DEF ReactorInv

(* The outbox has a cell for every descriptor *)
INSTANCE FiniteSetTheorems

LEMMA InjectionBound ==
  ASSUME NEW S, NEW T, NEW F \in Injection(S, T), IsFiniteSet(T)
  PROVE  Cardinality(S) <= Cardinality(T)
BY Zenon, FS_Injection

LEMMA IntervalSize ==
  ASSUME NEW n \in Nat
  PROVE  Cardinality(1..n) = n
<1>1. Cardinality(1..n) = IF 1 > n THEN 0 ELSE n - 1 + 1
  BY FS_Interval
<1>2. QED BY <1>1

LEMMA OutboxHasRoom ==
  ASSUME RoomForAll, NEW st, NEW ob \in Seq(Handbacks), ShardInv(st, ob), NEW j \in st.jobs,
         j.at = "run"
  PROVE  Len(ob) < OutboxCapacity
<1> DEFINE D == 1..Len(ob)
           T == Fds \ {j.fd}
           F == [i \in D |-> ob[i].fd]
<1>1. j.fd \in Fds /\ ~Queued(ob, j.fd)
  BY Zenon, RunsAlone
<1>2. Len(ob) \in Nat /\ D = DOMAIN ob /\ \A i \in D : ob[i].fd \in Fds
  <2>1. Len(ob) \in Nat /\ D = DOMAIN ob /\ \A i \in D : ob[i] \in Handbacks
    OBVIOUS
  <2>2. \A h \in Handbacks : h.fd \in Fds
    BY Zenon DEF Handbacks
  <2>3. QED BY Zenon, <2>1, <2>2
<1>3. F \in [D -> T]
  BY Zenon, <1>1, <1>2 DEF Queued
<1>4. ASSUME NEW a \in D, NEW b \in D, F[a] = F[b] PROVE a = b
  <2>1. ob[a].fd \in Fds /\ ob[a].fd = ob[b].fd
    BY Zenon, <1>2, <1>4
  <2>2. FdInv(st, ob, ob[a].fd)
    BY Zenon, <2>1 DEF ShardInv
  <2>3. Queued(ob, ob[a].fd)
    BY Zenon, <1>2 DEF Queued
  <2>4. Busy(st, ob, ob[a].fd)
    BY Zenon, <2>2, <2>3 DEF FdInv, Quiet
  <2>5. QED BY Zenon, <1>2, <2>1, <2>4 DEF Busy
<1> HIDE DEF F, D, T
<1>5. F \in Injection(D, T)
  BY Zenon, <1>3, <1>4 DEF Injection, IsInjective
<1>6. IsFiniteSet(T) /\ Cardinality(T) = Cardinality(Fds) - 1
  BY <1>1, FS_RemoveElement DEF RoomForAll, T
<1>7. Cardinality(D) <= Cardinality(T)
  BY <1>5, <1>6, InjectionBound
<1>8. Cardinality(D) = Len(ob)
  BY Zenon, <1>2, IntervalSize DEF D
<1>9. Cardinality(Fds) \in Nat
  BY Zenon, FS_CardinalityType DEF RoomForAll
<1>10. QED BY <1>2, <1>6, <1>7, <1>8, <1>9, ReactorAssumption DEF RoomForAll

LEMMA WorkerPushStep ==
  ASSUME ReactorInv, RoomForAll, NEW j \in s.jobs, WorkerPush(j)
  PROVE  ReactorInv'
<1> DEFINE refused == phase = "stopped" \/ Len(outbox) >= OutboxCapacity
           w == [j EXCEPT !.at = IF refused THEN "close" ELSE "wakeup"]
           J == (s.jobs \ {j}) \cup {w}
           hb(r) == [fd |-> j.fd, keep |-> r = "keep",
                     resp |-> IF r = "fail" THEN None ELSE <<j.who, j.n>>]
<1>1. j.at = "run" /\ UNCHANGED kernel /\ UNCHANGED <<phase, batch, accepted, running>>
  BY Zenon DEF WorkerPush, loop
<1>2. PICK r \in {"keep", "last", "fail"} :
        /\ outbox' = IF refused THEN outbox ELSE Append(outbox, hb(r))
        /\ s' = [s EXCEPT !.jobs = J]
  BY Zenon DEF WorkerPush
<1>3. TypeOK /\ NobodyResets /\ s \in Shards /\ outbox \in Seq(Handbacks)
  BY Zenon DEF ReactorInv, TypeOK
<1>4. s.jobs \in SUBSET Jobs /\ j \in Jobs
  BY Zenon, <1>3, ShardFields
<1>5. w \in Jobs /\ w.at = IF refused THEN "close" ELSE "wakeup"
  BY Zenon, <1>4 DEF Jobs
<1>6. J \in SUBSET Jobs
  BY Zenon, <1>4, <1>5
<1>7. hb(r) \in Handbacks /\ hb(r).fd = j.fd
  BY Zenon, <1>4 DEF Jobs, Handbacks, Replies
<1>8. \A c : c.who = j.who /\ c.next = j.n => ReplyIsCurrent(c, hb(r))
  <2>1. (hb(r).resp = None /\ ~hb(r).keep) \/ hb(r).resp = <<j.who, j.n>>
    BY ZenonT(30)
  <2> HIDE DEF hb
  <2>2. QED BY Zenon, <2>1 DEF ReplyIsCurrent
<1> DEFINE b == hb(r)
<1> HIDE DEF J, w, b
<1>9. /\ s' \in Shards /\ s'.conns = s.conns /\ s'.owner = s.owner
      /\ s'.interest = s.interest /\ s'.got = s.got /\ s'.jobs = J
  <2>1. s \in Shards /\ s' = [s EXCEPT !.jobs = J]
    BY Zenon, <1>2, <1>3
  <2>2. QED BY <1>6, <2>1, JobsFields DEF J
<1>10. outbox' \in Seq(Handbacks)
  <2>1. Append(outbox, b) \in Seq(Handbacks)
    BY <1>3, <1>7 DEF b
  <2>2. QED BY Zenon, <1>2, <1>3, <2>1 DEF b
<1>11. TypeOK'
  BY <1>1, <1>3, <1>9, <1>10 DEF TypeOK, kernel
<1>12. NobodyResets'
  BY Zenon, <1>1, <1>3 DEF NobodyResets, kernel
<1>13. CASE phase # "stopped"
  <2>1. ShardInv(s, outbox) /\ ArrivalsInv
    BY Zenon, <1>13 DEF ReactorInv
  <2>2. Len(outbox) \in Nat /\ OutboxCapacity \in Nat /\ Len(outbox) < OutboxCapacity
    BY SMTT(30), <1>1, <1>3, <2>1, OutboxHasRoom, ReactorAssumption
  <2>3. ~refused
    BY <1>13, <2>2
  <2>4. outbox' = Append(outbox, b) /\ w.at = "wakeup"
    BY ZenonT(30), <1>2, <1>5, <2>3 DEF b
  <2>5. ShardInv(s', Append(outbox, b))
    BY SMTT(30), <1>1, <1>3, <1>7, <1>8, <1>9, <2>1, <2>4, PushKeeps DEF b, J
  <2>6. ShardInv(s, outbox)'
    BY Zenon, <1>1, <2>4, <2>5, Carry DEF kernel
  <2>7. ArrivalsInv'
    BY Zenon, <1>1, <2>1 DEF ArrivalsInv, Waits, kernel
  <2>8. QED BY SMTT(30), <1>1, <1>9, <1>11, <1>12, <2>6, <2>7, Outside
<1>14. CASE phase = "stopped"
  BY ZenonT(30), <1>1, <1>9, <1>11, <1>12, <1>14, Outside
<1>15. QED BY Zenon, <1>13, <1>14

LEMMA InvStep ==
  ASSUME ReactorInv, [Next]_vars, Orderly, RoomForAll
  PROVE  ReactorInv'
<1>1. CASE UNCHANGED vars
  <2>1. TypeOK /\ NobodyResets
    BY Zenon DEF ReactorInv
  <2>2. /\ UNCHANGED <<backlog, left, sent, listen_edge>>
        /\ UNCHANGED <<s, phase, batch, accepted, running, outbox>>
    BY Zenon, <1>1 DEF vars, kernel, loop
  <2>3. TypeOK' /\ NobodyResets'
    BY Zenon, <2>1, <2>2 DEF TypeOK, NobodyResets
  <2>4. phase # "stopped" => ShardInv(s, outbox)' /\ ArrivalsInv'
    BY <2>1, <2>2, OnlyEdges DEF TypeOK
  <2>5. QED BY <2>2, <2>3, <2>4, Outside
<1>2. ASSUME NEW k \in Clients, Connect(k) \/ Send(k) \/ Hangup(k) \/ Drain(k)
      PROVE  ReactorInv'
  BY <1>2, ConnectStep, SendStep, HangupStep, DrainStep
<1>3. CASE ReactorStep
  BY SMTT(30), <1>3, WaitStep, AcceptOneStep, ClientEventStep, DrainOneStep, SweepStep, NothingDone
     DEF ReactorStep
<1>4. CASE WorkerStep
  BY <1>4, WorkerPushStep, WorkerWakeupStep, WorkerCloseStep DEF WorkerStep
<1>5. CASE Stop \/ StopJoined
  BY Zenon, <1>5, StopStep, StopJoinedStep
<1>6. QED BY SMTT(30), <1>1, <1>2, <1>3, <1>4, <1>5 DEF Next

(* ReactorInv holds of every state the shard reaches. *)
THEOREM Invariance ==
  ASSUME Orderly, RoomForAll
  PROVE  Spec => []ReactorInv
<1>1. ReactorInv /\ [Next]_vars => ReactorInv'
  BY Zenon, InvStep
<1>2. QED BY <1>1, InvInit, PTL DEF Spec

-----------------------------------------------------------------------------
(* What follows *)

LEMMA SmallSets == Cardinality({}) = 0 /\ \A x : Cardinality({x}) = 1
<1>1. Cardinality({}) = 0
  BY Zenon, FS_EmptySet
<1>2. QED BY Zenon, <1>1, FS_Singleton

LEMMA CountInFlight ==
  ASSUME ShardInv(s, outbox), NEW f \in Live
  PROVE  InFlight(f) = IF s.conns[f].dispatched THEN 1 ELSE 0
<1> DEFINE A == {j \in s.jobs : j.fd = f /\ j.at # "wakeup"}
           B == {i \in DOMAIN outbox : outbox[i].fd = f}
           c == s.conns[f]
           w == IF c.writing THEN 1 ELSE 0
           d == IF c.dispatched THEN 1 ELSE 0
<1>1. s \in Shards /\ f \in Fds /\ c # NoConn /\ FdInv(s, outbox, f)
  BY Zenon DEF ShardInv, Live
<1>2. s.jobs \subseteq Jobs /\ c \in Connection
  BY Zenon, <1>1, ShardFields
<1>3. /\ (c.writing => w = 1) /\ (~c.writing => w = 0)
      /\ (c.dispatched => d = 1) /\ (~c.dispatched => d = 0)
  BY Zenon
<1>4. \A j \in A : j.at = "run"
  BY Zenon, <1>2 DEF ShardInv, Jobs
<1>5. A = {} <=> ~Running(s, f)
  BY Zenon, <1>4 DEF Running
<1>6. B = {} <=> ~Queued(outbox, f)
  BY Zenon DEF Queued
<1>7. InFlight(f) = Cardinality(A) + Cardinality(B) + w
  BY Zenon DEF InFlight
<1> SUFFICES InFlight(f) = d
  OBVIOUS
<1> HIDE DEF A, B, w, d
<1>8. CASE Idle(s, f) /\ Quiet(s, outbox, f)
  <2>1. A = {} /\ B = {} /\ d = 0 /\ w = 0
    BY ZenonT(30), <1>3, <1>5, <1>6, <1>8 DEF Idle, Quiet
  <2>2. QED BY <1>7, <2>1, SmallSets
<1>9. CASE Busy(s, outbox, f) /\ c.writing
  <2>1. A = {} /\ B = {} /\ d = 1 /\ w = 1
    BY ZenonT(30), <1>3, <1>5, <1>6, <1>9 DEF Busy, Quiet
  <2>2. QED BY <1>7, <2>1, SmallSets
<1>10. CASE Busy(s, outbox, f) /\ ~c.writing /\ Running(s, f)
  <2>1. d = 1 /\ w = 0 /\ B = {}
    BY Zenon, <1>3, <1>6, <1>10 DEF Busy
  <2>2. PICK j \in s.jobs : j.fd = f /\ j.at = "run"
    BY Zenon, <1>10 DEF Running
  <2>3. \A h \in A : h = j
    BY Zenon, <1>4, <2>2, RunsAlone DEF A
  <2>4. A = {j}
    BY Zenon, <2>2, <2>3 DEF A
  <2>5. QED BY <1>7, <2>1, <2>4, SmallSets
<1>11. CASE Busy(s, outbox, f) /\ ~c.writing /\ ~Running(s, f)
  <2>1. d = 1 /\ w = 0 /\ A = {} /\ Queued(outbox, f)
    BY Zenon, <1>3, <1>5, <1>11 DEF Busy
  <2>2. PICK i \in DOMAIN outbox : outbox[i].fd = f
    BY Zenon, <2>1 DEF Queued
  <2>3. B = {i}
    BY Zenon, <1>11, <2>2 DEF Busy, B
  <2>4. QED BY <1>7, <2>1, <2>3, SmallSets
<1>12. QED BY <1>1, <1>8, <1>9, <1>10, <1>11 DEF FdInv

(* Connection entries, registrations, jobs, handbacks and events keep their
   form whatever the clients do. *)
THEOREM TypeCorrect ==
  ASSUME Orderly, RoomForAll
  PROVE  Spec => []TypeOK
<1>1. ReactorInv => TypeOK
  BY Zenon DEF ReactorInv
<1>2. QED BY <1>1, Invariance, PTL

(* drain_outbox() and finish_response(): every response a client gets is the reply
   to a job cut out of its own stream, in the order of the stream and each once,
   however many connections are multiplexed, descriptors reused and requests
   pipelined, and wherever the read loop cuts. *)
THEOREM RepliesReachTheirClients ==
  ASSUME Orderly, RoomForAll
  PROVE  Spec => []RepliesMatchRequests
<1>1. ReactorInv => RepliesMatchRequests
  BY Zenon DEF ReactorInv, ShardInv, InOrder, RepliesMatchRequests
<1>2. QED BY <1>1, Invariance, PTL

(* dispatched is set exactly while one request of the connection is with a
   worker, in the outbox or half written: never two, never none. *)
THEOREM OneRequestInFlight ==
  ASSUME Orderly, RoomForAll
  PROVE  Spec => []DispatchedIsAccurate
<1>1. ASSUME ReactorInv PROVE DispatchedIsAccurate
  <2>1. CASE phase # "stopped"
    <3>1. ShardInv(s, outbox)
      BY Zenon, <1>1, <2>1 DEF ReactorInv
    <3>2. QED BY Zenon, <3>1, CountInFlight DEF ShardInv, DispatchedIsAccurate
  <2>2. CASE phase = "stopped"
    BY Zenon, <1>1, <2>2 DEF ReactorInv, AllClosed, Live, DispatchedIsAccurate
  <2>3. QED BY Zenon, <2>1, <2>2
<1>2. QED BY <1>1, Invariance, PTL

(* connections_, the poller and the kernel agree about every descriptor, after an
   accept() whose add() fails too, so close_connection() closes the socket of its own
   client; after stop() nothing is left open. *)
THEOREM EntriesAgree ==
  ASSUME Orderly, RoomForAll
  PROVE  Spec => []EntriesOwnTheirSockets
<1>1. ASSUME ReactorInv PROVE EntriesOwnTheirSockets
  <2>1. CASE phase # "stopped"
    BY Zenon, <1>1, <2>1 DEF ReactorInv, ShardInv, Entries, Live, EntriesOwnTheirSockets
  <2>2. CASE phase = "stopped"
    BY Zenon, <1>1, <2>2 DEF ReactorInv, AllClosed, Live, EntriesOwnTheirSockets
  <2>3. QED BY Zenon, <2>1, <2>2
<1>2. QED BY <1>1, Invariance, PTL

=============================================================================

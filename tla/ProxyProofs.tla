---------------------------- MODULE ProxyProofs ----------------------------
(***************************************************************************)
(* For every set of clients, upstreams and descriptors: the handles the    *)
(* proxy resumes are those of suspended coroutines, and every upstream     *)
(* connection has one owner.                                               *)
(*                                                                         *)
(* A step of a coroutine does two things that can be looked at apart: it   *)
(* goes on, suspends or returns, and it keeps, takes, opens, closes or     *)
(* pools its upstream connection.  There is a lemma for each of these, and *)
(* each action is shown to be one of the first and one of the second kind. *)
(* Leaves without arithmetic name Zenon.                                   *)
(***************************************************************************)
EXTENDS Proxy, TLAPS

-----------------------------------------------------------------------------
(* The inductive invariant *)

States == {"none", "head", "body", "acquire", "connect", "send", "up_head", "up_body", "rest",
           "spin", "reply", "done"}

(* The states in which a coroutine holds an upstream connection. *)
UpStates == {"connect", "send", "up_head", "up_body", "rest", "spin"}

Live(k) == co[k].at \notin {"none", "done"}
Holds(k) == co[k].at \in UpStates

(* The forms of frames and sockets; what travels through them is left open. *)
IsFrame(c) ==
  c \in [at : States, n : {c.n}, attempt : {c.attempt}, fd : Fds \cup {None},
         up_fd : Fds \cup {None}, buf : {c.buf}, half : {c.half}, whole : {c.whole}]
IsSocket(x) ==
  x \in [to : Clients \cup Upstreams \cup {None}, full : {x.full}, st : {x.st}, q : {x.q},
         req : {x.req}, todo : {x.todo}, cut : {x.cut}]

FramesOK == DOMAIN co = Clients /\ \A k \in Clients : IsFrame(co[k])
SocksOK == DOMAIN sock = Fds /\ \A f \in Fds : IsSocket(sock[f])

TablesOK ==
  /\ client \in [Clients -> {"new", "open", "gone"}] /\ backlog \in Seq(Clients)
  /\ live_tasks_ \in [Fds -> Clients \cup {None}]
  /\ reg \in [Fds -> [who : Clients \cup {None}, dir : {"none", "R", "W"}]]
  /\ pools_ \in [Upstreams -> Seq(Fds)]
  /\ phase \in {"wait", "events", "accept", "stopped"} /\ active \in Clients \cup {None}
  /\ batch \subseteq [fd : Fds \cup {None}, who : Clients \cup {None}]

(* A connection in the backlog, or not yet made, has no coroutine. *)
FreshInv ==
  /\ \A i \in 1..Len(backlog) : client[backlog[i]] # "new" /\ co[backlog[i]].at = "none"
  /\ \A i, j \in 1..Len(backlog) : backlog[i] = backlog[j] => i = j
  /\ \A k \in Clients : client[k] = "new" => co[k].at = "none"

(* Whose the descriptors are: a live coroutine's is the one of its client; the one
   to an upstream is held by one coroutine or pooled once. *)
OwnersInv ==
  /\ \A k \in Clients : Live(k) => co[k].fd \in Fds /\ sock[co[k].fd].to = k
  /\ \A k \in Clients : Holds(k) => co[k].up_fd \in Fds /\ sock[co[k].up_fd].to = RouteOf(k)
  /\ \A k \in Clients : Live(k) /\ ~Holds(k) => co[k].up_fd = None
  /\ \A k \in Clients : Holds(k) \/ co[k].at = "acquire" => RouteOf(k) \in Upstreams
  /\ \A j, k \in Clients : Holds(j) /\ Holds(k) /\ co[j].up_fd = co[k].up_fd => j = k

PoolsInv ==
  \A u \in Upstreams :
    /\ Len(pools_[u]) <= PoolDepth
    /\ \A i, j \in 1..Len(pools_[u]) : pools_[u][i] = pools_[u][j] => i = j
    /\ \A i \in 1..Len(pools_[u]) :
         /\ sock[pools_[u][i]].to = u
         /\ \A k \in Clients : Holds(k) => co[k].up_fd # pools_[u][i]

Pooled(f) == \E u \in Upstreams : \E i \in 1..Len(pools_[u]) : pools_[u][i] = f
HeldBySome(f) == \E k \in Clients : Holds(k) /\ co[k].up_fd = f
NoneLost ==
  phase # "stopped" =>
    \A f \in Fds : sock[f].to \in Upstreams => Pooled(f) \/ HeldBySome(f)

(* Who runs, who is suspended, and where. *)
LoopInv ==
  /\ active # None => Live(active) /\ phase \in {"events", "accept"}
  /\ active # None /\ phase = "events" => live_tasks_[co[active].fd] = active
  /\ phase \in {"wait", "stopped"} => batch = {}
  /\ \A k \in Clients : Suspended(k) => co[k].at \notin {"acquire", "spin"}
  /\ \A f \in Fds : reg[f] # NoReg => reg[f].who \in Clients
  /\ \A e \in batch : e # ListenEvent => e.fd \in Fds

ProxyInv ==
  /\ FramesOK /\ SocksOK /\ TablesOK /\ FreshInv /\ OwnersInv /\ PoolsInv /\ LoopInv
  /\ NoneLost /\ HandlesAreSuspended

-----------------------------------------------------------------------------
(* What a step of the coroutine of k amounts to: its frame becomes c, and it goes
   on, suspends or returns ... *)
Moved(k, c) ==
  /\ DOMAIN co' = Clients /\ co'[k] = c /\ IsFrame(c) /\ c.fd = co[k].fd
  /\ \A j \in Clients \ {k} : co'[j] = co[j]
Lasting(c) == c.at \notin {"none", "done"}
FdOf(c) == IF c.at \in {"head", "body", "reply"} THEN c.fd ELSE c.up_fd
DirOf(c) == IF c.at \in {"connect", "send", "reply"} THEN "W" ELSE "R"

Continues(k, c) == Lasting(c) /\ UNCHANGED <<live_tasks_, reg, phase, batch, active>>
Suspends(k, c) ==
  /\ Lasting(c) /\ c.at \notin {"acquire", "spin"}
  /\ FdOf(c) \in Fds /\ reg[FdOf(c)] = NoReg
  /\ reg' = [reg EXCEPT ![FdOf(c)] = [who |-> k, dir |-> DirOf(c)]]
  /\ active' = None
  /\ live_tasks_' = IF phase = "accept" THEN [live_tasks_ EXCEPT ![c.fd] = k] ELSE live_tasks_
  /\ UNCHANGED <<phase, batch>>
Ends(k, c) == c.at = "done" /\ active' = None /\ UNCHANGED <<live_tasks_, reg, phase, batch>>

(* The route table leads to upstreams; RouteKnown shows it. *)
RoutesKnown == routes_ # <<>> => \A k \in Clients : RouteOf(k) \in Upstreams

LEMMA ContinuesKeepsLoop ==
  ASSUME ProxyInv, NEW k \in Clients, NEW c, active = k, Moved(k, c), Continues(k, c)
  PROVE  LoopInv' /\ HandlesAreSuspended'
<1>1. \A j \in Clients : j # k => co'[j] = co[j]
  BY Zenon DEF Moved
<1>2. UNCHANGED <<live_tasks_, reg, phase, batch, active>> /\ co'[k] = c /\ Lasting(c) /\ c.fd = co[k].fd
  BY Zenon DEF Continues, Moved
<1>3. ~Suspended(k) /\ ~Suspended(k)'
  BY Zenon, <1>2 DEF Suspended
<1>4. \A j \in Clients : (Suspended(j)' <=> Suspended(j))
  BY Zenon, <1>1, <1>2, <1>3 DEF Suspended
<1>5. \A j \in Clients : Suspended(j) => co'[j] = co[j] /\ AwaitedFd(j)' = AwaitedFd(j) /\ AwaitedDir(j)' = AwaitedDir(j)
  BY Zenon, <1>1, <1>3 DEF AwaitedFd, AwaitedDir
<1>6. LoopInv /\ HandlesAreSuspended
  BY Zenon DEF ProxyInv
<1>7. LoopInv'
  <2>1. active' # None => Live(active)' /\ phase' \in {"events", "accept"}
    BY Zenon, <1>2, <1>6 DEF LoopInv, Live, Lasting
  <2>2. active' # None /\ phase' = "events" => live_tasks_'[co'[active'].fd] = active'
    BY Zenon, <1>2, <1>6 DEF LoopInv
  <2>3. \A j \in Clients : Suspended(j)' => co'[j].at \notin {"acquire", "spin"}
    BY Zenon, <1>4, <1>5, <1>6 DEF LoopInv
  <2>4. QED BY Zenon, <1>2, <1>6, <2>1, <2>2, <2>3 DEF LoopInv
<1>8. HandlesAreSuspended'
  <2>1. \A j \in Clients : Suspended(j)' =>
           live_tasks_'[co'[j].fd] = j /\ reg'[AwaitedFd(j)'] = [who |-> j, dir |-> AwaitedDir(j)']
    BY Zenon, <1>2, <1>4, <1>5, <1>6 DEF HandlesAreSuspended
  <2>2. \A f \in Fds : reg'[f] # NoReg => Suspended(reg[f].who)' /\ AwaitedFd(reg[f].who)' = f
    BY <1>2, <1>4, <1>5, <1>6 DEF HandlesAreSuspended, LoopInv
  <2>3. QED BY Zenon, <1>2, <1>6, <2>1, <2>2 DEF HandlesAreSuspended
<1>9. QED BY Zenon, <1>7, <1>8

LEMMA SuspendsKeepsLoop ==
  ASSUME ProxyInv, NEW k \in Clients, NEW c, active = k, Moved(k, c), Suspends(k, c)
  PROVE  LoopInv' /\ HandlesAreSuspended'
<1> DEFINE f == FdOf(c)
<1>1. \A j \in Clients : j # k => co'[j] = co[j]
  BY Zenon DEF Moved
<1>2. /\ f \in Fds /\ reg[f] = NoReg /\ reg' = [reg EXCEPT ![f] = [who |-> k, dir |-> DirOf(c)]]
      /\ active' = None /\ phase' = phase /\ batch' = batch
      /\ c.at \notin {"none", "done", "acquire", "spin"} /\ co'[k] = c /\ c.fd = co[k].fd
  BY Zenon DEF Suspends, Moved, Lasting
<1>3. AwaitedFd(k)' = f /\ AwaitedDir(k)' = DirOf(c)
  BY Zenon, <1>2 DEF AwaitedFd, AwaitedDir, FdOf, DirOf
<1> HIDE DEF f
<1>4. k # None /\ None \notin Clients
  BY Zenon, ProxyAssumption
<1>5. ~Suspended(k) /\ Suspended(k)'
  BY Zenon, <1>2, <1>4 DEF Suspended
<1>6. \A j \in Clients : j # k => (Suspended(j)' <=> Suspended(j))
  BY Zenon, <1>1, <1>2, <1>4 DEF Suspended
<1>7. \A j \in Clients : j # k => AwaitedFd(j)' = AwaitedFd(j) /\ AwaitedDir(j)' = AwaitedDir(j)
  BY Zenon, <1>1 DEF AwaitedFd, AwaitedDir
<1>8. LoopInv /\ HandlesAreSuspended /\ OwnersInv /\ TablesOK
  BY Zenon DEF ProxyInv
<1>9. Live(k) /\ phase \in {"events", "accept"} /\ (phase = "events" => live_tasks_[c.fd] = k)
  BY Zenon, <1>2, <1>4, <1>8 DEF LoopInv
<1>10. c.fd \in Fds /\ sock[c.fd].to = k
  BY Zenon, <1>2, <1>8, <1>9 DEF OwnersInv
<1>11. \A j \in Clients : j # k /\ Suspended(j) => co[j].fd \in Fds /\ co[j].fd # c.fd
  BY Zenon, <1>8, <1>10 DEF OwnersInv, Live, Suspended
<1>12. reg'[f] = [who |-> k, dir |-> DirOf(c)] /\ \A g \in Fds : g # f => reg'[g] = reg[g]
  BY Zenon, <1>2, <1>8 DEF TablesOK
<1>13. live_tasks_'[c.fd] = k /\ \A g \in Fds : g # c.fd => live_tasks_'[g] = live_tasks_[g]
  BY Zenon, <1>8, <1>9, <1>10 DEF Suspends, TablesOK
<1>14. reg'[f].who = k /\ reg[f].who = None /\ [who |-> k, dir |-> DirOf(c)] # NoReg
  BY <1>2, <1>4, <1>12 DEF NoReg
<1>15. ASSUME NEW j \in Clients, Suspended(j) PROVE AwaitedFd(j) # f
  <2>1. reg[AwaitedFd(j)] = [who |-> j, dir |-> AwaitedDir(j)]
    BY Zenon, <1>8, <1>15 DEF HandlesAreSuspended
  <2>2. reg[AwaitedFd(j)].who = j
    BY <2>1
  <2>3. QED BY Zenon, <1>4, <1>14, <2>2
<1>16. LoopInv'
  <2>1. \A j \in Clients : Suspended(j)' => co'[j].at \notin {"acquire", "spin"}
    BY Zenon, <1>1, <1>2, <1>6, <1>8 DEF LoopInv
  <2>2. \A g \in Fds : reg'[g] # NoReg => reg'[g].who \in Clients
    BY Zenon, <1>8, <1>12, <1>14 DEF LoopInv
  <2>3. QED BY Zenon, <1>2, <1>8, <2>1, <2>2 DEF LoopInv
<1>17. HandlesAreSuspended'
  <2>1. ASSUME NEW j \in Clients, Suspended(j)' PROVE live_tasks_'[co'[j].fd] = j
    <3>1. CASE j = k
      BY Zenon, <1>2, <1>13, <3>1
    <3>2. CASE j # k
      <4>1. Suspended(j) /\ co'[j] = co[j]
        BY Zenon, <1>1, <1>6, <2>1, <3>2
      <4>2. live_tasks_[co[j].fd] = j /\ co[j].fd \in Fds /\ co[j].fd # c.fd
        BY Zenon, <1>8, <1>11, <3>2, <4>1 DEF HandlesAreSuspended
      <4>3. QED BY Zenon, <1>13, <4>1, <4>2
    <3>3. QED BY Zenon, <3>1, <3>2
  <2>2. ASSUME NEW j \in Clients, Suspended(j)'
        PROVE  reg'[AwaitedFd(j)'] = [who |-> j, dir |-> AwaitedDir(j)']
    <3>1. CASE j = k
      BY Zenon, <1>3, <1>12, <3>1
    <3>2. CASE j # k
      <4>1. Suspended(j) /\ AwaitedFd(j)' = AwaitedFd(j) /\ AwaitedDir(j)' = AwaitedDir(j)
        BY Zenon, <1>6, <1>7, <2>2, <3>2
      <4>2. reg[AwaitedFd(j)] = [who |-> j, dir |-> AwaitedDir(j)] /\ AwaitedFd(j) # f
        BY Zenon, <1>8, <1>15, <4>1 DEF HandlesAreSuspended
      <4>3. AwaitedFd(j) \in Fds
        BY Zenon, <1>8, <4>1, <1>11, <3>2 DEF AwaitedFd, OwnersInv, LoopInv, Suspended, Holds, UpStates, ProxyInv, FramesOK, IsFrame, States
      <4>4. QED BY Zenon, <1>12, <4>1, <4>2, <4>3
    <3>3. QED BY Zenon, <3>1, <3>2
  <2>3. ASSUME NEW g \in Fds, reg'[g] # NoReg
        PROVE  Suspended(reg[g].who)' /\ AwaitedFd(reg[g].who)' = g
    <3>1. CASE g = f
      BY Zenon, <1>3, <1>5, <1>14, <3>1
    <3>2. CASE g # f
      <4>1. reg'[g] = reg[g]
        BY Zenon, <1>12, <3>2
      <4>2. reg[g].who \in Clients /\ Suspended(reg[g].who) /\ AwaitedFd(reg[g].who) = g
        BY Zenon, <1>8, <2>3, <4>1 DEF LoopInv, HandlesAreSuspended
      <4>3. reg[g].who # k
        BY Zenon, <4>2, <1>5
      <4>4. QED BY Zenon, <1>6, <1>7, <4>1, <4>2, <4>3
    <3>3. QED BY Zenon, <3>1, <3>2
  <2>4. ASSUME NEW e \in batch', e # ListenEvent PROVE reg'[e.fd].who = e.who /\ e.who # None
    <3>1. e \in batch \ {ListenEvent} /\ e.fd \in Fds
      BY Zenon, <1>2, <1>8, <2>4 DEF LoopInv
    <3>2. reg[e.fd].who = e.who /\ e.who # None
      BY Zenon, <1>8, <3>1 DEF HandlesAreSuspended
    <3>3. e.fd # f
      BY Zenon, <1>14, <3>2
    <3>4. QED BY Zenon, <1>12, <3>1, <3>2, <3>3
  <2>5. QED BY Zenon, <2>1, <2>2, <2>3, <2>4 DEF HandlesAreSuspended
<1>18. QED BY Zenon, <1>16, <1>17

LEMMA EndsKeepsLoop ==
  ASSUME ProxyInv, NEW k \in Clients, NEW c, active = k, Moved(k, c), Ends(k, c)
  PROVE  LoopInv' /\ HandlesAreSuspended'
<1>1. \A j \in Clients : j # k => co'[j] = co[j]
  BY Zenon DEF Moved
<1>2. UNCHANGED <<live_tasks_, reg, phase, batch>> /\ co'[k].at = "done" /\ active' = None
  BY Zenon DEF Ends, Moved
<1>3. None \notin Clients
  BY Zenon, ProxyAssumption
<1>4. ~Suspended(k) /\ ~Suspended(k)'
  BY Zenon, <1>2 DEF Suspended
<1>5. \A j \in Clients : (Suspended(j)' <=> Suspended(j))
  BY Zenon, <1>1, <1>2, <1>3, <1>4 DEF Suspended
<1>6. \A j \in Clients : Suspended(j) => co'[j] = co[j] /\ AwaitedFd(j)' = AwaitedFd(j) /\ AwaitedDir(j)' = AwaitedDir(j)
  BY Zenon, <1>1, <1>4 DEF AwaitedFd, AwaitedDir
<1>7. LoopInv /\ HandlesAreSuspended
  BY Zenon DEF ProxyInv
<1>8. LoopInv'
  <2>1. \A j \in Clients : Suspended(j)' => co'[j].at \notin {"acquire", "spin"}
    BY Zenon, <1>5, <1>6, <1>7 DEF LoopInv
  <2>2. QED BY Zenon, <1>2, <1>7, <2>1 DEF LoopInv
<1>9. HandlesAreSuspended'
  <2>1. \A j \in Clients : Suspended(j)' =>
           live_tasks_'[co'[j].fd] = j /\ reg'[AwaitedFd(j)'] = [who |-> j, dir |-> AwaitedDir(j)']
    BY Zenon, <1>2, <1>5, <1>6, <1>7 DEF HandlesAreSuspended
  <2>2. \A f \in Fds : reg'[f] # NoReg => Suspended(reg[f].who)' /\ AwaitedFd(reg[f].who)' = f
    BY <1>2, <1>5, <1>6, <1>7 DEF HandlesAreSuspended, LoopInv
  <2>3. QED BY Zenon, <1>2, <1>7, <2>1, <2>2 DEF HandlesAreSuspended
<1>10. QED BY Zenon, <1>8, <1>9

-----------------------------------------------------------------------------
(* ... and what becomes of its upstream connection. *)
EndsSame == \A f \in Fds : sock'[f].to = sock[f].to
EndsBut(g, t) == sock'[g].to = t /\ \A f \in Fds \ {g} : sock'[f].to = sock[f].to

KeepsUp(k, c) ==
  /\ Lasting(c) /\ c.up_fd = co[k].up_fd /\ (c.at \in UpStates <=> Holds(k))
  /\ c.at = "acquire" => RouteOf(k) \in Upstreams
  /\ EndsSame /\ UNCHANGED pools_
TakesUp(k, c) ==
  /\ co[k].at = "acquire" /\ pools_[RouteOf(k)] # <<>>
  /\ c.at = "send" /\ c.up_fd = Head(pools_[RouteOf(k)])
  /\ EndsSame /\ pools_' = [pools_ EXCEPT ![RouteOf(k)] = Tail(@)]
OpensUp(k, c) ==
  /\ co[k].at = "acquire" /\ c.at \in {"send", "connect"}
  /\ c.up_fd \in Fds /\ sock[c.up_fd].to = None
  /\ EndsBut(c.up_fd, RouteOf(k)) /\ UNCHANGED pools_
ClosesUp(k, c) ==
  /\ Holds(k) /\ c.at \in {"acquire", "reply"} /\ c.up_fd = None
  /\ EndsBut(co[k].up_fd, None) /\ UNCHANGED pools_
PoolsUp(k, c) ==
  /\ Holds(k) /\ c.at = "reply" /\ c.up_fd = None
  /\ Len(pools_[RouteOf(k)]) < PoolDepth
  /\ EndsSame /\ pools_' = [pools_ EXCEPT ![RouteOf(k)] = Append(@, co[k].up_fd)]
LeavesUp(k, c) ==
  /\ ~Holds(k) /\ c.at = "done" /\ c.up_fd = None
  /\ EndsSame \/ EndsBut(co[k].fd, None)
  /\ UNCHANGED pools_

UpInv == OwnersInv /\ PoolsInv /\ NoneLost

LEMMA KeepsUpKeeps ==
  ASSUME ProxyInv, NEW k \in Clients, NEW c, Live(k), Moved(k, c), KeepsUp(k, c), UNCHANGED phase
  PROVE  UpInv'
<1>1. OwnersInv /\ PoolsInv /\ NoneLost /\ TablesOK
  BY Zenon DEF ProxyInv
<1>2. \A j \in Clients : j # k => co'[j] = co[j]
  BY Zenon DEF Moved
<1>3. co'[k].fd = co[k].fd /\ co'[k].up_fd = co[k].up_fd /\ pools_' = pools_ /\ Live(k)'
  BY Zenon DEF Moved, KeepsUp, Lasting, Live
<1>4. \A f \in Fds : sock'[f].to = sock[f].to
  BY Zenon DEF KeepsUp, EndsSame
<1>5. \A j \in Clients : (Live(j)' <=> Live(j)) /\ (Holds(j)' <=> Holds(j))
  <2>1. Holds(k)' <=> Holds(k)
    BY Zenon DEF Moved, KeepsUp, Holds
  <2>2. QED BY Zenon, <1>2, <1>3, <2>1 DEF Live, Holds
<1>6. \A j \in Clients : co'[j].fd = co[j].fd /\ co'[j].up_fd = co[j].up_fd
  BY Zenon, <1>2, <1>3
<1>7. \A j \in Clients : Holds(j)' \/ co'[j].at = "acquire" => RouteOf(j) \in Upstreams
  BY Zenon, <1>1, <1>2, <1>5 DEF OwnersInv, KeepsUp, Moved
<1>8. OwnersInv'
  BY <1>1, <1>4, <1>5, <1>6, <1>7 DEF OwnersInv
<1>9. PoolsInv'
  <2>1. \A u \in Upstreams : \A i \in 1..Len(pools_[u]) : pools_[u][i] \in Fds
    BY <1>1 DEF TablesOK
  <2>2. QED BY <1>1, <1>3, <1>4, <1>5, <1>6, <2>1 DEF PoolsInv
<1>10. NoneLost'
  BY <1>1, <1>3, <1>4, <1>5, <1>6 DEF NoneLost, Pooled, HeldBySome
<1>11. QED BY Zenon, <1>8, <1>9, <1>10 DEF UpInv

LEMMA ClosesUpKeeps ==
  ASSUME ProxyInv, NEW k \in Clients, NEW c, Live(k), Moved(k, c), ClosesUp(k, c), UNCHANGED phase
  PROVE  UpInv'
<1> DEFINE g == co[k].up_fd
<1>1. OwnersInv /\ PoolsInv /\ NoneLost /\ TablesOK
  BY Zenon DEF ProxyInv
<1>2. \A j \in Clients : j # k => co'[j] = co[j]
  BY Zenon DEF Moved
<1>3. co'[k].fd = co[k].fd /\ co'[k].up_fd = None /\ pools_' = pools_ /\ Live(k)' /\ ~Holds(k)'
  BY Zenon DEF Moved, ClosesUp, Live, Holds, UpStates
<1>4. Holds(k) /\ g \in Fds /\ sock[g].to = RouteOf(k) /\ RouteOf(k) \in Upstreams
  BY Zenon, <1>1 DEF ClosesUp, OwnersInv
<1>5. sock'[g].to = None /\ \A f \in Fds : f # g => sock'[f].to = sock[f].to
  BY Zenon DEF ClosesUp, EndsBut
<1>6. \A j \in Clients : j # k => (Live(j)' <=> Live(j)) /\ (Holds(j)' <=> Holds(j))
  BY Zenon, <1>2 DEF Live, Holds
<1>7. Clients \cap Upstreams = {} /\ None \notin Upstreams
  BY Zenon, ProxyAssumption
<1>8. \A j \in Clients : Live(j) => co[j].fd # g
  BY <1>1, <1>4, <1>7 DEF OwnersInv
<1>9. \A j \in Clients : j # k /\ Holds(j) => co[j].up_fd # g
  BY Zenon, <1>1, <1>4 DEF OwnersInv
<1> HIDE DEF g
<1>10. OwnersInv'
  <2>1. \A j \in Clients : Live(j)' => co'[j].fd \in Fds /\ sock'[co'[j].fd].to = j
    BY <1>1, <1>2, <1>3, <1>5, <1>6, <1>8 DEF OwnersInv
  <2>2. \A j \in Clients : Holds(j)' => co'[j].up_fd \in Fds /\ sock'[co'[j].up_fd].to = RouteOf(j)
    BY <1>1, <1>2, <1>3, <1>5, <1>6, <1>9 DEF OwnersInv
  <2>3. \A j \in Clients : Live(j)' /\ ~Holds(j)' => co'[j].up_fd = None
    BY Zenon, <1>1, <1>2, <1>3, <1>6 DEF OwnersInv
  <2>4. \A j \in Clients : Holds(j)' \/ co'[j].at = "acquire" => RouteOf(j) \in Upstreams
    BY Zenon, <1>1, <1>2, <1>3, <1>4, <1>6 DEF OwnersInv
  <2>5. \A i, j \in Clients : Holds(i)' /\ Holds(j)' /\ co'[i].up_fd = co'[j].up_fd => i = j
    BY Zenon, <1>1, <1>2, <1>3, <1>6 DEF OwnersInv
  <2>6. QED BY Zenon, <2>1, <2>2, <2>3, <2>4, <2>5 DEF OwnersInv
<1>11. PoolsInv'
  <2>1. \A u \in Upstreams : \A i \in 1..Len(pools_[u]) : pools_[u][i] \in Fds /\ pools_[u][i] # g
    BY SMTT(30), <1>1, <1>4 DEF TablesOK, PoolsInv, g
  <2>2. \A j \in Clients : Holds(j)' => Holds(j) /\ co'[j].up_fd = co[j].up_fd
    BY Zenon, <1>2, <1>3, <1>6
  <2>3. QED BY <1>1, <1>3, <1>5, <2>1, <2>2 DEF PoolsInv
<1>12. NoneLost'
  <2>1. ASSUME NEW f \in Fds, phase # "stopped", sock'[f].to \in Upstreams
        PROVE  Pooled(f)' \/ HeldBySome(f)'
    <3>1. f # g /\ sock[f].to \in Upstreams
      BY Zenon, <1>5, <1>7, <2>1
    <3>2. Pooled(f) \/ HeldBySome(f)
      BY Zenon, <1>1, <2>1, <3>1 DEF NoneLost
    <3>3. HeldBySome(f) => HeldBySome(f)'
      BY Zenon, <1>2, <1>6, <3>1 DEF HeldBySome, g
    <3>4. Pooled(f) => Pooled(f)'
      BY Zenon, <1>3 DEF Pooled
    <3>5. QED BY Zenon, <3>2, <3>3, <3>4
  <2>2. QED BY Zenon, <2>1 DEF NoneLost
<1>13. QED BY Zenon, <1>10, <1>11, <1>12 DEF UpInv

LEMMA OpensUpKeeps ==
  ASSUME ProxyInv, NEW k \in Clients, NEW c, Live(k), Moved(k, c), OpensUp(k, c), UNCHANGED phase
  PROVE  UpInv'
<1> DEFINE g == c.up_fd
<1>1. OwnersInv /\ PoolsInv /\ NoneLost /\ TablesOK
  BY Zenon DEF ProxyInv
<1>2. \A j \in Clients : j # k => co'[j] = co[j]
  BY Zenon DEF Moved
<1>3. /\ co'[k].fd = co[k].fd /\ co'[k].up_fd = g /\ pools_' = pools_ /\ Live(k)' /\ Holds(k)'
      /\ ~Holds(k)
  BY Zenon DEF Moved, OpensUp, Live, Holds, UpStates
<1>4. g \in Fds /\ sock[g].to = None /\ RouteOf(k) \in Upstreams
  BY Zenon, <1>1 DEF OpensUp, OwnersInv
<1>5. sock'[g].to = RouteOf(k) /\ \A f \in Fds : f # g => sock'[f].to = sock[f].to
  BY Zenon DEF OpensUp, EndsBut
<1>6. \A j \in Clients : j # k => (Live(j)' <=> Live(j)) /\ (Holds(j)' <=> Holds(j))
  BY Zenon, <1>2 DEF Live, Holds
<1>7. None \notin Clients \cup Upstreams
  BY Zenon, ProxyAssumption
<1>8. \A j \in Clients : Live(j) => co[j].fd # g
  BY ZenonT(30), <1>1, <1>4, <1>7 DEF OwnersInv
<1>9. \A j \in Clients : Holds(j) => co[j].up_fd # g
  BY <1>1, <1>4, <1>7 DEF OwnersInv
<1> HIDE DEF g
<1>10. OwnersInv'
  <2>1. \A j \in Clients : Live(j)' => co'[j].fd \in Fds /\ sock'[co'[j].fd].to = j
    BY <1>1, <1>2, <1>3, <1>5, <1>6, <1>8 DEF OwnersInv
  <2>2. \A j \in Clients : Holds(j)' => co'[j].up_fd \in Fds /\ sock'[co'[j].up_fd].to = RouteOf(j)
    BY <1>1, <1>2, <1>3, <1>4, <1>5, <1>6, <1>9 DEF OwnersInv
  <2>3. \A j \in Clients : Live(j)' /\ ~Holds(j)' => co'[j].up_fd = None
    BY Zenon, <1>1, <1>2, <1>3, <1>6 DEF OwnersInv
  <2>4. \A j \in Clients : Holds(j)' \/ co'[j].at = "acquire" => RouteOf(j) \in Upstreams
    BY Zenon, <1>1, <1>2, <1>4, <1>6 DEF OwnersInv
  <2>5. \A i, j \in Clients : Holds(i)' /\ Holds(j)' /\ co'[i].up_fd = co'[j].up_fd => i = j
    BY <1>1, <1>2, <1>3, <1>6, <1>9 DEF OwnersInv
  <2>6. QED BY Zenon, <2>1, <2>2, <2>3, <2>4, <2>5 DEF OwnersInv
<1>11. PoolsInv'
  <2>1. \A u \in Upstreams : \A i \in 1..Len(pools_[u]) : pools_[u][i] \in Fds /\ pools_[u][i] # g
    BY <1>1, <1>4, <1>7 DEF TablesOK, PoolsInv
  <2>2. \A j \in Clients : Holds(j)' => co'[j].up_fd = g \/ (Holds(j) /\ co'[j].up_fd = co[j].up_fd)
    BY Zenon, <1>2, <1>3, <1>6
  <2>3. QED BY <1>1, <1>3, <1>5, <2>1, <2>2 DEF PoolsInv
<1>12. NoneLost'
  <2>1. ASSUME NEW f \in Fds, phase # "stopped", sock'[f].to \in Upstreams
        PROVE  Pooled(f)' \/ HeldBySome(f)'
    <3>1. CASE f = g
      BY Zenon, <1>3, <3>1 DEF HeldBySome
    <3>2. CASE f # g
      <4>1. Pooled(f) \/ HeldBySome(f)
        BY Zenon, <1>1, <1>5, <2>1, <3>2 DEF NoneLost
      <4>2. HeldBySome(f) => HeldBySome(f)'
        BY Zenon, <1>2, <1>3, <1>6 DEF HeldBySome
      <4>3. Pooled(f) => Pooled(f)'
        BY Zenon, <1>3 DEF Pooled
      <4>4. QED BY Zenon, <4>1, <4>2, <4>3
    <3>3. QED BY Zenon, <3>1, <3>2
  <2>2. QED BY Zenon, <2>1 DEF NoneLost
<1>13. QED BY Zenon, <1>10, <1>11, <1>12 DEF UpInv

LEMMA TakesUpKeeps ==
  ASSUME ProxyInv, NEW k \in Clients, NEW c, Live(k), Moved(k, c), TakesUp(k, c), UNCHANGED phase
  PROVE  UpInv'
<1> DEFINE v == RouteOf(k)
           g == Head(pools_[v])
<1>1. OwnersInv /\ PoolsInv /\ NoneLost /\ TablesOK
  BY Zenon DEF ProxyInv
<1>2. \A j \in Clients : j # k => co'[j] = co[j]
  BY Zenon DEF Moved
<1>3. /\ co'[k].fd = co[k].fd /\ co'[k].up_fd = g /\ Live(k)' /\ Holds(k)' /\ ~Holds(k)
  BY Zenon DEF Moved, TakesUp, Live, Holds, UpStates
<1>4. v \in Upstreams /\ pools_[v] \in Seq(Fds) /\ pools_[v] # <<>>
  BY Zenon, <1>1 DEF TakesUp, OwnersInv, TablesOK
<1>5. g = pools_[v][1] /\ 1 \in 1..Len(pools_[v]) /\ g \in Fds
  BY <1>4
<1>6. \A f \in Fds : sock'[f].to = sock[f].to
  BY Zenon DEF TakesUp, EndsSame
<1>7. \A j \in Clients : j # k => (Live(j)' <=> Live(j)) /\ (Holds(j)' <=> Holds(j))
  BY Zenon, <1>2 DEF Live, Holds
<1>8. sock[g].to = v /\ \A j \in Clients : Holds(j) => co[j].up_fd # g
  BY <1>1, <1>4, <1>5 DEF PoolsInv
<1>9. pools_'[v] = Tail(pools_[v]) /\ \A u \in Upstreams : u # v => pools_'[u] = pools_[u]
  BY Zenon, <1>1, <1>4 DEF TakesUp, TablesOK
<1>10. /\ Len(pools_'[v]) = Len(pools_[v]) - 1 /\ Len(pools_[v]) \in Nat
       /\ \A i \in 1..Len(pools_'[v]) : i + 1 \in 1..Len(pools_[v]) /\ pools_'[v][i] = pools_[v][i + 1]
  BY <1>4, <1>9
<1> HIDE DEF v, g
<1>11. OwnersInv'
  <2>1. \A j \in Clients : Live(j)' => co'[j].fd \in Fds /\ sock'[co'[j].fd].to = j
    BY <1>1, <1>2, <1>3, <1>6, <1>7 DEF OwnersInv
  <2>2. \A j \in Clients : Holds(j)' => co'[j].up_fd \in Fds /\ sock'[co'[j].up_fd].to = RouteOf(j)
    BY <1>1, <1>2, <1>3, <1>5, <1>6, <1>7, <1>8 DEF OwnersInv, v
  <2>3. \A j \in Clients : Live(j)' /\ ~Holds(j)' => co'[j].up_fd = None
    BY Zenon, <1>1, <1>2, <1>3, <1>7 DEF OwnersInv
  <2>4. \A j \in Clients : Holds(j)' \/ co'[j].at = "acquire" => RouteOf(j) \in Upstreams
    BY Zenon, <1>1, <1>2, <1>4, <1>7 DEF OwnersInv, v
  <2>5. \A i, j \in Clients : Holds(i)' /\ Holds(j)' /\ co'[i].up_fd = co'[j].up_fd => i = j
    BY <1>1, <1>2, <1>3, <1>7, <1>8 DEF OwnersInv
  <2>6. QED BY Zenon, <2>1, <2>2, <2>3, <2>4, <2>5 DEF OwnersInv
<1>12. PoolsInv'
  <2>1. \A j \in Clients : Holds(j)' => co'[j].up_fd = g \/ (Holds(j) /\ co'[j].up_fd = co[j].up_fd)
    BY Zenon, <1>2, <1>3, <1>7
  <2>2. ASSUME NEW u \in Upstreams
        PROVE  /\ Len(pools_'[u]) <= PoolDepth
               /\ \A i, j \in 1..Len(pools_'[u]) : pools_'[u][i] = pools_'[u][j] => i = j
               /\ \A i \in 1..Len(pools_'[u]) :
                    /\ sock'[pools_'[u][i]].to = u
                    /\ \A j \in Clients : Holds(j)' => co'[j].up_fd # pools_'[u][i]
    <3>0. /\ Len(pools_[u]) <= PoolDepth
          /\ \A i, j \in 1..Len(pools_[u]) : pools_[u][i] = pools_[u][j] => i = j
          /\ \A i \in 1..Len(pools_[u]) :
               /\ sock[pools_[u][i]].to = u
               /\ \A j \in Clients : Holds(j) => co[j].up_fd # pools_[u][i]
      BY Zenon, <1>1 DEF PoolsInv
    <3>1. \A i \in 1..Len(pools_[u]) : pools_[u][i] \in Fds
      BY <1>1 DEF TablesOK
    <3>2. CASE u = v
      <4>1. PoolDepth \in Nat
        BY Zenon, ProxyAssumption
      <4>2. Len(pools_'[u]) <= PoolDepth
        BY <1>10, <3>0, <3>2, <4>1
      <4>3. ASSUME NEW i \in 1..Len(pools_'[u]), NEW j \in 1..Len(pools_'[u]), pools_'[u][i] = pools_'[u][j]
            PROVE  i = j
        <5>1. /\ i + 1 \in 1..Len(pools_[u]) /\ pools_'[u][i] = pools_[u][i + 1]
              /\ j + 1 \in 1..Len(pools_[u]) /\ pools_'[u][j] = pools_[u][j + 1]
          BY Zenon, <1>10, <3>2
        <5>2. i + 1 = j + 1
          BY Zenon, <3>0, <4>3, <5>1
        <5>3. QED BY <5>2
      <4>4. ASSUME NEW i \in 1..Len(pools_'[u])
            PROVE  /\ sock'[pools_'[u][i]].to = u
                   /\ \A j \in Clients : Holds(j)' => co'[j].up_fd # pools_'[u][i]
        <5>1. i + 1 \in 1..Len(pools_[u]) /\ pools_'[u][i] = pools_[u][i + 1] /\ i + 1 # 1
          BY <1>10, <3>2
        <5>2. pools_[u][i + 1] # g
          BY Zenon, <1>5, <3>0, <3>2, <5>1
        <5>3. QED BY <1>6, <2>1, <3>0, <3>1, <5>1, <5>2
      <4>5. QED BY Zenon, <4>2, <4>3, <4>4
    <3>3. CASE u # v
      <4>1. \A i \in 1..Len(pools_[u]) : pools_[u][i] # g
        BY Zenon, <1>8, <3>0, <3>3
      <4>2. QED BY <1>6, <1>9, <2>1, <3>0, <3>1, <3>3, <4>1
    <3>4. QED BY Zenon, <3>2, <3>3
  <2>3. QED BY Zenon, <2>2 DEF PoolsInv
<1>13. NoneLost'
  <2>1. ASSUME NEW f \in Fds, phase # "stopped", sock'[f].to \in Upstreams
        PROVE  Pooled(f)' \/ HeldBySome(f)'
    <3>1. Pooled(f) \/ HeldBySome(f)
      BY Zenon, <1>1, <1>6, <2>1 DEF NoneLost
    <3>2. HeldBySome(f) => HeldBySome(f)'
      BY Zenon, <1>2, <1>3, <1>7 DEF HeldBySome
    <3>3. CASE f = g
      BY Zenon, <1>3, <3>3 DEF HeldBySome
    <3>4. ASSUME f # g, NEW u \in Upstreams, NEW i \in 1..Len(pools_[u]), pools_[u][i] = f
          PROVE  Pooled(f)'
      <4>1. CASE u = v
        <5>1. i # 1
          BY Zenon, <1>5, <3>4, <4>1
        <5>2. i - 1 \in 1..Len(pools_'[v]) /\ (i - 1) + 1 = i
          BY <1>10, <3>4, <4>1, <5>1
        <5>3. pools_'[v][i - 1] = f
          BY Zenon, <1>10, <3>4, <4>1, <5>2
        <5>4. QED BY Zenon, <1>4, <5>2, <5>3 DEF Pooled
      <4>2. CASE u # v
        BY Zenon, <1>9, <3>4, <4>2 DEF Pooled
      <4>3. QED BY Zenon, <4>1, <4>2
    <3>5. QED BY Zenon, <3>1, <3>2, <3>3, <3>4 DEF Pooled
  <2>2. QED BY Zenon, <2>1 DEF NoneLost
<1>14. QED BY Zenon, <1>11, <1>12, <1>13 DEF UpInv

LEMMA PoolsUpKeeps ==
  ASSUME ProxyInv, NEW k \in Clients, NEW c, Live(k), Moved(k, c), PoolsUp(k, c), UNCHANGED phase
  PROVE  UpInv'
<1> DEFINE v == RouteOf(k)
           g == co[k].up_fd
<1>1. OwnersInv /\ PoolsInv /\ NoneLost /\ TablesOK
  BY Zenon DEF ProxyInv
<1>2. \A j \in Clients : j # k => co'[j] = co[j]
  BY Zenon DEF Moved
<1>3. /\ co'[k].fd = co[k].fd /\ co'[k].up_fd = None /\ Live(k)' /\ ~Holds(k)' /\ co'[k].at = "reply"
  BY Zenon DEF Moved, PoolsUp, Live, Holds, UpStates
<1>4. Holds(k) /\ g \in Fds /\ sock[g].to = v /\ v \in Upstreams
  BY Zenon, <1>1 DEF PoolsUp, OwnersInv
<1>5. pools_[v] \in Seq(Fds) /\ Len(pools_[v]) < PoolDepth
  BY Zenon, <1>1, <1>4 DEF PoolsUp, TablesOK
<1>6. \A f \in Fds : sock'[f].to = sock[f].to
  BY Zenon DEF PoolsUp, EndsSame
<1>7. \A j \in Clients : j # k => (Live(j)' <=> Live(j)) /\ (Holds(j)' <=> Holds(j))
  BY Zenon, <1>2 DEF Live, Holds
<1>8. \A j \in Clients : j # k /\ Holds(j) => co[j].up_fd # g
  BY Zenon, <1>1, <1>4 DEF OwnersInv
<1>9. pools_'[v] = Append(pools_[v], g) /\ \A u \in Upstreams : u # v => pools_'[u] = pools_[u]
  BY Zenon, <1>1, <1>4 DEF PoolsUp, TablesOK
<1>10. /\ Len(pools_'[v]) = Len(pools_[v]) + 1 /\ Len(pools_[v]) \in Nat
       /\ pools_'[v][Len(pools_[v]) + 1] = g
       /\ \A i \in 1..Len(pools_[v]) : pools_'[v][i] = pools_[v][i]
  BY <1>4, <1>5, <1>9
<1>11. \A u \in Upstreams : \A i \in 1..Len(pools_[u]) : pools_[u][i] \in Fds /\ pools_[u][i] # g
  BY <1>1, <1>4 DEF TablesOK, PoolsInv
<1> HIDE DEF v, g
<1>12. OwnersInv'
  <2>1. \A j \in Clients : Live(j)' => co'[j].fd \in Fds /\ sock'[co'[j].fd].to = j
    BY <1>1, <1>2, <1>3, <1>6, <1>7 DEF OwnersInv
  <2>2. \A j \in Clients : Holds(j)' => co'[j].up_fd \in Fds /\ sock'[co'[j].up_fd].to = RouteOf(j)
    BY <1>1, <1>2, <1>3, <1>6, <1>7 DEF OwnersInv
  <2>3. \A j \in Clients : Live(j)' /\ ~Holds(j)' => co'[j].up_fd = None
    BY Zenon, <1>1, <1>2, <1>3, <1>7 DEF OwnersInv
  <2>4. \A j \in Clients : Holds(j)' \/ co'[j].at = "acquire" => RouteOf(j) \in Upstreams
    BY Zenon, <1>1, <1>2, <1>3, <1>7 DEF OwnersInv
  <2>5. \A i, j \in Clients : Holds(i)' /\ Holds(j)' /\ co'[i].up_fd = co'[j].up_fd => i = j
    BY <1>1, <1>2, <1>3, <1>7 DEF OwnersInv
  <2>6. QED BY Zenon, <2>1, <2>2, <2>3, <2>4, <2>5 DEF OwnersInv
<1>13. PoolsInv'
  <2>1. \A j \in Clients : Holds(j)' => Holds(j) /\ co'[j].up_fd = co[j].up_fd /\ co'[j].up_fd # g
    BY Zenon, <1>2, <1>3, <1>7, <1>8
  <2>2. ASSUME NEW u \in Upstreams
        PROVE  /\ Len(pools_'[u]) <= PoolDepth
               /\ \A i, j \in 1..Len(pools_'[u]) : pools_'[u][i] = pools_'[u][j] => i = j
               /\ \A i \in 1..Len(pools_'[u]) :
                    /\ sock'[pools_'[u][i]].to = u
                    /\ \A j \in Clients : Holds(j)' => co'[j].up_fd # pools_'[u][i]
    <3>0. /\ Len(pools_[u]) <= PoolDepth
          /\ \A i, j \in 1..Len(pools_[u]) : pools_[u][i] = pools_[u][j] => i = j
          /\ \A i \in 1..Len(pools_[u]) :
               /\ sock[pools_[u][i]].to = u
               /\ \A j \in Clients : Holds(j) => co[j].up_fd # pools_[u][i]
      BY Zenon, <1>1 DEF PoolsInv
    <3>1. \A i \in 1..Len(pools_[u]) : pools_[u][i] \in Fds
      BY <1>1 DEF TablesOK
    <3>2. CASE u = v
      <4>1. PoolDepth \in Nat
        BY Zenon, ProxyAssumption
      <4>2. Len(pools_'[u]) <= PoolDepth
        BY <1>5, <1>10, <3>2, <4>1
      <4>3. \A i \in 1..Len(pools_'[u]) : i \in 1..Len(pools_[u]) \/ i = Len(pools_[u]) + 1
        BY <1>10, <3>2
      <4>4. ASSUME NEW i \in 1..Len(pools_'[u]), NEW j \in 1..Len(pools_'[u]), pools_'[u][i] = pools_'[u][j]
            PROVE  i = j
        BY SMTT(30), <1>10, <1>11, <3>0, <3>2, <4>3, <4>4
      <4>5. ASSUME NEW i \in 1..Len(pools_'[u])
            PROVE  /\ sock'[pools_'[u][i]].to = u
                   /\ \A j \in Clients : Holds(j)' => co'[j].up_fd # pools_'[u][i]
        <5>1. CASE i \in 1..Len(pools_[u])
          <6>1. pools_'[u][i] = pools_[u][i] /\ pools_[u][i] \in Fds
            BY Zenon, <1>10, <3>1, <3>2, <5>1
          <6>2. QED BY Zenon, <1>6, <2>1, <3>0, <5>1, <6>1
        <5>2. CASE i = Len(pools_[u]) + 1
          BY Zenon, <1>4, <1>6, <1>10, <2>1, <3>2, <5>2
        <5>3. QED BY Zenon, <4>3, <5>1, <5>2
      <4>6. QED BY Zenon, <4>2, <4>4, <4>5
    <3>3. CASE u # v
      BY <1>6, <1>9, <2>1, <3>0, <3>1, <3>3
    <3>4. QED BY Zenon, <3>2, <3>3
  <2>3. QED BY Zenon, <2>2 DEF PoolsInv
<1>14. NoneLost'
  <2>1. ASSUME NEW f \in Fds, phase # "stopped", sock'[f].to \in Upstreams
        PROVE  Pooled(f)' \/ HeldBySome(f)'
    <3>1. Pooled(f) \/ HeldBySome(f)
      BY Zenon, <1>1, <1>6, <2>1 DEF NoneLost
    <3>2. CASE f = g
      <4>1. Len(pools_[v]) + 1 \in 1..Len(pools_'[v])
        BY <1>10
      <4>2. QED BY Zenon, <1>4, <1>10, <3>2, <4>1 DEF Pooled
    <3>3. f # g /\ HeldBySome(f) => HeldBySome(f)'
      BY Zenon, <1>2, <1>7 DEF HeldBySome, g
    <3>4. ASSUME NEW u \in Upstreams, NEW i \in 1..Len(pools_[u]), pools_[u][i] = f PROVE Pooled(f)'
      <4>1. CASE u = v
        <5>1. i \in 1..Len(pools_'[v]) /\ pools_'[v][i] = f
          BY <1>10, <3>4, <4>1
        <5>2. QED BY Zenon, <1>4, <5>1 DEF Pooled
      <4>2. CASE u # v
        BY Zenon, <1>9, <3>4, <4>2 DEF Pooled
      <4>3. QED BY Zenon, <4>1, <4>2
    <3>5. QED BY Zenon, <3>1, <3>2, <3>3, <3>4 DEF Pooled
  <2>2. QED BY Zenon, <2>1 DEF NoneLost
<1>15. QED BY Zenon, <1>12, <1>13, <1>14 DEF UpInv

LEMMA LeavesUpKeeps ==
  ASSUME ProxyInv, NEW k \in Clients, NEW c, Live(k), Moved(k, c), LeavesUp(k, c), UNCHANGED phase
  PROVE  UpInv'
<1> DEFINE g == co[k].fd
<1>1. OwnersInv /\ PoolsInv /\ NoneLost /\ TablesOK
  BY Zenon DEF ProxyInv
<1>2. \A j \in Clients : j # k => co'[j] = co[j]
  BY Zenon DEF Moved
<1>3. co'[k].at = "done" /\ ~Live(k)' /\ ~Holds(k)' /\ ~Holds(k) /\ pools_' = pools_
  BY Zenon DEF Moved, LeavesUp, Live, Holds, UpStates
<1>4. g \in Fds /\ sock[g].to = k
  BY Zenon, <1>1 DEF OwnersInv
<1>5. /\ \A f \in Fds : f # g => sock'[f].to = sock[f].to
      /\ sock'[g].to \in {k, None}
  BY Zenon, <1>4 DEF LeavesUp, EndsSame, EndsBut
<1>6. \A j \in Clients : j # k => (Live(j)' <=> Live(j)) /\ (Holds(j)' <=> Holds(j))
  BY Zenon, <1>2 DEF Live, Holds
<1>7. Clients \cap Upstreams = {} /\ None \notin Upstreams
  BY Zenon, ProxyAssumption
<1>8. \A j \in Clients : j # k /\ Live(j) => co[j].fd # g
  BY Zenon, <1>1, <1>4 DEF OwnersInv
<1>9. \A j \in Clients : Holds(j) => co[j].up_fd # g
  BY <1>1, <1>4, <1>7 DEF OwnersInv
<1> HIDE DEF g
<1>10. OwnersInv'
  <2>1. \A j \in Clients : Live(j)' => co'[j].fd \in Fds /\ sock'[co'[j].fd].to = j
    BY <1>1, <1>2, <1>3, <1>5, <1>6, <1>8 DEF OwnersInv
  <2>2. \A j \in Clients : Holds(j)' => co'[j].up_fd \in Fds /\ sock'[co'[j].up_fd].to = RouteOf(j)
    BY <1>1, <1>2, <1>3, <1>5, <1>6, <1>9 DEF OwnersInv
  <2>3. \A j \in Clients : Live(j)' /\ ~Holds(j)' => co'[j].up_fd = None
    BY Zenon, <1>1, <1>2, <1>3, <1>6 DEF OwnersInv
  <2>4. \A j \in Clients : Holds(j)' \/ co'[j].at = "acquire" => RouteOf(j) \in Upstreams
    BY Zenon, <1>1, <1>2, <1>3, <1>6 DEF OwnersInv
  <2>5. \A i, j \in Clients : Holds(i)' /\ Holds(j)' /\ co'[i].up_fd = co'[j].up_fd => i = j
    BY Zenon, <1>1, <1>2, <1>3, <1>6 DEF OwnersInv
  <2>6. QED BY Zenon, <2>1, <2>2, <2>3, <2>4, <2>5 DEF OwnersInv
<1>11. PoolsInv'
  <2>1. \A u \in Upstreams : \A i \in 1..Len(pools_[u]) : pools_[u][i] \in Fds /\ pools_[u][i] # g
    <3>1. \A u \in Upstreams : \A i \in 1..Len(pools_[u]) : pools_[u][i] \in Fds
      BY <1>1 DEF TablesOK
    <3>2. \A u \in Upstreams : \A i \in 1..Len(pools_[u]) : sock[pools_[u][i]].to = u
      BY Zenon, <1>1 DEF PoolsInv
    <3>3. sock[g].to \notin Upstreams
      BY Zenon, <1>4, <1>7
    <3>4. QED BY <3>1, <3>2, <3>3
  <2>2. \A j \in Clients : Holds(j)' => Holds(j) /\ co'[j].up_fd = co[j].up_fd
    BY Zenon, <1>2, <1>3, <1>6
  <2>3. QED BY <1>1, <1>3, <1>5, <2>1, <2>2 DEF PoolsInv
<1>12. NoneLost'
  <2>1. ASSUME NEW f \in Fds, phase # "stopped", sock'[f].to \in Upstreams
        PROVE  Pooled(f)' \/ HeldBySome(f)'
    <3>1. sock[f].to \in Upstreams
      BY Zenon, <1>5, <1>7, <2>1
    <3>2. Pooled(f) \/ HeldBySome(f)
      BY Zenon, <1>1, <2>1, <3>1 DEF NoneLost
    <3>3. HeldBySome(f) => HeldBySome(f)'
      BY Zenon, <1>2, <1>3, <1>6 DEF HeldBySome
    <3>4. Pooled(f) => Pooled(f)'
      BY Zenon, <1>3 DEF Pooled
    <3>5. QED BY Zenon, <3>2, <3>3, <3>4
  <2>2. QED BY Zenon, <2>1 DEF NoneLost
<1>13. QED BY Zenon, <1>10, <1>11, <1>12 DEF UpInv

-----------------------------------------------------------------------------
(* No registration is left on a descriptor the running coroutine may await. *)
LEMMA OwnFdUnregistered ==
  ASSUME ProxyInv, NEW k \in Clients, active = k, NEW f \in Fds,
         f = co[k].fd \/ (Holds(k) /\ f = co[k].up_fd) \/ sock[f].to = None
  PROVE  reg[f] = NoReg
<1> SUFFICES ASSUME reg[f] # NoReg PROVE FALSE
  OBVIOUS
<1> DEFINE j == reg[f].who
<1>1. OwnersInv /\ LoopInv /\ HandlesAreSuspended /\ FramesOK
  BY Zenon DEF ProxyInv
<1>2. None \notin Clients \cup Upstreams /\ Clients \cap Upstreams = {}
  BY Zenon, ProxyAssumption
<1>3. j \in Clients /\ Suspended(j) /\ AwaitedFd(j) = f
  BY Zenon, <1>1 DEF LoopInv, HandlesAreSuspended
<1>4. Live(k)
  BY Zenon, <1>1, <1>2 DEF LoopInv
<1> HIDE DEF j
<1>5. j # k /\ Live(j)
  BY Zenon, <1>3 DEF Suspended, Live
<1>6. f = co[j].fd \/ (Holds(j) /\ f = co[j].up_fd)
  <2>0. IsFrame(co[j])
    BY Zenon, <1>1, <1>3 DEF FramesOK
  <2>1. co[j].at \in States /\ co[j].at \notin {"acquire", "spin", "none", "done"}
    <3>1. co[j].at \in States
      BY Zenon, <2>0 DEF IsFrame
    <3>2. co[j].at \notin {"acquire", "spin"}
      BY Zenon, <1>1, <1>3 DEF LoopInv
    <3>3. QED BY Zenon, <1>5, <3>1, <3>2 DEF Live
  <2>2. QED BY Zenon, <1>3, <2>1 DEF AwaitedFd, Holds, UpStates, States
<1>7. co[j].fd = f => sock[f].to = j
  BY Zenon, <1>1, <1>3, <1>5 DEF OwnersInv
<1>8. Holds(j) /\ f = co[j].up_fd => sock[f].to \in Upstreams
  BY <1>1, <1>3 DEF OwnersInv
<1>9. f = co[k].fd => sock[f].to = k
  BY Zenon, <1>1, <1>4 DEF OwnersInv
<1>10. Holds(k) /\ f = co[k].up_fd => sock[f].to \in Upstreams
  BY <1>1 DEF OwnersInv
<1>11. CASE f = co[k].fd
  BY Zenon, <1>2, <1>3, <1>5, <1>6, <1>7, <1>8, <1>9, <1>11
<1>12. CASE Holds(k) /\ f = co[k].up_fd
  <2>1. Holds(j) /\ f = co[j].up_fd
    BY Zenon, <1>2, <1>3, <1>6, <1>7, <1>10, <1>12
  <2>2. QED BY Zenon, <1>1, <1>3, <1>5, <1>12, <2>1 DEF OwnersInv
<1>13. CASE sock[f].to = None
  BY Zenon, <1>2, <1>3, <1>6, <1>7, <1>8, <1>13
<1>14. QED BY Zenon, <1>11, <1>12, <1>13

-----------------------------------------------------------------------------
(* Every step of a coroutine is one of these. *)
Goes(k, c) ==
  Lasting(c) /\ (KeepsUp(k, c) \/ TakesUp(k, c) \/ OpensUp(k, c) \/ ClosesUp(k, c) \/ PoolsUp(k, c))
Outcome(k, c) ==
  /\ Moved(k, c)
  /\ \/ Continues(k, c) /\ Goes(k, c)
     \/ Suspends(k, c) /\ Goes(k, c)
     \/ Ends(k, c) /\ LeavesUp(k, c)
StepsOn(k) == SocksOK' /\ UNCHANGED <<client, backlog>> /\ \E c : Outcome(k, c)

LEMMA FrameSet ==
  ASSUME FramesOK, NEW k \in Clients, NEW c, IsFrame(c), c.fd = co[k].fd, co' = [co EXCEPT ![k] = c]
  PROVE  Moved(k, c)
<1>1. DOMAIN co = Clients
  BY Zenon DEF FramesOK
<1>2. DOMAIN co' = Clients /\ co'[k] = c /\ \A j \in Clients \ {k} : co'[j] = co[j]
  BY Zenon, <1>1
<1>3. QED BY Zenon, <1>2 DEF Moved

LEMMA SocketSet ==
  ASSUME SocksOK, NEW f \in Fds, NEW x, IsSocket(x), sock' = [sock EXCEPT ![f] = x]
  PROVE  SocksOK' /\ EndsBut(f, x.to) /\ (x.to = sock[f].to => EndsSame)
<1>1. DOMAIN sock = Fds /\ \A g \in Fds : IsSocket(sock[g])
  BY Zenon DEF SocksOK
<1>2. DOMAIN sock' = Fds /\ sock'[f] = x /\ \A g \in Fds : g # f => sock'[g] = sock[g]
  BY Zenon, <1>1
<1>3. \A g \in Fds : IsSocket(sock'[g])
  BY Zenon, <1>1, <1>2
<1>4. SocksOK'
  <2>1. ASSUME NEW g \in Fds PROVE IsSocket(sock[g])'
    BY Zenon, <1>3, <2>1 DEF IsSocket
  <2>2. QED BY Zenon, <1>2, <2>1 DEF SocksOK
<1>5. QED BY Zenon, <1>2, <1>4 DEF EndsBut, EndsSame

LEMMA SocketsSame ==
  ASSUME SocksOK, UNCHANGED sock
  PROVE  SocksOK' /\ EndsSame
BY Zenon DEF SocksOK, EndsSame, IsSocket

LEMMA NoSocketIsSocket == IsSocket(NoSocket) /\ NoSocket.to = None
BY Zenon DEF IsSocket, NoSocket, Socket

LEMMA CloseEnds ==
  ASSUME SocksOK, NEW f \in Fds, sock' = Close(f)
  PROVE  SocksOK' /\ EndsBut(f, None)
BY Zenon, SocketSet, NoSocketIsSocket DEF Close

LEMMA FreeFd ==
  ASSUME NEW g, Lowest(g)
  PROVE  g \in Fds /\ sock[g].to = None
BY Zenon, NoSocketIsSocket DEF Lowest, Free

(* What the running coroutine has. *)
LEMMA Running ==
  ASSUME ProxyInv, NEW k \in Clients, active = k
  PROVE  /\ FramesOK /\ SocksOK /\ IsFrame(co[k]) /\ Live(k)
         /\ co[k].fd \in Fds /\ reg[co[k].fd] = NoReg /\ sock[co[k].fd].to = k
         /\ Holds(k) => /\ co[k].up_fd \in Fds /\ reg[co[k].up_fd] = NoReg
                        /\ RouteOf(k) \in Upstreams
         /\ ~Holds(k) => co[k].up_fd = None
<1>1. FramesOK /\ SocksOK /\ OwnersInv /\ LoopInv
  BY Zenon DEF ProxyInv
<1>2. k # None
  BY Zenon, ProxyAssumption
<1>3. Live(k)
  BY Zenon, <1>1, <1>2 DEF LoopInv
<1>4. IsFrame(co[k])
  BY Zenon, <1>1 DEF FramesOK
<1>5. /\ co[k].fd \in Fds /\ sock[co[k].fd].to = k
      /\ Holds(k) => co[k].up_fd \in Fds /\ RouteOf(k) \in Upstreams
      /\ ~Holds(k) => co[k].up_fd = None
  BY Zenon, <1>1, <1>3 DEF OwnersInv
<1>6. reg[co[k].fd] = NoReg
  BY Zenon, <1>5, OwnFdUnregistered
<1>7. Holds(k) => reg[co[k].up_fd] = NoReg
  BY Zenon, <1>5, OwnFdUnregistered
<1>8. QED BY Zenon, <1>1, <1>3, <1>4, <1>5, <1>6, <1>7

LEMMA GoesOn ==
  ASSUME ProxyInv, NEW k \in Clients, active = k, NEW c, IsFrame(c), c.fd = co[k].fd,
         GoOn(k, c), Goes(k, c), SocksOK', UNCHANGED <<client, backlog>>
  PROVE  StepsOn(k)
<1>1. Moved(k, c)
  BY Zenon, FrameSet, Running DEF GoOn
<1>2. Continues(k, c)
  BY Zenon DEF Continues, GoOn, Goes, loop
<1>3. QED BY Zenon, <1>1, <1>2 DEF StepsOn, Outcome

LEMMA Waits ==
  ASSUME ProxyInv, NEW k \in Clients, active = k, NEW c, IsFrame(c), c.fd = co[k].fd,
         c.at \notin {"acquire", "spin"}, FdOf(c) \in Fds, reg[FdOf(c)] = NoReg,
         Await(k, c, FdOf(c), DirOf(c)), Goes(k, c), SocksOK', UNCHANGED <<client, backlog>>
  PROVE  StepsOn(k)
<1>1. Moved(k, c)
  BY Zenon, FrameSet, Running DEF Await
<1>2. Suspends(k, c)
  BY Zenon DEF Suspends, Await, Add, Goes
<1>3. QED BY Zenon, <1>1, <1>2 DEF StepsOn, Outcome

LEMMA Finishes ==
  ASSUME ProxyInv, NEW k \in Clients, active = k, ~Holds(k), Return(k),
         UNCHANGED <<client, backlog, pools_>>
  PROVE  StepsOn(k)
<1> DEFINE c == Coroutine("done", co[k].fd)
<1>1. IsFrame(c) /\ c.fd = co[k].fd /\ c.at = "done" /\ c.up_fd = None
  BY Zenon, Running DEF Coroutine, IsFrame, States
<1>2. co' = [co EXCEPT ![k] = c]
  BY Zenon DEF Return
<1> HIDE DEF c
<1>3. Moved(k, c)
  BY Zenon, <1>1, <1>2, FrameSet, Running
<1>4. Ends(k, c)
  BY Zenon, <1>1 DEF Ends, Return
<1>5. SocksOK' /\ (EndsSame \/ EndsBut(co[k].fd, None))
  <2>1. CASE phase = "accept"
    BY Zenon, <2>1, Running, CloseEnds DEF Return
  <2>2. CASE phase # "accept"
    BY Zenon, <2>2, Running, SocketsSame DEF Return
  <2>3. QED BY Zenon, <2>1, <2>2
<1>6. LeavesUp(k, c)
  BY Zenon, <1>1, <1>5 DEF LeavesUp
<1>7. QED BY Zenon, <1>3, <1>4, <1>5, <1>6 DEF StepsOn, Outcome

-----------------------------------------------------------------------------
(* The steps of a coroutine, one by one *)

LEMMA RouteSteps ==
  ASSUME RoutesKnown, ProxyInv, NEW k \in Clients, active = k, co[k].at \in {"head", "body"},
         NEW x, IsFrame(x), x.fd = co[k].fd, x.up_fd = co[k].up_fd, Route(k, x),
         UNCHANGED <<client, backlog, sock, pools_>>
  PROVE  StepsOn(k)
<1>1. SocksOK' /\ EndsSame
  BY Zenon, Running, SocketsSame
<1>2. ~Holds(k) /\ co[k].up_fd = None
  BY Zenon, Running DEF Holds, UpStates
<1>3. CASE routes_ # <<>> /\ GoOn(k, [x EXCEPT !.at = "acquire", !.attempt = 0])
  <2> DEFINE c == [x EXCEPT !.at = "acquire", !.attempt = 0]
  <2>1. IsFrame(c) /\ c.fd = co[k].fd /\ c.up_fd = co[k].up_fd /\ c.at = "acquire" /\ GoOn(k, c)
    BY Zenon, <1>3 DEF IsFrame, States
  <2> HIDE DEF c
  <2>2. Goes(k, c)
    BY Zenon, <1>1, <1>2, <1>3, <2>1 DEF RoutesKnown, Goes, KeepsUp, Lasting, UpStates
  <2>3. QED BY Zenon, <1>1, <2>1, <2>2, GoesOn
<1>4. CASE GoOn(k, BadGateway(x))
  <2> DEFINE c == BadGateway(x)
  <2>1. IsFrame(c) /\ c.fd = co[k].fd /\ c.up_fd = None /\ c.at = "reply" /\ GoOn(k, c)
    BY Zenon, <1>4 DEF IsFrame, States, BadGateway
  <2> HIDE DEF c
  <2>2. Goes(k, c)
    BY Zenon, <1>1, <1>2, <2>1 DEF Goes, KeepsUp, Lasting, UpStates
  <2>3. QED BY Zenon, <1>1, <2>1, <2>2, GoesOn
<1>5. QED BY Zenon, <1>3, <1>4 DEF Route

(* A coroutine that stays where it is and waits, having written a part or not. *)
LEMMA WaitsHere ==
  ASSUME ProxyInv, NEW k \in Clients, active = k, co[k].at \notin {"acquire", "spin"},
         NEW c, c \in {co[k], [co[k] EXCEPT !.half = TRUE]},
         Await(k, c, AwaitedFd(k), AwaitedDir(k)),
         SocksOK', EndsSame, UNCHANGED <<client, backlog, pools_>>
  PROVE  StepsOn(k)
<1>1. IsFrame(co[k]) /\ Live(k) /\ co[k].at \in States
  BY Zenon, Running DEF IsFrame
<1>2. IsFrame(c) /\ c.at = co[k].at /\ c.fd = co[k].fd /\ c.up_fd = co[k].up_fd
  BY Zenon, <1>1 DEF IsFrame
<1>3. FdOf(c) = AwaitedFd(k) /\ DirOf(c) = AwaitedDir(k)
  BY Zenon, <1>2 DEF FdOf, DirOf, AwaitedFd, AwaitedDir
<1>4. FdOf(c) \in Fds /\ reg[FdOf(c)] = NoReg
  <2>1. CASE co[k].at \in {"head", "body", "reply"}
    BY <1>2, <2>1, Running DEF FdOf
  <2>2. CASE co[k].at \notin {"head", "body", "reply"}
    <3>1. Holds(k)
      BY Zenon, <1>1, <2>2 DEF Live, Holds, UpStates, States
    <3>2. QED BY Zenon, <1>2, <2>2, <3>1, Running DEF FdOf
  <2>3. QED BY Zenon, <2>1, <2>2
<1>5. Goes(k, c)
  BY Zenon, <1>1, <1>2 DEF Goes, KeepsUp, Lasting, Live, Holds
<1>6. QED BY Zenon, <1>2, <1>3, <1>4, <1>5, Waits

LEMMA ReadRequestSteps ==
  ASSUME RoutesKnown, ProxyInv, NEW k \in Clients, active = k, ReadRequest(k)
  PROVE  StepsOn(k)
<1>1. IsFrame(co[k]) /\ ~Holds(k) /\ co[k].at = "head" /\ UNCHANGED <<client, backlog, pools_>>
  BY Zenon, Running DEF ReadRequest, users, Holds, UpStates
<1>2. UNCHANGED sock => SocksOK' /\ EndsSame
  BY Zenon, Running, SocketsSame
<1>3. CASE GoOn(k, [co[k] EXCEPT !.at = "body"]) /\ UNCHANGED sock
  <2> DEFINE c == [co[k] EXCEPT !.at = "body"]
  <2>1. IsFrame(c) /\ c.fd = co[k].fd /\ c.up_fd = co[k].up_fd /\ c.at = "body" /\ GoOn(k, c)
    BY Zenon, <1>1, <1>3 DEF IsFrame, States
  <2> HIDE DEF c
  <2>2. Goes(k, c)
    BY Zenon, <1>1, <1>2, <1>3, <2>1 DEF Goes, KeepsUp, Lasting, UpStates
  <2>3. QED BY Zenon, <1>1, <1>2, <1>3, <2>1, <2>2, GoesOn
<1>4. CASE Route(k, co[k]) /\ UNCHANGED sock
  BY Zenon, <1>1, <1>4, RouteSteps
<1>5. CASE Await(k, co[k], co[k].fd, "R") /\ UNCHANGED sock
  <2>1. co[k].fd = AwaitedFd(k) /\ AwaitedDir(k) = "R"
    BY Zenon, <1>1 DEF AwaitedFd, AwaitedDir
  <2>2. QED BY Zenon, <1>1, <1>2, <1>5, <2>1, WaitsHere
<1>6. CASE Return(k)
  BY Zenon, <1>1, <1>6, Finishes
<1>7. QED BY Zenon, <1>3, <1>4, <1>5, <1>6 DEF ReadRequest

LEMMA ReadBodySteps ==
  ASSUME RoutesKnown, ProxyInv, NEW k \in Clients, active = k, ReadBody(k)
  PROVE  StepsOn(k)
<1>1. IsFrame(co[k]) /\ co[k].at = "body" /\ UNCHANGED <<client, backlog, pools_, sock>>
  BY Zenon, Running DEF ReadBody, users
<1>2. SocksOK' /\ EndsSame
  BY Zenon, <1>1, Running, SocketsSame
<1>3. CASE Route(k, co[k])
  BY Zenon, <1>1, <1>3, RouteSteps
<1>4. CASE Await(k, co[k], co[k].fd, "R")
  <2>1. co[k].fd = AwaitedFd(k) /\ AwaitedDir(k) = "R"
    BY Zenon, <1>1 DEF AwaitedFd, AwaitedDir
  <2>2. QED BY Zenon, <1>1, <1>2, <1>4, <2>1, WaitsHere
<1>5. CASE Route(k, [co[k] EXCEPT !.whole = FALSE])
  <2> DEFINE x == [co[k] EXCEPT !.whole = FALSE]
  <2>1. IsFrame(x) /\ x.fd = co[k].fd /\ x.up_fd = co[k].up_fd /\ Route(k, x)
    BY Zenon, <1>1, <1>5 DEF IsFrame
  <2> HIDE DEF x
  <2>2. QED BY Zenon, <1>1, <2>1, RouteSteps
<1>6. QED BY Zenon, <1>3, <1>4, <1>5 DEF ReadBody

LEMMA NextAttemptFrame ==
  ASSUME ProxyInv, NEW k \in Clients, active = k
  PROVE  LET c == NextAttempt(k)
         IN  IsFrame(c) /\ c.fd = co[k].fd /\ c.up_fd = None /\ c.at \in {"acquire", "reply"}
<1>1. IsFrame(co[k])
  BY Zenon, Running
<1>2. QED BY ZenonT(30), <1>1 DEF NextAttempt, BadGateway, IsFrame, States

LEMMA FailAttemptSteps ==
  ASSUME ProxyInv, NEW k \in Clients, active = k, Holds(k), FailAttempt(k),
         UNCHANGED <<client, backlog, pools_>>
  PROVE  StepsOn(k)
<1> DEFINE c == NextAttempt(k)
<1>1. IsFrame(c) /\ c.fd = co[k].fd /\ c.up_fd = None /\ c.at \in {"acquire", "reply"}
  BY Zenon, NextAttemptFrame
<1>2. GoOn(k, c) /\ sock' = Close(co[k].up_fd)
  BY Zenon DEF FailAttempt
<1> HIDE DEF c
<1>3. SocksOK' /\ EndsBut(co[k].up_fd, None)
  BY Zenon, <1>2, Running, CloseEnds
<1>4. Goes(k, c)
  BY Zenon, <1>1, <1>3 DEF Goes, ClosesUp, Lasting
<1>5. QED BY Zenon, <1>1, <1>2, <1>3, <1>4, GoesOn

LEMMA AcquirePooledSteps ==
  ASSUME ProxyInv, NEW k \in Clients, active = k, AcquirePooled(k)
  PROVE  StepsOn(k)
<1> DEFINE g == Head(pools_[RouteOf(k)])
           c == [co[k] EXCEPT !.at = "send", !.up_fd = g]
<1>1. /\ co[k].at = "acquire" /\ pools_[RouteOf(k)] # <<>> /\ GoOn(k, c)
      /\ pools_' = [pools_ EXCEPT ![RouteOf(k)] = Tail(@)]
      /\ UNCHANGED <<client, backlog, sock>>
  BY Zenon DEF AcquirePooled, users
<1>2. g \in Fds
  <2>1. OwnersInv /\ TablesOK
    BY Zenon DEF ProxyInv
  <2>2. pools_[RouteOf(k)] \in Seq(Fds)
    BY Zenon, <1>1, <2>1 DEF OwnersInv, TablesOK
  <2>3. QED BY <1>1, <2>2
<1> HIDE DEF g
<1>3. IsFrame(c) /\ c.fd = co[k].fd /\ c.at = "send" /\ c.up_fd = g
  BY ZenonT(30), <1>2, Running DEF IsFrame, States
<1> HIDE DEF c
<1>4. SocksOK' /\ EndsSame
  BY Zenon, <1>1, Running, SocketsSame
<1>5. Goes(k, c)
  BY Zenon, <1>1, <1>3, <1>4 DEF Goes, TakesUp, Lasting, g
<1>6. QED BY Zenon, <1>1, <1>3, <1>4, <1>5, GoesOn

LEMMA AcquireNewSteps ==
  ASSUME ProxyInv, NEW k \in Clients, active = k, AcquireNew(k)
  PROVE  StepsOn(k)
<1>1. /\ co[k].at = "acquire" /\ UNCHANGED <<client, backlog, pools_>>
      /\ IsFrame(co[k]) /\ co[k].up_fd = None /\ ~Holds(k)
  BY Zenon, Running DEF AcquireNew, users, Holds, UpStates
<1>2. RouteOf(k) \in Upstreams
  BY Zenon, <1>1 DEF ProxyInv, OwnersInv
<1>3. ASSUME NEW g \in Fds, Lowest(g), NEW st, sock' = [sock EXCEPT ![g] = Socket(RouteOf(k), st)]
      PROVE  /\ SocksOK' /\ EndsBut(g, RouteOf(k))
             /\ g \in Fds /\ sock[g].to = None /\ reg[g] = NoReg
  <2>1. g \in Fds /\ sock[g].to = None
    BY Zenon, <1>3, FreeFd
  <2>2. IsSocket(Socket(RouteOf(k), st)) /\ Socket(RouteOf(k), st).to = RouteOf(k)
    BY Zenon, <1>2 DEF IsSocket, Socket
  <2>3. SocksOK' /\ EndsBut(g, RouteOf(k))
    BY Zenon, <1>3, <2>1, <2>2, SocketSet, Running
  <2>4. reg[g] = NoReg
    BY Zenon, <2>1, OwnFdUnregistered
  <2>5. QED BY Zenon, <2>1, <2>3, <2>4
<1>4. ASSUME NEW g \in Fds, Lowest(g), sock' = [sock EXCEPT ![g] = Socket(RouteOf(k), "open")],
             GoOn(k, [co[k] EXCEPT !.at = "send", !.up_fd = g])
      PROVE  StepsOn(k)
  <2> DEFINE c == [co[k] EXCEPT !.at = "send", !.up_fd = g]
  <2>1. SocksOK' /\ EndsBut(g, RouteOf(k)) /\ g \in Fds /\ sock[g].to = None
    BY Zenon, <1>3, <1>4
  <2>2. GoOn(k, c)
    BY Zenon, <1>4
  <2>3. IsFrame(c) /\ c.fd = co[k].fd /\ c.at = "send" /\ c.up_fd = g
    BY Zenon, <1>1, <2>1 DEF IsFrame, States
  <2> HIDE DEF c
  <2>4. Goes(k, c)
    BY Zenon, <1>1, <2>1, <2>3 DEF Goes, OpensUp, Lasting
  <2>5. QED BY Zenon, <1>1, <2>1, <2>2, <2>3, <2>4, GoesOn
<1>5. ASSUME NEW g \in Fds, Lowest(g),
             sock' = [sock EXCEPT ![g] = Socket(RouteOf(k), "connecting")],
             Await(k, [co[k] EXCEPT !.at = "connect", !.up_fd = g], g, "W")
      PROVE  StepsOn(k)
  <2> DEFINE c == [co[k] EXCEPT !.at = "connect", !.up_fd = g]
  <2>1. SocksOK' /\ EndsBut(g, RouteOf(k)) /\ g \in Fds /\ sock[g].to = None /\ reg[g] = NoReg
    BY Zenon, <1>3, <1>5
  <2>2. Await(k, c, g, "W")
    BY Zenon, <1>5
  <2>3. IsFrame(c) /\ c.fd = co[k].fd /\ c.at = "connect" /\ c.up_fd = g
    BY Zenon, <1>1, <2>1 DEF IsFrame, States
  <2> HIDE DEF c
  <2>4. FdOf(c) = g /\ DirOf(c) = "W"
    BY Zenon, <2>3 DEF FdOf, DirOf
  <2>5. Goes(k, c)
    BY Zenon, <1>1, <2>1, <2>3 DEF Goes, OpensUp, Lasting
  <2>6. QED BY Zenon, <1>1, <2>1, <2>2, <2>3, <2>4, <2>5, Waits
<1>6. CASE GoOn(k, NextAttempt(k)) /\ UNCHANGED sock
  <2> DEFINE c == NextAttempt(k)
  <2>1. IsFrame(c) /\ c.fd = co[k].fd /\ c.up_fd = None /\ c.at \in {"acquire", "reply"}
    BY Zenon, NextAttemptFrame
  <2>2. SocksOK' /\ EndsSame
    BY Zenon, <1>6, Running, SocketsSame
  <2>3. GoOn(k, c)
    BY Zenon, <1>6
  <2> HIDE DEF c
  <2>4. Goes(k, c)
    BY Zenon, <1>1, <1>2, <2>1, <2>2 DEF Goes, KeepsUp, Lasting, UpStates
  <2>5. QED BY Zenon, <1>1, <2>1, <2>2, <2>3, <2>4, GoesOn
<1>7. QED BY Zenon, <1>4, <1>5, <1>6 DEF AcquireNew

LEMMA ConnectSteps ==
  ASSUME ProxyInv, NEW k \in Clients, active = k, Connect(k)
  PROVE  StepsOn(k)
<1>1. IsFrame(co[k]) /\ Holds(k) /\ UNCHANGED <<client, backlog, pools_>>
  BY Zenon, Running DEF Connect, users, Holds, UpStates
<1>2. CASE GoOn(k, [co[k] EXCEPT !.at = "send"]) /\ UNCHANGED sock
  <2> DEFINE c == [co[k] EXCEPT !.at = "send"]
  <2>1. IsFrame(c) /\ c.fd = co[k].fd /\ c.up_fd = co[k].up_fd /\ c.at = "send" /\ GoOn(k, c)
    BY Zenon, <1>1, <1>2 DEF IsFrame, States
  <2> HIDE DEF c
  <2>2. SocksOK' /\ EndsSame
    BY Zenon, <1>2, Running, SocketsSame
  <2>3. Goes(k, c)
    BY Zenon, <1>1, <2>1, <2>2 DEF Goes, KeepsUp, Lasting, UpStates
  <2>4. QED BY Zenon, <1>1, <2>1, <2>2, <2>3, GoesOn
<1>3. CASE FailAttempt(k)
  BY Zenon, <1>1, <1>3, FailAttemptSteps
<1>4. QED BY Zenon, <1>2, <1>3 DEF Connect

(* A change to the upstream socket that leaves it connected, and no frame change
   that matters. *)
LEMMA GoesOnHolding ==
  ASSUME ProxyInv, NEW k \in Clients, active = k, Holds(k), NEW c, IsFrame(c), c.fd = co[k].fd,
         c.up_fd = co[k].up_fd, c.at \in UpStates, GoOn(k, c), SocksOK', EndsSame,
         UNCHANGED <<client, backlog, pools_>>
  PROVE  StepsOn(k)
<1>1. Goes(k, c)
  BY Zenon DEF Goes, KeepsUp, Lasting, UpStates
<1>2. QED BY Zenon, <1>1, GoesOn

LEMMA SendRequestSteps ==
  ASSUME ProxyInv, NEW k \in Clients, active = k, SendRequest(k)
  PROVE  StepsOn(k)
<1> DEFINE f == co[k].up_fd
<1>1. /\ IsFrame(co[k]) /\ co[k].at = "send" /\ Holds(k) /\ UNCHANGED <<client, backlog, pools_>>
      /\ f \in Fds /\ IsSocket(sock[f]) /\ SocksOK
  BY Zenon, Running DEF SendRequest, users, Holds, UpStates, SocksOK
<1>2. ASSUME NEW r, sock' = [sock EXCEPT ![f].req = r],
             GoOn(k, [co[k] EXCEPT !.at = "up_head", !.half = FALSE])
      PROVE  StepsOn(k)
  <2> DEFINE c == [co[k] EXCEPT !.at = "up_head", !.half = FALSE]
             x == [sock[f] EXCEPT !.req = r]
  <2>1. IsFrame(c) /\ c.fd = co[k].fd /\ c.up_fd = co[k].up_fd /\ c.at = "up_head" /\ GoOn(k, c)
    BY Zenon, <1>1, <1>2 DEF IsFrame, States
  <2> HIDE DEF c
  <2>2. IsSocket(x) /\ x.to = sock[f].to /\ sock' = [sock EXCEPT ![f] = x]
    BY Zenon, <1>1, <1>2 DEF IsSocket
  <2> HIDE DEF x, f
  <2>3. SocksOK' /\ EndsSame
    BY Zenon, <1>1, <2>2, SocketSet
  <2>4. QED BY Zenon, <1>1, <2>1, <2>3, GoesOnHolding DEF UpStates
<1>3. ASSUME sock' = [sock EXCEPT ![f].full = TRUE], Await(k, [co[k] EXCEPT !.half = TRUE], f, "W")
      PROVE  StepsOn(k)
  <2> DEFINE c == [co[k] EXCEPT !.half = TRUE]
             x == [sock[f] EXCEPT !.full = TRUE]
  <2>1. f = AwaitedFd(k) /\ AwaitedDir(k) = "W"
    BY Zenon, <1>1 DEF AwaitedFd, AwaitedDir
  <2>2. IsSocket(x) /\ x.to = sock[f].to /\ sock' = [sock EXCEPT ![f] = x]
    BY Zenon, <1>1, <1>3 DEF IsSocket
  <2>3. Await(k, c, f, "W") /\ c \in {co[k], [co[k] EXCEPT !.half = TRUE]}
    BY Zenon, <1>3
  <2> HIDE DEF x, f, c
  <2>4. SocksOK' /\ EndsSame
    BY ZenonT(30), <1>1, <2>2, SocketSet
  <2>5. QED BY Zenon, <1>1, <2>1, <2>3, <2>4, WaitsHere
<1>4. CASE FailAttempt(k)
  BY Zenon, <1>1, <1>4, FailAttemptSteps
<1>5. QED BY Zenon, <1>2, <1>3, <1>4 DEF SendRequest

(* A read from the upstream: the data goes from the socket into the buffer. *)
LEMMA ReadSteps ==
  ASSUME ProxyInv, NEW k \in Clients, active = k, Holds(k), NEW a \in UpStates, NEW b, NEW q,
         GoOn(k, [co[k] EXCEPT !.buf = b, !.at = a]),
         sock' = [sock EXCEPT ![co[k].up_fd] = [sock[co[k].up_fd] EXCEPT !.q = q]],
         UNCHANGED <<client, backlog, pools_>>
  PROVE  StepsOn(k)
<1> DEFINE f == co[k].up_fd
           c == [co[k] EXCEPT !.buf = b, !.at = a]
           x == [sock[f] EXCEPT !.q = q]
<1>1. IsFrame(co[k]) /\ f \in Fds /\ IsSocket(sock[f]) /\ SocksOK
  BY Zenon, Running DEF SocksOK
<1>2. IsFrame(c) /\ c.fd = co[k].fd /\ c.up_fd = co[k].up_fd /\ c.at = a /\ GoOn(k, c)
  BY ZenonT(30), <1>1 DEF IsFrame, States, UpStates
<1>3. IsSocket(x) /\ x.to = sock[f].to /\ sock' = [sock EXCEPT ![f] = x]
  BY Zenon, <1>1 DEF IsSocket
<1> HIDE DEF f, c, x
<1>4. SocksOK' /\ EndsSame
  BY Zenon, <1>1, <1>3, SocketSet
<1>5. QED BY Zenon, <1>2, <1>4, GoesOnHolding

LEMMA ReadHeadSteps ==
  ASSUME ProxyInv, NEW k \in Clients, active = k, ReadHead(k)
  PROVE  StepsOn(k)
<1> DEFINE f == co[k].up_fd
           data == Arrived(sock[f].q)
           b == co[k].buf \o data
           a == IF Has(b, Heads) THEN "up_body" ELSE "up_head"
           q == DropFirst(sock[f].q, Len(data))
<1>1. /\ IsFrame(co[k]) /\ co[k].at = "up_head" /\ Holds(k) /\ UNCHANGED <<client, backlog, pools_>>
      /\ f = AwaitedFd(k) /\ AwaitedDir(k) = "R"
  BY Zenon, Running DEF ReadHead, users, Holds, UpStates, AwaitedFd, AwaitedDir
<1>2. CASE GoOn(k, [co[k] EXCEPT !.buf = b, !.at = a]) /\ sock' = [sock EXCEPT ![f] = [sock[f] EXCEPT !.q = q]]
  <2>1. a \in UpStates
    BY Zenon DEF UpStates
  <2> HIDE DEF a, b, q
  <2>2. QED BY Zenon, <1>1, <1>2, <2>1, ReadSteps
<1>3. CASE Await(k, co[k], f, "R") /\ UNCHANGED sock
  BY Zenon, <1>1, <1>3, WaitsHere, SocketsSame, Running
<1>4. CASE FailAttempt(k)
  BY Zenon, <1>1, <1>4, FailAttemptSteps
<1>5. QED BY Zenon, <1>2, <1>3, <1>4 DEF ReadHead

LEMMA ReleaseSteps ==
  ASSUME ProxyInv, NEW k \in Clients, active = k, Holds(k), Release(k), UNCHANGED <<client, backlog>>
  PROVE  StepsOn(k)
<1> DEFINE c == [co[k] EXCEPT !.at = "reply", !.up_fd = None]
<1>1. IsFrame(c) /\ c.fd = co[k].fd /\ c.up_fd = None /\ c.at = "reply"
  BY ZenonT(30), Running DEF IsFrame, States
<1>2. GoOn(k, c)
  BY Zenon DEF Release
<1> HIDE DEF c
<1>3. CASE sock' = Close(co[k].up_fd) /\ UNCHANGED pools_
  <2>1. SocksOK' /\ EndsBut(co[k].up_fd, None)
    BY Zenon, <1>3, Running, CloseEnds
  <2>2. Goes(k, c)
    BY Zenon, <1>1, <1>3, <2>1 DEF Goes, ClosesUp, Lasting
  <2>3. QED BY Zenon, <1>1, <1>2, <2>1, <2>2, GoesOn
<1>4. CASE /\ ~(Len(pools_[RouteOf(k)]) >= PoolDepth) /\ UNCHANGED sock
           /\ pools_' = [pools_ EXCEPT ![RouteOf(k)] = Append(@, co[k].up_fd)]
  <2>1. SocksOK' /\ EndsSame
    BY Zenon, <1>4, Running, SocketsSame
  <2>2. Len(pools_[RouteOf(k)]) < PoolDepth
    <3>1. pools_[RouteOf(k)] \in Seq(Fds)
      BY Zenon, Running DEF ProxyInv, TablesOK
    <3>2. PoolDepth \in Nat
      BY Zenon, ProxyAssumption
    <3>3. QED BY <1>4, <3>1, <3>2
  <2>3. Goes(k, c)
    BY Zenon, <1>1, <1>4, <2>1, <2>2 DEF Goes, PoolsUp, Lasting
  <2>4. QED BY Zenon, <1>1, <1>2, <2>1, <2>3, GoesOn
<1>5. QED BY Zenon, <1>3, <1>4 DEF Release

LEMMA ReadResponseSteps ==
  ASSUME ProxyInv, NEW k \in Clients, active = k, ReadResponse(k)
  PROVE  StepsOn(k)
<1> DEFINE f == co[k].up_fd
           n == IF HeadOf(co[k].buf) = "length" THEN 1 ELSE Len(Arrived(sock[f].q))
           b == co[k].buf \o SubSeq(sock[f].q, 1, n)
           q == DropFirst(sock[f].q, n)
<1>1. /\ IsFrame(co[k]) /\ co[k].at = "up_body" /\ Holds(k) /\ UNCHANGED <<client, backlog>>
      /\ f = AwaitedFd(k) /\ AwaitedDir(k) = "R"
  BY Zenon, Running DEF ReadResponse, users, Holds, UpStates, AwaitedFd, AwaitedDir
<1>2. UNCHANGED sock => SocksOK' /\ EndsSame
  BY Zenon, Running, SocketsSame
<1>3. CASE Release(k)
  BY Zenon, <1>1, <1>3, ReleaseSteps
<1>4. ASSUME NEW a \in {"rest", "spin"}, GoOn(k, [co[k] EXCEPT !.at = a]), UNCHANGED <<sock, pools_>>
      PROVE  StepsOn(k)
  <2> DEFINE c == [co[k] EXCEPT !.at = a]
  <2>1. IsFrame(c) /\ c.fd = co[k].fd /\ c.up_fd = co[k].up_fd /\ c.at = a /\ a \in UpStates
    BY Zenon, <1>1, <1>4 DEF IsFrame, States, UpStates
  <2>2. GoOn(k, c)
    BY Zenon, <1>4
  <2> HIDE DEF c
  <2>3. QED BY Zenon, <1>1, <1>2, <1>4, <2>1, <2>2, GoesOnHolding
<1>5. CASE /\ GoOn(k, [co[k] EXCEPT !.buf = b]) /\ UNCHANGED pools_
           /\ sock' = [sock EXCEPT ![f] = [sock[f] EXCEPT !.q = q]]
  <2>1. [co[k] EXCEPT !.buf = b] = [co[k] EXCEPT !.buf = b, !.at = "up_body"]
    BY Zenon, <1>1 DEF IsFrame
  <2>2. GoOn(k, [co[k] EXCEPT !.buf = b, !.at = "up_body"])
    BY Zenon, <1>5, <2>1
  <2> HIDE DEF b, q
  <2>3. QED BY Zenon, <1>1, <1>5, <2>2, ReadSteps DEF UpStates
<1>6. CASE Await(k, co[k], f, "R") /\ UNCHANGED <<sock, pools_>>
  BY Zenon, <1>1, <1>2, <1>6, WaitsHere
<1>7. QED BY <1>3, <1>4, <1>5, <1>6 DEF ReadResponse

LEMMA ReadRestSteps ==
  ASSUME ProxyInv, NEW k \in Clients, active = k, ReadRest(k)
  PROVE  StepsOn(k)
<1> DEFINE f == co[k].up_fd
           data == Arrived(sock[f].q)
           b == co[k].buf \o data
           q == DropFirst(sock[f].q, Len(data))
<1>1. /\ IsFrame(co[k]) /\ co[k].at = "rest" /\ Holds(k) /\ UNCHANGED <<client, backlog>>
      /\ f = AwaitedFd(k) /\ AwaitedDir(k) = "R"
  BY Zenon, Running DEF ReadRest, users, Holds, UpStates, AwaitedFd, AwaitedDir
<1>2. CASE /\ GoOn(k, [co[k] EXCEPT !.buf = b]) /\ UNCHANGED pools_
           /\ sock' = [sock EXCEPT ![f] = [sock[f] EXCEPT !.q = q]]
  <2>1. [co[k] EXCEPT !.buf = b] = [co[k] EXCEPT !.buf = b, !.at = "rest"]
    BY Zenon, <1>1 DEF IsFrame
  <2>2. GoOn(k, [co[k] EXCEPT !.buf = b, !.at = "rest"])
    BY Zenon, <1>2, <2>1
  <2> HIDE DEF b, q
  <2>3. QED BY Zenon, <1>1, <1>2, <2>2, ReadSteps DEF UpStates
<1>3. CASE Await(k, co[k], f, "R") /\ UNCHANGED <<sock, pools_>>
  BY Zenon, <1>1, <1>3, WaitsHere, SocketsSame, Running
<1>4. CASE Release(k)
  BY Zenon, <1>1, <1>4, ReleaseSteps
<1>5. QED BY Zenon, <1>2, <1>3, <1>4 DEF ReadRest

LEMMA ReplySteps ==
  ASSUME ProxyInv, NEW k \in Clients, active = k, Reply(k)
  PROVE  StepsOn(k)
<1> DEFINE f == co[k].fd
<1>1. /\ IsFrame(co[k]) /\ co[k].at = "reply" /\ ~Holds(k) /\ UNCHANGED <<client, backlog, pools_>>
      /\ f = AwaitedFd(k) /\ AwaitedDir(k) = "W" /\ co[k].up_fd = None
  BY Zenon, Running DEF Reply, users, Holds, UpStates, AwaitedFd, AwaitedDir
<1>2. CASE GoOn(k, [Coroutine("head", f) EXCEPT !.n = co[k].n + 1]) /\ UNCHANGED sock
  <2> DEFINE c == [Coroutine("head", f) EXCEPT !.n = co[k].n + 1]
  <2>1. IsFrame(c) /\ c.fd = co[k].fd /\ c.up_fd = co[k].up_fd /\ c.at = "head"
    BY ZenonT(30), <1>1, Running DEF IsFrame, States, Coroutine
  <2>2. GoOn(k, c)
    BY Zenon, <1>2
  <2> HIDE DEF c
  <2>3. SocksOK' /\ EndsSame
    BY Zenon, <1>2, Running, SocketsSame
  <2>4. Goes(k, c)
    BY Zenon, <1>1, <2>1, <2>3 DEF Goes, KeepsUp, Lasting, UpStates
  <2>5. QED BY Zenon, <1>1, <2>1, <2>2, <2>3, <2>4, GoesOn
<1>3. ASSUME sock' = [sock EXCEPT ![f].full = TRUE], Await(k, [co[k] EXCEPT !.half = TRUE], f, "W")
      PROVE  StepsOn(k)
  <2> DEFINE c == [co[k] EXCEPT !.half = TRUE]
             x == [sock[f] EXCEPT !.full = TRUE]
  <2>1. f \in Fds /\ SocksOK /\ IsSocket(sock[f])
    BY Zenon, Running DEF SocksOK
  <2>2. IsSocket(x) /\ x.to = sock[f].to /\ sock' = [sock EXCEPT ![f] = x]
    BY Zenon, <2>1, <1>3 DEF IsSocket
  <2>3. Await(k, c, f, "W") /\ c \in {co[k], [co[k] EXCEPT !.half = TRUE]}
    BY Zenon, <1>3
  <2> HIDE DEF x, f, c
  <2>4. SocksOK' /\ EndsSame
    BY Zenon, <2>1, <2>2, SocketSet
  <2>5. QED BY Zenon, <1>1, <2>3, <2>4, WaitsHere
<1>4. CASE Return(k)
  BY Zenon, <1>1, <1>4, Finishes
<1>5. QED BY Zenon, <1>2, <1>3, <1>4 DEF Reply

LEMMA RunSteps ==
  ASSUME RoutesKnown, ProxyInv, NEW k \in Clients, Run(k)
  PROVE  active = k /\ StepsOn(k)
BY ReadRequestSteps, ReadBodySteps, AcquirePooledSteps, AcquireNewSteps, ConnectSteps,
   SendRequestSteps, ReadHeadSteps, ReadResponseSteps, ReadRestSteps, ReplySteps DEF Run

-----------------------------------------------------------------------------
(* The invariant holds at first and is kept *)

LEMMA InvInit ==
  ASSUME Init
  PROVE  ProxyInv
<1>1. None \notin Clients \cup Upstreams
  BY Zenon, ProxyAssumption
<1>2. \A k \in Clients : co[k] = Coroutine("none", None) /\ co[k].at = "none"
  BY Zenon DEF Init, Coroutine
<1>3. IsFrame(Coroutine("none", None))
  BY Zenon DEF IsFrame, Coroutine, States
<1>4. FramesOK
  BY Zenon, <1>2, <1>3 DEF FramesOK, Init
<1>5. \A f \in Fds : sock[f] = NoSocket /\ sock[f].to = None
  BY Zenon, NoSocketIsSocket DEF Init
<1>6. SocksOK
  BY Zenon, <1>5, NoSocketIsSocket DEF SocksOK, Init
<1>7. TablesOK
  BY DEF TablesOK, Init, NoReg
<1>8. FreshInv
  BY <1>2 DEF FreshInv, Init
<1>9. OwnersInv
  BY Zenon, <1>2 DEF OwnersInv, Live, Holds, UpStates
<1>10. PoolsInv
  BY ProxyAssumption DEF PoolsInv, Init
<1>11. NoneLost
  BY Zenon, <1>1, <1>5 DEF NoneLost
<1>12. LoopInv
  BY Zenon, <1>1, <1>2 DEF LoopInv, Init, Suspended
<1>13. HandlesAreSuspended
  BY Zenon, <1>2 DEF HandlesAreSuspended, Init, Suspended
<1>14. QED BY <1>4, <1>6, <1>7, <1>8, <1>9, <1>10, <1>11, <1>12, <1>13 DEF ProxyInv

LEMMA RunKeeps ==
  ASSUME ProxyInv, NEW k \in Clients, active = k, StepsOn(k)
  PROVE  ProxyInv'
<1>1. SocksOK' /\ UNCHANGED <<client, backlog>>
  BY Zenon DEF StepsOn
<1>2. PICK c : Outcome(k, c)
  BY Zenon DEF StepsOn
<1>3. Moved(k, c) /\ phase' = phase /\ batch' = batch
  BY Zenon, <1>2 DEF Outcome, Continues, Suspends, Ends
<1>4. Live(k) /\ FramesOK /\ TablesOK /\ FreshInv /\ OwnersInv
  BY Zenon, Running DEF ProxyInv
<1>5. LoopInv' /\ HandlesAreSuspended'
  BY Zenon, <1>2, <1>3, ContinuesKeepsLoop, SuspendsKeepsLoop, EndsKeepsLoop DEF Outcome
<1>6. UpInv'
  BY Zenon, <1>2, <1>3, <1>4, KeepsUpKeeps, TakesUpKeeps, OpensUpKeeps, ClosesUpKeeps, PoolsUpKeeps,
     LeavesUpKeeps DEF Outcome, Goes
<1>7. FramesOK'
  <2>1. \A j \in Clients : IsFrame(co'[j])
    BY Zenon, <1>3, <1>4 DEF Moved, FramesOK
  <2>2. ASSUME NEW j \in Clients PROVE IsFrame(co[j])'
    BY Zenon, <2>1, <2>2 DEF IsFrame
  <2>3. QED BY Zenon, <1>3, <2>2 DEF FramesOK, Moved
<1>8. TablesOK'
  <2>1. pools_' \in [Upstreams -> Seq(Fds)]
    <3>1. CASE UNCHANGED pools_
      BY Zenon, <1>4, <3>1 DEF TablesOK
    <3>2. CASE TakesUp(k, c)
      <4>1. RouteOf(k) \in Upstreams /\ pools_[RouteOf(k)] \in Seq(Fds) /\ pools_[RouteOf(k)] # <<>>
        BY Zenon, <1>4, <3>2 DEF TablesOK, TakesUp, OwnersInv
      <4>2. Tail(pools_[RouteOf(k)]) \in Seq(Fds)
        BY <4>1
      <4>3. QED BY Zenon, <1>4, <3>2, <4>2 DEF TablesOK, TakesUp
    <3>3. CASE PoolsUp(k, c)
      <4>1. RouteOf(k) \in Upstreams /\ pools_[RouteOf(k)] \in Seq(Fds) /\ co[k].up_fd \in Fds
        BY Zenon, <1>4, <3>3 DEF TablesOK, PoolsUp, OwnersInv
      <4>2. Append(pools_[RouteOf(k)], co[k].up_fd) \in Seq(Fds)
        BY <4>1
      <4>3. QED BY Zenon, <1>4, <3>3, <4>2 DEF TablesOK, PoolsUp
    <3>4. QED BY Zenon, <1>2, <3>1, <3>2, <3>3 DEF Outcome, Goes, KeepsUp, OpensUp, ClosesUp, LeavesUp
  <2>2. /\ reg' \in [Fds -> [who : Clients \cup {None}, dir : {"none", "R", "W"}]]
        /\ live_tasks_' \in [Fds -> Clients \cup {None}] /\ active' \in Clients \cup {None}
    <3>1. CASE Suspends(k, c)
      <4>1. DirOf(c) \in {"none", "R", "W"} /\ co[k].fd \in Fds /\ c.fd = co[k].fd
        BY Zenon, <1>3, Running DEF DirOf, Moved
      <4>2. QED BY Zenon, <1>4, <3>1, <4>1 DEF Suspends, TablesOK
    <3>2. CASE UNCHANGED <<reg, live_tasks_>> /\ active' \in {active, None}
      BY Zenon, <1>4, <3>2 DEF TablesOK
    <3>3. QED BY Zenon, <1>2, <3>1, <3>2 DEF Outcome, Continues, Ends
  <2>3. QED BY Zenon, <1>1, <1>3, <1>4, <2>1, <2>2 DEF TablesOK
<1>9. FreshInv'
  <2>1. \A i \in 1..Len(backlog) : backlog[i] # k /\ backlog[i] \in Clients
    BY <1>4 DEF FreshInv, Live, TablesOK
  <2>2. client[k] # "new"
    BY Zenon, <1>4 DEF FreshInv, Live
  <2>3. \A j \in Clients : j # k => co'[j] = co[j]
    BY Zenon, <1>3 DEF Moved
  <2>4. QED BY <1>1, <1>4, <2>1, <2>2, <2>3 DEF FreshInv
<1>10. QED BY Zenon, <1>1, <1>5, <1>6, <1>7, <1>8, <1>9 DEF ProxyInv, UpInv

(* Steps of the clients, the upstreams and stop(), which leave the proxy alone. *)
LEMMA OutsideKeeps ==
  ASSUME ProxyInv, UNCHANGED <<co, live_tasks_, pools_, reg, phase, batch, active>>,
         SocksOK', EndsSame, FreshInv', client' \in [Clients -> {"new", "open", "gone"}],
         backlog' \in Seq(Clients)
  PROVE  ProxyInv'
<1>1. \A f \in Fds : sock'[f].to = sock[f].to
  BY Zenon DEF EndsSame
<1>2. FramesOK /\ TablesOK /\ OwnersInv /\ PoolsInv /\ NoneLost /\ LoopInv /\ HandlesAreSuspended
  BY Zenon DEF ProxyInv
<1>3. FramesOK'
  BY Zenon, <1>2 DEF FramesOK, IsFrame
<1>4. TablesOK'
  BY Zenon, <1>2 DEF TablesOK
<1>5. OwnersInv'
  BY Zenon, <1>1, <1>2 DEF OwnersInv, Live, Holds
<1>6. PoolsInv'
  <2>1. \A u \in Upstreams : \A i \in 1..Len(pools_[u]) : pools_[u][i] \in Fds
    BY <1>2 DEF TablesOK
  <2>2. QED BY SMTT(30), <1>1, <1>2, <2>1 DEF PoolsInv, Holds
<1>7. NoneLost'
  BY Zenon, <1>1, <1>2 DEF NoneLost, Pooled, HeldBySome, Holds
<1>8. LoopInv'
  BY Zenon, <1>2 DEF LoopInv, Live, Suspended
<1>9. HandlesAreSuspended'
  BY Zenon, <1>2 DEF HandlesAreSuspended, Suspended, AwaitedFd, AwaitedDir
<1>10. QED BY Zenon, <1>3, <1>4, <1>5, <1>6, <1>7, <1>8, <1>9 DEF ProxyInv

LEMMA PeerKeeps ==
  ASSUME ProxyInv, NEW f \in Fds, PeerStep(f)
  PROVE  ProxyInv'
<1>1. SocksOK /\ IsSocket(sock[f]) /\ FreshInv /\ TablesOK
  BY Zenon DEF ProxyInv, SocksOK
<1>2. ASSUME NEW x, FarEnd(f, x), IsSocket(x), x.to = sock[f].to PROVE ProxyInv'
  <2>1. SocksOK' /\ EndsSame
    BY Zenon, <1>1, <1>2, SocketSet DEF FarEnd
  <2>2. UNCHANGED <<client, backlog, co, live_tasks_, pools_, reg, phase, batch, active>>
    BY Zenon, <1>2 DEF FarEnd, users, loop
  <2>3. FreshInv'
    BY Zenon, <1>1, <2>2 DEF FreshInv
  <2>4. QED BY Zenon, <1>1, <2>1, <2>2, <2>3, OutsideKeeps DEF TablesOK
<1>3. CASE Drain(f)
  <2>1. IsSocket([sock[f] EXCEPT !.full = FALSE]) /\ [sock[f] EXCEPT !.full = FALSE].to = sock[f].to
    BY Zenon, <1>1 DEF IsSocket
  <2>2. QED BY Zenon, <1>2, <1>3, <2>1 DEF Drain
<1>4. CASE Connected(f)
  <2>1. PICK st : FarEnd(f, [sock[f] EXCEPT !.st = st])
    BY Zenon, <1>4 DEF Connected
  <2>2. IsSocket([sock[f] EXCEPT !.st = st]) /\ [sock[f] EXCEPT !.st = st].to = sock[f].to
    BY Zenon, <1>1 DEF IsSocket
  <2>3. QED BY Zenon, <1>2, <2>1, <2>2
<1>5. CASE Answer(f)
  <2>1. PICK fr \in Framings :
          LET r == Response(Layout(fr), sock[f].req)
          IN  FarEnd(f, [sock[f] EXCEPT !.q = Append(sock[f].q, r[1]), !.req = None, !.todo = Tail(r),
                                        !.cut = fr \in Cuts])
    BY Zenon, <1>5 DEF Answer
  <2> DEFINE r == Response(Layout(fr), sock[f].req)
             q == Append(sock[f].q, r[1])
             t == Tail(r)
             a == fr \in Cuts
             x == [sock[f] EXCEPT !.q = q, !.req = None, !.todo = t, !.cut = a]
  <2>2. FarEnd(f, x)
    BY Zenon, <2>1
  <2> HIDE DEF q, t, a
  <2>3. IsSocket(x) /\ x.to = sock[f].to
    BY Zenon, <1>1 DEF IsSocket
  <2> HIDE DEF x
  <2>4. QED BY Zenon, <1>2, <2>2, <2>3
<1>6. CASE SendPiece(f)
  <2> DEFINE h == Head(sock[f].todo)
             q == Append(sock[f].q, h)
             t == Tail(sock[f].todo)
             r == IF h = Fin THEN None ELSE sock[f].req
             x == [sock[f] EXCEPT !.q = q, !.todo = t, !.req = r]
  <2>1. FarEnd(f, x)
    BY Zenon, <1>6 DEF SendPiece
  <2> HIDE DEF q, t, r
  <2>2. IsSocket(x) /\ x.to = sock[f].to
    BY Zenon, <1>1 DEF IsSocket
  <2> HIDE DEF x
  <2>3. QED BY Zenon, <1>2, <2>1, <2>2
<1>7. CASE CloseByPeer(f)
  <2> DEFINE q == Append(sock[f].q, Fin)
             x == [sock[f] EXCEPT !.q = q, !.req = None, !.todo = <<>>]
  <2>1. FarEnd(f, x)
    BY Zenon, <1>7 DEF CloseByPeer
  <2> HIDE DEF q
  <2>2. IsSocket(x) /\ x.to = sock[f].to
    BY Zenon, <1>1 DEF IsSocket
  <2> HIDE DEF x
  <2>3. QED BY <1>2, <2>1, <2>2
<1>8. QED BY Zenon, <1>3, <1>4, <1>5, <1>6, <1>7 DEF PeerStep

LEMMA ClientKeeps ==
  ASSUME ProxyInv, NEW k \in Clients, ClientConnect(k) \/ ClientSend(k) \/ ClientLeave(k)
  PROVE  ProxyInv'
<1>1. FreshInv /\ TablesOK /\ SocksOK
  BY Zenon DEF ProxyInv
<1>2. UNCHANGED <<sock, co, live_tasks_, pools_, reg, phase, batch, active>>
  BY Zenon DEF ClientConnect, ClientSend, ClientLeave, loop
<1>3. SocksOK' /\ EndsSame
  BY Zenon, <1>1, <1>2, SocketsSame
<1>4. CASE ClientConnect(k)
  <2>1. /\ client[k] = "new" /\ client' = [client EXCEPT ![k] = "open"] /\ backlog' = Append(backlog, k)
        /\ backlog \in Seq(Clients)
    BY Zenon, <1>1, <1>4 DEF ClientConnect, TablesOK
  <2>2. /\ Len(backlog') = Len(backlog) + 1 /\ Len(backlog) \in Nat /\ backlog'[Len(backlog) + 1] = k
        /\ \A i \in 1..Len(backlog) : backlog'[i] = backlog[i] /\ backlog[i] \in Clients
    BY <2>1
  <2>3. \A i \in 1..Len(backlog) : backlog[i] # k
    BY Zenon, <1>1, <2>1 DEF FreshInv
  <2>4. client'[k] = "open" /\ \A j \in Clients : j # k => client'[j] = client[j]
    BY Zenon, <1>1, <2>1 DEF TablesOK
  <2>5. \A i \in 1..Len(backlog') : i \in 1..Len(backlog) \/ i = Len(backlog) + 1
    BY <2>2
  <2>6. co[k].at = "none"
    BY Zenon, <1>1, <2>1 DEF FreshInv
  <2>7. FreshInv'
    <3>1. \A i \in 1..Len(backlog') : client'[backlog'[i]] # "new" /\ co'[backlog'[i]].at = "none"
      BY <1>1, <1>2, <2>2, <2>3, <2>4, <2>5, <2>6 DEF FreshInv
    <3>2. \A i, j \in 1..Len(backlog') : backlog'[i] = backlog'[j] => i = j
      BY <1>1, <2>2, <2>3, <2>5 DEF FreshInv
    <3>3. \A j \in Clients : client'[j] = "new" => co'[j].at = "none"
      BY Zenon, <1>1, <1>2, <2>4 DEF FreshInv
    <3>4. QED BY Zenon, <3>1, <3>2, <3>3 DEF FreshInv
  <2>8. client' \in [Clients -> {"new", "open", "gone"}] /\ backlog' \in Seq(Clients)
    BY <1>1, <2>1 DEF TablesOK
  <2>9. QED BY Zenon, <1>2, <1>3, <2>7, <2>8, OutsideKeeps
<1>5. CASE ClientSend(k)
  <2>1. UNCHANGED <<client, backlog>>
    BY Zenon, <1>5 DEF ClientSend
  <2>2. FreshInv'
    BY Zenon, <1>1, <1>2, <2>1 DEF FreshInv
  <2>3. QED BY Zenon, <1>1, <1>2, <1>3, <2>1, <2>2, OutsideKeeps DEF TablesOK
<1>6. CASE ClientLeave(k)
  <2>1. client' = [client EXCEPT ![k] = "gone"] /\ UNCHANGED backlog /\ client[k] = "open"
    BY Zenon, <1>6 DEF ClientLeave
  <2>2. client' \in [Clients -> {"new", "open", "gone"}] /\ backlog' \in Seq(Clients)
    BY Zenon, <1>1, <2>1 DEF TablesOK
  <2>3. \A j \in Clients : client'[j] = "new" <=> client[j] = "new"
    BY Zenon, <1>1, <2>1 DEF TablesOK
  <2>4. \A i \in 1..Len(backlog) : backlog[i] \in Clients
    BY SMTT(30), <1>1 DEF TablesOK
  <2>5. FreshInv'
    BY <1>1, <1>2, <2>1, <2>3, <2>4 DEF FreshInv
  <2>6. QED BY Zenon, <1>2, <1>3, <2>2, <2>5, OutsideKeeps
<1>7. QED BY Zenon, <1>4, <1>5, <1>6

(* Steps of the loop between coroutines. *)
LEMMA IdleKeeps ==
  ASSUME ProxyInv, active = None, UNCHANGED <<active, co, sock, reg, pools_, client, backlog>>,
         phase # "stopped", phase' \in {"wait", "events", "accept"}, phase' = "wait" => batch' = {},
         batch' \subseteq [fd : Fds \cup {None}, who : Clients \cup {None}],
         \A e \in batch' : e # ListenEvent => e.fd \in Fds /\ reg[e.fd].who = e.who /\ e.who # None,
         live_tasks_' \in [Fds -> Clients \cup {None}],
         \A k \in Clients : Suspended(k) => live_tasks_'[co[k].fd] = live_tasks_[co[k].fd]
  PROVE  ProxyInv'
<1>1. /\ FramesOK /\ SocksOK /\ TablesOK /\ FreshInv /\ OwnersInv /\ PoolsInv /\ NoneLost /\ LoopInv
      /\ HandlesAreSuspended
  BY Zenon DEF ProxyInv
<1>2. SocksOK'
  BY Zenon, <1>1, SocketsSame
<1>3. FramesOK'
  BY Zenon, <1>1 DEF FramesOK, IsFrame
<1>4. TablesOK'
  BY ZenonT(30), <1>1 DEF TablesOK
<1>5. FreshInv' /\ OwnersInv' /\ PoolsInv'
  BY <1>1 DEF FreshInv, OwnersInv, PoolsInv, Live, Holds
<1>6. NoneLost'
  BY ZenonT(30), <1>1 DEF NoneLost, Pooled, HeldBySome, Holds
<1>7. \A k : Suspended(k)' <=> Suspended(k)
  BY Zenon DEF Suspended
<1>8. LoopInv'
  <2>1. \A k \in Clients : Suspended(k)' => co'[k].at \notin {"acquire", "spin"}
    BY Zenon, <1>1, <1>7 DEF LoopInv
  <2>2. \A f \in Fds : reg'[f] # NoReg => reg'[f].who \in Clients
    BY Zenon, <1>1 DEF LoopInv
  <2>3. phase' \in {"wait", "stopped"} => batch' = {}
    OBVIOUS
  <2>4. \A e \in batch' : e # ListenEvent => e.fd \in Fds
    OBVIOUS
  <2>5. QED BY Zenon, <2>1, <2>2, <2>3, <2>4 DEF LoopInv
<1>9. HandlesAreSuspended'
  <2>1. \A k \in Clients : Suspended(k)' => live_tasks_'[co'[k].fd] = k
    BY Zenon, <1>1, <1>7 DEF HandlesAreSuspended
  <2>2. \A k \in Clients : Suspended(k)' => reg'[AwaitedFd(k)'] = [who |-> k, dir |-> AwaitedDir(k)']
    BY Zenon, <1>1, <1>7 DEF HandlesAreSuspended, AwaitedFd, AwaitedDir
  <2>3. \A f \in Fds : reg'[f] # NoReg => Suspended(reg[f].who)' /\ AwaitedFd(reg[f].who)' = f
    BY Zenon, <1>1, <1>7 DEF HandlesAreSuspended, AwaitedFd, Suspended
  <2>4. QED BY Zenon, <2>1, <2>2, <2>3 DEF HandlesAreSuspended
<1>10. QED BY Zenon, <1>2, <1>3, <1>4, <1>5, <1>6, <1>8, <1>9 DEF ProxyInv

LEMMA LoopKeeps ==
  ASSUME ProxyInv, Wait \/ BeginAccept \/ EndAccept \/ Reap
  PROVE  ProxyInv'
<1>1. TablesOK /\ LoopInv /\ HandlesAreSuspended
  BY Zenon DEF ProxyInv
<1>2. UNCHANGED <<active, co, sock, reg, pools_, client, backlog>>
  BY Zenon DEF Wait, BeginAccept, EndAccept, Reap, users
<1>3. active = None
  <2>1. active # None => phase # "wait"
    BY Zenon, <1>1 DEF LoopInv
  <2>2. QED BY Zenon, <2>1 DEF Wait, BeginAccept, EndAccept, Reap
<1>4. /\ batch \subseteq [fd : Fds \cup {None}, who : Clients \cup {None}]
      /\ live_tasks_ \in [Fds -> Clients \cup {None}]
  BY Zenon, <1>1 DEF TablesOK
<1>5. \A e \in batch : e # ListenEvent => e.fd \in Fds /\ reg[e.fd].who = e.who /\ e.who # None
  BY Zenon, <1>1 DEF LoopInv, HandlesAreSuspended
<1>6. CASE Wait
  <2> DEFINE Ev(f) == [fd |-> f, who |-> reg[f].who]
             B == {Ev(f) : f \in {g \in Fds : Ready(g)}}
  <2>1. /\ \A e \in batch' : e \in B \/ e = ListenEvent
        /\ phase = "wait" /\ phase' = "events" /\ UNCHANGED live_tasks_
    BY Zenon, <1>6 DEF Wait
  <2>2. ASSUME NEW f \in Fds, Ready(f)
        PROVE  /\ Ev(f) \in [fd : Fds \cup {None}, who : Clients \cup {None}]
               /\ Ev(f).fd = f /\ Ev(f).who = reg[f].who /\ reg[f].who # None
    <3>1. reg[f].dir # "none" /\ reg[f] \in [who : Clients \cup {None}, dir : {"none", "R", "W"}]
      BY Zenon, <1>1, <2>2 DEF Ready, TablesOK
    <3>2. reg[f] # NoReg
      BY <3>1 DEF NoReg
    <3>3. reg[f].who \in Clients /\ None \notin Clients
      BY Zenon, <1>1, <3>2, ProxyAssumption DEF LoopInv
    <3>4. QED BY Zenon, <3>3
  <2>3. ListenEvent \in [fd : Fds \cup {None}, who : Clients \cup {None}]
    BY Zenon DEF ListenEvent
  <2>4. \A e \in B : \E f \in Fds : Ready(f) /\ e = Ev(f)
    OBVIOUS
  <2> HIDE DEF B, Ev
  <2>5. batch' \subseteq [fd : Fds \cup {None}, who : Clients \cup {None}]
    BY <2>1, <2>2, <2>3, <2>4
  <2>6. \A e \in batch' : e # ListenEvent => e.fd \in Fds /\ reg[e.fd].who = e.who /\ e.who # None
    BY <2>1, <2>2, <2>4
  <2>7. QED BY <1>2, <1>3, <1>4, <2>1, <2>5, <2>6, IdleKeeps
<1>7. CASE BeginAccept \/ EndAccept
  <2>1. /\ phase \in {"events", "accept"} /\ phase' \in {"events", "accept"} /\ batch' \subseteq batch
        /\ UNCHANGED live_tasks_
    BY Zenon, <1>7 DEF BeginAccept, EndAccept
  <2>2. QED BY Zenon, <1>2, <1>3, <1>4, <1>5, <2>1, IdleKeeps
<1>8. CASE Reap
  <2>1. phase = "events" /\ phase' = "wait" /\ batch' = {}
    BY Zenon, <1>8 DEF Reap
  <2>2. live_tasks_' = [f \in Fds |-> IF live_tasks_[f] # None /\ co[live_tasks_[f]].at = "done"
                                     THEN None ELSE live_tasks_[f]]
    BY Zenon, <1>8 DEF Reap
  <2>3. live_tasks_' \in [Fds -> Clients \cup {None}]
    BY Zenon, <1>4, <2>2
  <2>4. ASSUME NEW k \in Clients, Suspended(k) PROVE live_tasks_'[co[k].fd] = live_tasks_[co[k].fd]
    <3>1. live_tasks_[co[k].fd] = k /\ co[k].at # "done"
      BY Zenon, <1>1, <2>4 DEF HandlesAreSuspended, Suspended
    <3>2. co[k].fd \in Fds
      BY Zenon, <2>4 DEF ProxyInv, OwnersInv, Suspended, Live
    <3>3. QED BY Zenon, <2>2, <3>1, <3>2
  <2>5. QED BY Zenon, <1>2, <1>3, <2>1, <2>3, <2>4, IdleKeeps
<1>9. QED BY Zenon, <1>6, <1>7, <1>8

LEMMA StopKeeps ==
  ASSUME ProxyInv, Stop
  PROVE  ProxyInv'
<1>1. UNCHANGED <<client, backlog, sock, co, live_tasks_, pools_, reg, phase, batch, active>>
  BY Zenon DEF Stop, users
<1>2. TablesOK /\ FreshInv /\ SocksOK
  BY Zenon DEF ProxyInv
<1>3. SocksOK' /\ EndsSame
  BY Zenon, <1>1, <1>2, SocketsSame
<1>4. FreshInv'
  BY Zenon, <1>1, <1>2 DEF FreshInv
<1>5. QED BY Zenon, <1>1, <1>2, <1>3, <1>4, OutsideKeeps DEF TablesOK

LEMMA ResumeKeeps ==
  ASSUME ProxyInv, NEW e \in batch, Resume(e)
  PROVE  ProxyInv'
<1> DEFINE k == e.who
           g == e.fd
<1>1. /\ FramesOK /\ SocksOK /\ TablesOK /\ FreshInv /\ OwnersInv /\ PoolsInv /\ NoneLost /\ LoopInv
      /\ HandlesAreSuspended
  BY Zenon DEF ProxyInv
<1>2. /\ phase = "events" /\ active = None /\ e # ListenEvent /\ batch' = batch \ {e}
      /\ reg' = [reg EXCEPT ![g] = NoReg] /\ active' = k
      /\ UNCHANGED <<client, backlog, sock, co, live_tasks_, pools_, phase>>
  BY Zenon DEF Resume, users
<1>3. None \notin Clients
  BY Zenon, ProxyAssumption
<1>4. g \in Fds /\ reg[g].who = k /\ k # None
  BY Zenon, <1>1, <1>2 DEF LoopInv, HandlesAreSuspended
<1>5. reg[g] # NoReg
  BY <1>4 DEF NoReg
<1>6. k \in Clients /\ Suspended(k) /\ AwaitedFd(k) = g
  BY Zenon, <1>1, <1>4, <1>5 DEF LoopInv, HandlesAreSuspended
<1>7. Live(k) /\ live_tasks_[co[k].fd] = k
  BY Zenon, <1>1, <1>6 DEF HandlesAreSuspended, Suspended, Live
<1>8. reg'[g] = NoReg /\ \A f \in Fds : f # g => reg'[f] = reg[f]
  BY Zenon, <1>1, <1>2, <1>4 DEF TablesOK
<1> HIDE DEF k, g
<1>9. ~Suspended(k)' /\ \A j \in Clients : j # k => (Suspended(j)' <=> Suspended(j))
  BY Zenon, <1>2, <1>3 DEF Suspended
<1>10. \A j : AwaitedFd(j)' = AwaitedFd(j) /\ AwaitedDir(j)' = AwaitedDir(j)
  BY Zenon, <1>2 DEF AwaitedFd, AwaitedDir
<1>11. SocksOK'
  BY Zenon, <1>1, <1>2, SocketsSame
<1>12. FramesOK'
  BY Zenon, <1>1, <1>2 DEF FramesOK, IsFrame
<1>13. TablesOK'
  <2>1. reg' \in [Fds -> [who : Clients \cup {None}, dir : {"none", "R", "W"}]]
    BY ZenonT(30), <1>1, <1>2 DEF TablesOK, NoReg
  <2>2. QED BY Zenon, <1>1, <1>2, <1>6, <2>1 DEF TablesOK
<1>14. FreshInv' /\ OwnersInv' /\ PoolsInv'
  BY <1>1, <1>2 DEF FreshInv, OwnersInv, PoolsInv, Live, Holds
<1>15. NoneLost'
  BY Zenon, <1>1, <1>2 DEF NoneLost, Pooled, HeldBySome, Holds
<1>16. LoopInv'
  <2>1. active' # None => Live(active)' /\ phase' \in {"events", "accept"}
    BY Zenon, <1>2, <1>7 DEF Live
  <2>2. active' # None /\ phase' = "events" => live_tasks_'[co'[active'].fd] = active'
    BY Zenon, <1>2, <1>7
  <2>3. \A j \in Clients : Suspended(j)' => co'[j].at \notin {"acquire", "spin"}
    BY Zenon, <1>1, <1>2, <1>9 DEF LoopInv
  <2>4. \A f \in Fds : reg'[f] # NoReg => reg'[f].who \in Clients
    BY Zenon, <1>1, <1>8 DEF LoopInv
  <2>5. \A x \in batch' : x # ListenEvent => x.fd \in Fds
    BY Zenon, <1>1, <1>2 DEF LoopInv
  <2>6. QED BY Zenon, <1>2, <2>1, <2>2, <2>3, <2>4, <2>5 DEF LoopInv
<1>17. HandlesAreSuspended'
  <2>1. \A j \in Clients : Suspended(j)' => live_tasks_'[co'[j].fd] = j
    BY Zenon, <1>1, <1>2, <1>9 DEF HandlesAreSuspended
  <2>2. ASSUME NEW j \in Clients, Suspended(j)'
        PROVE  reg'[AwaitedFd(j)'] = [who |-> j, dir |-> AwaitedDir(j)']
    <3>1. j # k /\ Suspended(j)
      BY Zenon, <1>9, <2>2
    <3>2. reg[AwaitedFd(j)] = [who |-> j, dir |-> AwaitedDir(j)]
      BY Zenon, <1>1, <3>1 DEF HandlesAreSuspended
    <3>3. AwaitedFd(j) # g
      BY <1>4, <3>1, <3>2
    <3>4. AwaitedFd(j) \in Fds
      <4>1. IsFrame(co[j]) /\ co[j].at \notin {"acquire", "spin", "none", "done"}
        BY Zenon, <1>1, <3>1 DEF FramesOK, LoopInv, Suspended
      <4>2. co[j].at \in States
        BY Zenon, <4>1 DEF IsFrame
      <4>3. co[j].fd \in Fds /\ (Holds(j) => co[j].up_fd \in Fds)
        BY Zenon, <1>1, <4>1 DEF OwnersInv, Live
      <4>4. QED BY Zenon, <4>1, <4>2, <4>3 DEF AwaitedFd, Holds, UpStates, States
    <3>5. QED BY Zenon, <1>8, <1>10, <3>2, <3>3, <3>4
  <2>3. ASSUME NEW f \in Fds, reg'[f] # NoReg
        PROVE  Suspended(reg[f].who)' /\ AwaitedFd(reg[f].who)' = f
    <3>1. f # g /\ reg'[f] = reg[f]
      BY Zenon, <1>8, <2>3
    <3>2. reg[f].who \in Clients /\ Suspended(reg[f].who) /\ AwaitedFd(reg[f].who) = f
      BY Zenon, <1>1, <2>3, <3>1 DEF LoopInv, HandlesAreSuspended
    <3>3. reg[f].who # k
      BY Zenon, <1>6, <3>1, <3>2
    <3>4. QED BY Zenon, <1>9, <1>10, <3>1, <3>2, <3>3
  <2>4. ASSUME NEW x \in batch', x # ListenEvent PROVE reg'[x.fd].who = x.who /\ x.who # None
    <3>1. x \in batch /\ x # e /\ x.fd \in Fds /\ reg[x.fd].who = x.who /\ x.who # None
      BY Zenon, <1>1, <1>2, <2>4 DEF LoopInv, HandlesAreSuspended
    <3>2. x \in [fd : Fds \cup {None}, who : Clients \cup {None}]
          /\ e \in [fd : Fds \cup {None}, who : Clients \cup {None}]
      BY Zenon, <1>1, <3>1 DEF TablesOK
    <3>3. x.fd # g
      BY <1>4, <3>1, <3>2 DEF g, k
    <3>4. QED BY Zenon, <1>8, <3>1, <3>3
  <2>5. QED BY Zenon, <2>1, <2>2, <2>3, <2>4 DEF HandlesAreSuspended
<1>18. QED BY <1>11, <1>12, <1>13, <1>14, <1>15, <1>16, <1>17 DEF ProxyInv

LEMMA AcceptKeeps ==
  ASSUME ProxyInv, Accept
  PROVE  ProxyInv'
<1>k. PICK k : k = Head(backlog)
  OBVIOUS
<1>g. PICK g \in Fds :
        /\ Lowest(g) /\ sock' = [sock EXCEPT ![g] = Socket(k, "open")]
        /\ co' = [co EXCEPT ![k] = Coroutine("head", g)]
  BY Zenon, <1>k DEF Accept
<1> DEFINE c == Coroutine("head", g)
<1>1. /\ FramesOK /\ SocksOK /\ TablesOK /\ FreshInv /\ OwnersInv /\ PoolsInv /\ NoneLost /\ LoopInv
      /\ HandlesAreSuspended
  BY Zenon DEF ProxyInv
<1>2. /\ phase = "accept" /\ active = None /\ backlog # <<>>
      /\ sock' = [sock EXCEPT ![g] = Socket(k, "open")] /\ co' = [co EXCEPT ![k] = c] /\ active' = k
      /\ backlog' = Tail(backlog)
      /\ UNCHANGED <<client, live_tasks_, pools_, reg, phase, batch>>
  BY Zenon, <1>k, <1>g DEF Accept, CanAccept
<1>3. None \notin Clients \cup Upstreams /\ Clients \cap Upstreams = {}
  BY Zenon, ProxyAssumption
<1>4. backlog \in Seq(Clients)
  BY Zenon, <1>1 DEF TablesOK
<1>5. /\ k = backlog[1] /\ 1 \in 1..Len(backlog) /\ k \in Clients /\ Len(backlog) \in Nat
      /\ Len(backlog') = Len(backlog) - 1 /\ backlog' \in Seq(Clients)
      /\ \A i \in 1..Len(backlog') : i + 1 \in 1..Len(backlog) /\ backlog'[i] = backlog[i + 1]
  BY <1>k, <1>2, <1>4
<1>6. client[k] # "new" /\ co[k].at = "none"
  BY Zenon, <1>1, <1>5 DEF FreshInv
<1>7. g \in Fds /\ sock[g].to = None
  BY Zenon, <1>g, FreeFd
<1>8. IsFrame(c) /\ c.at = "head" /\ c.fd = g /\ c.up_fd = None
  BY Zenon, <1>7 DEF IsFrame, Coroutine, States
<1> HIDE DEF c
<1>9. DOMAIN co' = Clients /\ co'[k] = c /\ \A j \in Clients : j # k => co'[j] = co[j]
  BY Zenon, <1>1, <1>2, <1>5 DEF FramesOK
<1>10. SocksOK' /\ sock'[g].to = k /\ \A f \in Fds : f # g => sock'[f].to = sock[f].to
  <2> DEFINE x == Socket(k, "open")
  <2>1. IsSocket(x) /\ x.to = k
    BY Zenon, <1>5 DEF IsSocket, Socket
  <2>2. sock' = [sock EXCEPT ![g] = x]
    BY Zenon, <1>2
  <2> HIDE DEF x
  <2>3. SocksOK' /\ EndsBut(g, k)
    BY Zenon, <1>1, <1>7, <2>1, <2>2, SocketSet
  <2>4. QED BY Zenon, <2>3 DEF EndsBut
<1>11. Live(k)' /\ ~Holds(k)' /\ \A j \in Clients : j # k => (Live(j)' <=> Live(j)) /\ (Holds(j)' <=> Holds(j))
  BY Zenon, <1>8, <1>9 DEF Live, Holds, UpStates
<1>12. ~Suspended(k) /\ ~Suspended(k)' /\ \A j \in Clients : Suspended(j)' <=> Suspended(j)
  BY Zenon, <1>2, <1>3, <1>6, <1>9 DEF Suspended
<1>13. \A j \in Clients : j # k => AwaitedFd(j)' = AwaitedFd(j) /\ AwaitedDir(j)' = AwaitedDir(j)
  BY Zenon, <1>9 DEF AwaitedFd, AwaitedDir
<1>14. \A j \in Clients : (Live(j) => co[j].fd # g) /\ (Holds(j) => co[j].up_fd # g)
  BY <1>1, <1>3, <1>7 DEF OwnersInv
<1>15. FramesOK'
  <2>1. \A j \in Clients : IsFrame(co'[j])
    BY Zenon, <1>1, <1>8, <1>9 DEF FramesOK
  <2>2. ASSUME NEW j \in Clients PROVE IsFrame(co[j])'
    BY Zenon, <2>1, <2>2 DEF IsFrame
  <2>3. QED BY Zenon, <1>9, <2>2 DEF FramesOK
<1>16. TablesOK'
  BY Zenon, <1>1, <1>2, <1>5 DEF TablesOK
<1>17. FreshInv'
  <2>1. ASSUME NEW i \in 1..Len(backlog')
        PROVE  /\ i + 1 \in 1..Len(backlog) /\ backlog'[i] = backlog[i + 1] /\ backlog[i + 1] # k
               /\ backlog[i + 1] \in Clients
    <3>1. i + 1 \in 1..Len(backlog) /\ backlog'[i] = backlog[i + 1] /\ i + 1 # 1
      BY <1>5
    <3>2. backlog[i + 1] \in Clients
      BY <1>4, <3>1
    <3>3. QED BY Zenon, <1>1, <1>5, <3>1, <3>2 DEF FreshInv
  <2>2. \A i \in 1..Len(backlog') : client'[backlog'[i]] # "new" /\ co'[backlog'[i]].at = "none"
    BY <1>1, <1>2, <1>9, <2>1 DEF FreshInv
  <2>3. ASSUME NEW i \in 1..Len(backlog'), NEW j \in 1..Len(backlog'), backlog'[i] = backlog'[j]
        PROVE  i = j
    <3>1. i + 1 = j + 1
      BY Zenon, <1>1, <2>1, <2>3 DEF FreshInv
    <3>2. QED BY <3>1
  <2>4. \A j \in Clients : client'[j] = "new" => co'[j].at = "none"
    BY Zenon, <1>1, <1>2, <1>6, <1>9 DEF FreshInv
  <2>5. QED BY Zenon, <2>2, <2>3, <2>4 DEF FreshInv
<1>18. OwnersInv'
  <2>1. \A j \in Clients : Live(j)' => co'[j].fd \in Fds /\ sock'[co'[j].fd].to = j
    BY SMTT(30), <1>1, <1>7, <1>8, <1>9, <1>10, <1>11, <1>14 DEF OwnersInv
  <2>2. \A j \in Clients : Holds(j)' => co'[j].up_fd \in Fds /\ sock'[co'[j].up_fd].to = RouteOf(j)
    BY <1>1, <1>9, <1>10, <1>11, <1>14 DEF OwnersInv
  <2>3. \A j \in Clients : Live(j)' /\ ~Holds(j)' => co'[j].up_fd = None
    BY Zenon, <1>1, <1>8, <1>9, <1>11 DEF OwnersInv
  <2>4. \A j \in Clients : Holds(j)' \/ co'[j].at = "acquire" => RouteOf(j) \in Upstreams
    BY ZenonT(30), <1>1, <1>8, <1>9, <1>11 DEF OwnersInv
  <2>5. \A i, j \in Clients : Holds(i)' /\ Holds(j)' /\ co'[i].up_fd = co'[j].up_fd => i = j
    BY SMTT(30), <1>1, <1>9, <1>11 DEF OwnersInv
  <2>6. QED BY ZenonT(30), <2>1, <2>2, <2>3, <2>4, <2>5 DEF OwnersInv
<1>19. PoolsInv'
  <2>1. \A u \in Upstreams : \A i \in 1..Len(pools_[u]) : pools_[u][i] \in Fds
    BY <1>1 DEF TablesOK
  <2>2. \A u \in Upstreams : \A i \in 1..Len(pools_[u]) : pools_[u][i] # g
    BY <1>1, <1>3, <1>7 DEF PoolsInv
  <2>3. \A j \in Clients : Holds(j)' => Holds(j) /\ co'[j].up_fd = co[j].up_fd
    BY Zenon, <1>9, <1>11
  <2>4. QED BY <1>1, <1>2, <1>10, <2>1, <2>2, <2>3 DEF PoolsInv
<1>20. NoneLost'
  <2>1. ASSUME NEW f \in Fds, sock'[f].to \in Upstreams PROVE Pooled(f)' \/ HeldBySome(f)'
    <3>1. sock[f].to \in Upstreams
      BY Zenon, <1>3, <1>5, <1>10, <2>1
    <3>2. Pooled(f) \/ HeldBySome(f)
      BY Zenon, <1>1, <1>2, <3>1 DEF NoneLost
    <3>3. Pooled(f) => Pooled(f)'
      BY Zenon, <1>2 DEF Pooled
    <3>4. ~Holds(k)
      BY Zenon, <1>6 DEF Holds, UpStates
    <3>5. HeldBySome(f) => HeldBySome(f)'
      BY Zenon, <1>9, <1>11, <3>4 DEF HeldBySome
    <3>6. QED BY Zenon, <3>2, <3>3, <3>5
  <2>2. QED BY Zenon, <2>1 DEF NoneLost
<1>21. LoopInv'
  <2>1. active' # None => Live(active)' /\ phase' \in {"events", "accept"}
    BY Zenon, <1>2, <1>11
  <2>2. \A j \in Clients : Suspended(j)' => co'[j].at \notin {"acquire", "spin"}
    BY Zenon, <1>1, <1>9, <1>12 DEF LoopInv
  <2>3. QED BY Zenon, <1>1, <1>2, <2>1, <2>2 DEF LoopInv
<1>22. HandlesAreSuspended'
  <2>1. \A j \in Clients : Suspended(j)' =>
           live_tasks_'[co'[j].fd] = j /\ reg'[AwaitedFd(j)'] = [who |-> j, dir |-> AwaitedDir(j)']
    BY <1>1, <1>2, <1>9, <1>12, <1>13 DEF HandlesAreSuspended
  <2>2. ASSUME NEW f \in Fds, reg'[f] # NoReg
        PROVE  Suspended(reg[f].who)' /\ AwaitedFd(reg[f].who)' = f
    <3>1. reg'[f] = reg[f] /\ reg[f].who \in Clients /\ Suspended(reg[f].who) /\ AwaitedFd(reg[f].who) = f
      BY Zenon, <1>1, <1>2, <2>2 DEF LoopInv, HandlesAreSuspended
    <3>2. QED BY Zenon, <1>12, <1>13, <3>1
  <2>3. QED BY ZenonT(30), <1>1, <1>2, <2>1, <2>2 DEF HandlesAreSuspended
<1>23. QED BY <1>10, <1>15, <1>16, <1>17, <1>18, <1>19, <1>20, <1>21, <1>22 DEF ProxyInv

LEMMA FinishStopKeeps ==
  ASSUME ProxyInv, FinishStop
  PROVE  ProxyInv'
<1>1. FramesOK /\ SocksOK /\ TablesOK /\ FreshInv /\ OwnersInv /\ LoopInv /\ HandlesAreSuspended
  BY Zenon DEF ProxyInv
<1>2. /\ phase = "wait" /\ phase' = "stopped" /\ UNCHANGED <<client, backlog, batch, active>>
      /\ live_tasks_' = [f \in Fds |-> None] /\ reg' = [f \in Fds |-> NoReg]
      /\ pools_' = [u \in Upstreams |-> <<>>]
  BY Zenon DEF FinishStop, ClosePooled, users
<1>3. active = None /\ batch = {} /\ None \notin Clients
  BY Zenon, <1>1, <1>2, ProxyAssumption DEF LoopInv
<1>4. /\ DOMAIN co' = Clients
      /\ \A k \in Clients : co'[k] = IF \E f \in Fds : live_tasks_[f] = k
                                     THEN Coroutine("none", None) ELSE co[k]
  BY Zenon DEF FinishStop, ClosePooled
<1>5. IsFrame(Coroutine("none", None)) /\ Coroutine("none", None).at = "none"
  BY Zenon DEF IsFrame, Coroutine, States
<1>6. \A k \in Clients : co'[k].at \in {"none", "done"}
  <2>1. ASSUME NEW k \in Clients, Live(k) PROVE \E f \in Fds : live_tasks_[f] = k
    <3>1. Suspended(k)
      BY Zenon, <1>3, <2>1 DEF Suspended, Live
    <3>2. QED BY Zenon, <1>1, <2>1, <3>1 DEF HandlesAreSuspended, OwnersInv
  <2>2. QED BY Zenon, <1>4, <1>5, <2>1 DEF Live
<1>7. FramesOK'
  <2>1. \A k \in Clients : IsFrame(co'[k])
    BY Zenon, <1>1, <1>4, <1>5 DEF FramesOK
  <2>2. ASSUME NEW k \in Clients PROVE IsFrame(co[k])'
    BY Zenon, <2>1, <2>2 DEF IsFrame
  <2>3. QED BY Zenon, <1>4, <2>2 DEF FramesOK
<1>8. SocksOK'
  <2>1. DOMAIN sock' = Fds /\ \A f \in Fds : sock'[f] \in {NoSocket, sock[f]}
    BY Zenon DEF FinishStop, ClosePooled
  <2>2. \A f \in Fds : IsSocket(sock'[f])
    BY Zenon, <1>1, <2>1, NoSocketIsSocket DEF SocksOK
  <2>3. ASSUME NEW f \in Fds PROVE IsSocket(sock[f])'
    BY Zenon, <2>2, <2>3 DEF IsSocket
  <2>4. QED BY Zenon, <2>1, <2>3 DEF SocksOK
<1>9. TablesOK'
  BY <1>1, <1>2, <1>3 DEF TablesOK, NoReg
<1>10. FreshInv'
  <2>1. \A k \in Clients : co[k].at = "none" => co'[k].at = "none"
    BY Zenon, <1>4, <1>5
  <2>2. \A i \in 1..Len(backlog) : backlog[i] \in Clients
    BY <1>1 DEF TablesOK
  <2>3. QED BY Zenon, <1>1, <1>2, <2>1, <2>2 DEF FreshInv
<1>11. OwnersInv'
  BY ZenonT(30), <1>6 DEF OwnersInv, Live, Holds, UpStates
<1>12. PoolsInv'
  <2>1. Len(<<>>) <= PoolDepth /\ 1..Len(<<>>) = {}
    BY ProxyAssumption
  <2>2. \A u \in Upstreams : pools_'[u] = <<>>
    BY Zenon, <1>2
  <2>3. QED BY Zenon, <2>1, <2>2 DEF PoolsInv
<1>13. NoneLost'
  BY Zenon, <1>2 DEF NoneLost
<1>14. LoopInv'
  BY Zenon, <1>2, <1>3, <1>6 DEF LoopInv, Suspended
<1>15. HandlesAreSuspended'
  BY Zenon, <1>2, <1>3, <1>6 DEF HandlesAreSuspended, Suspended
<1>16. QED BY Zenon, <1>7, <1>8, <1>9, <1>10, <1>11, <1>12, <1>13, <1>14, <1>15 DEF ProxyInv

LEMMA InvStep ==
  ASSUME RoutesKnown, ProxyInv, [Next]_vars
  PROVE  ProxyInv'
<1>1. CASE UNCHANGED vars
  <2>1. UNCHANGED <<client, backlog, sock, co, live_tasks_, pools_, reg, phase, batch, active>>
    BY Zenon, <1>1 DEF vars, users, loop
  <2>2. TablesOK /\ FreshInv /\ SocksOK
    BY Zenon DEF ProxyInv
  <2>3. SocksOK' /\ EndsSame
    BY Zenon, <2>1, <2>2, SocketsSame
  <2>4. FreshInv'
    BY <2>1, <2>2 DEF FreshInv
  <2>5. QED BY Zenon, <2>1, <2>2, <2>3, <2>4, OutsideKeeps DEF TablesOK
<1>2. CASE LoopStep
  <2>1. ASSUME NEW k \in Clients, Run(k) PROVE ProxyInv'
    BY Zenon, <2>1, RunSteps, RunKeeps
  <2>2. QED BY Zenon, <1>2, <2>1, LoopKeeps, AcceptKeeps, FinishStopKeeps, ResumeKeeps DEF LoopStep
<1>3. QED BY Zenon, <1>1, <1>2, StopKeeps, ClientKeeps, PeerKeeps DEF Next

-----------------------------------------------------------------------------
(* The conclusions *)

INSTANCE FiniteSetTheorems
INSTANCE WellFoundedInduction

LEMMA LeastIsMember ==
  ASSUME NEW S \in SUBSET Nat, S # {}
  PROVE  (CHOOSE i \in S : \A j \in S : i <= j) \in S
<1>1. PICK x \in S : \A y \in S : ~(<<y, x>> \in OpToRel(<, Nat))
  BY Zenon, WFMin, NatLessThanWellFounded
<1>2. ASSUME NEW a \in Nat, NEW b \in Nat, a < b PROVE <<a, b>> \in OpToRel(<, Nat)
  <2> DEFINE p == <<a, b>>
  <2>1. p \in Nat \X Nat /\ p[1] < p[2]
    BY <1>2
  <2> HIDE DEF p
  <2>2. p \in OpToRel(<, Nat)
    BY Zenon, <2>1 DEF OpToRel
  <2>3. QED BY Zenon, <2>2 DEF p
<1>3. \A y \in S : x <= y
  <2>1. \A y \in S : ~(y < x)
    BY Zenon, <1>1, <1>2
  <2>2. QED BY <2>1
<1>4. QED BY ZenonT(30), <1>3

LEMMA RouteKnown ==
  ASSUME routes_ # <<>>, NEW k \in Clients
  PROVE  RouteOf(k) \in Upstreams
<1> DEFINE hits == {i \in DOMAIN routes_ : <<Url[k], routes_[i].prefix>> \in Matches}
<1>1. routes_ \in Seq([prefix : {routes_[i].prefix : i \in DOMAIN routes_}, up : Upstreams])
  BY ProxyAssumption
<1>2. \A i \in DOMAIN routes_ : i \in Nat /\ routes_[i].up \in Upstreams
  <2> DEFINE P == {routes_[i].prefix : i \in DOMAIN routes_}
             R == [prefix : P, up : Upstreams]
  <2>1. routes_ \in Seq(R)
    BY <1>1
  <2>2. \A r \in R : r.up \in Upstreams
    <3> HIDE DEF P
    <3>1. QED OBVIOUS
  <2> HIDE DEF R
  <2>3. \A i \in DOMAIN routes_ : i \in Nat /\ routes_[i] \in R
    BY <2>1
  <2>4. QED BY <2>2, <2>3
<1>3. Len(routes_) \in DOMAIN routes_
  BY <1>1
<1>4. CASE hits = {}
  <2>1. RouteOf(k) = routes_[Len(routes_)].up
    BY <1>4 DEF RouteOf
  <2>2. QED BY <1>2, <1>3, <2>1
<1>5. CASE hits # {}
  <2>1. RouteOf(k) = routes_[(CHOOSE i \in hits : \A j \in hits : i <= j)].up
    BY <1>5 DEF RouteOf
  <2>2. hits \in SUBSET Nat /\ hits \subseteq DOMAIN routes_
    BY <1>2
  <2> HIDE DEF hits
  <2>3. (CHOOSE i \in hits : \A j \in hits : i <= j) \in hits
    BY <1>5, <2>2, LeastIsMember
  <2>4. QED BY ZenonT(30), <1>2, <2>1, <2>2, <2>3
<1>6. QED BY <1>4, <1>5

(* For any number of clients, upstreams, routes, retries and descriptors: a handle
   that resume_handle() takes from an event is that of a suspended coroutine, and
   every suspended coroutine is registered where it waits. *)
THEOREM HandlesStayValid == Spec => []HandlesAreSuspended
<1>1. ProxyInv => HandlesAreSuspended
  BY DEF ProxyInv
<1>2. ProxyInv /\ [Next]_vars => ProxyInv'
  BY InvStep, RouteKnown DEF RoutesKnown
<1>3. QED BY InvInit, <1>1, <1>2, PTL DEF Spec

LEMMA OneElement ==
  ASSUME NEW S, NEW x \in S, \A y \in S : y = x
  PROVE  Cardinality(S) = 1
<1>1. S = {x}
  OBVIOUS
<1>2. QED BY <1>1, FS_Singleton

LEMMA OwnersCount ==
  ASSUME ProxyInv
  PROVE  ConnectionsHaveOneOwner
<1> SUFFICES ASSUME phase # "stopped", NEW f \in Fds
             PROVE  LET H == {k \in Clients : co[k].up_fd = f /\ co[k].at \notin {"none", "done"}}
                        P == {p \in Upstreams \X (1..PoolDepth) :
                                p[2] <= Len(pools_[p[1]]) /\ pools_[p[1]][p[2]] = f}
                    IN  /\ Cardinality(H) + Cardinality(P) = (IF sock[f].to \in Upstreams THEN 1 ELSE 0)
                        /\ \A k \in H : sock[f].to = RouteOf(k)
                        /\ \A p \in P : sock[f].to = p[1]
  BY SMTT(30) DEF ConnectionsHaveOneOwner
<1> DEFINE H == {k \in Clients : co[k].up_fd = f /\ co[k].at \notin {"none", "done"}}
           P == {p \in Upstreams \X (1..PoolDepth) :
                   p[2] <= Len(pools_[p[1]]) /\ pools_[p[1]][p[2]] = f}
<1>1. OwnersInv /\ PoolsInv /\ NoneLost /\ TablesOK
  BY DEF ProxyInv
<1>2. f # None /\ PoolDepth \in Nat
  BY ProxyAssumption
<1>3. \A k \in H : k \in Clients /\ Holds(k) /\ co[k].up_fd = f
  BY <1>1, <1>2 DEF OwnersInv, Live
<1>4. \A k \in Clients : Holds(k) /\ co[k].up_fd = f => k \in H
  BY DEF Holds, UpStates
<1>5. \A p \in P : /\ p = <<p[1], p[2]>> /\ p[1] \in Upstreams /\ p[2] \in 1..Len(pools_[p[1]])
                   /\ pools_[p[1]][p[2]] = f
  <2>1. ASSUME NEW p \in P PROVE /\ p = <<p[1], p[2]>> /\ p[1] \in Upstreams /\ p[2] \in 1..PoolDepth
                               /\ p[2] <= Len(pools_[p[1]]) /\ pools_[p[1]][p[2]] = f
    OBVIOUS
  <2>2. \A u \in Upstreams : Len(pools_[u]) \in Nat
    BY <1>1 DEF TablesOK
  <2>3. QED BY <1>2, <2>1, <2>2
<1>6. \A u \in Upstreams : \A i \in 1..Len(pools_[u]) : pools_[u][i] = f => <<u, i>> \in P
  <2>1. ASSUME NEW u \in Upstreams, NEW i \in 1..Len(pools_[u]) PROVE i \in 1..PoolDepth /\ i <= Len(pools_[u])
    <3>1. Len(pools_[u]) \in Nat /\ Len(pools_[u]) <= PoolDepth
      BY <1>1 DEF TablesOK, PoolsInv
    <3>2. QED BY <1>2, <3>1
  <2>2. QED BY <2>1
<1> HIDE DEF H, P
<1>7. \A k \in H : sock[f].to = RouteOf(k) /\ RouteOf(k) \in Upstreams
  BY <1>1, <1>3 DEF OwnersInv
<1>8. \A p \in P : sock[f].to = p[1]
  BY <1>1, <1>5 DEF PoolsInv
<1>9. \A j, k \in H : j = k
  BY <1>1, <1>3 DEF OwnersInv
<1>10. \A p, r \in P : p = r
  <2>1. ASSUME NEW p \in P, NEW r \in P PROVE p = r
    <3>1. p[1] = r[1]
      BY <1>8
    <3>2. p[2] = r[2]
      BY <1>1, <1>5, <3>1 DEF PoolsInv
    <3>3. QED BY <1>5, <3>1, <3>2
  <2>2. QED BY <2>1
<1>11. H = {} \/ P = {}
  BY <1>1, <1>3, <1>5 DEF PoolsInv
<1>12. sock[f].to \in Upstreams => H # {} \/ P # {}
  BY ZenonT(30), <1>1, <1>4, <1>6 DEF NoneLost, Pooled, HeldBySome
<1>13. sock[f].to \notin Upstreams => H = {} /\ P = {}
  BY <1>5, <1>7, <1>8
<1>14. (H = {} => Cardinality(H) = 0) /\ (H # {} => Cardinality(H) = 1)
  BY ZenonT(30), <1>9, OneElement, FS_EmptySet
<1>15. (P = {} => Cardinality(P) = 0) /\ (P # {} => Cardinality(P) = 1)
  BY ZenonT(30), <1>10, OneElement, FS_EmptySet
<1>16. Cardinality(H) + Cardinality(P) = (IF sock[f].to \in Upstreams THEN 1 ELSE 0)
  BY <1>11, <1>12, <1>13, <1>14, <1>15
<1>17. QED BY <1>7, <1>8, <1>16 DEF H, P

(* ... and every connection acquire_upstream() opened is in one pool, once, or with
   one coroutine, until the proxy is stopped. *)
THEOREM UpstreamsHaveOneOwner == Spec => []ConnectionsHaveOneOwner
<1>1. ProxyInv /\ [Next]_vars => ProxyInv'
  BY InvStep, RouteKnown DEF RoutesKnown
<1>2. QED BY InvInit, OwnersCount, <1>1, PTL DEF Spec
=============================================================================

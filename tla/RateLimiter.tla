---------------------------- MODULE RateLimiter ----------------------------
(***************************************************************************)
(* The per-IP gate of the reactor (src/muses/net/reactor.hpp): gate 2 of   *)
(* accept_all(), ip_rate_exceeded() and sweep_ip_rate(), over the counting *)
(* Bloom filter ip_blacklist_.  All of it runs on the reactor thread; what *)
(* is nondeterministic is who connects, when, and when the loop comes      *)
(* round to the sweep.  Time is counted in ticks.  Items are the addresses *)
(* the gate looks at: all but 0, which it lets through unseen.             *)
(***************************************************************************)
EXTENDS BloomCounters, FiniteSets

CONSTANTS
  Rate,        \* ip_rate_per_sec_, not 0
  Window,      \* ticks of the 1s window
  Prune,       \* ticks of the 2s after which a counter is pruned
  DecayEvery,  \* ticks of the 10s between decays
  MaxTime,     \* bound: the clock
  NoWindow

ASSUME RateAssumption ==
  /\ Rate \in Nat \ {0} /\ Window \in Nat \ {0} /\ Prune \in Nat /\ Prune >= Window
  /\ DecayEvery \in Nat /\ MaxTime \in Nat
  /\ NoWindow \notin [start : Nat, count : Nat]

VARIABLES
  now,            \* steady_clock
  windows,        \* ip_connect_windows_: [start, count] or NoWindow
  blacklist,      \* ip_blacklist_
  last_ip_decay,  \* last_ip_decay_
  admitted,       \* ghost: admissions of each address in the last Window ticks,
                  \* each [at, nr]: when, and the how manieth of that tick
  offences,       \* ghost: how often each address was blacklisted
  banned          \* ghost: who was blacklisted since the last decay

gate_vars == <<now, windows, blacklist, last_ip_decay, admitted, offences, banned>>

(* steady_clock is well past its epoch when the reactor starts. *)
Start == Window + Prune + DecayEvery

GateInit ==
  /\ now = Start /\ windows = [ip \in Items |-> NoWindow]
  /\ blacklist = NoBytes /\ last_ip_decay = 0
  /\ admitted = [ip \in Items |-> {}] /\ offences = [ip \in Items |-> 0]
  /\ banned = {}

Tick == /\ now < Start + MaxTime /\ now' = now + 1
        /\ admitted' = [ip \in Items |->
             {a \in admitted[ip] : a.at + Window > now'}]
        /\ UNCHANGED <<windows, blacklist, last_ip_decay, offences, banned>>

(* ip_rate_exceeded(): the window it leaves behind.  operator[] creates an
   entry whose window_start is the epoch.  The slip starts a window anew whenever
   it is looked at. *)
WindowAlwaysNew(ip) == [start |-> now, count |-> 1]

WindowAfter(ip) ==
  LET win == IF windows[ip] = NoWindow THEN [start |-> 0, count |-> 0] ELSE windows[ip]
  IN  IF now - win.start >= Window THEN [start |-> now, count |-> 1]
      ELSE [win EXCEPT !.count = @ + 1]

Admission(ip) ==
  [at |-> now, nr |-> Cardinality({a \in admitted[ip] : a.at = now}) + 1]

(* One accept() from ip: gate 2 of accept_all().  The slip does not consult the
   blacklist. *)
GateForgetsBlacklist(ip) == FALSE
Banned(ip) == contains(blacklist, ip)

Accept(ip) ==
  \/ Banned(ip) /\ UNCHANGED gate_vars
  \/ /\ ~Banned(ip)
     /\ windows' = [windows EXCEPT ![ip] = WindowAfter(ip)]
     /\ IF WindowAfter(ip).count > Rate
        THEN /\ blacklist' = add(blacklist, ip)
             /\ offences' = [offences EXCEPT ![ip] = @ + 1]
             /\ banned' = banned \cup {ip}
             /\ UNCHANGED admitted
        ELSE /\ admitted' = [admitted EXCEPT ![ip] = @ \cup {Admission(ip)}]
             /\ UNCHANGED <<blacklist, offences, banned>>
     /\ UNCHANGED <<now, last_ip_decay>>

(* sweep_ip_rate() *)
Sweep ==
  /\ now - last_ip_decay >= DecayEvery
  /\ last_ip_decay' = now
  /\ blacklist' = decay(blacklist, 1)
  /\ windows' = [ip \in Items |->
       IF windows[ip] # NoWindow /\ now - windows[ip].start > Prune THEN NoWindow
       ELSE windows[ip]]
  /\ banned' = {}
  /\ UNCHANGED <<now, admitted, offences>>

GateNext == Tick \/ Sweep \/ \E ip \in Items : Accept(ip)

GateSpec == GateInit /\ [][GateNext]_gate_vars

-----------------------------------------------------------------------------
(* Counters keep their range. *)
GateTypeOK ==
  /\ \A ip \in Items : windows[ip] # NoWindow =>
       windows[ip].start \in 0..now /\ windows[ip].count \in Nat \ {0}
  /\ blacklist \in [DOMAIN NoBytes -> 0..255] /\ last_ip_decay \in 0..now

(* However connections, window changes, prunes and decays fall, no second lets
   more than twice the rate of one address through: ip_rate_exceeded() counts
   in windows that start with a connection. *)
TwiceTheRateAtMost ==
  \A ip \in Items : Cardinality(admitted[ip]) <= 2 * Rate

(* An address that went over the rate gets nothing through until the blacklist
   next decays, although its window may have been renewed or pruned. *)
BanHolds == [][\A ip \in banned : admitted'[ip] \subseteq admitted[ip]]_gate_vars

(* The code does not keep to the next two (README, "Where comments and code
   part").  A sliding window: no second lets more than the rate through. *)
SlidingWindow ==
  \A ip \in Items : Cardinality(admitted[ip]) <= Rate

(* A repeat offender stays banned across a decay. *)
RepeatOffenderStaysBanned ==
  [][Sweep => \A ip \in Items :
       (offences[ip] >= 2 /\ contains(blacklist, ip)) => contains(blacklist', ip)]_gate_vars

=============================================================================

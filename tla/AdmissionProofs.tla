-------------------------- MODULE AdmissionProofs ---------------------------
(*****************************************************************************)
(* The connection gate and the counting Bloom filter under it, for every     *)
(* value of the constants: the rate of admissions, what the filter finds,    *)
(* and the bans that rest on it.  What the loops of add() and remove() do to *)
(* a counter is shown by induction, from the least number of rounds at which *)
(* it would fail.                                                            *)
(*****************************************************************************)
EXTENDS BloomFilter, RateLimiter, TLAPS

INSTANCE FiniteSetTheorems

-----------------------------------------------------------------------------
(* The rate of admissions *)

(* What the window of an address, w, says of its admissions A at time t: they are
   of the last Window ticks and before the end of the window; as many of them as it
   has counted are of the window itself, and at most Rate are of an earlier one.
   Without a window they are all earlier. *)
Since(A, s) == {a \in A : a.at >= s}
Before(A, s) == {a \in A : a.at < s}
Few(A, n) == IsFiniteSet(A) /\ Cardinality(A) <= n

Counted(w, A, t) ==
  IF w = NoWindow THEN Few(A, Rate) /\ \A a \in A : a.at < t
  ELSE /\ w \in [start : Nat, count : Nat \ {0}] /\ w.start <= t
       /\ \A a \in A : a.at < w.start + Window
       /\ Few(Since(A, w.start), Rate) /\ Few(Since(A, w.start), w.count)
       /\ Few(Before(A, w.start), Rate)

Recent(A, t) == \A a \in A : a.at \in Nat /\ a.at <= t /\ a.at + Window > t

GateInv ==
  /\ now \in Nat /\ now >= Window
  /\ DOMAIN windows = Items /\ DOMAIN admitted = Items
  /\ \A ip \in Items : Recent(admitted[ip], now) /\ Counted(windows[ip], admitted[ip], now)

LEMMA FewerAreFew ==
  ASSUME NEW n \in Nat, NEW A, NEW B \in SUBSET A, Few(A, n)
  PROVE  Few(B, n)
<1>1. IsFiniteSet(B) /\ Cardinality(B) <= Cardinality(A)
  BY Zenon, FS_Subset DEF Few
<1>2. Cardinality(A) \in Nat /\ Cardinality(B) \in Nat
  BY Zenon, <1>1, FS_CardinalityType DEF Few
<1>3. QED BY <1>1, <1>2 DEF Few

LEMMA OneMoreIsFew ==
  ASSUME NEW n \in Nat, NEW A, NEW x, Few(A, n)
  PROVE  Few(A \cup {x}, n + 1)
<1>1. IsFiniteSet(A \cup {x})
      /\ Cardinality(A \cup {x}) = IF x \in A THEN Cardinality(A) ELSE Cardinality(A)+1
  BY Zenon, FS_AddElement DEF Few
<1>2. Cardinality(A) \in Nat
  BY Zenon, FS_CardinalityType DEF Few
<1>3. QED BY <1>1, <1>2 DEF Few

LEMMA NoneIsFew ==
  ASSUME NEW n \in Nat PROVE Few({}, n)
<1>1. IsFiniteSet({}) /\ Cardinality({}) = 0
  BY Zenon, FS_EmptySet
<1>2. QED BY <1>1 DEF Few

(* Time passes: admissions are only forgotten. *)
LEMMA CountedLater ==
  ASSUME NEW w, NEW A, NEW B \in SUBSET A, NEW t \in Nat, NEW u \in Nat, t <= u,
         \A a \in A : a.at \in Nat,
         Counted(w, A, t)
  PROVE  Counted(w, B, u)
<1>1. CASE w = NoWindow
  <2>1. Few(B, Rate)
    BY Zenon, <1>1, FewerAreFew, RateAssumption DEF Counted
  <2>2. \A a \in B : a.at < u
    BY <1>1 DEF Counted
  <2>3. QED BY Zenon, <1>1, <2>1, <2>2 DEF Counted
<1>2. CASE w # NoWindow
  <2>1. w \in [start : Nat, count : Nat \ {0}] /\ w.start <= t /\ w.count \in Nat /\ w.start \in Nat
    BY Zenon, <1>2 DEF Counted
  <2>2. Since(B, w.start) \in SUBSET Since(A, w.start)
        /\ Before(B, w.start) \in SUBSET Before(A, w.start)
    BY Zenon DEF Since, Before
  <2>3. Few(Since(B, w.start), Rate) /\ Few(Since(B, w.start), w.count)
        /\ Few(Before(B, w.start), Rate)
    BY Zenon, <1>2, <2>1, <2>2, FewerAreFew, RateAssumption DEF Counted
  <2>4. w.start <= u
    BY <2>1
  <2>5. QED BY Zenon, <1>2, <2>1, <2>3, <2>4 DEF Counted
<1>3. QED BY Zenon, <1>1, <1>2

(* An admission in the window that is open, and a connection that it refuses. *)
LEMMA CountedOnce ==
  ASSUME NEW w, w # NoWindow, NEW A, NEW t \in Nat, NEW x, x.at = t, \A a \in A : a.at \in Nat,
         Counted(w, A, t), t - w.start < Window
  PROVE  LET v == [w EXCEPT !.count = @ + 1]
         IN  /\ v # NoWindow => Counted(v, A, t)
             /\ v # NoWindow /\ v.count <= Rate => Counted(v, A \cup {x}, t)
<1> DEFINE v == [w EXCEPT !.count = @ + 1]
           n == w.count
<1>1. /\ w \in [start : Nat, count : Nat \ {0}] /\ w.start \in Nat /\ w.start <= t /\ n \in Nat
      /\ Few(Since(A, w.start), Rate) /\ Few(Since(A, w.start), n) /\ Few(Before(A, w.start), Rate)
      /\ \A a \in A : a.at < w.start + Window
  BY Zenon DEF Counted
<1>2. v \in [start : Nat, count : Nat \ {0}] /\ v.start = w.start /\ v.count = n + 1 /\ n + 1 \in Nat
  BY <1>1
<1> HIDE DEF v, n
<1>3. ASSUME v # NoWindow PROVE Counted(v, A, t)
  <2>1. Few(Since(A, w.start), n + 1)
    BY <1>1, FS_CardinalityType DEF Few
  <2>2. QED BY Zenon, <1>1, <1>2, <1>3, <2>1 DEF Counted
<1>4. ASSUME v # NoWindow, v.count <= Rate PROVE Counted(v, A \cup {x}, t)
  <2>1. t < w.start + Window /\ ~(t < w.start) /\ t >= w.start
    BY <1>1, RateAssumption
  <2>2. Since(A \cup {x}, w.start) = Since(A, w.start) \cup {x}
        /\ Before(A \cup {x}, w.start) = Before(A, w.start)
    BY Zenon, <2>1 DEF Since, Before
  <2>3. Few(Since(A, w.start) \cup {x}, n + 1)
    BY Zenon, <1>1, OneMoreIsFew
  <2>4. Few(Since(A, w.start) \cup {x}, Rate)
    <3> DEFINE S == Since(A, w.start) \cup {x}
    <3> HIDE DEF S
    <3>1. Few(S, n + 1)
      BY Zenon, <2>3 DEF S
    <3>2. Cardinality(S) \in Nat
      BY Zenon, <3>1, FS_CardinalityType DEF Few
    <3>3. Few(S, Rate)
      BY <1>1, <1>2, <1>4, <3>1, <3>2, RateAssumption DEF Few
    <3>4. QED BY Zenon, <3>3 DEF S
  <2>5. \A a \in A \cup {x} : a.at < w.start + Window
    BY Zenon, <1>1, <2>1
  <2>6. QED BY Zenon, <1>1, <1>2, <1>4, <2>2, <2>3, <2>4, <2>5 DEF Counted
<1>5. QED BY Zenon, <1>3, <1>4 DEF v

(* An admission that opens a window. *)
LEMMA CountedAnew ==
  ASSUME NEW w, NEW A, NEW t \in Nat, NEW x, x.at = t,
         Recent(A, t), Counted(w, A, t), w = NoWindow \/ t - w.start >= Window
  PROVE  LET v == [start |-> t, count |-> 1]
         IN  v # NoWindow => Counted(v, A \cup {x}, t)
<1> DEFINE v == [start |-> t, count |-> 1]
<1>0. /\ v \in [start : Nat, count : Nat \ {0}] /\ v.start = t /\ v.count = 1 /\ Rate >= 1 /\ 1 \in Nat
      /\ t <= t /\ ~(t < t) /\ Rate \in Nat /\ t < t + Window
  BY RateAssumption
<1> HIDE DEF v
<1>1. Few(A, Rate) /\ \A a \in A : a.at < t
  <2>1. CASE w = NoWindow
    BY Zenon, <2>1 DEF Counted
  <2>2. CASE w # NoWindow
    <3>1. /\ w.start \in Nat /\ w.start + Window <= t /\ (\A a \in A : a.at < w.start + Window)
          /\ Few(Since(A, w.start), Rate)
      <4>1. w \in [start : Nat, count : Nat \ {0}] /\ (\A a \in A : a.at < w.start + Window)
            /\ Few(Since(A, w.start), Rate)
        BY Zenon, <2>2 DEF Counted
      <4>2. QED BY <2>2, <4>1, RateAssumption
    <3>2. \A a \in A : a.at < t /\ a.at >= w.start
      BY <3>1, RateAssumption DEF Recent
    <3>3. Since(A, w.start) = A
      BY Zenon, <3>2 DEF Since
    <3>4. QED BY Zenon, <3>1, <3>2, <3>3
  <2>3. QED BY Zenon, <2>1, <2>2
<1>2. Since(A \cup {x}, t) = {} \cup {x} /\ Before(A \cup {x}, t) = A
  <2>1. \A a \in A : ~(a.at >= t)
    BY <1>1 DEF Recent
  <2>2. x.at >= t /\ ~(x.at < t)
    BY <1>0
  <2>3. QED BY Zenon, <1>1, <2>1, <2>2 DEF Since, Before
<1>3. Few({} \cup {x}, 0 + 1)
  BY Zenon, NoneIsFew, OneMoreIsFew, 0 \in Nat
<1>4. Few(Since(A \cup {x}, t), 1) /\ Few(Since(A \cup {x}, t), Rate)
  <2> DEFINE S == {} \cup {x}
  <2> HIDE DEF S
  <2>1. Few(S, 1)
    BY <1>3 DEF S
  <2>2. Cardinality(S) \in Nat
    BY Zenon, <2>1, FS_CardinalityType DEF Few
  <2>3. Few(S, Rate)
    BY <1>0, <2>1, <2>2 DEF Few
  <2>4. QED BY Zenon, <1>2, <2>1, <2>3 DEF S
<1>5. \A a \in A \cup {x} : a.at < t + Window
  <2>1. \A a \in A : a.at < t + Window
    BY <1>1, RateAssumption DEF Recent
  <2>2. QED BY Zenon, <1>0, <2>1
<1>6. v # NoWindow => Counted(v, A \cup {x}, t)
  BY Zenon, <1>0, <1>1, <1>2, <1>4, <1>5 DEF Counted
<1>7. QED BY Zenon, <1>6 DEF v

(* A window that sweep_ip_rate() prunes has admitted all that is recent. *)
LEMMA CountedPruned ==
  ASSUME NEW w, w # NoWindow, NEW A, NEW t \in Nat,
         Recent(A, t), Counted(w, A, t), t - w.start > Prune
  PROVE  Counted(NoWindow, A, t)
<1>1. w \in [start : Nat, count : Nat \ {0}] /\ (\A a \in A : a.at < w.start + Window)
      /\ Few(Since(A, w.start), Rate)
  BY Zenon DEF Counted
<1>2. \A a \in A : a.at < t /\ a.at >= w.start
  BY <1>1, RateAssumption DEF Recent
<1>3. Since(A, w.start) = A
  BY Zenon, <1>2 DEF Since
<1>4. QED BY Zenon, <1>1, <1>2, <1>3 DEF Counted

LEMMA GateStart == GateInit => GateInv
<1> SUFFICES ASSUME GateInit PROVE GateInv
  OBVIOUS
<1>1. now \in Nat /\ now >= Window /\ Rate \in Nat
  BY RateAssumption DEF GateInit, Start
<1>2. \A ip \in Items : windows[ip] = NoWindow /\ admitted[ip] = {}
  BY Zenon DEF GateInit
<1>3. Few({}, Rate)
  BY Zenon, <1>1, NoneIsFew
<1>4. QED BY Zenon, <1>1, <1>2, <1>3 DEF GateInit, GateInv, Recent, Counted

LEMMA GateStep ==
  ASSUME GateInv, [GateNext]_gate_vars
  PROVE  GateInv'
<1> DEFINE Ok(ip) == Recent(admitted[ip], now) /\ Counted(windows[ip], admitted[ip], now)
<1>0. /\ now \in Nat /\ now >= Window /\ DOMAIN windows = Items /\ DOMAIN admitted = Items
      /\ \A ip \in Items : Recent(admitted[ip], now) /\ Counted(windows[ip], admitted[ip], now)
  BY Zenon DEF GateInv
<1>1. CASE Tick
  <2>1. /\ now' = now + 1 /\ windows' = windows
        /\ admitted' = [ip \in Items |-> {a \in admitted[ip] : a.at + Window > now'}]
    BY Zenon, <1>1 DEF Tick
  <2>2. now' \in Nat /\ now' >= Window /\ now <= now'
    BY <1>0, <2>1, RateAssumption
  <2>3. ASSUME NEW ip \in Items
        PROVE  Recent(admitted'[ip], now') /\ Counted(windows'[ip], admitted'[ip], now')
    <3> DEFINE A == admitted[ip]
               B == {a \in A : a.at + Window > now'}
    <3>1. admitted'[ip] = B /\ B \in SUBSET A /\ windows'[ip] = windows[ip]
      BY Zenon, <2>1, <2>3
    <3>2. Recent(A, now) /\ Counted(windows[ip], A, now)
      BY Zenon, <1>0
    <3>3. \A a \in A : a.at \in Nat /\ a.at <= now
      BY Zenon, <3>2 DEF Recent
    <3> HIDE DEF A
    <3>4. Recent(B, now')
      BY <1>0, <2>1, <3>3 DEF Recent
    <3> HIDE DEF B
    <3>5. Counted(windows[ip], B, now')
      BY Zenon, <1>0, <2>2, <3>1, <3>2, <3>3, CountedLater
    <3>6. QED BY Zenon, <3>1, <3>4, <3>5
  <2>4. QED BY Zenon, <1>0, <2>1, <2>2, <2>3 DEF GateInv, Recent, Counted, Few, Since, Before
<1>2. CASE Sweep
  <2>1. /\ now' = now /\ admitted' = admitted
        /\ windows' = [ip \in Items |->
             IF windows[ip] # NoWindow /\ now - windows[ip].start > Prune THEN NoWindow
             ELSE windows[ip]]
    BY Zenon, <1>2 DEF Sweep
  <2>2. ASSUME NEW ip \in Items PROVE Counted(windows'[ip], admitted[ip], now)
    <3>1. CASE windows[ip] # NoWindow /\ now - windows[ip].start > Prune
      BY Zenon, <1>0, <2>1, <3>1, CountedPruned
    <3>2. CASE ~(windows[ip] # NoWindow /\ now - windows[ip].start > Prune)
      BY Zenon, <1>0, <2>1, <3>2
    <3>3. QED BY Zenon, <3>1, <3>2
  <2>3. QED BY ZenonT(30), <1>0, <2>1, <2>2 DEF GateInv, Recent, Counted, Few, Since, Before
<1>3. ASSUME NEW ip \in Items, Accept(ip) PROVE GateInv'
  <2>1. CASE UNCHANGED gate_vars
    BY Zenon, <1>0, <2>1 DEF gate_vars, GateInv, Recent, Counted, Few, Since, Before
  <2>2. CASE ~(UNCHANGED gate_vars)
    <3> DEFINE w == windows[ip]
               v == WindowAfter(ip)
               A == admitted[ip]
               x == Admission(ip)
    <3>1. /\ now' = now /\ windows' = [windows EXCEPT ![ip] = v]
          /\ \/ v.count > Rate /\ admitted' = admitted
             \/ ~(v.count > Rate) /\ admitted' = [admitted EXCEPT ![ip] = A \cup {x}]
      BY Zenon, <1>3, <2>2 DEF Accept
    <3>2. Recent(A, now) /\ Counted(w, A, now)
      BY Zenon, <1>0
    <3>3. x.at = now
      BY DEF Admission
    <3>4. \A a \in A : a.at \in Nat
      BY Zenon, <3>2 DEF Recent
    <3>5. w # NoWindow => w \in [start : Nat, count : Nat \ {0}]
      BY Zenon, <3>2 DEF Counted
    <3>6. \/ w # NoWindow /\ now - w.start < Window /\ v = [w EXCEPT !.count = @ + 1]
          \/ (w = NoWindow \/ now - w.start >= Window) /\ v = [start |-> now, count |-> 1]
      BY <1>0, <3>5, RateAssumption DEF WindowAfter
    <3>7. v # NoWindow /\ v.count \in Nat /\ (v = [start |-> now, count |-> 1] => ~(v.count > Rate))
      BY <1>0, <3>5, <3>6, RateAssumption
    <3> HIDE DEF w, v, A, x
    <3> DEFINE Right == /\ v.count > Rate => Counted(v, A, now)
                        /\ ~(v.count > Rate) => Counted(v, A \cup {x}, now)
    <3>8. ASSUME w # NoWindow /\ now - w.start < Window /\ v = [w EXCEPT !.count = @ + 1]
          PROVE  Right
      <4>1. /\ v # NoWindow => Counted(v, A, now)
            /\ v # NoWindow /\ v.count <= Rate => Counted(v, A \cup {x}, now)
        BY <1>0, <3>2, <3>3, <3>4, <3>8, CountedOnce
      <4>2. ~(v.count > Rate) => v.count <= Rate
        BY <3>7, RateAssumption
      <4>3. QED BY Zenon, <3>7, <4>1, <4>2
    <3>9. ASSUME w = NoWindow \/ now - w.start >= Window, v = [start |-> now, count |-> 1]
          PROVE  Right
      <4>1. v # NoWindow => Counted(v, A \cup {x}, now)
        BY <1>0, <3>2, <3>3, <3>9, CountedAnew
      <4>2. QED BY Zenon, <3>7, <3>9, <4>1
    <3>10. Recent(A \cup {x}, now)
      <4>1. now <= now /\ now + Window > now
        BY <1>0, RateAssumption
      <4>2. QED BY Zenon, <1>0, <3>2, <3>3, <4>1 DEF Recent
    <3>11. Recent(admitted'[ip], now) /\ Counted(windows'[ip], admitted'[ip], now)
      BY Zenon, <1>0, <3>1, <3>2, <3>6, <3>8, <3>9, <3>10 DEF A
    <3>12. \A jp \in Items : jp # ip => windows'[jp] = windows[jp] /\ admitted'[jp] = admitted[jp]
      BY Zenon, <1>0, <3>1
    <3>13. DOMAIN windows' = Items /\ DOMAIN admitted' = Items
      BY Zenon, <1>0, <3>1
    <3>14. QED
      BY ZenonT(30), <1>0, <3>1, <3>11, <3>12, <3>13 DEF GateInv, Recent, Counted, Few, Since, Before
  <2>3. QED BY Zenon, <2>1, <2>2
<1>4. CASE UNCHANGED gate_vars
  BY Zenon, <1>0, <1>4 DEF gate_vars, GateInv, Recent, Counted, Few, Since, Before
<1>5. QED BY Zenon, <1>1, <1>2, <1>3, <1>4 DEF GateNext

(* ip_rate_exceeded() lets at most twice the rate of one address through in any
   second, for every rate, window, number of addresses and blacklist, provided an
   entry is pruned no sooner than its window ends. *)
THEOREM RateIsBounded == GateSpec => []TwiceTheRateAtMost
<1>1. GateInv => TwiceTheRateAtMost
  <2> SUFFICES ASSUME GateInv, NEW ip \in Items PROVE Cardinality(admitted[ip]) <= 2 * Rate
    BY Zenon DEF TwiceTheRateAtMost
  <2> DEFINE w == windows[ip]
             A == admitted[ip]
  <2>1. Recent(A, now) /\ Counted(w, A, now)
    BY Zenon DEF GateInv
  <2> HIDE DEF w, A
  <2>2. CASE w = NoWindow
    <3>1. IsFiniteSet(A) /\ Cardinality(A) <= Rate
      BY Zenon, <2>1, <2>2 DEF Counted, Few
    <3>2. Cardinality(A) \in Nat
      BY Zenon, <3>1, FS_CardinalityType
    <3>3. Cardinality(A) <= 2 * Rate
      BY <3>1, <3>2, RateAssumption
    <3>4. QED BY Zenon, <3>3 DEF A
  <2>3. CASE w # NoWindow
    <3> DEFINE P == Since(A, w.start)
               Q == Before(A, w.start)
    <3>1. IsFiniteSet(P) /\ Cardinality(P) <= Rate /\ IsFiniteSet(Q) /\ Cardinality(Q) <= Rate
          /\ w.start \in Nat
      BY Zenon, <2>1, <2>3 DEF Counted, Few
    <3>2. A = P \cup Q
      BY <2>1, <3>1 DEF Since, Before, Recent
    <3> HIDE DEF P, Q
    <3>3. Cardinality(P \cup Q) = Cardinality(P) + Cardinality(Q) - Cardinality(P \cap Q)
          /\ IsFiniteSet(P \cap Q)
      BY ZenonT(30), <3>1, FS_Union, FS_Intersection
    <3>4. Cardinality(P) \in Nat /\ Cardinality(Q) \in Nat /\ Cardinality(P \cap Q) \in Nat
      BY Zenon, <3>1, <3>3, FS_CardinalityType
    <3>5. Cardinality(A) <= 2 * Rate
      BY <3>1, <3>2, <3>3, <3>4, RateAssumption
    <3>6. QED BY Zenon, <3>5 DEF A
  <2>4. QED BY Zenon, <2>2, <2>3
<1>2. GateInv /\ [GateNext]_gate_vars => GateInv'
  BY GateStep
<1>3. QED BY <1>1, <1>2, GateStart, PTL DEF GateSpec

-----------------------------------------------------------------------------
(* Loops over the probes of an item *)

(* A nonempty set of numbers has a least member, the one FirstHit() takes. *)
Least(S) == CHOOSE x \in S : \A y \in S : x <= y

LEMMA LeastExists ==
  ASSUME NEW S \in SUBSET Nat, S # {}
  PROVE  Least(S) \in S /\ \A y \in S : Least(S) <= y
<1>1. PICK x \in S : \A y \in S : ~(<<y, x>> \in OpToRel(<, Nat))
  BY Zenon, WFMin, NatLessThanWellFounded
<1>2. ASSUME NEW a \in Nat, NEW b \in Nat, a < b PROVE <<a, b>> \in OpToRel(<, Nat)
  <2> DEFINE p == <<a, b>>
  <2>1. p \in Nat \X Nat /\ p[1] < p[2]
    BY Zenon, <1>2
  <2> HIDE DEF p
  <2>2. p \in OpToRel(<, Nat)
    BY Zenon, <2>1 DEF OpToRel
  <2>3. QED BY Zenon, <2>2 DEF p
<1>3. \A y \in S : x <= y
  <2>1. \A y \in S : ~(y < x)
    BY Zenon, <1>1, <1>2
  <2>2. QED BY <2>1
<1>4. QED BY Zenon, <1>3 DEF Least

(* What holds of 0 and passes from each number below n to the next holds up to n. *)
LEMMA UpTo ==
  ASSUME NEW n \in Nat, NEW P \in SUBSET Nat, 0 \in P,
         \A i \in 0..n : i # 0 /\ i - 1 \in P => i \in P
  PROVE  \A i \in 0..n : i \in P
<1> SUFFICES ASSUME NEW j \in 0..n, j \notin P PROVE FALSE
  OBVIOUS
<1> DEFINE S == (0..n) \ P
           m == Least(S)
<1>1. S \in SUBSET Nat /\ S # {}
  OBVIOUS
<1> HIDE DEF S
<1>2. m \in S /\ \A y \in S : m <= y
  BY Zenon, <1>1, LeastExists
<1> HIDE DEF m
<1>3. m \in 0..n /\ m \notin P /\ m # 0
  BY Zenon, <1>2 DEF S
<1>4. m - 1 \in 0..n /\ ~(m <= m - 1)
  BY <1>3
<1>5. m - 1 \in P
  BY Zenon, <1>2, <1>4 DEF S
<1>6. QED BY Zenon, <1>3, <1>5

(* A loop that takes a state in V through the steps for p[1], p[2], ... *)
Loop(f, b, p, st, V) ==
  /\ f \in [0..Len(p) -> V]
  /\ f = [i \in 0..Len(p) |-> IF i = 0 THEN b ELSE st[f[i - 1]][p[i]]]

LEMMA LoopRuns ==
  ASSUME NEW V, NEW X, NEW b \in V, NEW p \in Seq(X), NEW st \in [V -> [X -> V]]
  PROVE  \E f : Loop(f, b, p, st, V)
<1> DEFINE L == Len(p)
           Runs(f, n) == /\ f \in [0..n -> V] /\ f[0] = b
                         /\ \A i \in 1..n : f[i] = st[f[i - 1]][p[i]]
           P == {n \in Nat : n <= L => \E f : Runs(f, n)}
<1>1. L \in Nat /\ \A i \in 1..L : p[i] \in X
  OBVIOUS
<1>2. 0 \in P
  <2> DEFINE f == [i \in 0..0 |-> b]
  <2>1. Runs(f, 0)
    OBVIOUS
  <2>2. QED BY ZenonT(30), <2>1
<1>3. ASSUME NEW n \in 0..L, n # 0, n - 1 \in P PROVE n \in P
  <2>1. n \in Nat /\ n - 1 \in Nat /\ n - 1 <= L /\ n \in 1..L
    BY <1>1, <1>3
  <2>2. PICK f : Runs(f, n - 1)
    BY Zenon, <1>3, <2>1
  <2> DEFINE g == [i \in 0..n |-> IF i = n THEN st[f[n - 1]][p[n]] ELSE f[i]]
  <2>3. f \in [0..(n - 1) -> V] /\ f[0] = b /\ \A i \in 1..(n - 1) : f[i] = st[f[i - 1]][p[i]]
    BY Zenon, <2>2
  <2>4. f[n - 1] \in V /\ p[n] \in X /\ st[f[n - 1]][p[n]] \in V
    <3>1. f[n - 1] \in V /\ p[n] \in X
      BY <1>1, <2>1, <2>3
    <3>2. QED BY Zenon, <3>1
  <2>5. g \in [0..n -> V]
    BY <2>1, <2>3, <2>4
  <2>6. g[0] = b
    BY <2>1, <2>3
  <2>7. \A i \in 1..n : g[i] = st[g[i - 1]][p[i]]
    <3> SUFFICES ASSUME NEW i \in 1..n PROVE g[i] = st[g[i - 1]][p[i]]
      BY ZenonT(30)
    <3>1. i \in 0..n /\ i - 1 \in 0..n /\ i - 1 # n
      BY <2>1
    <3>2. g[i - 1] = f[i - 1]
      BY Zenon, <3>1
    <3>3. CASE i = n
      BY Zenon, <3>1, <3>2, <3>3
    <3>4. CASE i # n
      <4>1. i \in 1..(n - 1)
        BY <2>1, <3>4
      <4>2. QED BY Zenon, <2>3, <3>1, <3>2, <3>4, <4>1
    <3>5. QED BY ZenonT(30), <3>3, <3>4
  <2> HIDE DEF g
  <2>8. Runs(g, n)
    BY Zenon, <2>5, <2>6, <2>7
  <2>9. QED BY Zenon, <2>1, <2>8
<1>4. L \in 0..L /\ L <= L
  BY <1>1
<1>5. L \in P
  <2>1. P \in SUBSET Nat
    BY Zenon
  <2> HIDE DEF P
  <2>2. QED BY Zenon, <1>1, <1>2, <1>3, <1>4, <2>1, UpTo
<1>6. PICK f : Runs(f, L)
  BY Zenon, <1>4, <1>5
<1>7. f = [i \in 0..L |-> IF i = 0 THEN b ELSE st[f[i - 1]][p[i]]]
  <2>1. \A i \in 0..L : i # 0 => i \in 1..L
    BY <1>1
  <2>2. f = [i \in 0..L |-> f[i]]
    BY Zenon, <1>6
  <2>3. \A i \in 0..L : f[i] = IF i = 0 THEN b ELSE st[f[i - 1]][p[i]]
    BY Zenon, <1>6, <2>1
  <2>4. QED BY ZenonT(30), <2>2, <2>3
<1>8. QED BY Zenon, <1>6, <1>7 DEF Loop

Packed == [0..(num_slots \div 2) - 1 -> 0..255]

(* A slot is a nibble of a byte, and slots of the same byte are in different ones. *)
LEMMA SlotPlace ==
  ASSUME NEW s \in Slots
  PROVE  /\ s \div 2 \in 0..(num_slots \div 2) - 1 /\ s % 2 \in {0, 1}
         /\ \A t \in Slots : t \div 2 = s \div 2 /\ t % 2 = s % 2 => t = s
BY BloomAssumption DEF Slots

LEMMA Nibbles ==
  ASSUME NEW n \in 0..255, NEW v \in 0..15
  PROVE  /\ n % 16 \in 0..15 /\ n \div 16 \in 0..15 /\ v % 16 = v
         /\ (n \div 16) * 16 + v \in 0..255
         /\ ((n \div 16) * 16 + v) % 16 = v /\ ((n \div 16) * 16 + v) \div 16 = n \div 16
         /\ v * 16 + (n % 16) \in 0..255
         /\ (v * 16 + (n % 16)) % 16 = n % 16 /\ (v * 16 + (n % 16)) \div 16 = v
OBVIOUS

(* set_counter() sets one counter and leaves the others alone. *)
LEMMA SetCounter ==
  ASSUME NEW b \in Packed, NEW s \in Slots, NEW v \in 0..15
  PROVE  /\ set_counter(b, s, v) \in Packed
         /\ get_counter(set_counter(b, s, v), s) = v
         /\ \A t \in Slots : t # s => get_counter(set_counter(b, s, v), t) = get_counter(b, t)
<1> DEFINE i == s \div 2
           n == b[i]
           c == set_counter(b, s, v)
<1>1. /\ i \in 0..(num_slots \div 2) - 1 /\ s % 2 \in {0, 1}
      /\ \A t \in Slots : t \div 2 = i /\ t % 2 = s % 2 => t = s
  BY Zenon, SlotPlace
<1>2. n \in 0..255
  BY ZenonT(30), <1>1 DEF Packed
<1>3. c = [b EXCEPT ![i] = IF s % 2 = 0 THEN (n \div 16) * 16 + v ELSE v * 16 + (n % 16)]
  <2>1. v % 16 = v
    BY ZenonT(30), <1>2, Nibbles
  <2>2. QED BY Zenon, <2>1 DEF set_counter
<1> HIDE DEF c, i, n
<1>4. c \in Packed
  <2>1. (n \div 16) * 16 + v \in 0..255 /\ v * 16 + (n % 16) \in 0..255
    BY ZenonT(30), <1>2, Nibbles
  <2>2. QED BY ZenonT(30), <1>1, <1>3, <2>1 DEF Packed
<1>5. c[i] = IF s % 2 = 0 THEN (n \div 16) * 16 + v ELSE v * 16 + (n % 16)
  BY Zenon, <1>1, <1>3 DEF Packed
<1>9. /\ ((n \div 16) * 16 + v) % 16 = v /\ ((n \div 16) * 16 + v) \div 16 = n \div 16
      /\ (v * 16 + (n % 16)) % 16 = n % 16 /\ (v * 16 + (n % 16)) \div 16 = v
  BY SMTT(30), <1>2
<1>6. get_counter(c, s) = v
  <2>1. CASE s % 2 = 0
    <3>1. c[i] % 16 = v
      BY Zenon, <1>5, <1>9, <2>1
    <3>2. QED BY Zenon, <2>1, <3>1 DEF get_counter, i
  <2>2. CASE s % 2 # 0
    <3>1. c[i] \div 16 = v
      BY Zenon, <1>5, <1>9, <2>2
    <3>2. QED BY Zenon, <2>2, <3>1 DEF get_counter, i
  <2>3. QED BY Zenon, <2>1, <2>2
<1>7. ASSUME NEW t \in Slots, t # s PROVE get_counter(c, t) = get_counter(b, t)
  <2>1. t \div 2 \in 0..(num_slots \div 2) - 1 /\ t % 2 \in {0, 1}
    BY Zenon, SlotPlace
  <2>2. CASE t \div 2 = i
    <3>1. t % 2 # s % 2
      BY Zenon, <1>1, <1>7, <2>2
    <3>2. CASE t % 2 = 0 /\ s % 2 # 0
      <4>1. c[i] % 16 = n % 16
        BY Zenon, <1>5, <1>9, <3>2
      <4>2. QED BY Zenon, <2>2, <3>2, <4>1 DEF get_counter, n
    <3>3. CASE t % 2 # 0 /\ s % 2 = 0
      <4>1. c[i] \div 16 = n \div 16
        BY Zenon, <1>5, <1>9, <3>3
      <4>2. QED BY Zenon, <2>2, <3>3, <4>1 DEF get_counter, n
    <3>4. (t % 2 = 0 /\ s % 2 # 0) \/ (t % 2 # 0 /\ s % 2 = 0)
      BY <1>1, <2>1, <3>1
    <3>5. QED BY Zenon, <3>2, <3>3, <3>4
  <2>3. CASE t \div 2 # i
    <3>1. c[t \div 2] = b[t \div 2]
      BY Zenon, <1>3, <2>1, <2>3 DEF Packed
    <3>2. QED BY Zenon, <3>1 DEF get_counter
  <2>4. QED BY Zenon, <2>2, <2>3
<1>10. QED BY Zenon, <1>4, <1>6, <1>7 DEF c

LEMMA CounterType ==
  ASSUME NEW b \in Packed, NEW s \in Slots
  PROVE  get_counter(b, s) \in 0..15
<1>1. s \div 2 \in 0..(num_slots \div 2) - 1
  BY Zenon, SlotPlace
<1>2. b[s \div 2] \in 0..255
  BY Zenon, <1>1 DEF Packed
<1>3. b[s \div 2] % 16 \in 0..15 /\ b[s \div 2] \div 16 \in 0..15
  BY <1>2
<1>4. QED BY Zenon, <1>3 DEF get_counter

LEMMA BumpCounter ==
  ASSUME NEW b \in Packed, NEW s \in Slots
  PROVE  /\ Bump(b, s) \in Packed
         /\ get_counter(Bump(b, s), s) = saturate_inc(get_counter(b, s))
         /\ \A t \in Slots : t # s => get_counter(Bump(b, s), t) = get_counter(b, t)
<1>1. saturate_inc(get_counter(b, s)) \in 0..15
  BY CounterType DEF saturate_inc, kCounterMax
<1>2. QED BY ZenonT(30), <1>1, SetCounter DEF Bump

LEMMA LowerCounter ==
  ASSUME NEW b \in Packed, NEW s \in Slots
  PROVE  /\ Lower(b, s) \in Packed
         /\ get_counter(Lower(b, s), s)
              = IF get_counter(b, s) > 0 THEN get_counter(b, s) - 1 ELSE get_counter(b, s)
         /\ \A t \in Slots : t # s => get_counter(Lower(b, s), t) = get_counter(b, t)
<1>1. get_counter(b, s) > 0 => get_counter(b, s) - 1 \in 0..15
  BY CounterType
<1>2. CASE get_counter(b, s) > 0
  <2> DEFINE v == get_counter(b, s) - 1
  <2>1. Lower(b, s) = set_counter(b, s, v)
    BY Zenon, <1>2 DEF Lower
  <2>2. /\ set_counter(b, s, v) \in Packed
        /\ get_counter(set_counter(b, s, v), s) = v
        /\ \A t \in Slots : t # s => get_counter(set_counter(b, s, v), t) = get_counter(b, t)
    <3>1. v \in 0..15
      BY Zenon, <1>1, <1>2
    <3> HIDE DEF v
    <3>2. QED BY ZenonT(30), <3>1, SetCounter
  <2> HIDE DEF v
  <2>3. v = IF get_counter(b, s) > 0 THEN get_counter(b, s) - 1 ELSE get_counter(b, s)
    BY Zenon, <1>2 DEF v
  <2>4. QED BY Zenon, <2>1, <2>2, <2>3
<1>3. CASE ~(get_counter(b, s) > 0)
  BY Zenon, <1>3 DEF Lower
<1>4. QED BY Zenon, <1>2, <1>3

-----------------------------------------------------------------------------
(* What an operation does to a counter *)

(* The rounds up to n in which the loop for item i comes to slot s. *)
UsesUpTo(i, s, n) == {p \in 1..n : Probes[i][p] = s}
Uses(i, s) == UsesUpTo(i, s, Len(Probes[i]))

LEMMA ProbeType ==
  ASSUME NEW i \in Items
  PROVE  /\ Probes[i] \in Seq(Slots) /\ Len(Probes[i]) \in Nat
         /\ \A p \in 1..Len(Probes[i]) : Probes[i][p] \in Slots
<1>1. Probes[i] \in Seq(Slots)
  BY Zenon, BloomAssumption DEF Slots
<1>2. QED BY <1>1

LEMMA UsesGrow ==
  ASSUME NEW i, NEW s, NEW n \in Nat \ {0}
  PROVE  /\ IsFiniteSet(UsesUpTo(i, s, n)) /\ Cardinality(UsesUpTo(i, s, n)) \in Nat
         /\ Cardinality(UsesUpTo(i, s, n - 1)) \in Nat
         /\ Cardinality(UsesUpTo(i, s, n))
              = Cardinality(UsesUpTo(i, s, n - 1)) + (IF Probes[i][n] = s THEN 1 ELSE 0)
<1> DEFINE U == UsesUpTo(i, s, n)
           T == UsesUpTo(i, s, n - 1)
<1>1. IsFiniteSet(1..n)
  BY FS_Interval
<1>2. U \in SUBSET (1..n) /\ T \in SUBSET (1..n) /\ n \notin T
  BY DEF UsesUpTo
<1>3. IsFiniteSet(U) /\ IsFiniteSet(T)
  BY Zenon, <1>1, <1>2, FS_Subset
<1>4. Cardinality(U) \in Nat /\ Cardinality(T) \in Nat
  BY Zenon, <1>3, FS_CardinalityType
<1>5. CASE Probes[i][n] = s
  <2>1. U = T \cup {n}
    BY <1>5 DEF UsesUpTo
  <2> HIDE DEF U, T
  <2>2. Cardinality(U) = Cardinality(T) + 1
    BY Zenon, <1>2, <1>3, <2>1, FS_AddElement
  <2>3. QED BY <1>3, <1>4, <1>5, <2>2 DEF U, T
<1>6. CASE Probes[i][n] # s
  <2>1. U = T
    BY <1>6 DEF UsesUpTo
  <2> HIDE DEF U, T
  <2>2. QED BY <1>3, <1>4, <1>6, <2>1 DEF U, T
<1>7. QED BY Zenon, <1>5, <1>6

LEMMA UsesStart ==
  ASSUME NEW i, NEW s
  PROVE  UsesUpTo(i, s, 0) = {} /\ Cardinality(UsesUpTo(i, s, 0)) = 0
<1>1. UsesUpTo(i, s, 0) = {}
  BY DEF UsesUpTo
<1>2. QED BY Zenon, <1>1, FS_EmptySet

LEMMA AddRuns ==
  ASSUME NEW b \in Packed, NEW i \in Items
  PROVE  \E f \in [0..Len(Probes[i]) -> Packed] :
           /\ f[0] = b /\ add(b, i) = f[Len(Probes[i])]
           /\ \A n \in 1..Len(Probes[i]) : f[n] = Bump(f[n - 1], Probes[i][n])
<1> DEFINE p == Probes[i]
           D == 0..Len(p)
           st == [c \in Packed |-> [s \in Slots |-> Bump(c, s)]]
           Is(f) == f = [n \in D |-> IF n = 0 THEN b ELSE Bump(f[n - 1], p[n])]
<1>1. p \in Seq(Slots) /\ Len(p) \in Nat /\ \A n \in 1..Len(p) : p[n] \in Slots
  BY Zenon, ProbeType
<1> HIDE DEF p
<1>2. st \in [Packed -> [Slots -> Packed]]
  BY Zenon, BumpCounter
<1>3. PICK f \in [D -> Packed] : f = [n \in D |-> IF n = 0 THEN b ELSE st[f[n - 1]][p[n]]]
  <2> HIDE DEF st
  <2>1. PICK f : Loop(f, b, p, st, Packed)
    BY Zenon, <1>1, <1>2, LoopRuns
  <2>2. QED BY Zenon, <2>1 DEF Loop
<1>4. ASSUME NEW n \in D, n # 0 PROVE n - 1 \in D /\ n \in 1..Len(p)
  BY <1>1, <1>4
<1>5. \A n \in D : n # 0 => st[f[n - 1]][p[n]] = Bump(f[n - 1], p[n])
  BY Zenon, <1>1, <1>3, <1>4
<1>6. Is(f)
  <2> HIDE DEF st
  <2>1. \A n \in D : (IF n = 0 THEN b ELSE st[f[n - 1]][p[n]]) = (IF n = 0 THEN b ELSE Bump(f[n - 1], p[n]))
    BY Zenon, <1>5
  <2>2. QED BY Zenon, <1>3, <2>1
<1> DEFINE g == CHOOSE h : Is(h)
<1>7. Is(g) /\ add(b, i) = g[Len(p)]
  <2>1. Is(g)
    BY Zenon, <1>6
  <2>2. add(b, i) = g[Len(p)]
    BY Zenon DEF add, p
  <2>3. QED BY Zenon, <2>1, <2>2
<1> HIDE DEF g
<1>8. g[0] = b /\ \A n \in 1..Len(p) : g[n] = Bump(g[n - 1], p[n])
  <2>1. 0 \in D /\ \A n \in 1..Len(p) : n \in D /\ n # 0
    BY <1>1
  <2>2. QED BY Zenon, <1>7, <2>1
<1>9. \A n \in D : g[n] \in Packed
  <2> DEFINE P == {n \in Nat : g[n] \in Packed}
  <2>1. P \in SUBSET Nat /\ 0 \in P
    BY <1>8
  <2>2. ASSUME NEW n \in D, n # 0, n - 1 \in P PROVE n \in P
    <3>1. n \in 1..Len(p) /\ n \in Nat
      BY <1>1, <2>2
    <3>2. g[n] = Bump(g[n - 1], p[n]) /\ p[n] \in Slots /\ g[n - 1] \in Packed
      BY Zenon, <1>1, <1>8, <2>2, <3>1
    <3>3. QED BY Zenon, <3>1, <3>2, BumpCounter
  <2> HIDE DEF P
  <2>3. \A n \in D : n \in P
    BY Zenon, <1>1, <2>1, <2>2, UpTo
  <2>4. QED BY Zenon, <2>3 DEF P
<1>10. g \in [D -> Packed]
  BY Zenon, <1>7, <1>9
<1>11. QED BY Zenon, <1>7, <1>8, <1>10 DEF p

LEMMA RemoveRuns ==
  ASSUME NEW b \in Packed, NEW i \in Items
  PROVE  \E f \in [0..Len(Probes[i]) -> Packed] :
           /\ f[0] = b /\ remove(b, i) = f[Len(Probes[i])]
           /\ \A n \in 1..Len(Probes[i]) : f[n] = Lower(f[n - 1], Probes[i][n])
<1> DEFINE p == Probes[i]
           D == 0..Len(p)
           st == [c \in Packed |-> [s \in Slots |-> Lower(c, s)]]
           Is(f) == f = [n \in D |-> IF n = 0 THEN b ELSE Lower(f[n - 1], p[n])]
<1>1. p \in Seq(Slots) /\ Len(p) \in Nat /\ \A n \in 1..Len(p) : p[n] \in Slots
  BY Zenon, ProbeType
<1> HIDE DEF p
<1>2. st \in [Packed -> [Slots -> Packed]]
  BY ZenonT(30), LowerCounter
<1>3. PICK f \in [D -> Packed] : f = [n \in D |-> IF n = 0 THEN b ELSE st[f[n - 1]][p[n]]]
  <2> HIDE DEF st
  <2>1. PICK f : Loop(f, b, p, st, Packed)
    BY Zenon, <1>1, <1>2, LoopRuns
  <2>2. QED BY Zenon, <2>1 DEF Loop
<1>4. ASSUME NEW n \in D, n # 0 PROVE n - 1 \in D /\ n \in 1..Len(p)
  BY <1>1, <1>4
<1>5. \A n \in D : n # 0 => st[f[n - 1]][p[n]] = Lower(f[n - 1], p[n])
  BY Zenon, <1>1, <1>3, <1>4
<1>6. Is(f)
  <2> HIDE DEF st
  <2>1. \A n \in D : (IF n = 0 THEN b ELSE st[f[n - 1]][p[n]]) = (IF n = 0 THEN b ELSE Lower(f[n - 1], p[n]))
    BY Zenon, <1>5
  <2>2. QED BY Zenon, <1>3, <2>1
<1> DEFINE g == CHOOSE h : Is(h)
<1>7. Is(g) /\ remove(b, i) = g[Len(p)]
  <2>1. Is(g)
    BY Zenon, <1>6
  <2>2. remove(b, i) = g[Len(p)]
    BY Zenon DEF remove, p
  <2>3. QED BY Zenon, <2>1, <2>2
<1> HIDE DEF g
<1>8. g[0] = b /\ \A n \in 1..Len(p) : g[n] = Lower(g[n - 1], p[n])
  <2>1. 0 \in D /\ \A n \in 1..Len(p) : n \in D /\ n # 0
    BY <1>1
  <2>2. QED BY Zenon, <1>7, <2>1
<1>9. \A n \in D : g[n] \in Packed
  <2> DEFINE P == {n \in Nat : g[n] \in Packed}
  <2>1. P \in SUBSET Nat /\ 0 \in P
    BY <1>8
  <2>2. ASSUME NEW n \in D, n # 0, n - 1 \in P PROVE n \in P
    <3>1. n \in 1..Len(p) /\ n \in Nat
      BY <1>1, <2>2
    <3>2. g[n] = Lower(g[n - 1], p[n]) /\ p[n] \in Slots /\ g[n - 1] \in Packed
      BY Zenon, <1>1, <1>8, <2>2, <3>1
    <3>3. QED BY ZenonT(30), <3>1, <3>2, LowerCounter
  <2> HIDE DEF P
  <2>3. \A n \in D : n \in P
    BY Zenon, <1>1, <2>1, <2>2, UpTo
  <2>4. QED BY Zenon, <2>3 DEF P
<1>10. g \in [D -> Packed]
  BY Zenon, <1>7, <1>9
<1>11. QED BY Zenon, <1>7, <1>8, <1>10 DEF p

(* add() raises the counter of a slot by as many as it probes it, up to 15. *)
LEMMA AddCounts ==
  ASSUME NEW b \in Packed, NEW i \in Items, NEW s \in Slots
  PROVE  /\ add(b, i) \in Packed
         /\ get_counter(add(b, i), s) \in 0..15 /\ get_counter(b, s) \in 0..15
         /\ get_counter(add(b, i), s) >= get_counter(b, s)
         /\ \/ get_counter(add(b, i), s) = 15
            \/ get_counter(add(b, i), s) = get_counter(b, s) + Cardinality(Uses(i, s))
<1> DEFINE L == Len(Probes[i])
           p == Probes[i]
           c == get_counter(b, s)
<1>1. PICK f \in [0..L -> Packed] :
           /\ f[0] = b /\ add(b, i) = f[L]
           /\ \A n \in 1..L : f[n] = Bump(f[n - 1], p[n])
  BY ZenonT(30), AddRuns
<1>2. L \in Nat /\ \A n \in 1..L : p[n] \in Slots
  BY Zenon, ProbeType
<1>3. c \in 0..15 /\ \A n \in 0..L : f[n] \in Packed /\ get_counter(f[n], s) \in 0..15
  BY Zenon, CounterType
<1> DEFINE g(n) == get_counter(f[n], s)
           u(n) == Cardinality(UsesUpTo(i, s, n))
           P == {n \in Nat : g(n) >= c /\ (g(n) = 15 \/ g(n) = c + u(n))}
<1>4. 0 \in P
  <2>1. u(0) = 0 /\ g(0) = c
    BY Zenon, <1>1, UsesStart
  <2> HIDE DEF u, g, c
  <2>2. QED BY <1>3, <2>1
<1>5. ASSUME NEW n \in 0..L, n # 0, n - 1 \in P PROVE n \in P
  <2>1. n \in 1..L /\ n \in Nat \ {0} /\ n - 1 \in 0..L
    BY <1>2, <1>5
  <2>2. f[n] = Bump(f[n - 1], p[n]) /\ p[n] \in Slots /\ f[n - 1] \in Packed
    BY Zenon, <1>1, <1>2, <2>1
  <2>3. u(n) = u(n - 1) + (IF p[n] = s THEN 1 ELSE 0) /\ u(n) \in Nat /\ u(n - 1) \in Nat
    BY Zenon, <2>1, UsesGrow
  <2>4. g(n) = IF p[n] = s THEN saturate_inc(g(n - 1)) ELSE g(n - 1)
    <3>1. /\ get_counter(Bump(f[n - 1], p[n]), p[n]) = saturate_inc(get_counter(f[n - 1], p[n]))
          /\ \A t \in Slots : t # p[n] =>
               get_counter(Bump(f[n - 1], p[n]), t) = get_counter(f[n - 1], t)
      BY Zenon, <2>2, BumpCounter
    <3>2. CASE p[n] = s
      BY Zenon, <2>2, <3>1, <3>2
    <3>3. CASE p[n] # s
      BY Zenon, <2>2, <3>1, <3>3
    <3>4. QED BY Zenon, <3>2, <3>3
  <2>5. g(n - 1) \in 0..15
    BY Zenon, <1>3, <2>1
  <2> HIDE DEF u, g, c
  <2>6. g(n - 1) >= c /\ (g(n - 1) = 15 \/ g(n - 1) = c + u(n - 1))
    BY Zenon, <1>5
  <2>7. g(n) >= c /\ (g(n) = 15 \/ g(n) = c + u(n))
    BY SMTT(30), <1>3, <2>3, <2>4, <2>5, <2>6 DEF saturate_inc, kCounterMax
  <2>8. QED BY Zenon, <2>1, <2>7
<1>6. P \in SUBSET Nat /\ L \in 0..L
  BY <1>2
<1>7. L \in P
  <2> HIDE DEF P
  <2>1. QED BY Zenon, <1>2, <1>4, <1>5, <1>6, UpTo
<1>8. g(L) >= c /\ (g(L) = 15 \/ g(L) = c + u(L))
  BY Zenon, <1>7
<1>9. QED BY Zenon, <1>1, <1>3, <1>6, <1>8 DEF Uses

(* remove() lowers it by at most as many. *)
LEMMA RemoveCounts ==
  ASSUME NEW b \in Packed, NEW i \in Items, NEW s \in Slots
  PROVE  /\ remove(b, i) \in Packed
         /\ get_counter(remove(b, i), s) \in 0..15 /\ get_counter(b, s) \in 0..15
         /\ get_counter(remove(b, i), s) <= get_counter(b, s)
         /\ get_counter(remove(b, i), s) + Cardinality(Uses(i, s)) >= get_counter(b, s)
<1> DEFINE L == Len(Probes[i])
           p == Probes[i]
           c == get_counter(b, s)
<1>1. PICK f \in [0..L -> Packed] :
           /\ f[0] = b /\ remove(b, i) = f[L]
           /\ \A n \in 1..L : f[n] = Lower(f[n - 1], p[n])
  BY Zenon, RemoveRuns
<1>2. L \in Nat /\ \A n \in 1..L : p[n] \in Slots
  BY Zenon, ProbeType
<1>3. c \in 0..15 /\ \A n \in 0..L : f[n] \in Packed /\ get_counter(f[n], s) \in 0..15
  BY Zenon, CounterType
<1> DEFINE g(n) == get_counter(f[n], s)
           u(n) == Cardinality(UsesUpTo(i, s, n))
           P == {n \in Nat : g(n) <= c /\ g(n) + u(n) >= c}
<1>4. 0 \in P
  <2>1. u(0) = 0 /\ g(0) = c
    BY Zenon, <1>1, UsesStart
  <2> HIDE DEF u, g, c
  <2>2. QED BY <1>3, <2>1
<1>5. ASSUME NEW n \in 0..L, n # 0, n - 1 \in P PROVE n \in P
  <2>1. n \in 1..L /\ n \in Nat \ {0} /\ n - 1 \in 0..L
    BY SMTT(30), <1>2, <1>5
  <2>2. f[n] = Lower(f[n - 1], p[n]) /\ p[n] \in Slots /\ f[n - 1] \in Packed
    BY Zenon, <1>1, <1>2, <2>1
  <2>3. u(n) = u(n - 1) + (IF p[n] = s THEN 1 ELSE 0) /\ u(n) \in Nat /\ u(n - 1) \in Nat
    BY Zenon, <2>1, UsesGrow
  <2>4. /\ p[n] = s => g(n) = IF g(n - 1) > 0 THEN g(n - 1) - 1 ELSE g(n - 1)
        /\ p[n] # s => g(n) = g(n - 1)
    <3>1. /\ get_counter(Lower(f[n - 1], p[n]), p[n])
               = IF get_counter(f[n - 1], p[n]) > 0 THEN get_counter(f[n - 1], p[n]) - 1
                 ELSE get_counter(f[n - 1], p[n])
          /\ \A t \in Slots : t # p[n] =>
               get_counter(Lower(f[n - 1], p[n]), t) = get_counter(f[n - 1], t)
      BY Zenon, <2>2, LowerCounter
    <3>2. CASE p[n] = s
      BY Zenon, <2>2, <3>1, <3>2
    <3>3. CASE p[n] # s
      BY Zenon, <2>2, <3>1, <3>3
    <3>4. QED BY Zenon, <3>2, <3>3
  <2>5. g(n - 1) \in 0..15
    BY Zenon, <1>3, <2>1
  <2> HIDE DEF u, g, c
  <2>6. g(n - 1) <= c /\ g(n - 1) + u(n - 1) >= c
    BY Zenon, <1>5
  <2>7. CASE p[n] = s
    <3>1. /\ u(n) = u(n - 1) + 1 /\ u(n - 1) \in Nat
          /\ g(n) = IF g(n - 1) > 0 THEN g(n - 1) - 1 ELSE g(n - 1)
      BY Zenon, <2>3, <2>4, <2>7
    <3>2. g(n) <= c /\ g(n) + u(n) >= c
      <4>1. CASE g(n - 1) > 0
        <5>1. g(n) = g(n - 1) - 1
          BY Zenon, <3>1, <4>1
        <5>2. ASSUME NEW k \in 0..15, NEW x \in 0..15, NEW m \in Nat, x <= k, x + m >= k
              PROVE  x - 1 <= k /\ x - 1 + (m + 1) >= k
          BY <5>2
        <5>3. c \in 0..15
          BY Zenon, <1>3
        <5>4. g(n - 1) - 1 <= c /\ g(n - 1) - 1 + (u(n - 1) + 1) >= c
          BY Zenon, <2>5, <2>6, <3>1, <5>2, <5>3
        <5>5. QED BY Zenon, <3>1, <5>1, <5>4
      <4>2. CASE ~(g(n - 1) > 0)
        <5>1. g(n) = g(n - 1)
          BY Zenon, <3>1, <4>2
        <5>2. ASSUME NEW k \in 0..15, NEW x \in 0..15, NEW m \in Nat, x <= k, x + m >= k
              PROVE  x + (m + 1) >= k
          BY <5>2
        <5>3. c \in 0..15
          BY Zenon, <1>3
        <5>4. g(n - 1) + (u(n - 1) + 1) >= c
          BY ZenonT(30), <2>5, <2>6, <3>1, <5>2, <5>3
        <5>5. QED BY Zenon, <2>6, <3>1, <5>1, <5>4
      <4>3. QED BY Zenon, <4>1, <4>2
    <3>3. QED BY Zenon, <2>1, <3>2
  <2>8. CASE p[n] # s
    <3>1. u(n) = u(n - 1) + 0 /\ g(n) = g(n - 1)
      BY Zenon, <2>3, <2>4, <2>8
    <3>2. g(n) <= c /\ g(n) + u(n) >= c
      BY <1>3, <2>3, <2>5, <2>6, <3>1
    <3>3. QED BY Zenon, <2>1, <3>2
  <2>9. QED BY Zenon, <2>7, <2>8
<1>6. P \in SUBSET Nat /\ L \in 0..L
  BY SMTT(30), <1>2
<1>7. L \in P
  <2> HIDE DEF P
  <2>1. QED BY Zenon, <1>2, <1>4, <1>5, <1>6, UpTo
<1>8. g(L) <= c /\ g(L) + u(L) >= c
  BY Zenon, <1>7
<1>9. QED BY ZenonT(30), <1>1, <1>3, <1>6, <1>8 DEF Uses

(* A probed slot is in use, so that add() makes an item found. *)
LEMMA UsesProbes ==
  ASSUME NEW i \in Items, NEW s
  PROVE  /\ IsFiniteSet(Uses(i, s)) /\ Cardinality(Uses(i, s)) \in Nat
         /\ \A p \in 1..Len(Probes[i]) : Probes[i][p] = s => Cardinality(Uses(i, s)) >= 1
<1>1. Len(Probes[i]) \in Nat
  BY Zenon, ProbeType
<1>2. IsFiniteSet(1..Len(Probes[i]))
  BY <1>1, FS_Interval
<1>3. Uses(i, s) \in SUBSET (1..Len(Probes[i]))
  BY Zenon DEF Uses, UsesUpTo
<1>4. IsFiniteSet(Uses(i, s))
  BY Zenon, <1>2, <1>3, FS_Subset
<1>5. Cardinality(Uses(i, s)) \in Nat
  BY Zenon, <1>4, FS_CardinalityType
<1>6. ASSUME NEW p \in 1..Len(Probes[i]), Probes[i][p] = s PROVE Cardinality(Uses(i, s)) >= 1
  <2>1. Uses(i, s) # {}
    BY Zenon, <1>6 DEF Uses, UsesUpTo
  <2>2. Cardinality(Uses(i, s)) # 0
    BY Zenon, <1>4, <2>1, FS_EmptySet
  <2>3. QED BY <1>5, <2>2
<1>7. QED BY Zenon, <1>4, <1>5, <1>6

LEMMA AddIsFound ==
  ASSUME NEW b \in Packed, NEW i \in Items
  PROVE  /\ add(b, i) \in Packed /\ contains(add(b, i), i)
         /\ \A j \in Items : contains(b, j) => contains(add(b, i), j)
<1> DEFINE a == add(b, i)
<1>1. \A s \in Slots : /\ get_counter(a, s) \in 0..15 /\ get_counter(b, s) \in 0..15
                       /\ get_counter(a, s) >= get_counter(b, s)
                       /\ \/ get_counter(a, s) = 15
                          \/ get_counter(a, s) = get_counter(b, s) + Cardinality(Uses(i, s))
  BY Zenon, AddCounts
<1>2. a \in Packed
  <2>1. 1 \in 1..Len(Probes[i])
    BY ProbeType, BloomAssumption
  <2>2. QED BY Zenon, <2>1, ProbeType, AddCounts
<1> HIDE DEF a
<1>3. ASSUME NEW p \in 1..Len(Probes[i]) PROVE get_counter(a, Probes[i][p]) # 0
  <2> DEFINE s == Probes[i][p]
  <2>1. s \in Slots
    BY Zenon, ProbeType
  <2>2. Cardinality(Uses(i, s)) >= 1 /\ Cardinality(Uses(i, s)) \in Nat
    BY Zenon, UsesProbes
  <2> HIDE DEF s
  <2>3. get_counter(a, s) # 0
    <3>1. /\ get_counter(a, s) \in 0..15 /\ get_counter(b, s) \in 0..15
          /\ \/ get_counter(a, s) = 15
             \/ get_counter(a, s) = get_counter(b, s) + Cardinality(Uses(i, s))
      BY Zenon, <1>1, <2>1
    <3>2. CASE get_counter(a, s) = 15
      BY <3>2
    <3>3. CASE get_counter(a, s) = get_counter(b, s) + Cardinality(Uses(i, s))
      <4>1. \A m \in 0..15, n \in Nat : n >= 1 => m + n # 0
        OBVIOUS
      <4>2. QED BY Zenon, <2>2, <3>1, <3>3, <4>1
    <3>4. QED BY Zenon, <3>1, <3>2, <3>3
  <2>4. QED BY Zenon, <2>3 DEF s
<1>4. ASSUME NEW j \in Items, contains(b, j) PROVE contains(a, j)
  <2>1. ASSUME NEW p \in 1..Len(Probes[j]) PROVE get_counter(a, Probes[j][p]) # 0
    <3>1. Probes[j][p] \in Slots /\ get_counter(b, Probes[j][p]) # 0
      BY Zenon, <1>4, ProbeType DEF contains
    <3>2. QED BY <1>1, <3>1
  <2>2. QED BY ZenonT(30), <2>1 DEF contains
<1>5. QED BY Zenon, <1>2, <1>3, <1>4 DEF contains, a

-----------------------------------------------------------------------------
(* The counting Bloom filter *)

(* The additions that FoundUntilFaded counts on, for one slot: which item, the how
   manieth addition that is still fresh, and the round that came to the slot. *)
Tokens(fr, s) ==
  {t \in Items \X Nat \X Nat : t[2] \in 1..fr[t[1]] /\ t[3] \in Uses(t[1], s)}

Ceiling(n) == <<16, 8, 4, 2, 1>>[n + 1]

FilterInv ==
  /\ bytes \in Packed /\ fresh \in [Items -> Nat] /\ aged \in 0..4 /\ overflowed \in BOOLEAN
  /\ \A s \in Slots : IsFiniteSet(Tokens(fresh, s))
  /\ ~overflowed => \A s \in Slots : Cardinality(Tokens(fresh, s)) <= get_counter(bytes, s)
  /\ \A s \in Slots : get_counter(bytes, s) < Ceiling(aged)

(* One addition's tokens are as many as its uses of the slot. *)
LEMMA TokensOfOne ==
  ASSUME NEW i \in Items, NEW k \in Nat, NEW s
  PROVE  LET T == {i} \X {k} \X Uses(i, s)
         IN  IsFiniteSet(T) /\ Cardinality(T) = Cardinality(Uses(i, s))
<1> DEFINE U == Uses(i, s)
           T == {i} \X {k} \X U
           f == [p \in U |-> <<i, k, p>>]
<1>1. IsFiniteSet(U)
  BY Zenon, UsesProbes
<1> HIDE DEF U
<1>2. f \in Bijection(U, T)
  <2>1. f \in [U -> T]
    BY Zenon
  <2>2. \A p, q \in U : f[p] = f[q] => p = q
    OBVIOUS
  <2>3. \A t \in T : \E p \in U : f[p] = t
    OBVIOUS
  <2> HIDE DEF f, T
  <2>4. QED BY Zenon, <2>1, <2>2, <2>3 DEF Bijection, Injection, Surjection, IsInjective
<1> HIDE DEF f, T
<1>3. ExistsBijection(U, T)
  BY Zenon, <1>2 DEF ExistsBijection
<1>4. IsFiniteSet(T) /\ Cardinality(T) = Cardinality(U)
  BY Zenon, <1>1, <1>3, FS_Bijection
<1>5. QED BY Zenon, <1>4 DEF T, U

(* An addition and a removal change the tokens by those of one addition. *)
LEMMA TokensAdded ==
  ASSUME NEW fr \in [Items -> Nat], NEW i \in Items, NEW s, IsFiniteSet(Tokens(fr, s))
  PROVE  LET gr == [fr EXCEPT ![i] = @ + 1]
         IN  /\ IsFiniteSet(Tokens(gr, s))
             /\ Cardinality(Tokens(gr, s)) = Cardinality(Tokens(fr, s)) + Cardinality(Uses(i, s))
<1> DEFINE gr == [fr EXCEPT ![i] = @ + 1]
           A == Tokens(fr, s)
           T == {i} \X {fr[i] + 1} \X Uses(i, s)
<1>1. gr \in [Items -> Nat] /\ gr[i] = fr[i] + 1 /\ fr[i] \in Nat /\ \A j \in Items : j # i => gr[j] = fr[j]
  OBVIOUS
<1>2. \A p \in Uses(i, s) : p \in Nat
  BY DEF Uses, UsesUpTo
<1>3. \A n \in 1..(fr[i] + 1) : n \in 1..fr[i] \/ n = fr[i] + 1
  BY <1>1
<1>4. fr[i] + 1 \notin 1..fr[i] /\ fr[i] + 1 \in 1..(fr[i] + 1) /\ fr[i] + 1 \in Nat
      /\ \A n \in 1..fr[i] : n \in 1..(fr[i] + 1)
  BY <1>1
<1> HIDE DEF gr
<1>5. Tokens(gr, s) = A \cup T
  <2>1. ASSUME NEW t \in Tokens(gr, s) PROVE t \in A \cup T
    <3>1. t \in Items \X Nat \X Nat /\ t[2] \in 1..gr[t[1]] /\ t[3] \in Uses(t[1], s)
      BY Zenon, <2>1 DEF Tokens
    <3>2. t = <<t[1], t[2], t[3]>> /\ t[1] \in Items
      BY <3>1
    <3>3. CASE t[1] # i
      BY Zenon, <1>1, <3>1, <3>2, <3>3 DEF Tokens
    <3>4. CASE t[1] = i /\ t[2] \in 1..fr[i]
      BY Zenon, <3>1, <3>2, <3>4 DEF Tokens
    <3>5. CASE t[1] = i /\ t[2] = fr[i] + 1
      BY Zenon, <3>1, <3>2, <3>5
    <3>6. QED BY Zenon, <1>1, <1>3, <3>1, <3>3, <3>4, <3>5
  <2>2. ASSUME NEW t \in A PROVE t \in Tokens(gr, s)
    <3>1. t \in Items \X Nat \X Nat /\ t[2] \in 1..fr[t[1]] /\ t[3] \in Uses(t[1], s)
      BY Zenon, <2>2 DEF Tokens
    <3>2. t[1] \in Items
      BY Zenon, <3>1
    <3>3. t[2] \in 1..gr[t[1]]
      BY Zenon, <1>1, <1>4, <3>1, <3>2
    <3>4. QED BY Zenon, <3>1, <3>3 DEF Tokens
  <2>3. ASSUME NEW t \in T PROVE t \in Tokens(gr, s)
    <3>1. PICK p \in Uses(i, s) : t = <<i, fr[i] + 1, p>>
      BY <2>3
    <3>2. t[1] = i /\ t[2] = fr[i] + 1 /\ t[3] = p /\ t \in Items \X Nat \X Nat
      BY Zenon, <1>2, <1>4, <3>1
    <3>3. QED BY Zenon, <1>1, <1>4, <3>2 DEF Tokens
  <2>4. QED BY Zenon, <2>1, <2>2, <2>3
<1>6. A \cap T = {}
  <2> SUFFICES ASSUME NEW t \in A, t \in T PROVE FALSE
    BY Zenon
  <2>1. t[1] = i /\ t[2] = fr[i] + 1
    BY Zenon
  <2>2. QED BY Zenon, <1>4, <2>1 DEF Tokens
<1>7. IsFiniteSet(T) /\ Cardinality(T) = Cardinality(Uses(i, s))
  BY Zenon, <1>4, TokensOfOne
<1> HIDE DEF A, T
<1>8. IsFiniteSet(A \cup T) /\ Cardinality(A \cup T) = Cardinality(A) + Cardinality(T)
  <2>1. IsFiniteSet(A)
    BY Zenon DEF A
  <2>2. Cardinality(A \cup T) = Cardinality(A) + Cardinality(T) - Cardinality({}) /\ IsFiniteSet(A \cup T)
    BY <1>6, <1>7, <2>1, FS_Union
  <2>3. Cardinality({}) = 0
    BY Zenon, FS_EmptySet
  <2>4. Cardinality(A) \in Nat /\ Cardinality(T) \in Nat
    BY Zenon, <1>7, <2>1, FS_CardinalityType
  <2>5. QED BY <2>2, <2>3, <2>4
<1>9. QED BY Zenon, <1>5, <1>7, <1>8 DEF A, gr

LEMMA TokensRemoved ==
  ASSUME NEW fr \in [Items -> Nat], NEW i \in Items, fr[i] > 0, NEW s,
         IsFiniteSet(Tokens(fr, s))
  PROVE  LET gr == [fr EXCEPT ![i] = @ - 1]
         IN  /\ IsFiniteSet(Tokens(gr, s))
             /\ Cardinality(Tokens(fr, s)) = Cardinality(Tokens(gr, s)) + Cardinality(Uses(i, s))
<1> DEFINE gr == [fr EXCEPT ![i] = @ - 1]
<1>1. gr \in [Items -> Nat] /\ fr = [gr EXCEPT ![i] = @ + 1]
  <2>1. gr \in [Items -> Nat] /\ gr[i] + 1 = fr[i] /\ \A j \in Items : j # i => gr[j] = fr[j]
    OBVIOUS
  <2> HIDE DEF gr
  <2> DEFINE hr == [gr EXCEPT ![i] = @ + 1]
  <2>2. hr = [j \in Items |-> hr[j]] /\ fr = [j \in Items |-> fr[j]]
    BY Zenon, <2>1
  <2>3. \A j \in Items : hr[j] = fr[j]
    BY Zenon, <2>1
  <2> HIDE DEF hr
  <2>4. hr = fr
    BY Zenon, <2>2, <2>3
  <2>5. QED BY Zenon, <2>1, <2>4 DEF hr
<1>2. \A j \in Items : 1..gr[j] \subseteq 1..fr[j]
  <2> SUFFICES ASSUME NEW j \in Items, NEW n \in 1..gr[j] PROVE n \in 1..fr[j]
    BY Zenon
  <2>1. gr[j] \in Nat /\ fr[j] \in Nat /\ gr[j] <= fr[j]
    OBVIOUS
  <2> HIDE DEF gr
  <2>2. QED BY <2>1
<1> HIDE DEF gr
<1>3. Tokens(gr, s) \in SUBSET Tokens(fr, s)
  <2>1. ASSUME NEW t \in Tokens(gr, s) PROVE t \in Tokens(fr, s)
    <3>1. t \in Items \X Nat \X Nat /\ t[2] \in 1..gr[t[1]] /\ t[3] \in Uses(t[1], s)
      BY Zenon, <2>1 DEF Tokens
    <3>2. t[1] \in Items
      BY <3>1
    <3>3. t[2] \in 1..fr[t[1]]
      BY Zenon, <1>2, <3>1, <3>2
    <3>4. QED BY Zenon, <3>1, <3>3 DEF Tokens
  <2>2. QED BY Zenon, <2>1
<1>4. IsFiniteSet(Tokens(gr, s))
  BY Zenon, <1>3, FS_Subset
<1>5. Cardinality(Tokens([gr EXCEPT ![i] = @ + 1], s))
        = Cardinality(Tokens(gr, s)) + Cardinality(Uses(i, s))
  BY ZenonT(30), <1>1, <1>4, TokensAdded
<1>6. QED BY Zenon, <1>1, <1>4, <1>5 DEF gr

LEMMA NoTokens ==
  ASSUME NEW s
  PROVE  LET none == [i \in Items |-> 0]
         IN  IsFiniteSet(Tokens(none, s)) /\ Cardinality(Tokens(none, s)) = 0
<1> DEFINE none == [i \in Items |-> 0]
<1>1. \A i \in Items : 1..none[i] = {}
  OBVIOUS
<1> HIDE DEF none
<1>2. Tokens(none, s) = {}
  <2> SUFFICES ASSUME NEW t \in Tokens(none, s) PROVE FALSE
    BY Zenon
  <2>1. t \in Items \X Nat \X Nat /\ t[2] \in 1..none[t[1]]
    BY Zenon DEF Tokens
  <2>2. t[1] \in Items
    BY <2>1
  <2>3. QED BY Zenon, <1>1, <2>1, <2>2
<1>3. QED BY Zenon, <1>2, FS_EmptySet DEF none

(* decay() shifts every counter; what was below 2^(4-a) comes below 2^(4-a-shift). *)
LEMMA ShiftedNibbles ==
  ASSUME NEW n \in 0..255, NEW d \in {2, 4, 8}
  PROVE  LET hi == (n \div 16) \div d
             lo == (n % 16) \div d
         IN  /\ hi * 16 + lo \in 0..255 /\ (hi * 16 + lo) % 16 = lo /\ (hi * 16 + lo) \div 16 = hi
<1> DEFINE hi == (n \div 16) \div d
           lo == (n % 16) \div d
<1>1. n \div 16 \in 0..15 /\ n % 16 \in 0..15
  OBVIOUS
<1>2. \A c \in 0..15 : c \div 2 \in 0..15 /\ c \div 4 \in 0..15 /\ c \div 8 \in 0..15
  OBVIOUS
<1>3. hi \in 0..15 /\ lo \in 0..15
  BY Zenon, <1>1, <1>2
<1> HIDE DEF hi, lo
<1>4. hi * 16 + lo \in 0..255 /\ (hi * 16 + lo) % 16 = lo /\ (hi * 16 + lo) \div 16 = hi
  BY <1>3
<1>5. QED BY Zenon, <1>4 DEF hi, lo

LEMMA DecayCounter ==
  ASSUME NEW b \in Packed, NEW shift \in 1..3, NEW s \in Slots
  PROVE  /\ decay(b, shift) \in Packed
         /\ get_counter(decay(b, shift), s) = Shifted(get_counter(b, s), shift)
<1> DEFINE d == <<2, 4, 8>>[shift]
           a == decay(b, shift)
           D == 0..(num_slots \div 2) - 1
<1>1. d \in {2, 4, 8} /\ shift # 0 /\ ~(shift >= 4)
  OBVIOUS
<1>2. DOMAIN b = D /\ \A i \in D : b[i] \in 0..255
  BY Zenon DEF Packed
<1>3. a = [i \in D |-> ((b[i] \div 16) \div d) * 16 + ((b[i] % 16) \div d)]
  BY Zenon, <1>1, <1>2 DEF decay, Shifted
<1> HIDE DEF d, a
<1>4. \A i \in D : /\ a[i] \in 0..255 /\ a[i] % 16 = (b[i] % 16) \div d
                   /\ a[i] \div 16 = (b[i] \div 16) \div d
  <2> SUFFICES ASSUME NEW i \in D
               PROVE  /\ a[i] \in 0..255 /\ a[i] % 16 = (b[i] % 16) \div d
                      /\ a[i] \div 16 = (b[i] \div 16) \div d
    BY Zenon
  <2> DEFINE n == b[i]
             hi == (n \div 16) \div d
             lo == (n % 16) \div d
  <2>1. n \in 0..255 /\ a[i] = hi * 16 + lo
    BY Zenon, <1>2, <1>3
  <2> HIDE DEF n
  <2>2. /\ hi * 16 + lo \in 0..255 /\ (hi * 16 + lo) % 16 = lo /\ (hi * 16 + lo) \div 16 = hi
    BY <1>1, <2>1, ShiftedNibbles
  <2> HIDE DEF hi, lo
  <2>3. QED BY ZenonT(30), <2>1, <2>2 DEF hi, lo, n
<1>5. a \in Packed
  BY ZenonT(30), <1>3, <1>4 DEF Packed
<1>6. s \div 2 \in D
  BY Zenon, SlotPlace
<1>7. get_counter(a, s) = get_counter(b, s) \div d
  <2>1. CASE s % 2 = 0
    BY Zenon, <1>4, <1>6, <2>1 DEF get_counter
  <2>2. CASE s % 2 # 0
    BY Zenon, <1>4, <1>6, <2>2 DEF get_counter
  <2>3. QED BY Zenon, <2>1, <2>2
<1>8. QED BY Zenon, <1>5, <1>7 DEF Shifted, a, d

LEMMA CeilingFalls ==
  ASSUME NEW n \in 0..4, NEW shift \in 1..3, NEW c \in 0..15, c < Ceiling(n)
  PROVE  Shifted(c, shift) < Ceiling(IF n + shift >= 4 THEN 4 ELSE n + shift)
<1>1. /\ Ceiling(0) = 16 /\ Ceiling(1) = 8 /\ Ceiling(2) = 4 /\ Ceiling(3) = 2 /\ Ceiling(4) = 1
  BY DEF Ceiling
<1>2. CASE shift = 1
  <2>1. Shifted(c, shift) = c \div 2
    BY <1>2 DEF Shifted
  <2>2. QED BY <1>1, <1>2, <2>1
<1>3. CASE shift = 2
  <2>1. Shifted(c, shift) = c \div 4
    BY <1>3 DEF Shifted
  <2>2. QED BY <1>1, <1>3, <2>1
<1>4. CASE shift = 3
  <2>1. Shifted(c, shift) = c \div 8
    BY <1>4 DEF Shifted
  <2>2. QED BY <1>1, <1>4, <2>1
<1>5. QED BY <1>2, <1>3, <1>4

LEMMA NoCounts ==
  NoBytes \in Packed /\ \A s \in Slots : get_counter(NoBytes, s) = 0
<1>1. NoBytes \in Packed
  BY DEF NoBytes, Packed
<1>2. ASSUME NEW s \in Slots PROVE get_counter(NoBytes, s) = 0
  <2>1. NoBytes[s \div 2] = 0
    BY Zenon, SlotPlace DEF NoBytes
  <2>2. QED BY <2>1 DEF get_counter
<1>3. QED BY Zenon, <1>1, <1>2

LEMMA FilterStart == FilterInit => FilterInv
<1> SUFFICES ASSUME FilterInit PROVE FilterInv
  OBVIOUS
<1>1. /\ bytes = NoBytes /\ fresh = [i \in Items |-> 0] /\ aged = 4 /\ overflowed = FALSE
  BY Zenon DEF FilterInit
<1>2. \A s \in Slots : IsFiniteSet(Tokens(fresh, s)) /\ Cardinality(Tokens(fresh, s)) = 0
  BY Zenon, <1>1, NoTokens
<1>3. bytes \in Packed /\ \A s \in Slots : get_counter(bytes, s) = 0
  BY Zenon, <1>1, NoCounts
<1>4. fresh \in [Items -> Nat] /\ aged \in 0..4 /\ 0 < Ceiling(aged) /\ 0 <= 0
  BY <1>1 DEF Ceiling
<1>5. QED BY Zenon, <1>1, <1>2, <1>3, <1>4 DEF FilterInv

LEMMA FilterStep ==
  ASSUME RemoveAbsent = FALSE, FilterInv, [FilterNext]_filter_vars
  PROVE  FilterInv'
<1>0. /\ bytes \in Packed /\ fresh \in [Items -> Nat] /\ aged \in 0..4 /\ overflowed \in BOOLEAN
      /\ \A s \in Slots : IsFiniteSet(Tokens(fresh, s))
      /\ ~overflowed => \A s \in Slots : Cardinality(Tokens(fresh, s)) <= get_counter(bytes, s)
      /\ \A s \in Slots : get_counter(bytes, s) < Ceiling(aged)
  BY Zenon DEF FilterInv
<1>8. \A s \in Slots : get_counter(bytes, s) \in 0..15 /\ Cardinality(Tokens(fresh, s)) \in Nat
  BY Zenon, <1>0, CounterType, FS_CardinalityType
<1> DEFINE Good(b, fr, n, o) ==
      /\ b \in Packed /\ fr \in [Items -> Nat] /\ n \in 0..4 /\ o \in BOOLEAN
      /\ \A s \in Slots : IsFiniteSet(Tokens(fr, s))
      /\ ~o => \A s \in Slots : Cardinality(Tokens(fr, s)) <= get_counter(b, s)
      /\ \A s \in Slots : get_counter(b, s) < Ceiling(n)
<1>9. ASSUME Good(bytes', fresh', aged', overflowed') PROVE FilterInv'
  BY Zenon, <1>9 DEF FilterInv, Tokens, Uses, UsesUpTo, Ceiling, Packed, get_counter
<1>1. ASSUME NEW i \in Items, AddItem(i) PROVE FilterInv'
  <2>1. /\ bytes' = add(bytes, i) /\ fresh' = [fresh EXCEPT ![i] = @ + 1] /\ aged' = 0
        /\ overflowed' = (overflowed \/ \E slot \in Slots : get_counter(bytes', slot) = kCounterMax)
    BY Zenon, <1>1 DEF AddItem
  <2>2. bytes' \in Packed /\ fresh' \in [Items -> Nat] /\ aged' \in 0..4 /\ overflowed' \in BOOLEAN
    <3>1. fresh' \in [Items -> Nat] /\ aged' \in 0..4
      BY <1>0, <2>1
    <3>2. QED BY Zenon, <1>0, <2>1, <3>1, AddIsFound
  <2>3. ASSUME NEW s \in Slots
        PROVE  /\ IsFiniteSet(Tokens(fresh', s)) /\ get_counter(bytes', s) < Ceiling(aged')
               /\ ~overflowed' => Cardinality(Tokens(fresh', s)) <= get_counter(bytes', s)
    <3>1. /\ IsFiniteSet(Tokens(fresh', s))
          /\ Cardinality(Tokens(fresh', s)) = Cardinality(Tokens(fresh, s)) + Cardinality(Uses(i, s))
      BY Zenon, <1>0, <2>1, TokensAdded
    <3>2. /\ get_counter(bytes', s) \in 0..15
          /\ \/ get_counter(bytes', s) = 15
             \/ get_counter(bytes', s) = get_counter(bytes, s) + Cardinality(Uses(i, s))
      BY Zenon, <1>0, <2>1, AddCounts
    <3>3. get_counter(bytes', s) < Ceiling(aged')
      BY <2>1, <3>2 DEF Ceiling
    <3>4. ASSUME ~overflowed' PROVE Cardinality(Tokens(fresh', s)) <= get_counter(bytes', s)
      <4>1. ~overflowed /\ get_counter(bytes', s) # 15
        BY Zenon, <2>1, <3>4 DEF kCounterMax
      <4>2. Cardinality(Tokens(fresh, s)) <= get_counter(bytes, s)
        BY Zenon, <1>0, <4>1
      <4>3. Cardinality(Uses(i, s)) \in Nat
        BY Zenon, UsesProbes
      <4>4. QED BY <1>8, <3>1, <3>2, <4>1, <4>2, <4>3
    <3>5. QED BY Zenon, <3>1, <3>3, <3>4
  <2>4. QED BY Zenon, <1>9, <2>2, <2>3
<1>2. ASSUME NEW i \in Items, RemoveItem(i) PROVE FilterInv'
  <2>1. /\ fresh[i] > 0 /\ bytes' = remove(bytes, i) /\ fresh' = [fresh EXCEPT ![i] = @ - 1]
        /\ aged' = aged /\ overflowed' = overflowed
    BY Zenon, <1>2 DEF RemoveItem
  <2>2. fresh' \in [Items -> Nat]
    BY <1>0, <2>1
  <2>3. ASSUME NEW s \in Slots
        PROVE  /\ IsFiniteSet(Tokens(fresh', s)) /\ get_counter(bytes', s) < Ceiling(aged)
               /\ ~overflowed => Cardinality(Tokens(fresh', s)) <= get_counter(bytes', s)
    <3>1. /\ IsFiniteSet(Tokens(fresh', s))
          /\ Cardinality(Tokens(fresh, s)) = Cardinality(Tokens(fresh', s)) + Cardinality(Uses(i, s))
      BY Zenon, <1>0, <2>1, TokensRemoved
    <3>2. /\ get_counter(bytes', s) \in 0..15 /\ get_counter(bytes', s) <= get_counter(bytes, s)
          /\ get_counter(bytes', s) + Cardinality(Uses(i, s)) >= get_counter(bytes, s)
      BY Zenon, <1>0, <2>1, RemoveCounts
    <3>3. Ceiling(aged) \in Nat
      BY <1>0 DEF Ceiling
    <3>4. get_counter(bytes', s) < Ceiling(aged)
      BY <1>0, <1>8, <3>2, <3>3
    <3>5. Cardinality(Uses(i, s)) \in Nat /\ Cardinality(Tokens(fresh', s)) \in Nat
      BY ZenonT(30), <3>1, UsesProbes, FS_CardinalityType
    <3>6. ASSUME ~overflowed PROVE Cardinality(Tokens(fresh', s)) <= get_counter(bytes', s)
      <4>1. Cardinality(Tokens(fresh, s)) <= get_counter(bytes, s)
        BY Zenon, <1>0, <3>6
      <4>2. QED BY <1>8, <3>1, <3>2, <3>5, <4>1
    <3>7. QED BY Zenon, <3>1, <3>4, <3>6
  <2>4. bytes' \in Packed
    <3>1. 0 \in Slots
      BY BloomAssumption DEF Slots
    <3>2. QED BY Zenon, <1>0, <2>1, <3>1, RemoveCounts
  <2>5. QED BY ZenonT(30), <1>0, <1>9, <2>1, <2>2, <2>3, <2>4
<1>3. ASSUME bytes' = NoBytes, fresh' = [i \in Items |-> 0], aged' \in 0..4,
             overflowed' = overflowed
      PROVE  FilterInv'
  <2>1. \A s \in Slots : IsFiniteSet(Tokens(fresh', s)) /\ Cardinality(Tokens(fresh', s)) = 0
    BY Zenon, <1>3, NoTokens
  <2>2. bytes' \in Packed /\ \A s \in Slots : get_counter(bytes', s) = 0
    BY Zenon, <1>3, NoCounts
  <2>3. fresh' \in [Items -> Nat] /\ 0 < Ceiling(aged') /\ 0 <= 0
    <3>1. \A n \in 0..4 : 0 < Ceiling(n)
      BY DEF Ceiling
    <3>2. fresh' \in [Items -> Nat] /\ 0 <= 0
      BY <1>3
    <3>3. QED BY Zenon, <1>3, <3>1, <3>2
  <2>4. QED BY Zenon, <1>0, <1>3, <1>9, <2>1, <2>2, <2>3
<1>4. ASSUME NEW shift \in Shifts, Decay(shift) PROVE FilterInv'
  <2>0. shift \in Nat
    BY Zenon, UseAssumption
  <2>1. /\ bytes' = decay(bytes, shift) /\ overflowed' = overflowed
        /\ fresh' = IF shift = 0 THEN fresh ELSE [i \in Items |-> 0]
        /\ aged' = IF aged + shift >= 4 THEN 4 ELSE aged + shift
    BY Zenon, <1>4 DEF Decay
  <2>2. CASE shift = 0
    <3>1. bytes' = bytes /\ fresh' = fresh
      BY Zenon, <2>1, <2>2 DEF decay
    <3>2. aged' = aged
      BY <1>0, <2>1, <2>2
    <3>3. QED BY Zenon, <1>0, <1>9, <2>1, <3>1, <3>2
  <2>3. CASE shift >= 4
    <3>1. shift # 0 /\ aged' \in 0..4
      BY <1>0, <2>0, <2>1, <2>3
    <3>2. bytes' = NoBytes /\ fresh' = [i \in Items |-> 0]
      BY Zenon, <2>1, <2>3, <3>1 DEF decay
    <3>3. QED BY Zenon, <1>3, <2>1, <3>1, <3>2
  <2>4. CASE shift \in 1..3
    <3>1. shift # 0 /\ aged' \in 0..4
      BY <1>0, <2>1, <2>4
    <3>2. fresh' = [i \in Items |-> 0]
      BY Zenon, <2>1, <3>1
    <3>3. \A s \in Slots : IsFiniteSet(Tokens(fresh', s)) /\ Cardinality(Tokens(fresh', s)) = 0
      BY Zenon, <3>2, NoTokens
    <3>4. \A s \in Slots : get_counter(bytes', s) = Shifted(get_counter(bytes, s), shift)
      BY Zenon, <1>0, <2>1, <2>4, DecayCounter
    <3>5. bytes' \in Packed /\ fresh' \in [Items -> Nat]
      <4>1. 0 \in Slots
        BY BloomAssumption DEF Slots
      <4>2. bytes' \in Packed
        BY ZenonT(30), <1>0, <2>1, <2>4, <4>1, DecayCounter
      <4>3. QED BY <3>2, <4>2
    <3>6. \A s \in Slots : get_counter(bytes', s) < Ceiling(aged')
      BY ZenonT(30), <1>0, <1>8, <2>1, <2>4, <3>4, CeilingFalls
    <3>7. \A s \in Slots : 0 <= get_counter(bytes', s)
      <4>1. \A s \in Slots : get_counter(bytes', s) \in 0..15
        BY Zenon, <3>5, CounterType
      <4>2. QED BY <4>1
    <3>8. QED BY ZenonT(30), <1>0, <1>9, <2>1, <3>1, <3>3, <3>5, <3>6, <3>7
  <2>5. QED BY <2>0, <2>2, <2>3, <2>4
<1>5. CASE ClearFilter
  <2>1. bytes' = NoBytes /\ fresh' = [i \in Items |-> 0] /\ aged' = 4 /\ overflowed' = overflowed
    BY Zenon, <1>5 DEF ClearFilter
  <2>2. 4 \in 0..4
    OBVIOUS
  <2>3. QED BY Zenon, <1>3, <2>1, <2>2
<1>6. CASE UNCHANGED filter_vars
  <2>1. bytes' = bytes /\ fresh' = fresh /\ aged' = aged /\ overflowed' = overflowed
    BY Zenon, <1>6 DEF filter_vars
  <2>2. QED BY Zenon, <1>0, <1>9, <2>1
<1>7. QED BY Zenon, <1>1, <1>2, <1>4, <1>5, <1>6 DEF FilterNext

(* contains() has no false negatives and decay() empties the filter, for every number
   of items, slots and probes, while nothing is removed that was not added. *)
THEOREM AddedIsFound ==
  ASSUME RemoveAbsent = FALSE
  PROVE  FilterSpec => []FoundUntilFaded
<1>1. FilterInv => FoundUntilFaded
  <2> SUFFICES ASSUME FilterInv PROVE FoundUntilFaded
    OBVIOUS
  <2>1. ASSUME ~overflowed, NEW i \in Items, fresh[i] > 0 PROVE contains(bytes, i)
    <3> SUFFICES ASSUME NEW p \in 1..Len(Probes[i]) PROVE get_counter(bytes, Probes[i][p]) # 0
      BY Zenon DEF contains
    <3> DEFINE s == Probes[i][p]
               t == <<i, 1, p>>
               A == Tokens(fresh, s)
    <3>1. s \in Slots /\ Len(Probes[i]) \in Nat
      BY Zenon, ProbeType
    <3>2. t \in Items \X Nat \X Nat /\ t[1] = i /\ t[2] = 1 /\ t[3] = p
      BY <3>1
    <3>3. 1 \in 1..fresh[i]
      BY <2>1 DEF FilterInv
    <3>4. p \in Uses(i, s)
      BY Zenon DEF Uses, UsesUpTo
    <3> HIDE DEF t
    <3>5. t \in A
      BY Zenon, <3>2, <3>3, <3>4 DEF Tokens
    <3>6. IsFiniteSet(A) /\ Cardinality(A) <= get_counter(bytes, s) /\ bytes \in Packed
      BY Zenon, <2>1, <3>1 DEF FilterInv
    <3>7. Cardinality(A) \in Nat /\ Cardinality(A) # 0
      BY Zenon, <3>5, <3>6, FS_CardinalityType, FS_EmptySet
    <3>8. get_counter(bytes, s) \in 0..15
      BY ZenonT(30), <3>1, <3>6, CounterType
    <3> HIDE DEF A, s
    <3>9. get_counter(bytes, s) # 0
      BY <3>6, <3>7, <3>8
    <3>10. QED BY Zenon, <3>9 DEF s
  <2>2. QED BY Zenon, <2>1 DEF FilterInv, FoundUntilFaded, Ceiling
<1>2. FilterInv /\ [FilterNext]_filter_vars => FilterInv'
  BY ZenonT(30), FilterStep
<1>3. QED BY <1>1, <1>2, FilterStart, PTL DEF FilterSpec

-----------------------------------------------------------------------------
(* The bans of the connection gate *)

(* Who was blacklisted since the last decay is found in the blacklist. *)
BanInv ==
  /\ blacklist \in Packed /\ banned \in SUBSET Items /\ DOMAIN admitted = Items
  /\ \A ip \in banned : contains(blacklist, ip)

LEMMA BanStep ==
  ASSUME BanInv, [GateNext]_gate_vars
  PROVE  BanInv' /\ \A ip \in banned : admitted'[ip] \subseteq admitted[ip]
<1>0. /\ blacklist \in Packed /\ banned \in SUBSET Items /\ DOMAIN admitted = Items
      /\ \A ip \in banned : contains(blacklist, ip)
  BY Zenon DEF BanInv
<1> DEFINE Good(b, out, A) ==
      /\ b \in Packed /\ out \in SUBSET Items /\ DOMAIN A = Items
      /\ \A ip \in out : contains(b, ip)
      /\ \A ip \in banned : A[ip] \subseteq admitted[ip]
<1>1. ASSUME Good(blacklist', banned', admitted')
      PROVE  BanInv' /\ \A ip \in banned : admitted'[ip] \subseteq admitted[ip]
  BY Zenon, <1>1 DEF BanInv, Packed, contains, get_counter
<1>2. CASE Tick
  <2>1. /\ blacklist' = blacklist /\ banned' = banned
        /\ admitted' = [ip \in Items |-> {a \in admitted[ip] : a.at + Window > now'}]
    BY Zenon, <1>2 DEF Tick
  <2>2. DOMAIN admitted' = Items /\ \A ip \in Items : admitted'[ip] \subseteq admitted[ip]
    BY Zenon, <2>1
  <2>3. QED BY Zenon, <1>0, <1>1, <2>1, <2>2
<1>3. CASE Sweep
  <2>1. blacklist' = decay(blacklist, 1) /\ banned' = {} /\ admitted' = admitted
    BY Zenon, <1>3 DEF Sweep
  <2>2. 0 \in Slots /\ 1 \in 1..3
    BY BloomAssumption DEF Slots
  <2>3. blacklist' \in Packed
    BY Zenon, <1>0, <2>1, <2>2, DecayCounter
  <2>4. QED BY Zenon, <1>0, <1>1, <2>1, <2>3
<1>4. ASSUME NEW ip \in Items, Accept(ip)
      PROVE  BanInv' /\ \A q \in banned : admitted'[q] \subseteq admitted[q]
  <2>1. CASE UNCHANGED gate_vars
    <3>1. blacklist' = blacklist /\ banned' = banned /\ admitted' = admitted
      BY Zenon, <2>1 DEF gate_vars
    <3>2. QED BY Zenon, <1>0, <1>1, <3>1
  <2>2. CASE ~Banned(ip) /\ blacklist' = add(blacklist, ip) /\ banned' = banned \cup {ip}
             /\ admitted' = admitted
    <3>1. /\ blacklist' \in Packed /\ contains(blacklist', ip)
          /\ \A q \in Items : contains(blacklist, q) => contains(blacklist', q)
      BY Zenon, <1>0, <2>2, AddIsFound
    <3>2. banned' \in SUBSET Items /\ \A q \in banned' : contains(blacklist', q)
      BY Zenon, <1>0, <2>2, <3>1
    <3>3. QED BY ZenonT(30), <1>0, <1>1, <2>2, <3>1, <3>2
  <2>3. CASE ~Banned(ip) /\ blacklist' = blacklist /\ banned' = banned
             /\ admitted' = [admitted EXCEPT ![ip] = @ \cup {Admission(ip)}]
    <3>1. ip \notin banned
      BY Zenon, <1>0, <2>3 DEF Banned
    <3>2. DOMAIN admitted' = Items
      BY Zenon, <1>0, <2>3
    <3>3. ASSUME NEW q \in banned PROVE admitted'[q] = admitted[q]
      <4>1. q # ip /\ q \in DOMAIN admitted
        BY Zenon, <1>0, <3>1
      <4>2. QED BY Zenon, <2>3, <4>1
    <3>4. \A q \in banned : admitted'[q] \subseteq admitted[q]
      BY Zenon, <3>3
    <3>5. QED BY Zenon, <1>0, <1>1, <2>3, <3>2, <3>4
  <2>4. QED BY Zenon, <1>4, <2>1, <2>2, <2>3 DEF Accept
<1>5. CASE UNCHANGED gate_vars
  <2>1. blacklist' = blacklist /\ banned' = banned /\ admitted' = admitted
    BY Zenon, <1>5 DEF gate_vars
  <2>2. QED BY Zenon, <1>0, <1>1, <2>1
<1>6. QED BY Zenon, <1>2, <1>3, <1>4, <1>5 DEF GateNext

(* Gate 2 lets nothing through from an address that is banned, until the decay of
   sweep_ip_rate(), whatever else is added to the counters it shares. *)
THEOREM BansHold == GateSpec => BanHolds
<1>1. GateInit => BanInv
  <2> SUFFICES ASSUME GateInit PROVE BanInv
    OBVIOUS
  <2>1. blacklist = NoBytes /\ banned = {} /\ admitted = [ip \in Items |-> {}]
    BY Zenon DEF GateInit
  <2>2. blacklist \in Packed
    BY Zenon, <2>1, NoCounts
  <2>3. QED BY Zenon, <2>1, <2>2 DEF BanInv
<1>2. BanInv /\ [GateNext]_gate_vars => BanInv'
  BY BanStep
<1>3. BanInv /\ [GateNext]_gate_vars => [\A ip \in banned : admitted'[ip] \subseteq admitted[ip]]_gate_vars
  BY BanStep
<1>4. QED BY <1>1, <1>2, <1>3, PTL DEF GateSpec, BanHolds

=============================================================================

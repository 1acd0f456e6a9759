--------------------------- MODULE ServingProofs ----------------------------
(***************************************************************************)
(* Three structures that the servers work with, for every value of their   *)
(* constants: the LRU file cache, the changes that the kqueue poller       *)
(* buffers, and the framing of requests.  Each has an inductive invariant  *)
(* and a lemma that a step keeps it.                                       *)
(***************************************************************************)
EXTENDS FileCache, KqueuePoller, RequestScan, TLAPS

-----------------------------------------------------------------------------
(* The LRU file cache *)

LEMMA Joined ==
  ASSUME NEW S, NEW b \in Seq(S), NEW c \in Seq(S)
  PROVE  /\ b \o c \in Seq(S) /\ Len(b \o c) = Len(b) + Len(c)
         /\ \A i \in 1..Len(b) : (b \o c)[i] = b[i]
         /\ \A i \in 1..Len(c) : (b \o c)[Len(b) + i] = c[i]
OBVIOUS

Pairs == Keys \X Nat
Listed(es) == {es[i][1] : i \in 1..Len(es)}
Ordered(es, when) ==
  \A i, j \in 1..Len(es) : i < j => when[es[i][1]] > when[es[j][1]]

(* r is es without its i-th entry. *)
Dropped(r, es, i) ==
  /\ r \in Seq(Pairs) /\ Len(r) = Len(es) - 1
  /\ \A j \in 1..Len(r) : r[j] = IF j < i THEN es[j] ELSE es[j + 1]

LEMMA DropBy ==
  ASSUME NEW es \in Seq(Pairs), NEW i \in 1..Len(es)
  PROVE  Dropped(Unlinked(es, i), es, i)
<1> DEFINE p == SubSeq(es, 1, i-1)
           q == SubSeq(es, i+1, Len(es))
           r == p \o q
<1>1. i \in Nat /\ i >= 1 /\ Len(es) \in Nat /\ i <= Len(es)
  OBVIOUS
<1>2. p \in Seq(Pairs) /\ Len(p) = i - 1 /\ \A j \in 1..(i - 1) : p[j] = es[j]
  BY <1>1
<1>3. q \in Seq(Pairs) /\ Len(q) = Len(es) - i /\ \A j \in 1..(Len(es) - i) : q[j] = es[i + j]
  BY <1>1
<1> HIDE DEF p, q
<1>4. /\ r \in Seq(Pairs) /\ Len(r) = Len(p) + Len(q)
      /\ \A j \in 1..Len(p) : r[j] = p[j]
      /\ \A j \in 1..Len(q) : r[Len(p) + j] = q[j]
  <2>1. p \in Seq(Pairs) /\ q \in Seq(Pairs)
    BY Zenon, <1>2, <1>3
  <2>2. QED BY <2>1, Joined
<1> HIDE DEF r
<1>5. ASSUME NEW j \in 1..Len(r) PROVE r[j] = IF j < i THEN es[j] ELSE es[j + 1]
  <2>1. CASE j < i
    <3>1. j \in 1..(i - 1)
      BY <1>1, <2>1
    <3>2. QED BY <1>2, <1>4, <2>1, <3>1
  <2>2. CASE ~(j < i)
    <3>1. /\ j - (i - 1) \in 1..(Len(es) - i) /\ i - 1 + (j - (i - 1)) = j
          /\ i + (j - (i - 1)) = j + 1
      BY <1>1, <1>2, <1>3, <1>4, <2>2
    <3>2. r[j] = q[j - (i - 1)]
      BY <1>2, <1>3, <1>4, <3>1
    <3>3. q[j - (i - 1)] = es[j + 1]
      BY Zenon, <1>3, <3>1
    <3>4. QED BY Zenon, <2>2, <3>2, <3>3
  <2>3. QED BY <2>1, <2>2
<1>6. Len(r) = Len(es) - 1
  BY <1>1, <1>2, <1>3, <1>4
<1>7. Unlinked(es, i) = r
  BY Zenon DEF Unlinked, r, p, q
<1>8. QED BY Zenon, <1>4, <1>5, <1>6, <1>7 DEF Dropped

LEMMA DropBack ==
  ASSUME NEW es \in Seq(Pairs), es # <<>>
  PROVE  Dropped(SubSeq(es, 1, Len(es) - 1), es, Len(es))
<1>1. Len(es) \in Nat /\ Len(es) >= 1
  OBVIOUS
<1>2. SubSeq(es, 1, Len(es) - 1) \in Seq(Pairs) /\ Len(SubSeq(es, 1, Len(es) - 1)) = Len(es) - 1
      /\ \A j \in 1..(Len(es) - 1) : SubSeq(es, 1, Len(es) - 1)[j] = es[j]
  <2> DEFINE n == Len(es) - 1
  <2>1. n \in 0..Len(es)
    BY <1>1
  <2>2. SubSeq(es, 1, Len(es) - 1) = SubSeq(es, 1, n)
    OBVIOUS
  <2> HIDE DEF n
  <2>3. SubSeq(es, 1, n) \in Seq(Pairs) /\ Len(SubSeq(es, 1, n)) = n
        /\ \A j \in 1..n : SubSeq(es, 1, n)[j] = es[j]
    BY <2>1
  <2>4. QED BY Zenon, <2>2, <2>3 DEF n
<1>3. \A j \in 1..(Len(es) - 1) : j < Len(es)
  BY <1>1
<1>4. QED BY Zenon, <1>2, <1>3 DEF Dropped

(* Dropping an entry of an ordered list drops its key, and keeps the order. *)
LEMMA DropKeeps ==
  ASSUME NEW es \in Seq(Pairs), NEW when \in [Keys -> Nat], Ordered(es, when),
         NEW i \in 1..Len(es), NEW r, Dropped(r, es, i)
  PROVE  /\ Ordered(r, when) /\ Listed(r) = Listed(es) \ {es[i][1]}
<1>1. /\ i \in Nat /\ Len(es) \in Nat /\ Len(r) \in Nat /\ Len(r) = Len(es) - 1
      /\ \A j \in 1..Len(r) : r[j] = IF j < i THEN es[j] ELSE es[j + 1]
  BY DEF Dropped
<1> DEFINE src(j) == IF j < i THEN j ELSE j + 1
<1>2. \A j \in 1..Len(r) : src(j) \in 1..Len(es) /\ src(j) # i /\ r[j] = es[src(j)]
  BY <1>1
<1>3. \A j, k \in 1..Len(r) : j < k => src(j) < src(k)
  BY <1>1
<1>4. \A k \in 1..Len(es) : k # i => \E j \in 1..Len(r) : src(j) = k
  <2> SUFFICES ASSUME NEW k \in 1..Len(es), k # i PROVE \E j \in 1..Len(r) : src(j) = k
    OBVIOUS
  <2>1. CASE k < i
    <3>1. k \in 1..Len(r) /\ src(k) = k
      BY <1>1, <2>1
    <3>2. QED BY <3>1
  <2>2. CASE k > i
    <3>1. k - 1 \in 1..Len(r) /\ src(k - 1) = k
      BY <1>1, <2>2
    <3>2. QED BY <3>1
  <2>3. k < i \/ k > i
    BY <1>1
  <2>4. QED BY Zenon, <2>1, <2>2, <2>3
<1> HIDE DEF src
<1>5. Ordered(r, when)
  BY SMTT(30), <1>2, <1>3 DEF Ordered
<1>6. \A k \in 1..Len(es) : es[k][1] = es[i][1] => k = i
  <2> SUFFICES ASSUME NEW k \in 1..Len(es), es[k][1] = es[i][1], k # i PROVE FALSE
    OBVIOUS
  <2>1. k < i \/ i < k
    BY <1>1
  <2>2. when[es[k][1]] \in Nat /\ when[es[i][1]] = when[es[k][1]]
    BY SMTT(30) DEF Pairs
  <2>3. when[es[k][1]] > when[es[i][1]] \/ when[es[i][1]] > when[es[k][1]]
    BY Zenon, <2>1 DEF Ordered
  <2>4. QED BY <2>2, <2>3
<1>7. ASSUME NEW x \in Listed(r) PROVE x \in Listed(es) \ {es[i][1]}
  <2>1. PICK j \in 1..Len(r) : x = r[j][1]
    BY Zenon, <1>7 DEF Listed
  <2>2. QED BY Zenon, <1>2, <1>6, <2>1 DEF Listed
<1>8. ASSUME NEW x \in Listed(es) \ {es[i][1]} PROVE x \in Listed(r)
  <2>1. PICK k \in 1..Len(es) : x = es[k][1]
    BY Zenon, <1>8 DEF Listed
  <2>2. PICK j \in 1..Len(r) : src(j) = k
    BY Zenon, <1>4, <1>8, <2>1
  <2>3. QED BY Zenon, <1>2, <2>1, <2>2 DEF Listed
<1>9. QED BY Zenon, <1>5, <1>7, <1>8

(* A key that is used now goes to the front. *)
LEMMA FrontKeeps ==
  ASSUME NEW es \in Seq(Pairs), NEW when \in [Keys -> Nat], Ordered(es, when),
         NEW k \in Keys, k \notin Listed(es), NEW v \in Nat,
         NEW t \in Nat, \A l \in Keys : when[l] < t
  PROVE  LET r == <<<<k, v>>>> \o es
         IN  /\ r \in Seq(Pairs) /\ Len(r) = Len(es) + 1
             /\ Ordered(r, [when EXCEPT ![k] = t]) /\ Listed(r) = Listed(es) \cup {k}
<1> DEFINE r == <<<<k, v>>>> \o es
           w == [when EXCEPT ![k] = t]
<1>1. Len(es) \in Nat /\ <<k, v>> \in Pairs /\ <<k, v>>[1] = k
  BY DEF Pairs
<1>2. /\ r \in Seq(Pairs) /\ Len(r) = Len(es) + 1 /\ r[1] = <<k, v>>
      /\ \A j \in 1..Len(es) : r[j + 1] = es[j]
  BY <1>1
<1> HIDE DEF r
<1>3. \A j \in 1..Len(r) : j = 1 \/ (j - 1 \in 1..Len(es) /\ r[j] = es[j - 1])
  <2> SUFFICES ASSUME NEW j \in 1..Len(r), j # 1 PROVE j - 1 \in 1..Len(es) /\ r[j] = es[j - 1]
    OBVIOUS
  <2>1. j - 1 \in 1..Len(es) /\ (j - 1) + 1 = j
    BY <1>1, <1>2
  <2>2. QED BY <1>2, <2>1
<1>4. \A j \in 1..Len(es) : es[j][1] \in Keys /\ es[j][1] # k /\ w[es[j][1]] = when[es[j][1]]
  <2> SUFFICES ASSUME NEW j \in 1..Len(es)
               PROVE  es[j][1] \in Keys /\ es[j][1] # k /\ w[es[j][1]] = when[es[j][1]]
    OBVIOUS
  <2>1. es[j][1] \in Keys
    BY DEF Pairs
  <2>2. es[j][1] # k
    BY Zenon DEF Listed
  <2>3. QED BY Zenon, <2>1, <2>2
<1>5. w[k] = t
  BY Zenon
<1> HIDE DEF w
<1>6. Ordered(r, w)
  <2> SUFFICES ASSUME NEW i \in 1..Len(r), NEW j \in 1..Len(r), i < j
               PROVE  w[r[i][1]] > w[r[j][1]]
    BY Zenon DEF Ordered
  <2>1. j # 1 /\ j - 1 \in 1..Len(es)
    BY <1>1, <1>2
  <2>2. r[j] = es[j - 1]
    BY Zenon, <1>3, <2>1
  <2>3. CASE i = 1
    <3>1. w[r[i][1]] = t /\ w[r[j][1]] = when[es[j - 1][1]] /\ es[j - 1][1] \in Keys
      BY Zenon, <1>1, <1>2, <1>4, <1>5, <2>1, <2>2, <2>3
    <3>2. when[es[j - 1][1]] < t /\ when[es[j - 1][1]] \in Nat
      BY Zenon, <3>1
    <3>3. QED BY <3>1, <3>2
  <2>4. CASE i # 1
    <3>1. i - 1 \in 1..Len(es) /\ r[i] = es[i - 1]
      BY Zenon, <1>3, <2>4
    <3>2. i - 1 < j - 1
      BY <1>1, <1>2
    <3>3. when[es[i - 1][1]] > when[es[j - 1][1]]
      BY Zenon, <2>1, <3>1, <3>2 DEF Ordered
    <3>4. QED BY Zenon, <1>4, <2>1, <2>2, <3>1, <3>3
  <2>5. QED BY <2>3, <2>4
<1>7. Listed(r) = Listed(es) \cup {k}
  <2>1. ASSUME NEW x \in Listed(r) PROVE x \in Listed(es) \cup {k}
    <3>1. PICK j \in 1..Len(r) : x = r[j][1]
      BY Zenon, <2>1 DEF Listed
    <3>2. CASE j = 1
      BY Zenon, <1>1, <1>2, <3>1, <3>2
    <3>3. CASE j # 1
      BY Zenon, <1>3, <3>1, <3>3 DEF Listed
    <3>4. QED BY Zenon, <3>2, <3>3
  <2>2. 1 \in 1..Len(r) /\ \A j \in 1..Len(es) : j + 1 \in 1..Len(r)
    BY <1>1, <1>2
  <2>3. ASSUME NEW x \in Listed(es) PROVE x \in Listed(r)
    <3>1. PICK j \in 1..Len(es) : x = es[j][1]
      BY Zenon, <2>3 DEF Listed
    <3>2. QED BY Zenon, <1>2, <2>2, <3>1 DEF Listed
  <2>5. k \in Listed(r)
    BY Zenon, <1>1, <1>2, <2>2 DEF Listed
  <2>6. QED BY Zenon, <2>1, <2>3, <2>5
<1>8. QED BY Zenon, <1>2, <1>6, <1>7 DEF r, w

-----------------------------------------------------------------------------
(* IndexMatchesList with the types it is about; whoever is about to put has a key,
   and no key was last used after now. *)
CacheInv ==
  /\ entries \in Seq(Pairs) /\ index = Listed(entries) /\ Len(entries) <= max_entries
  /\ last \in [Keys -> Nat] /\ clock \in Nat /\ \A k \in Keys : last[k] <= clock
  /\ Ordered(entries, last)
  /\ disk \in [Keys -> Nat] /\ content \in [Workers -> Nat]
  /\ DOMAIN pc = Workers /\ DOMAIN key = Workers
  /\ \A w \in Workers : pc[w] \in {"read", "put"} => key[w] \in Keys

(* A cached key has one place in the list. *)
LEMMA PlaceFound ==
  ASSUME CacheInv, NEW k \in index
  PROVE  /\ Place(k) \in 1..Len(entries) /\ entries[Place(k)][1] = k /\ k \in Keys
         /\ entries[Place(k)][2] \in Nat /\ entries[Place(k)] \in Pairs
<1>1. entries \in Seq(Pairs) /\ DOMAIN entries = 1..Len(entries)
  BY DEF CacheInv
<1>2. \E i \in DOMAIN entries : entries[i][1] = k
  BY Zenon, <1>1 DEF CacheInv, Listed
<1>3. Place(k) \in 1..Len(entries) /\ entries[Place(k)][1] = k
  BY Zenon, <1>1, <1>2 DEF Place
<1>4. QED BY <1>1, <1>3 DEF Pairs

(* What a hit and an update do to the list. *)
LEMMA PromoteKeeps ==
  ASSUME CacheInv, NEW k \in index, NEW v \in Nat
  PROVE  /\ promote(k, v) \in Seq(Pairs) /\ Len(promote(k, v)) = Len(entries)
         /\ Listed(promote(k, v)) = index
         /\ Ordered(promote(k, v), [last EXCEPT ![k] = clock + 1])
<1> DEFINE i == Place(k)
           r == Without(k)
<1>1. /\ entries \in Seq(Pairs) /\ last \in [Keys -> Nat] /\ Ordered(entries, last)
      /\ i \in 1..Len(entries) /\ entries[i][1] = k /\ k \in Keys /\ index = Listed(entries)
  BY Zenon, PlaceFound DEF CacheInv
<1>2. Dropped(r, entries, i)
  BY Zenon, <1>1, DropBy DEF Without
<1> HIDE DEF i, r
<1>3. Ordered(r, last) /\ Listed(r) = index \ {k}
  BY Zenon, <1>1, <1>2, DropKeeps
<1>4. r \in Seq(Pairs) /\ Len(r) = Len(entries) - 1 /\ Len(r) \in Nat /\ Len(entries) \in Nat
  BY <1>1, <1>2 DEF Dropped
<1>5. clock + 1 \in Nat /\ \A l \in Keys : last[l] < clock + 1
  BY DEF CacheInv
<1>6. k \notin Listed(r)
  BY Zenon, <1>3
<1>7. /\ <<<<k, v>>>> \o r \in Seq(Pairs) /\ Len(<<<<k, v>>>> \o r) = Len(r) + 1
      /\ Ordered(<<<<k, v>>>> \o r, [last EXCEPT ![k] = clock + 1])
      /\ Listed(<<<<k, v>>>> \o r) = Listed(r) \cup {k}
  <2>1. r \in Seq(Pairs) /\ last \in [Keys -> Nat] /\ Ordered(r, last) /\ k \in Keys
    BY Zenon, <1>1, <1>3, <1>4
  <2>2. QED BY ZenonT(30), <1>5, <1>6, <2>1, FrontKeeps
<1>8. promote(k, v) = <<<<k, v>>>> \o r
  BY Zenon DEF promote, r
<1>9. Len(r) + 1 = Len(entries)
  BY <1>4
<1>10. QED BY Zenon, <1>1, <1>3, <1>7, <1>8, <1>9

(* What put() of a new key does: the back of a full list goes, and nothing else. *)
LEMMA InsertKeeps ==
  ASSUME CacheInv, NEW k \in Keys, k \notin index, NEW v \in Nat, max_entries # 0
  PROVE  LET r == <<<<k, v>>>> \o Evicted
         IN  /\ r \in Seq(Pairs) /\ Len(r) <= max_entries
             /\ Listed(r) = IndexAfterPut(k)
             /\ Ordered(r, [last EXCEPT ![k] = clock + 1])
             /\ \A l \in index : l \notin Listed(r) =>
                  \A m \in Listed(r) : [last EXCEPT ![k] = clock + 1][m] > last[l]
<1> DEFINE back == entries[Len(entries)][1]
           gone == IF HasRoom THEN {} ELSE {back}
           when == [last EXCEPT ![k] = clock + 1]
<1>1. /\ entries \in Seq(Pairs) /\ last \in [Keys -> Nat] /\ Ordered(entries, last)
      /\ index = Listed(entries) /\ Len(entries) \in Nat /\ Len(entries) <= max_entries
      /\ max_entries \in Nat /\ max_entries >= 1
  BY CacheAssumption DEF CacheInv
<1>2. /\ Evicted \in Seq(Pairs) /\ Len(Evicted) < max_entries /\ Ordered(Evicted, last)
      /\ Listed(Evicted) = index \ gone
  <2>1. CASE HasRoom
    <3>1. Evicted = entries /\ gone = {} /\ Len(entries) < max_entries
      BY Zenon, <2>1 DEF Evicted, HasRoom
    <3>2. QED BY Zenon, <1>1, <3>1
  <2>2. CASE ~HasRoom
    <3>1. Len(entries) = max_entries /\ entries # <<>> /\ Len(entries) \in 1..Len(entries)
      BY <1>1, <2>2 DEF HasRoom
    <3>2. Dropped(SubSeq(entries, 1, Len(entries) - 1), entries, Len(entries))
      BY Zenon, <1>1, <3>1, DropBack
    <3>3. /\ Ordered(SubSeq(entries, 1, Len(entries) - 1), last)
          /\ Listed(SubSeq(entries, 1, Len(entries) - 1)) = Listed(entries) \ {entries[Len(entries)][1]}
      BY Zenon, <1>1, <3>1, <3>2, DropKeeps
    <3>4. Evicted = SubSeq(entries, 1, Len(entries) - 1) /\ gone = {entries[Len(entries)][1]}
      BY Zenon, <2>2 DEF Evicted
    <3>5. SubSeq(entries, 1, Len(entries) - 1) \in Seq(Pairs) /\ Len(SubSeq(entries, 1, Len(entries) - 1)) < max_entries
      BY <1>1, <3>1, <3>2 DEF Dropped
    <3>6. QED BY Zenon, <1>1, <3>3, <3>4, <3>5
  <2>3. QED BY Zenon, <2>1, <2>2
<1>3. clock + 1 \in Nat /\ \A l \in Keys : last[l] < clock + 1
  BY DEF CacheInv
<1> DEFINE r == <<<<k, v>>>> \o Evicted
<1>4. k \notin Listed(Evicted)
  BY Zenon, <1>2
<1>5. /\ r \in Seq(Pairs) /\ Len(r) = Len(Evicted) + 1 /\ Ordered(r, when)
      /\ Listed(r) = Listed(Evicted) \cup {k}
  BY ZenonT(30), <1>1, <1>2, <1>3, <1>4, FrontKeeps
<1> HIDE DEF r
<1>6. Len(r) <= max_entries
  <2>1. Len(Evicted) \in Nat
    BY <1>2
  <2>2. QED BY <1>1, <1>2, <1>5, <2>1
<1>7. Listed(r) = IndexAfterPut(k)
  BY Zenon, <1>2, <1>5 DEF IndexAfterPut
<1>8. ASSUME NEW l \in index, l \notin Listed(r), NEW m \in Listed(r)
      PROVE  when[m] > last[l]
  <2>1. ~HasRoom /\ l = back
    BY Zenon, <1>2, <1>5, <1>8
  <2>2. l \in Keys /\ last[l] \in Nat
    BY Zenon, <1>1, <1>8, PlaceFound
  <2>3. CASE m = k
    <3>1. when[m] = clock + 1 /\ last[l] < clock + 1
      BY Zenon, <1>1, <1>3, <2>2, <2>3
    <3>2. QED BY <1>3, <2>2, <3>1
  <2>4. CASE m # k
    <3>1. m \in index /\ m # l
      BY Zenon, <1>2, <1>5, <1>8, <2>4
    <3>2. /\ Place(m) \in 1..Len(entries) /\ entries[Place(m)][1] = m /\ m \in Keys
          /\ l = entries[Len(entries)][1]
      BY Zenon, <2>1, <3>1, PlaceFound
    <3>3. Place(m) # Len(entries)
      BY Zenon, <3>1, <3>2
    <3>4. Place(m) < Len(entries) /\ Len(entries) \in 1..Len(entries)
      BY <1>1, <3>2, <3>3
    <3>5. last[m] > last[l]
      BY Zenon, <1>1, <3>2, <3>4 DEF Ordered
    <3>6. when[m] = last[m]
      BY Zenon, <1>1, <2>4, <3>2
    <3>7. QED BY Zenon, <3>5, <3>6
  <2>5. QED BY Zenon, <2>3, <2>4
<1>9. QED BY Zenon, <1>5, <1>6, <1>7, <1>8 DEF r

(* The list and the index after one step of a cache method. *)
Consistent(es, ix, when, t) ==
  /\ es \in Seq(Pairs) /\ ix = Listed(es) /\ Len(es) <= max_entries
  /\ when \in [Keys -> Nat] /\ t \in Nat /\ (\A k \in Keys : when[k] <= t)
  /\ Ordered(es, when)

LEMMA PutKeeps ==
  ASSUME CacheInv, NEW k \in Keys, NEW v \in Nat, Put(k, v)
  PROVE  /\ Consistent(entries', index', last', clock')
         /\ \A l \in index : l \notin index' => \A m \in index' : last'[m] > last[l]
<1> DEFINE when == [last EXCEPT ![k] = clock + 1]
<1>1. /\ clock + 1 \in Nat /\ when \in [Keys -> Nat] /\ (\A l \in Keys : when[l] <= clock + 1)
      /\ Len(entries) <= max_entries
  BY DEF CacheInv
<1>2. CASE max_entries = 0
  <2>1. UNCHANGED <<entries, index, last, clock>>
    BY Zenon, <1>2 DEF Put
  <2>2. QED BY Zenon, <2>1 DEF CacheInv, Consistent
<1>3. CASE max_entries # 0 /\ k \in index
  <2>1. entries' = promote(k, v) /\ index' = index /\ last' = when /\ clock' = clock + 1
    BY Zenon, <1>3 DEF Put, Used
  <2>2. /\ promote(k, v) \in Seq(Pairs) /\ Len(promote(k, v)) = Len(entries)
        /\ Listed(promote(k, v)) = index /\ Ordered(promote(k, v), when)
    BY Zenon, <1>3, PromoteKeeps
  <2> HIDE DEF when
  <2>3. QED BY Zenon, <1>1, <2>1, <2>2 DEF Consistent
<1>4. CASE max_entries # 0 /\ k \notin index
  <2> DEFINE r == <<<<k, v>>>> \o Evicted
  <2>1. entries' = r /\ index' = IndexAfterPut(k) /\ last' = when /\ clock' = clock + 1
    BY Zenon, <1>4 DEF Put, Used
  <2>2. /\ r \in Seq(Pairs) /\ Len(r) <= max_entries /\ Listed(r) = IndexAfterPut(k)
        /\ Ordered(r, when)
        /\ \A l \in index : l \notin Listed(r) => \A m \in Listed(r) : when[m] > last[l]
    BY Zenon, <1>4, InsertKeeps
  <2> HIDE DEF when, r
  <2>3. QED BY Zenon, <1>1, <2>1, <2>2 DEF Consistent
<1>5. QED BY Zenon, <1>2, <1>3, <1>4

(* A step that leaves the cache alone. *)
LEMMA CacheStill ==
  ASSUME CacheInv, UNCHANGED <<entries, index, last, clock>>
  PROVE  Consistent(entries', index', last', clock')
BY Zenon DEF CacheInv, Consistent

LEMMA CacheStep ==
  ASSUME CacheInv, [CacheNext]_cache_vars
  PROVE  CacheInv'
<1> DEFINE Served ==
      /\ disk' \in [Keys -> Nat] /\ content' \in [Workers -> Nat]
      /\ DOMAIN pc' = Workers /\ DOMAIN key' = Workers
      /\ \A w \in Workers : pc'[w] \in {"read", "put"} => key'[w] \in Keys
<1>0. ASSUME Consistent(entries', index', last', clock'), Served PROVE CacheInv'
  <2>1. \A es : Listed(es)' = Listed(es)
    BY Zenon DEF Listed
  <2>2. QED BY Zenon, <1>0 DEF CacheInv, Consistent, Listed, Ordered
<1>1. ASSUME NEW w \in Workers, NEW k \in Keys, Get(w, k) PROVE CacheInv'
  <2>1. Served
    <3>1. /\ disk' = disk /\ content' = content /\ key' = [key EXCEPT ![w] = k]
          /\ pc' = pc \/ pc' = [pc EXCEPT ![w] = "read"]
      BY Zenon, <1>1 DEF Get
    <3>2. QED BY Zenon, <3>1 DEF CacheInv
  <2>2. CASE k \in index
    <3> DEFINE v == entries[Place(k)][2]
    <3>1. /\ entries' = promote(k, v) /\ index' = index
          /\ last' = [last EXCEPT ![k] = clock + 1] /\ clock' = clock + 1
      BY Zenon, <1>1, <2>2 DEF Get, Used
    <3>2. v \in Nat
      BY Zenon, <2>2, PlaceFound
    <3> HIDE DEF v
    <3>3. /\ promote(k, v) \in Seq(Pairs) /\ Len(promote(k, v)) = Len(entries)
          /\ Listed(promote(k, v)) = index
          /\ Ordered(promote(k, v), [last EXCEPT ![k] = clock + 1])
      BY Zenon, <2>2, <3>2, PromoteKeeps
    <3>4. /\ clock' \in Nat /\ last' \in [Keys -> Nat] /\ (\A l \in Keys : last'[l] <= clock')
          /\ Len(entries) <= max_entries
      BY <3>1 DEF CacheInv
    <3>5. Consistent(entries', index', last', clock')
      BY Zenon, <3>1, <3>3, <3>4 DEF Consistent
    <3>6. QED BY Zenon, <1>0, <2>1, <3>5
  <2>3. CASE k \notin index
    <3>1. UNCHANGED <<entries, index, last, clock>>
      BY Zenon, <1>1, <2>3 DEF Get
    <3>2. QED BY Zenon, <1>0, <2>1, <3>1, CacheStill
  <2>4. QED BY Zenon, <2>2, <2>3
<1>2. ASSUME NEW w \in Workers, Read(w) PROVE CacheInv'
  <2>1. pc[w] = "read" /\ key[w] \in Keys /\ disk[key[w]] \in Nat
    BY Zenon, <1>2 DEF Read, CacheInv
  <2>2. /\ content' = [content EXCEPT ![w] = disk[key[w]]]
        /\ UNCHANGED <<entries, index, disk, key, last, clock>>
        /\ pc' = [pc EXCEPT ![w] = "put"] \/ pc' = [pc EXCEPT ![w] = "idle"]
    BY Zenon, <1>2 DEF Read
  <2>3. Served
    BY Zenon, <2>1, <2>2 DEF CacheInv
  <2>4. QED BY Zenon, <1>0, <2>2, <2>3, CacheStill
<1>3. ASSUME NEW w \in Workers, Store(w) PROVE CacheInv'
  <2>1. /\ pc[w] = "put" /\ key[w] \in Keys /\ content[w] \in Nat /\ Put(key[w], content[w])
        /\ pc' = [pc EXCEPT ![w] = "idle"] /\ content' = [content EXCEPT ![w] = 0]
        /\ UNCHANGED <<disk, key>>
    BY Zenon, <1>3 DEF Store, CacheInv
  <2>2. 0 \in Nat
    OBVIOUS
  <2>3. Served
    BY Zenon, <2>1, <2>2 DEF CacheInv
  <2>4. Consistent(entries', index', last', clock')
    BY Zenon, <2>1, PutKeeps
  <2>5. QED BY Zenon, <1>0, <2>3, <2>4
<1>4. ASSUME NEW k \in Keys, WriteFile(k) PROVE CacheInv'
  <2>1. /\ disk' = [disk EXCEPT ![k] = @ + 1]
        /\ UNCHANGED <<entries, index, pc, key, content, last, clock>>
    BY Zenon, <1>4 DEF WriteFile
  <2>2. disk' \in [Keys -> Nat]
    BY <2>1 DEF CacheInv
  <2>3. Served
    BY Zenon, <2>1, <2>2 DEF CacheInv
  <2>4. QED BY Zenon, <1>0, <2>1, <2>3, CacheStill
<1>5. ASSUME NEW k \in Keys, Erase(k) PROVE CacheInv'
  <2>1. UNCHANGED <<disk, pc, key, content, last, clock>>
    BY Zenon, <1>5 DEF Erase
  <2>2. Served
    BY Zenon, <2>1 DEF CacheInv
  <2>3. CASE k \in index
    <3> DEFINE i == Place(k)
               r == Without(k)
    <3>1. entries' = r /\ index' = index \ {k}
      BY Zenon, <1>5, <2>3 DEF Erase
    <3>2. /\ entries \in Seq(Pairs) /\ last \in [Keys -> Nat] /\ Ordered(entries, last)
          /\ i \in 1..Len(entries) /\ entries[i][1] = k /\ index = Listed(entries)
      BY Zenon, <2>3, PlaceFound DEF CacheInv
    <3>3. Dropped(r, entries, i)
      BY Zenon, <3>2, DropBy DEF Without
    <3> HIDE DEF i, r
    <3>4. Ordered(r, last) /\ Listed(r) = index \ {k}
      BY Zenon, <3>2, <3>3, DropKeeps
    <3>5. r \in Seq(Pairs) /\ Len(r) <= max_entries
      BY <3>2, <3>3, CacheAssumption DEF Dropped, CacheInv
    <3>6. Consistent(entries', index', last', clock')
      BY Zenon, <2>1, <3>1, <3>4, <3>5 DEF Consistent, CacheInv
    <3>7. QED BY Zenon, <1>0, <2>2, <3>6
  <2>4. CASE k \notin index
    <3>1. UNCHANGED <<entries, index>>
      BY Zenon, <1>5, <2>4 DEF Erase
    <3>2. QED BY Zenon, <1>0, <2>1, <2>2, <3>1, CacheStill
  <2>5. QED BY Zenon, <2>3, <2>4
<1>6. CASE ClearCache
  <2>1. /\ entries' = <<>> /\ index' = {} /\ UNCHANGED <<disk, pc, key, content, last, clock>>
    BY Zenon, <1>6 DEF ClearCache
  <2>2. Served
    BY Zenon, <2>1 DEF CacheInv
  <2>3. /\ <<>> \in Seq(Pairs) /\ Listed(<<>>) = {} /\ Len(<<>>) <= max_entries
        /\ 1..Len(<<>>) = {}
    BY CacheAssumption DEF Listed
  <2>4. Ordered(<<>>, last)
    BY Zenon, <2>3 DEF Ordered
  <2>5. Consistent(entries', index', last', clock')
    BY Zenon, <2>1, <2>3, <2>4 DEF Consistent, CacheInv
  <2>6. QED BY Zenon, <1>0, <2>2, <2>5
<1>7. CASE UNCHANGED cache_vars
  <2>1. UNCHANGED <<entries, index, disk, pc, key, content, last, clock>>
    BY Zenon, <1>7 DEF cache_vars
  <2>2. Served
    BY Zenon, <2>1 DEF CacheInv
  <2>3. QED BY Zenon, <1>0, <2>1, <2>2, CacheStill
<1>8. QED BY Zenon, <1>1, <1>2, <1>3, <1>4, <1>5, <1>6, <1>7 DEF CacheNext

LEMMA CacheStart == CacheInit => CacheInv
<1> SUFFICES ASSUME CacheInit PROVE CacheInv
  OBVIOUS
<1>1. /\ <<>> \in Seq(Pairs) /\ Listed(<<>>) = {} /\ Len(<<>>) <= max_entries /\ 1..Len(<<>>) = {}
      /\ 0 \in Nat /\ 0 <= 0
  BY CacheAssumption DEF Listed
<1>2. Ordered(<<>>, last)
  BY Zenon, <1>1 DEF Ordered
<1>3. QED BY Zenon, <1>1, <1>2 DEF CacheInit, CacheInv

LEMMA CacheInvariance == CacheSpec => []CacheInv
<1>1. CacheInv /\ [CacheNext]_cache_vars => CacheInv'
  BY CacheStep
<1>2. QED BY <1>1, CacheStart, PTL DEF CacheSpec

(* The keys of the list are those of the index. *)
LEMMA CachedIsIndex == CacheInv => Cached = index
<1> SUFFICES ASSUME CacheInv PROVE Cached = index
  OBVIOUS
<1>1. DOMAIN entries = 1..Len(entries)
  BY DEF CacheInv
<1>2. QED BY Zenon, <1>1 DEF Cached, Listed, CacheInv

(* The file cache's index and list agree, are bounded and in the order of use, for
   every number of workers, files and entries. *)
THEOREM CacheStaysConsistent == CacheSpec => []IndexMatchesList
<1>1. CacheInv => IndexMatchesList
  BY Zenon, CachedIsIndex DEF CacheInv, IndexMatchesList, Ordered
<1>2. QED BY <1>1, CacheInvariance, PTL

(* put() evicts the least recently used key, for every number of workers, files and
   entries. *)
THEOREM EvictionIsLru == CacheSpec => EvictsLeastRecent
<1> DEFINE Lru ==
      \A k \in Keys : (\E w \in Workers : Store(w)) /\ k \in Cached /\ k \notin Cached'
        => \A l \in Cached' : last'[l] > last[k]
<1>0. CacheInv' => (Cached = index)'
  BY CachedIsIndex, PTL
<1>1. CacheInv /\ CacheInv' => Lru
  <2> SUFFICES ASSUME CacheInv, CacheInv', NEW k \in Keys, NEW w \in Workers, Store(w),
                      k \in Cached, k \notin Cached', NEW l \in Cached'
               PROVE  last'[l] > last[k]
    BY Zenon
  <2>1. Cached = index /\ Cached' = index'
    BY Zenon, <1>0, CachedIsIndex
  <2>2. key[w] \in Keys /\ content[w] \in Nat /\ Put(key[w], content[w])
    BY Zenon DEF Store, CacheInv
  <2>3. QED BY Zenon, <2>1, <2>2, PutKeeps
<1>2. CacheSpec => [][Lru]_cache_vars
  <2>1. CacheInv /\ CacheInv' /\ [CacheNext]_cache_vars => [Lru]_cache_vars
    BY Zenon, <1>1
  <2>2. QED BY <2>1, CacheInvariance, PTL DEF CacheSpec
<1>3. QED BY Zenon, <1>2 DEF EvictsLeastRecent

-----------------------------------------------------------------------------
(* The kqueue poller's changes *)

Changes == [x : Filters, op : {"add", "delete"}]

(* What the first n of the changes p make of the filters fs and the active ones. *)
AllTouched(p, n) == {p[i].x : i \in 1..n}
AllAdded(p, n) ==
  {p[i].x : i \in {k \in 1..n : p[k].op = "add" /\ \A j \in (k + 1)..n : p[j].x # p[k].x}}
Made(fs, p, n) == (fs \ AllTouched(p, n)) \cup AllAdded(p, n)
Active(fired, true, p, n) == (fired \ AllTouched(p, n)) \cup (AllAdded(p, n) \cap true)
Bad(fs, p, i) == p[i].op = "delete" /\ p[i].x \notin Made(fs, p, i - 1)
SomeBad(fs, p) == \E i \in 1..Len(p) : Bad(fs, p, i)

(* The buffered changes lead from the kernel's filters to those asked for.  Without
   mod() one of them is in error, so that a flush comes back at once, and every
   transition the caller waits for is active, or will be after the flush. *)
OnTheWay(want, fired, true, seen, p) ==
  \A x \in want : x \in true /\ x \notin seen => x \in Active(fired, true, p, Len(p))

KqGood(want, p, fs, fired, true, seen, woken, phase, modded) ==
  /\ want \in SUBSET Filters /\ fs \in SUBSET Filters /\ p \in Seq(Changes)
  /\ phase # "app" => p = <<>>
  /\ Made(fs, p, Len(p)) = want
  /\ \A f \in KqFds : <<f, "R">> \notin want \/ <<f, "W">> \notin want
  /\ \/ modded
     \/ /\ phase # "flush" /\ (p = <<>> \/ SomeBad(fs, p))
        /\ woken => Wake \in fired
        /\ OnTheWay(want, fired, true, seen, p)

KqInv ==
  KqGood(kq_want, kq_pending, kq_filters, kq_fired, kq_true, kq_seen, kq_woken, kq_mode, kq_modded)

LEMMA OneMoreChange ==
  ASSUME NEW p \in Seq(Changes), NEW c \in Changes
  PROVE  LET q == Append(p, c)
             n == Len(p)
         IN  /\ q \in Seq(Changes) /\ Len(q) = n + 1 /\ n \in Nat /\ q[n + 1] = c
             /\ \A i \in 1..n : q[i] = p[i]
             /\ \A m \in 0..n : AllTouched(q, m) = AllTouched(p, m) /\ AllAdded(q, m) = AllAdded(p, m)
             /\ AllTouched(q, n + 1) = AllTouched(p, n) \cup {c.x}
             /\ AllAdded(q, n + 1) =
                  (AllAdded(p, n) \ {c.x}) \cup (IF c.op = "add" THEN {c.x} ELSE {})
<1> DEFINE q == Append(p, c)
           n == Len(p)
<1>1. /\ q \in Seq(Changes) /\ Len(q) = n + 1 /\ n \in Nat /\ q[n + 1] = c
      /\ \A i \in 1..n : q[i] = p[i]
  OBVIOUS
<1> HIDE DEF q, n
<1>0. n \in Nat
  BY Zenon, <1>1
<1>2. ASSUME NEW m \in 0..n
      PROVE  AllTouched(q, m) = AllTouched(p, m) /\ AllAdded(q, m) = AllAdded(p, m)
  <2>1. \A i \in 1..m : q[i] = p[i]
    BY <1>1
  <2>2. \A k \in 1..m : \A j \in (k + 1)..m : j \in 1..m
    BY <1>0
  <2>3. AllTouched(q, m) = AllTouched(p, m)
    BY Zenon, <2>1 DEF AllTouched
  <2> DEFINE K(r) == {k \in 1..m : r[k].op = "add" /\ \A j \in (k + 1)..m : r[j].x # r[k].x}
  <2>4. K(q) = K(p)
    BY Zenon, <2>1, <2>2
  <2>5. AllAdded(q, m) = AllAdded(p, m)
    <3>1. AllAdded(q, m) = {q[i].x : i \in K(q)} /\ AllAdded(p, m) = {p[i].x : i \in K(p)}
          /\ \A i \in K(p) : i \in 1..m
      BY Zenon DEF AllAdded
    <3> HIDE DEF K
    <3>2. \A i \in K(p) : q[i] = p[i]
      BY Zenon, <2>1, <3>1
    <3>3. {q[i].x : i \in K(p)} = {p[i].x : i \in K(p)}
      BY Zenon, <3>2
    <3>4. QED BY Zenon, <2>4, <3>1, <3>3
  <2>6. QED BY Zenon, <2>3, <2>5
<1>3. \A i \in 1..(n + 1) : i \in 1..n \/ i = n + 1
  BY <1>1
<1>4. n + 1 \in 1..(n + 1) /\ \A i \in 1..n : i \in 1..(n + 1)
  BY <1>1
<1>5. AllTouched(q, n + 1) = AllTouched(p, n) \cup {c.x}
  BY Zenon, <1>1, <1>3, <1>4 DEF AllTouched
<1>6. ASSUME NEW y \in AllAdded(q, n + 1)
      PROVE  y \in (AllAdded(p, n) \ {c.x}) \cup (IF c.op = "add" THEN {c.x} ELSE {})
  <2>1. PICK k \in 1..(n + 1) : /\ q[k].op = "add" /\ y = q[k].x
                                /\ \A j \in (k + 1)..(n + 1) : q[j].x # q[k].x
    BY Zenon DEF AllAdded
  <2>2. CASE k = n + 1
    BY Zenon, <1>1, <2>1, <2>2
  <2>3. CASE k \in 1..n
    <3>1. n + 1 \in (k + 1)..(n + 1) /\ \A j \in (k + 1)..n : j \in (k + 1)..(n + 1) /\ j \in 1..n
      BY <1>1, <2>3
    <3>2. y # c.x
      BY Zenon, <1>1, <2>1, <3>1
    <3>3. p[k].op = "add" /\ y = p[k].x /\ \A j \in (k + 1)..n : p[j].x # p[k].x
      BY Zenon, <1>1, <2>1, <2>3, <3>1
    <3>4. y \in AllAdded(p, n)
      BY Zenon, <2>3, <3>3 DEF AllAdded
    <3>5. QED BY Zenon, <3>2, <3>4
  <2>4. QED BY Zenon, <1>3, <2>2, <2>3
<1>7. ASSUME NEW y \in AllAdded(p, n), y # c.x PROVE y \in AllAdded(q, n + 1)
  <2>1. PICK k \in 1..n : /\ p[k].op = "add" /\ y = p[k].x
                          /\ \A j \in (k + 1)..n : p[j].x # p[k].x
    BY Zenon DEF AllAdded
  <2>2. k \in 1..(n + 1)
    BY <1>0
  <2>6. \A j \in (k + 1)..(n + 1) : j = n + 1 \/ (j \in (k + 1)..n /\ j \in 1..n)
    BY <1>0
  <2>3. \A j \in (k + 1)..(n + 1) : q[j].x # q[k].x
    BY Zenon, <1>1, <1>7, <2>1, <2>6
  <2>4. q[k].op = "add" /\ y = q[k].x
    BY Zenon, <1>1, <2>1
  <2>5. QED BY Zenon, <2>2, <2>3, <2>4 DEF AllAdded
<1>8. ASSUME c.op = "add" PROVE c.x \in AllAdded(q, n + 1)
  <2>1. \A j \in (n + 1 + 1)..(n + 1) : FALSE
    BY <1>1
  <2>2. QED BY Zenon, <1>1, <1>4, <1>8, <2>1 DEF AllAdded
<1>9. AllAdded(q, n + 1) = (AllAdded(p, n) \ {c.x}) \cup (IF c.op = "add" THEN {c.x} ELSE {})
  BY Zenon, <1>6, <1>7, <1>8
<1>10. QED BY Zenon, <1>1, <1>2, <1>5, <1>9 DEF q, n

(* apply() and del() buffer a change to each filter of a descriptor. *)
LEMMA TwoMoreChanges ==
  ASSUME NEW p \in Seq(Changes), NEW a \in Changes, NEW b \in Changes, a.x # b.x
  PROVE  LET q == p \o <<a, b>>
             n == Len(p)
         IN  /\ q \in Seq(Changes) /\ Len(q) = n + 2 /\ q # <<>>
             /\ AllTouched(q, n + 2) = AllTouched(p, n) \cup {a.x, b.x}
             /\ AllAdded(q, n + 2) =
                  (AllAdded(p, n) \ {a.x, b.x}) \cup (IF a.op = "add" THEN {a.x} ELSE {})
                     \cup (IF b.op = "add" THEN {b.x} ELSE {})
             /\ \A fs : \/ SomeBad(fs, p)
                        \/ a.op = "delete" /\ a.x \notin Made(fs, p, n)
                        \/ b.op = "delete" /\ b.x \notin Made(fs, p, n)
                        => SomeBad(fs, q)
<1> DEFINE n == Len(p)
           r == Append(p, a)
           q == Append(r, b)
<1>1. p \o <<a, b>> = q
  OBVIOUS
<1>2. /\ r \in Seq(Changes) /\ Len(r) = n + 1 /\ n \in Nat /\ r[n + 1] = a
      /\ \A i \in 1..n : r[i] = p[i]
      /\ \A m \in 0..n : AllTouched(r, m) = AllTouched(p, m) /\ AllAdded(r, m) = AllAdded(p, m)
      /\ AllTouched(r, n + 1) = AllTouched(p, n) \cup {a.x}
      /\ AllAdded(r, n + 1) = (AllAdded(p, n) \ {a.x}) \cup (IF a.op = "add" THEN {a.x} ELSE {})
  BY Zenon, OneMoreChange
<1> HIDE DEF r
<1>3. /\ q \in Seq(Changes) /\ Len(q) = n + 1 + 1 /\ q[n + 1 + 1] = b
      /\ \A i \in 1..(n + 1) : q[i] = r[i]
      /\ \A m \in 0..(n + 1) : AllTouched(q, m) = AllTouched(r, m) /\ AllAdded(q, m) = AllAdded(r, m)
      /\ AllTouched(q, n + 1 + 1) = AllTouched(r, n + 1) \cup {b.x}
      /\ AllAdded(q, n + 1 + 1) =
           (AllAdded(r, n + 1) \ {b.x}) \cup (IF b.op = "add" THEN {b.x} ELSE {})
  <2> DEFINE l == Len(r)
  <2>1. /\ q \in Seq(Changes) /\ Len(q) = l + 1 /\ q[l + 1] = b
        /\ \A i \in 1..l : q[i] = r[i]
        /\ \A m \in 0..l : AllTouched(q, m) = AllTouched(r, m) /\ AllAdded(q, m) = AllAdded(r, m)
        /\ AllTouched(q, l + 1) = AllTouched(r, l) \cup {b.x}
        /\ AllAdded(q, l + 1) = (AllAdded(r, l) \ {b.x}) \cup (IF b.op = "add" THEN {b.x} ELSE {})
    <3>1. r \in Seq(Changes)
      BY Zenon, <1>2
    <3>2. QED BY Zenon, <3>1, OneMoreChange
  <2> HIDE DEF q
  <2>2. QED BY Zenon, <1>2, <2>1
<1> HIDE DEF q, n
<1>0. n \in Nat
  BY Zenon, <1>2
<1>4. n + 1 + 1 = n + 2 /\ (n + 1) - 1 = n /\ (n + 2) - 1 = n + 1
      /\ n + 1 \in 1..(n + 2) /\ n + 2 \in 1..(n + 2) /\ n \in 0..n /\ n \in 0..(n + 1)
      /\ n + 1 \in 0..(n + 1) /\ n + 1 \in 1..(n + 1)
      /\ \A i \in 1..n : i \in 1..(n + 1) /\ i \in 1..(n + 2) /\ i - 1 \in 0..n /\ i - 1 \in 0..(n + 1)
  BY <1>0
<1>5. AllTouched(q, n + 2) = AllTouched(p, n) \cup {a.x, b.x}
  BY Zenon, <1>2, <1>3, <1>4
<1>6. AllAdded(q, n + 2) = (AllAdded(p, n) \ {a.x, b.x}) \cup (IF a.op = "add" THEN {a.x} ELSE {})
                     \cup (IF b.op = "add" THEN {b.x} ELSE {})
  <2>1. AllAdded(q, n + 2) = (AllAdded(r, n + 1) \ {b.x}) \cup (IF b.op = "add" THEN {b.x} ELSE {})
    BY Zenon, <1>3, <1>4
  <2>2. AllAdded(r, n + 1) = (AllAdded(p, n) \ {a.x}) \cup (IF a.op = "add" THEN {a.x} ELSE {})
    BY Zenon, <1>2
  <2>3. QED BY <2>1, <2>2
<1>7. ASSUME NEW fs, \/ SomeBad(fs, p)
                     \/ a.op = "delete" /\ a.x \notin Made(fs, p, n)
                     \/ b.op = "delete" /\ b.x \notin Made(fs, p, n)
      PROVE  SomeBad(fs, q)
  <2>0. \A m \in 0..n : Made(fs, q, m) = Made(fs, p, m)
    <3>1. \A m \in 0..n : m \in 0..(n + 1)
      BY <1>0
    <3>2. QED BY Zenon, <1>2, <1>3, <3>1 DEF Made
  <2>1. CASE SomeBad(fs, p)
    <3>1. PICK i \in 1..n : p[i].op = "delete" /\ p[i].x \notin Made(fs, p, i - 1)
      BY Zenon, <2>1 DEF SomeBad, Bad, n
    <3>2. q[i] = p[i] /\ Made(fs, q, i - 1) = Made(fs, p, i - 1) /\ i \in 1..(n + 2)
      BY Zenon, <1>2, <1>3, <1>4, <2>0
    <3>3. QED BY Zenon, <1>3, <1>4, <3>1, <3>2 DEF SomeBad, Bad
  <2>2. CASE a.op = "delete" /\ a.x \notin Made(fs, p, n)
    <3>1. q[n + 1] = a /\ Made(fs, q, n) = Made(fs, p, n)
      BY Zenon, <1>2, <1>3, <1>4, <2>0
    <3>2. Bad(fs, q, n + 1)
      BY Zenon, <1>4, <2>2, <3>1 DEF Bad
    <3>3. QED BY Zenon, <1>3, <1>4, <3>2 DEF SomeBad
  <2>3. CASE b.op = "delete" /\ b.x \notin Made(fs, p, n)
    <3>1. AllTouched(q, n + 1) = AllTouched(p, n) \cup {a.x}
          /\ AllAdded(q, n + 1) = (AllAdded(p, n) \ {a.x}) \cup (IF a.op = "add" THEN {a.x} ELSE {})
      BY Zenon, <1>2, <1>3, <1>4
    <3>2. b.x \notin Made(fs, q, n + 1)
      BY Zenon, <2>3, <3>1 DEF Made
    <3>3. Bad(fs, q, n + 2)
      BY Zenon, <1>3, <1>4, <2>3, <3>2 DEF Bad
    <3>4. QED BY Zenon, <1>3, <1>4, <3>3 DEF SomeBad
  <2>4. QED BY Zenon, <1>7, <2>1, <2>2, <2>3
<1>8. q # <<>> /\ Len(q) = n + 2
  BY <1>0, <1>3
<1>9. QED BY Zenon, <1>1, <1>3, <1>5, <1>6, <1>7, <1>8 DEF n

LEMMA OfTwo ==
  ASSUME NEW f
  PROVE  /\ Of(f) = {<<f, "R">>, <<f, "W">>} /\ <<f, "R">> # <<f, "W">>
         /\ Wake \notin Filters /\ Wake \notin Of(f)
BY DEF Of, Dirs, Wake, Filters

(* add(), mod() and del(): ra and wa say what becomes of reading and of writing. *)
LEMMA InterestKeeps ==
  ASSUME KqInv, kq_mode = "app", NEW f \in KqFds,
         NEW ra \in {"add", "delete"}, NEW wa \in {"add", "delete"}, ra = "delete" \/ wa = "delete",
         kq_pending' = kq_pending \o <<Change(f, "R", ra), Change(f, "W", wa)>>,
         kq_want' = (kq_want \ Of(f)) \cup (IF ra = "add" THEN {<<f, "R">>} ELSE {})
                       \cup (IF wa = "add" THEN {<<f, "W">>} ELSE {}),
         kq_seen' = kq_seen \ Of(f), UNCHANGED <<kq_kernel, kq_mode>>,
         \/ kq_modded'
         \/ /\ kq_modded' = kq_modded
            /\ \/ ra = "delete" /\ <<f, "R">> \notin kq_want
               \/ wa = "delete" /\ <<f, "W">> \notin kq_want
  PROVE  KqInv'
<1> DEFINE p == kq_pending
           n == Len(p)
           R == <<f, "R">>
           W == <<f, "W">>
           a == Change(f, "R", ra)
           b == Change(f, "W", wa)
           q == p \o <<a, b>>
           XR == IF ra = "add" THEN {R} ELSE {}
           XW == IF wa = "add" THEN {W} ELSE {}
<1>1. R \in Filters /\ W \in Filters
  BY DEF Filters, Dirs
<1>2. Of(f) = {R, W} /\ R # W
  BY Zenon, OfTwo
<1> HIDE DEF R, W
<1>3. a \in Changes /\ b \in Changes /\ a.x = R /\ b.x = W /\ a.op = ra /\ b.op = wa
  BY <1>1 DEF Change, Changes, R, W
<1> HIDE DEF a, b
<1>4. /\ kq_want \in SUBSET Filters /\ kq_filters \in SUBSET Filters /\ p \in Seq(Changes)
      /\ Made(kq_filters, p, n) = kq_want
      /\ \A g \in KqFds : <<g, "R">> \notin kq_want \/ <<g, "W">> \notin kq_want
      /\ ~kq_modded => /\ p = <<>> \/ SomeBad(kq_filters, p)
                       /\ kq_woken => Wake \in kq_fired
                       /\ OnTheWay(kq_want, kq_fired, kq_true, kq_seen, p)
  BY Zenon DEF KqInv, KqGood
<1>5. /\ q \in Seq(Changes) /\ Len(q) = n + 2 /\ q # <<>>
      /\ AllTouched(q, n + 2) = AllTouched(p, n) \cup {R, W}
      /\ AllAdded(q, n + 2) = (AllAdded(p, n) \ {R, W}) \cup XR \cup XW
      /\ \/ SomeBad(kq_filters, p)
         \/ ra = "delete" /\ R \notin Made(kq_filters, p, n)
         \/ wa = "delete" /\ W \notin Made(kq_filters, p, n)
         => SomeBad(kq_filters, q)
  <2>1. p \in Seq(Changes) /\ a.x # b.x
    BY Zenon, <1>2, <1>3, <1>4
  <2>2. /\ q \in Seq(Changes) /\ Len(q) = n + 2 /\ q # <<>>
        /\ AllTouched(q, n + 2) = AllTouched(p, n) \cup {a.x, b.x}
        /\ AllAdded(q, n + 2) =
             (AllAdded(p, n) \ {a.x, b.x}) \cup (IF a.op = "add" THEN {a.x} ELSE {})
                \cup (IF b.op = "add" THEN {b.x} ELSE {})
        /\ \A fs : \/ SomeBad(fs, p)
                   \/ a.op = "delete" /\ a.x \notin Made(fs, p, n)
                   \/ b.op = "delete" /\ b.x \notin Made(fs, p, n)
                   => SomeBad(fs, q)
    BY Zenon, <1>3, <2>1, TwoMoreChanges
  <2> HIDE DEF q, p, n
  <2>3. QED BY Zenon, <1>3, <2>2
<1>6. /\ kq_pending' = q /\ kq_want' = (kq_want \ {R, W}) \cup XR \cup XW
      /\ kq_seen' = kq_seen \ {R, W} /\ kq_filters' = kq_filters /\ kq_fired' = kq_fired
      /\ kq_true' = kq_true /\ kq_woken' = kq_woken /\ kq_mode' = "app"
  BY Zenon, <1>2 DEF kq_kernel, R, W, a, b
<1> HIDE DEF q
<1>7. XR \in SUBSET {R} /\ XW \in SUBSET {W} /\ (XR = {} \/ XW = {})
  BY Zenon
<1>8. kq_want' \in SUBSET Filters
  BY Zenon, <1>1, <1>4, <1>6, <1>7
<1>9. Made(kq_filters, q, n + 2) = kq_want'
  BY Zenon, <1>4, <1>5, <1>6, <1>7 DEF Made
<1>10. ASSUME NEW g \in KqFds PROVE <<g, "R">> \notin kq_want' \/ <<g, "W">> \notin kq_want'
  <2>1. CASE g = f
    <3>1. R \notin kq_want' \/ W \notin kq_want'
      BY Zenon, <1>2, <1>6, <1>7
    <3>2. <<g, "R">> = R /\ <<g, "W">> = W
      BY Zenon, <2>1 DEF R, W
    <3>3. QED BY Zenon, <3>1, <3>2
  <2>2. CASE g # f
    <3>1. <<g, "R">> # R /\ <<g, "W">> # R /\ <<g, "R">> # W /\ <<g, "W">> # W
      BY <2>2 DEF R, W
    <3>2. QED BY Zenon, <1>4, <1>6, <1>7, <3>1
  <2>3. QED BY Zenon, <2>1, <2>2
<1>11. ASSUME ~kq_modded'
       PROVE  /\ SomeBad(kq_filters, q) /\ (kq_woken => Wake \in kq_fired)
              /\ OnTheWay(kq_want', kq_fired, kq_true, kq_seen', q)
  <2>1. ~kq_modded /\ ((ra = "delete" /\ R \notin kq_want) \/ (wa = "delete" /\ W \notin kq_want))
    <3>1. kq_modded' = kq_modded /\ (\/ ra = "delete" /\ <<f, "R">> \notin kq_want
                                     \/ wa = "delete" /\ <<f, "W">> \notin kq_want)
      BY Zenon, <1>11
    <3>2. ~kq_modded
      BY SMT, <1>11, <3>1
    <3>3. QED BY Zenon, <3>1, <3>2 DEF R, W
  <2>2. SomeBad(kq_filters, q)
    BY Zenon, <1>4, <1>5, <2>1
  <2>3. ASSUME NEW x \in kq_want', x \in kq_true, x \notin kq_seen'
        PROVE  x \in Active(kq_fired, kq_true, q, n + 2)
    <3>1. CASE x \in XR \/ x \in XW
      BY Zenon, <1>5, <2>3, <3>1 DEF Active
    <3>2. CASE x \notin XR /\ x \notin XW
      <4>1. x \in kq_want /\ x \notin {R, W} /\ x \notin kq_seen
        BY Zenon, <1>6, <2>3, <3>2
      <4>2. x \in Active(kq_fired, kq_true, p, n)
        BY Zenon, <1>4, <2>1, <2>3, <4>1 DEF OnTheWay
      <4>3. QED BY Zenon, <1>5, <4>1, <4>2 DEF Active
    <3>3. QED BY Zenon, <3>1, <3>2
  <2>4. QED BY Zenon, <1>4, <1>5, <2>1, <2>2, <2>3 DEF OnTheWay
<1>12. Made(kq_filters', kq_pending', Len(kq_pending')) = kq_want'
  BY Zenon, <1>5, <1>6, <1>9
<1>13. KqGood(kq_want', kq_pending', kq_filters', kq_fired', kq_true', kq_seen', kq_woken', kq_mode',
              kq_modded')
  BY Zenon, <1>4, <1>5, <1>6, <1>8, <1>10, <1>11, <1>12 DEF KqGood
<1>14. QED BY Zenon, <1>13 DEF KqInv, KqGood, OnTheWay, SomeBad, Bad, Active, Made, AllAdded, AllTouched

LEMMA NoChanges ==
  /\ AllTouched(<<>>, 0) = {} /\ AllAdded(<<>>, 0) = {} /\ Len(<<>>) = 0 /\ <<>> \in Seq(Changes)
  /\ \A fs : Made(fs, <<>>, 0) = fs
  /\ \A fired, true : Active(fired, true, <<>>, 0) = fired
<1>1. \A i \in 1..0 : FALSE
  OBVIOUS
<1>2. AllTouched(<<>>, 0) = {} /\ AllAdded(<<>>, 0) = {}
  BY Zenon, <1>1 DEF AllTouched, AllAdded
<1>3. Len(<<>>) = 0 /\ <<>> \in Seq(Changes)
  OBVIOUS
<1>4. QED BY Zenon, <1>2, <1>3 DEF Made, Active

LEMMA KqStart == KqInit => KqInv
<1> SUFFICES ASSUME KqInit PROVE KqInv
  OBVIOUS
<1>1. /\ kq_want = {} /\ kq_pending = <<>> /\ kq_filters = {} /\ kq_woken = FALSE
      /\ kq_mode = "app" /\ "app" # "flush"
  BY Zenon DEF KqInit
<1>2. Made(kq_filters, kq_pending, Len(kq_pending)) = kq_want /\ kq_pending \in Seq(Changes)
  BY Zenon, <1>1, NoChanges
<1>3. QED BY Zenon, <1>1, <1>2 DEF KqInv, KqGood, OnTheWay

LEMMA KqStep ==
  ASSUME KqInv, [KqNext]_kq_vars
  PROVE  KqInv'
<1> DEFINE n == Len(kq_pending)
<1>0. /\ kq_want \in SUBSET Filters /\ kq_filters \in SUBSET Filters /\ kq_pending \in Seq(Changes)
      /\ kq_mode # "app" => kq_pending = <<>>
      /\ Made(kq_filters, kq_pending, n) = kq_want
      /\ \A g \in KqFds : <<g, "R">> \notin kq_want \/ <<g, "W">> \notin kq_want
  BY Zenon DEF KqInv, KqGood
<1>1. ASSUME ~kq_modded
      PROVE  /\ kq_mode # "flush" /\ (kq_pending = <<>> \/ SomeBad(kq_filters, kq_pending))
             /\ kq_woken => Wake \in kq_fired
             /\ OnTheWay(kq_want, kq_fired, kq_true, kq_seen, kq_pending)
  BY Zenon, <1>1 DEF KqInv, KqGood
<1>2. ASSUME KqGood(kq_want', kq_pending', kq_filters', kq_fired', kq_true', kq_seen', kq_woken',
                    kq_mode', kq_modded')
      PROVE  KqInv'
  BY Zenon, <1>2 DEF KqInv, KqGood, OnTheWay, SomeBad, Bad, Active, Made, AllAdded, AllTouched
<1>3. ASSUME NEW f \in KqFds, NEW d \in Dirs, KqAdd(f, d) \/ KqMod(f, d) PROVE KqInv'
  <2> DEFINE ra == IF d = "R" THEN "add" ELSE "delete"
             wa == IF d = "W" THEN "add" ELSE "delete"
  <2>1. /\ kq_mode = "app" /\ kq_pending' = kq_pending \o <<Change(f, "R", ra), Change(f, "W", wa)>>
        /\ kq_want' = (kq_want \ Of(f)) \cup {<<f, d>>}
        /\ kq_seen' = kq_seen \ Of(f) /\ UNCHANGED <<kq_kernel, kq_mode>>
        /\ kq_modded' \/ (kq_modded' = kq_modded /\ ~Registered(f))
    <3>1. KqSetInterest(f, d) /\ (kq_modded' \/ (kq_modded' = kq_modded /\ ~Registered(f)))
      BY Zenon, <1>3 DEF KqAdd, KqMod
    <3>2. QED BY Zenon, <3>1 DEF KqSetInterest, Buffer, Apply
  <2>2. (d = "R" /\ ra = "add" /\ wa = "delete") \/ (d = "W" /\ ra = "delete" /\ wa = "add")
    <3>1. d = "R" \/ d = "W"
      BY Zenon DEF Dirs
    <3>2. ASSUME d = "R" PROVE ra = "add" /\ wa = "delete"
      BY <3>2
    <3>3. ASSUME d = "W" PROVE ra = "delete" /\ wa = "add"
      BY <3>3
    <3>4. QED BY Zenon, <3>1, <3>2, <3>3
  <2>3. ~Registered(f) => <<f, "R">> \notin kq_want /\ <<f, "W">> \notin kq_want
    BY Zenon, OfTwo DEF Registered
  <2> HIDE DEF ra, wa
  <2>4. ra \in {"add", "delete"} /\ wa \in {"add", "delete"} /\ (ra = "delete" \/ wa = "delete")
        /\ kq_want' = (kq_want \ Of(f)) \cup (IF ra = "add" THEN {<<f, "R">>} ELSE {})
                       \cup (IF wa = "add" THEN {<<f, "W">>} ELSE {})
    BY <2>1, <2>2
  <2>5. QED BY Zenon, <2>1, <2>2, <2>3, <2>4, InterestKeeps
<1>4. ASSUME NEW f \in KqFds, KqDel(f) PROVE KqInv'
  <2>1. /\ kq_mode = "app"
        /\ kq_pending' = kq_pending \o <<Change(f, "R", "delete"), Change(f, "W", "delete")>>
        /\ kq_want' = kq_want \ Of(f) /\ kq_modded' = kq_modded
        /\ kq_seen' = kq_seen \ Of(f) /\ UNCHANGED <<kq_kernel, kq_mode>>
    BY Zenon, <1>4 DEF KqDel, Buffer, DeleteBoth
  <2> DEFINE ra == "delete"
  <2>2. kq_want' = (kq_want \ Of(f)) \cup (IF ra = "add" THEN {<<f, "R">>} ELSE {})
                       \cup (IF ra = "add" THEN {<<f, "W">>} ELSE {})
    BY <2>1
  <2>3. ra \in {"add", "delete"} /\ ra = "delete"
    OBVIOUS
  <2> HIDE DEF ra
  <2>4. QED BY Zenon, <1>0, <2>1, <2>2, <2>3, InterestKeeps
<1>5. ASSUME NEW f \in KqFds, KqClose(f) PROVE KqInv'
  <2>1. /\ kq_mode = "app" /\ ~Registered(f) /\ kq_filters' = kq_filters \ Of(f)
        /\ kq_fired' = kq_fired \ Of(f) /\ kq_true' = kq_true \ Of(f)
        /\ kq_want' = kq_want /\ kq_pending' = kq_pending /\ kq_seen' = kq_seen
        /\ kq_woken' = kq_woken /\ kq_mode' = kq_mode /\ kq_modded' = kq_modded
    BY Zenon, <1>5 DEF KqClose
  <2>2. kq_want \cap Of(f) = {}
    BY Zenon, <2>1 DEF Registered
  <2>3. Made(kq_filters', kq_pending, n) = kq_want
    BY Zenon, <1>0, <2>1, <2>2 DEF Made
  <2>4. ASSUME SomeBad(kq_filters, kq_pending) PROVE SomeBad(kq_filters', kq_pending)
    <3>1. \A i : Made(kq_filters', kq_pending, i) \subseteq Made(kq_filters, kq_pending, i)
      BY Zenon, <2>1 DEF Made
    <3>2. QED BY Zenon, <2>4, <3>1 DEF SomeBad, Bad
  <2>5. ASSUME OnTheWay(kq_want, kq_fired, kq_true, kq_seen, kq_pending)
        PROVE  OnTheWay(kq_want, kq_fired', kq_true', kq_seen, kq_pending)
    BY Zenon, <2>1, <2>2, <2>5 DEF OnTheWay, Active
  <2>6. Wake \in kq_fired => Wake \in kq_fired'
    BY Zenon, <2>1, OfTwo
  <2>7. kq_filters' \in SUBSET Filters
    BY Zenon, <1>0, <2>1
  <2>8. QED BY Zenon, <1>0, <1>1, <1>2, <2>1, <2>3, <2>4, <2>5, <2>6, <2>7 DEF KqGood
<1>6. CASE KqFlush
  <2>1. /\ kq_mode = "app" /\ kq_filters' = FiltersAfter(n) /\ kq_fired' = FiredAfter(n)
        /\ kq_pending' = <<>>
        /\ kq_mode' = IF n = 0 \/ \E i \in 1..n : InError(i) THEN "wait" ELSE "flush"
        /\ kq_want' = kq_want /\ kq_true' = kq_true /\ kq_seen' = kq_seen
        /\ kq_woken' = kq_woken /\ kq_modded' = kq_modded
    BY Zenon, <1>6 DEF KqFlush
  <2>2. kq_filters' = kq_want
    BY Zenon, <1>0, <2>1 DEF FiltersAfter, Touched, Added, Deciding, Made, AllTouched, AllAdded
  <2>3. kq_fired' = Active(kq_fired, kq_true, kq_pending, n)
    BY Zenon, <2>1 DEF FiredAfter, Touched, Added, Deciding, Active, AllTouched, AllAdded
  <2>4. /\ Made(kq_filters', kq_pending', Len(kq_pending')) = kq_want' /\ kq_pending' \in Seq(Changes)
        /\ Active(kq_fired', kq_true', kq_pending', Len(kq_pending')) = kq_fired'
    BY Zenon, <2>1, <2>2, NoChanges
  <2>5. ASSUME ~kq_modded
        PROVE  /\ kq_mode' # "flush" /\ (kq_woken => Wake \in kq_fired')
               /\ OnTheWay(kq_want', kq_fired', kq_true', kq_seen', kq_pending')
    <3>1. n = 0 \/ \E i \in 1..n : InError(i)
      <4>1. CASE kq_pending = <<>>
        BY <4>1
      <4>2. CASE SomeBad(kq_filters, kq_pending)
        <5>1. \A i : InError(i) <=> Bad(kq_filters, kq_pending, i)
          BY Zenon DEF Bad, InError, FiltersAfter, Touched, Added, Deciding, Made, AllTouched,
                       AllAdded
        <5>2. QED BY Zenon, <4>2, <5>1 DEF SomeBad
      <4>3. QED BY Zenon, <1>1, <2>5, <4>1, <4>2
    <3>2. kq_mode' = "wait" /\ "wait" # "flush"
      BY Zenon, <2>1, <3>1
    <3>3. Wake \notin AllTouched(kq_pending, n)
      <4>1. \A i \in 1..n : kq_pending[i].x \in Filters
        <5>1. \A i \in 1..n : kq_pending[i] \in Changes
          BY <1>0
        <5>2. \A c \in Changes : c.x \in Filters
          BY DEF Changes
        <5>3. QED BY Zenon, <5>1, <5>2
      <4>2. QED BY Zenon, <4>1, OfTwo DEF AllTouched
    <3>4. kq_woken => Wake \in kq_fired'
      BY Zenon, <1>1, <2>3, <2>5, <3>3 DEF Active
    <3>5. OnTheWay(kq_want', kq_fired', kq_true', kq_seen', kq_pending')
      BY Zenon, <1>1, <2>1, <2>3, <2>4, <2>5 DEF OnTheWay
    <3>6. QED BY Zenon, <3>2, <3>4, <3>5
  <2>6. QED BY Zenon, <1>0, <1>2, <2>1, <2>2, <2>4, <2>5 DEF KqGood
<1>7. CASE KqFlushReturns
  <2>1. /\ kq_mode = "flush" /\ kq_mode' = "wait" /\ kq_want' = kq_want /\ kq_pending' = kq_pending
        /\ kq_filters' = kq_filters /\ kq_modded' = kq_modded
    BY Zenon, <1>7 DEF KqFlushReturns
  <2>2. kq_modded /\ kq_pending = <<>>
    <3>1. "flush" # "app"
      OBVIOUS
    <3>2. QED BY Zenon, <1>0, <1>1, <2>1, <3>1
  <2>3. QED BY Zenon, <1>0, <1>2, <2>1, <2>2 DEF KqGood
<1>8. CASE KqWaitReturns
  <2>1. PICK some \in SUBSET kq_fired :
          /\ kq_fired' = kq_fired \ some /\ kq_seen' = kq_seen \cup (some \ {Wake})
          /\ kq_woken' = (kq_woken /\ Wake \notin some)
    BY Zenon, <1>8 DEF KqWaitReturns
  <2>2. /\ kq_mode = "wait" /\ kq_mode' = "app" /\ kq_want' = kq_want /\ kq_pending' = kq_pending
        /\ kq_filters' = kq_filters /\ kq_true' = kq_true /\ kq_modded' = kq_modded
    BY Zenon, <1>8 DEF KqWaitReturns
  <2>3. kq_pending = <<>> /\ "app" # "flush"
    <3>1. "wait" # "app" /\ "app" # "flush"
      OBVIOUS
    <3>2. QED BY Zenon, <1>0, <2>2, <3>1
  <2>4. \A fired, true : Active(fired, true, kq_pending, Len(kq_pending)) = fired
    BY Zenon, <2>3, NoChanges
  <2>5. ASSUME OnTheWay(kq_want, kq_fired, kq_true, kq_seen, kq_pending)
        PROVE  OnTheWay(kq_want, kq_fired', kq_true, kq_seen', kq_pending)
    <3> SUFFICES ASSUME NEW x \in kq_want, x \in kq_true, x \notin kq_seen' PROVE x \in kq_fired'
      BY Zenon, <2>4 DEF OnTheWay
    <3>1. x \in kq_fired
      BY Zenon, <2>1, <2>4, <2>5 DEF OnTheWay
    <3>2. x # Wake
      BY Zenon, <1>0, OfTwo
    <3>3. QED BY Zenon, <2>1, <3>1, <3>2
  <2>6. ASSUME kq_woken => Wake \in kq_fired PROVE kq_woken' => Wake \in kq_fired'
    BY Zenon, <2>1, <2>6
  <2>7. QED BY Zenon, <1>0, <1>1, <1>2, <2>2, <2>3, <2>5, <2>6 DEF KqGood
<1>9. CASE KqWakeup
  <2>1. /\ kq_fired' = kq_fired \cup {Wake} /\ kq_want' = kq_want /\ kq_pending' = kq_pending
        /\ kq_filters' = kq_filters /\ kq_true' = kq_true /\ kq_seen' = kq_seen
        /\ kq_mode' = kq_mode /\ kq_modded' = kq_modded
    BY Zenon, <1>9 DEF KqWakeup
  <2>2. Wake \in kq_fired' /\ \A p : Active(kq_fired, kq_true, p, Len(p)) \subseteq Active(kq_fired', kq_true, p, Len(p))
    BY Zenon, <2>1 DEF Active
  <2>3. QED BY Zenon, <1>0, <1>1, <1>2, <2>1, <2>2 DEF KqGood, OnTheWay
<1>10. ASSUME NEW x \in Filters, KqBecomesTrue(x) PROVE KqInv'
  <2>1. /\ kq_true' = kq_true \cup {x} /\ kq_fired' = kq_fired \cup ({x} \cap kq_filters)
        /\ kq_want' = kq_want /\ kq_pending' = kq_pending /\ kq_filters' = kq_filters
        /\ kq_seen' = kq_seen /\ kq_woken' = kq_woken /\ kq_mode' = kq_mode /\ kq_modded' = kq_modded
    BY Zenon, <1>10 DEF KqBecomesTrue
  <2>2. ASSUME OnTheWay(kq_want, kq_fired, kq_true, kq_seen, kq_pending)
        PROVE  OnTheWay(kq_want, kq_fired', kq_true', kq_seen, kq_pending)
    <3> SUFFICES ASSUME NEW y \in kq_want, y \in kq_true', y \notin kq_seen
                 PROVE  y \in Active(kq_fired', kq_true', kq_pending, n)
      BY Zenon DEF OnTheWay
    <3>1. CASE y = x
      <4>1. x \in Made(kq_filters, kq_pending, n)
        BY Zenon, <1>0, <3>1
      <4>2. QED BY Zenon, <2>1, <3>1, <4>1 DEF Made, Active
    <3>2. CASE y # x
      <4>1. y \in Active(kq_fired, kq_true, kq_pending, n)
        BY Zenon, <2>1, <2>2, <3>2 DEF OnTheWay
      <4>2. QED BY Zenon, <2>1, <4>1 DEF Active
    <3>3. QED BY Zenon, <3>1, <3>2
  <2>3. QED BY Zenon, <1>0, <1>1, <1>2, <2>1, <2>2 DEF KqGood
<1>11. ASSUME NEW x \in Filters, KqDrained(x) PROVE KqInv'
  <2>1. /\ kq_true' = kq_true \ {x} /\ kq_fired' = kq_fired \ {x} /\ kq_seen' = kq_seen \ {x}
        /\ kq_want' = kq_want /\ kq_pending' = kq_pending /\ kq_filters' = kq_filters
        /\ kq_woken' = kq_woken /\ kq_mode' = kq_mode /\ kq_modded' = kq_modded
    BY Zenon, <1>11 DEF KqDrained
  <2>2. ASSUME OnTheWay(kq_want, kq_fired, kq_true, kq_seen, kq_pending)
        PROVE  OnTheWay(kq_want, kq_fired', kq_true', kq_seen', kq_pending)
    BY Zenon, <2>1, <2>2 DEF OnTheWay, Active
  <2>3. Wake \in kq_fired => Wake \in kq_fired'
    BY Zenon, <2>1, OfTwo
  <2>4. QED BY Zenon, <1>0, <1>1, <1>2, <2>1, <2>2, <2>3 DEF KqGood
<1>12. CASE UNCHANGED kq_vars
  <2>1. /\ kq_want' = kq_want /\ kq_pending' = kq_pending /\ kq_filters' = kq_filters
        /\ kq_fired' = kq_fired /\ kq_true' = kq_true /\ kq_seen' = kq_seen /\ kq_woken' = kq_woken
        /\ kq_mode' = kq_mode /\ kq_modded' = kq_modded
    BY Zenon, <1>12 DEF kq_vars
  <2>2. QED BY Zenon, <1>2, <2>1 DEF KqInv
<1>13. QED BY Zenon, <1>3, <1>4, <1>5, <1>6, <1>7, <1>8, <1>9, <1>10, <1>11, <1>12 DEF KqNext

(* After a flush the kernel has the filters last asked for, and add() and del() lose
   no transition, for every set of descriptors and every number of buffered changes. *)
THEOREM FlushIsRight == KqSpec => []ChangesReachTheKernel
<1>1. KqInv => ChangesReachTheKernel
  <2> SUFFICES ASSUME KqInv PROVE ChangesReachTheKernel
    OBVIOUS
  <2>1. ASSUME kq_mode # "app" PROVE kq_filters = kq_want
    <3>1. kq_pending = <<>> /\ Made(kq_filters, kq_pending, Len(kq_pending)) = kq_want
      BY Zenon, <2>1 DEF KqInv, KqGood
    <3>2. QED BY Zenon, <3>1, NoChanges
  <2>2. ASSUME ~kq_modded PROVE NoTransitionLost
    <3>1. (kq_woken => Wake \in kq_fired) /\ OnTheWay(kq_want, kq_fired, kq_true, kq_seen, kq_pending)
      BY Zenon, <2>2 DEF KqInv, KqGood
    <3>2. QED BY Zenon, <3>1 DEF NoTransitionLost, OnTheWay, Active, AllTouched, AllAdded,
                                 FiredAfter, Touched, Added, Deciding
  <2>3. QED BY Zenon, <2>1, <2>2 DEF ChangesReachTheKernel
<1>2. KqInv /\ [KqNext]_kq_vars => KqInv'
  BY KqStep
<1>3. QED BY <1>1, <1>2, KqStart, PTL DEF KqSpec

-----------------------------------------------------------------------------
(* The framing of requests *)

INSTANCE WellFoundedInduction

(* A nonempty set of numbers has a least member, the one FirstHit() takes. *)
Least(S) == CHOOSE x \in S : \A y \in S : x <= y

LEMMA LeastExists ==
  ASSUME NEW S \in SUBSET Nat, S # {}
  PROVE  Least(S) \in S /\ \A y \in S : Least(S) <= y
<1>1. PICK x \in S : \A y \in S : ~(<<y, x>> \in OpToRel(<, Nat))
  BY Zenon, WFMin, NatLessThanWellFounded
<1>2. ASSUME NEW a \in Nat, NEW b \in Nat, a < b PROVE <<a, b>> \in OpToRel(<, Nat)
  <2> DEFINE p == <<a, b>>
  <2>1. p \in Nat \X Nat /\ p[1] < p[2]
    BY Zenon, <1>2
  <2> HIDE DEF p
  <2>2. p \in OpToRel(<, Nat)
    BY Zenon, <2>1 DEF OpToRel
  <2>3. QED BY Zenon, <2>2 DEF p
<1>3. \A y \in S : x <= y
  <2>1. \A y \in S : ~(y < x)
    BY Zenon, <1>1, <1>2
  <2>2. QED BY <2>1
<1>4. QED BY Zenon, <1>3 DEF Least

Bytes == {"r", "n", "x"}

(* Where memmem() finds "\r\n\r\n", byte by byte. *)
NeedleAt(b, i) == b[i+1] = "r" /\ b[i+2] = "n" /\ b[i+3] = "r" /\ b[i+4] = "n"

LEMMA HitsByByte ==
  ASSUME NEW b \in Seq(Bytes), NEW from \in Nat, NEW i
  PROVE  i \in Hits(b, from) <=> i \in Nat /\ from <= i /\ i + 4 <= Len(b) /\ NeedleAt(b, i)
<1>1. ASSUME NEW k \in Nat, k + 4 <= Len(b)
      PROVE  SubSeq(b, k+1, k+4) = Needle <=> NeedleAt(b, k)
  <2> DEFINE s == SubSeq(b, k+1, k+4)
  <2>1. s \in Seq(Bytes) /\ Len(s) = 4
    BY <1>1
  <2>2. s[1] = b[k+1] /\ s[2] = b[k+2] /\ s[3] = b[k+3] /\ s[4] = b[k+4]
    BY <1>1
  <2> HIDE DEF s
  <2>3. s = Needle <=> (s[1] = "r" /\ s[2] = "n" /\ s[3] = "r" /\ s[4] = "n")
    BY <2>1 DEF Needle
  <2>4. QED BY <2>2, <2>3 DEF NeedleAt, s
<1>2. Len(b) \in Nat
  OBVIOUS
<1>3. i \in from..(Len(b) - 4) <=> i \in Nat /\ from <= i /\ i + 4 <= Len(b)
  BY <1>2
<1>4. QED BY ZenonT(30), <1>1, <1>3 DEF Hits, needle_len

(* Bytes that are appended leave the earlier ones, and so the hits among them,
   where they were. *)
LEMMA HitsOfAppended ==
  ASSUME NEW b \in Seq(Bytes), NEW c \in Seq(Bytes), NEW i \in Nat, i + 4 <= Len(b)
  PROVE  i \in Hits(b \o c, 0) <=> i \in Hits(b, 0)
<1>1. b \o c \in Seq(Bytes) /\ Len(b \o c) = Len(b) + Len(c) /\ Len(b) \in Nat /\ Len(c) \in Nat
  OBVIOUS
<1>2. \A k \in 1..Len(b) : (b \o c)[k] = b[k]
  OBVIOUS
<1>3. NeedleAt(b \o c, i) <=> NeedleAt(b, i)
  BY <1>1, <1>2 DEF NeedleAt
<1>4. i \in Hits(b \o c, 0) <=> i \in Nat /\ 0 <= i /\ i + 4 <= Len(b \o c) /\ NeedleAt(b \o c, i)
  BY Zenon, <1>1, HitsByByte
<1>5. i \in Hits(b, 0) <=> i \in Nat /\ 0 <= i /\ i + 4 <= Len(b) /\ NeedleAt(b, i)
  BY HitsByByte
<1>6. QED BY <1>1, <1>3, <1>4, <1>5

LEMMA HitsOfPrefix ==
  ASSUME NEW b \in Seq(Bytes), NEW n \in 0..Len(b), NEW i
  PROVE  i \in Hits(SubSeq(b, 1, n), 0) <=> i \in Hits(b, 0) /\ i + 4 <= n
<1> DEFINE s == SubSeq(b, 1, n)
<1>1. s \in Seq(Bytes) /\ Len(s) = n /\ n \in Nat /\ Len(b) \in Nat /\ n <= Len(b)
  OBVIOUS
<1>2. \A k \in 1..n : s[k] = b[k]
  BY <1>1
<1> HIDE DEF s
<1>3. ASSUME NEW j \in Nat, j + 4 <= n PROVE NeedleAt(s, j) <=> NeedleAt(b, j)
  BY <1>1, <1>2, <1>3 DEF NeedleAt
<1>4. i \in Hits(s, 0) <=> i \in Nat /\ 0 <= i /\ i + 4 <= n /\ NeedleAt(s, i)
  BY <1>1, HitsByByte
<1>5. i \in Hits(b, 0) <=> i \in Nat /\ 0 <= i /\ i + 4 <= Len(b) /\ NeedleAt(b, i)
  BY HitsByByte
<1>6. QED BY <1>1, <1>3, <1>4, <1>5 DEF s

(* The search resumes early enough: when the bytes seen so far hold no needle, it
   overlooks none. *)
LEMMA SearchIsComplete ==
  ASSUME NEW b \in Seq(Bytes), NEW c \in Seq(Bytes), NEW n \in Nat,
         Hits(b, 0) = {}, n <= Overlap(Len(b))
  PROVE  LET from == IF Overlap(Len(b)) >= n THEN Overlap(Len(b)) ELSE n
         IN  from \in Nat /\ Hits(b \o c, from) = Hits(b \o c, 0)
<1> DEFINE from == IF Overlap(Len(b)) >= n THEN Overlap(Len(b)) ELSE n
<1>1. Len(b) \in Nat /\ Overlap(Len(b)) \in Nat
  BY DEF Overlap, needle_len
<1>2. from = Overlap(Len(b))
  BY <1>1
<1>a. b \o c \in Seq(Bytes) /\ 0 \in Nat
  OBVIOUS
<1>3. ASSUME NEW i \in Hits(b \o c, 0) PROVE from <= i
  <2>1. i \in Nat
    BY Zenon, <1>a, HitsByByte
  <2>2. ~(i + 4 <= Len(b))
    BY <2>1, HitsOfAppended
  <2>3. QED BY <1>1, <1>2, <2>1, <2>2 DEF Overlap, needle_len
<1>4. from \in Nat
  BY <1>1, <1>2
<1> HIDE DEF from
<1>5. ASSUME NEW i PROVE i \in Hits(b \o c, from) <=> i \in Hits(b \o c, 0)
  <2>1. i \in Hits(b \o c, from) <=>
          i \in Nat /\ from <= i /\ i + 4 <= Len(b \o c) /\ NeedleAt(b \o c, i)
    BY Zenon, <1>a, <1>4, HitsByByte
  <2>2. i \in Hits(b \o c, 0) <=>
          i \in Nat /\ 0 <= i /\ i + 4 <= Len(b \o c) /\ NeedleAt(b \o c, i)
    BY Zenon, <1>a, HitsByByte
  <2>3. i \in Nat => 0 <= i
    OBVIOUS
  <2>4. QED BY Zenon, <1>3, <2>1, <2>2, <2>3
<1>6. Hits(b \o c, from) = Hits(b \o c, 0)
  BY Zenon, <1>5
<1>7. QED BY Zenon, <1>4, <1>6 DEF from

(* n cuts b right after its first needle. *)
CutsFirst(b, n) ==
  n - needle_len \in Hits(b, 0) /\ \A i \in Hits(b, 0) : i >= n - needle_len

LEMMA CutIsRequest ==
  ASSUME NEW b \in Seq(Bytes), NEW n \in Nat, CutsFirst(b, n)
  PROVE  /\ n \in 4..Len(b)
         /\ Hits(SubSeq(b, 1, n), 0) = {Len(SubSeq(b, 1, n)) - needle_len}
<1>1. n - 4 \in Nat /\ n - 4 + 4 <= Len(b)
  BY HitsByByte DEF CutsFirst, needle_len
<1>2. Len(b) \in Nat /\ n \in 4..Len(b)
  BY <1>1
<1>3. Len(SubSeq(b, 1, n)) = n
  BY <1>2
<1>4. ASSUME NEW i PROVE i \in Hits(SubSeq(b, 1, n), 0) <=> i = n - 4
  <2>1. i \in Hits(SubSeq(b, 1, n), 0) <=> i \in Hits(b, 0) /\ i + 4 <= n
    BY <1>2, HitsOfPrefix
  <2>2. i \in Hits(b, 0) => i \in Nat /\ i >= n - 4
    BY HitsByByte DEF CutsFirst, needle_len
  <2>3. n - 4 \in Hits(b, 0)
    BY DEF CutsFirst, needle_len
  <2>4. QED BY <1>1, <1>2, <2>1, <2>2, <2>3
<1>5. QED BY <1>2, <1>3, <1>4 DEF needle_len

LEMMA FirstHitCuts ==
  ASSUME NEW b \in Seq(Bytes), NEW from \in Nat, Hits(b, from) = Hits(b, 0), Found(b, from)
  PROVE  FirstHit(b, from) + needle_len \in Nat /\ CutsFirst(b, FirstHit(b, from) + needle_len)
<1>1. Hits(b, from) \in SUBSET Nat /\ Hits(b, from) # {}
  BY HitsByByte DEF Found
<1>2. FirstHit(b, from) \in Hits(b, from) /\ \A y \in Hits(b, from) : FirstHit(b, from) <= y
  BY <1>1, LeastExists DEF FirstHit, Least
<1>3. QED BY <1>1, <1>2 DEF CutsFirst, needle_len

-----------------------------------------------------------------------------
(* Byte by byte: what is joined, and what follows the first n bytes. *)
LEMMA JoinedBytes ==
  ASSUME NEW b \in Seq(Bytes), NEW c \in Seq(Bytes)
  PROVE  /\ b \o c \in Seq(Bytes) /\ Len(b \o c) = Len(b) + Len(c)
         /\ \A i \in 1..Len(b) : (b \o c)[i] = b[i]
         /\ \A i \in 1..Len(c) : (b \o c)[Len(b) + i] = c[i]
OBVIOUS

LEMMA AfterBytes ==
  ASSUME NEW b \in Seq(Bytes), NEW n \in 0..Len(b)
  PROVE  /\ SubSeq(b, n+1, Len(b)) \in Seq(Bytes) /\ Len(SubSeq(b, n+1, Len(b))) = Len(b) - n
         /\ \A i \in 1..(Len(b) - n) : SubSeq(b, n+1, Len(b))[i] = b[n + i]
OBVIOUS

(* Two byte sequences that agree byte by byte. *)
LEMMA SameBytes ==
  ASSUME NEW s \in Seq(Bytes), NEW t \in Seq(Bytes), Len(s) = Len(t),
         \A i \in 1..Len(s) : s[i] = t[i]
  PROVE  s = t
OBVIOUS

(* Reading moves bytes from the socket to the end of the buffer. *)
LEMMA ReadKeepsStream ==
  ASSUME NEW b \in Seq(Bytes), NEW r \in Seq(Bytes), NEW n \in 0..Len(r)
  PROVE  /\ SubSeq(r, 1, n) \in Seq(Bytes) /\ SubSeq(r, n+1, Len(r)) \in Seq(Bytes)
         /\ b \o SubSeq(r, 1, n) \in Seq(Bytes)
         /\ (b \o SubSeq(r, 1, n)) \o SubSeq(r, n+1, Len(r)) = b \o r
<1> DEFINE p == SubSeq(r, 1, n)
           q == SubSeq(r, n+1, Len(r))
<1>1. n \in Nat /\ Len(r) \in Nat /\ n <= Len(r) /\ Len(b) \in Nat
  OBVIOUS
<1>2. p \in Seq(Bytes) /\ Len(p) = n /\ \A i \in 1..n : p[i] = r[i]
  BY <1>1
<1>3. q \in Seq(Bytes) /\ Len(q) = Len(r) - n /\ \A i \in 1..(Len(r) - n) : q[i] = r[n + i]
  BY <1>1
<1> HIDE DEF p, q
<1> DEFINE bp == b \o p
<1>4. bp \in Seq(Bytes) /\ Len(bp) = Len(b) + n
      /\ (\A i \in 1..Len(b) : bp[i] = b[i]) /\ (\A i \in 1..n : bp[Len(b) + i] = p[i])
  BY <1>1, <1>2
<1> HIDE DEF bp
<1> DEFINE x == bp \o q
           y == b \o r
<1>5. x \in Seq(Bytes) /\ Len(x) = Len(b) + Len(r)
      /\ (\A i \in 1..(Len(b) + n) : x[i] = bp[i])
      /\ (\A i \in 1..(Len(r) - n) : x[Len(b) + n + i] = q[i])
  <2>1. /\ x \in Seq(Bytes) /\ Len(x) = Len(bp) + Len(q)
        /\ \A i \in 1..Len(bp) : x[i] = bp[i]
        /\ \A i \in 1..Len(q) : x[Len(bp) + i] = q[i]
    BY Zenon, <1>3, <1>4, JoinedBytes
  <2> HIDE DEF x
  <2>2. QED BY <1>1, <1>3, <1>4, <2>1
<1>6. y \in Seq(Bytes) /\ Len(y) = Len(b) + Len(r)
      /\ (\A i \in 1..Len(b) : y[i] = b[i]) /\ (\A i \in 1..Len(r) : y[Len(b) + i] = r[i])
  BY <1>1
<1> HIDE DEF x, y
<1>7. ASSUME NEW i \in 1..(Len(b) + Len(r)) PROVE x[i] = y[i]
  <2>1. CASE i \in 1..Len(b)
    BY <1>1, <1>4, <1>5, <1>6, <2>1
  <2>2. CASE i \in (Len(b) + 1)..(Len(b) + n)
    <3>1. i - Len(b) \in 1..n /\ Len(b) + (i - Len(b)) = i /\ i \in 1..(Len(b) + n)
      BY <1>1, <2>2
    <3>2. i - Len(b) \in 1..Len(r)
      BY <1>1, <3>1
    <3>3. x[i] = p[i - Len(b)] /\ y[i] = r[i - Len(b)]
      BY ZenonT(30), <1>4, <1>5, <1>6, <3>1, <3>2
    <3>4. QED BY <1>2, <3>1, <3>3
  <2>3. CASE i \in (Len(b) + n + 1)..(Len(b) + Len(r))
    <3>1. /\ i - Len(b) - n \in 1..(Len(r) - n) /\ Len(b) + n + (i - Len(b) - n) = i
          /\ i - Len(b) \in 1..Len(r) /\ Len(b) + (i - Len(b)) = i
          /\ n + (i - Len(b) - n) = i - Len(b)
      BY <1>1, <2>3
    <3>2. x[i] = q[i - Len(b) - n] /\ y[i] = r[i - Len(b)]
      BY ZenonT(30), <1>5, <1>6, <3>1
    <3>3. QED BY SMTT(30), <1>3, <3>1, <3>2
  <2>4. QED BY <1>1, <2>1, <2>2, <2>3
<1>8. x = y
  <2>1. Len(x) = Len(y) /\ \A i \in 1..Len(x) : x[i] = y[i]
    BY <1>5, <1>6, <1>7
  <2>2. QED BY Zenon, <1>5, <1>6, <2>1, SameBytes
<1>9. QED BY Zenon, <1>2, <1>3, <1>4, <1>8 DEF p, q, bp, x, y

(* What is buffered and unread is what follows the first e bytes of the stream. *)
Follows(b, r, e, s) == b \o r = SubSeq(s, e + 1, Len(s))

(* Carving splits what is left of the stream into the request and the new rest. *)
LEMMA CarveSplitsStream ==
  ASSUME NEW s \in Seq(Bytes), NEW b \in Seq(Bytes), NEW r \in Seq(Bytes),
         NEW e \in 0..Len(s), NEW n \in 0..Len(b), Follows(b, r, e, s)
  PROVE  /\ Len(s) - Len(b) - Len(r) = e /\ e + n \in 0..Len(s)
         /\ SubSeq(b, 1, n) \in Seq(Bytes) /\ Len(SubSeq(b, 1, n)) = n
         /\ SubSeq(b, n+1, Len(b)) \in Seq(Bytes)
         /\ SubSeq(b, 1, n) = SubSeq(s, e+1, e+n)
         /\ Follows(SubSeq(b, n+1, Len(b)), r, e + n, s)
<1> DEFINE x == b \o r
           p == SubSeq(b, 1, n)
           q == SubSeq(b, n+1, Len(b))
           u == SubSeq(s, e+1, e+n)
           v == SubSeq(s, e+n+1, Len(s))
<1>1. n \in Nat /\ e \in Nat /\ Len(b) \in Nat /\ Len(r) \in Nat /\ Len(s) \in Nat
      /\ n <= Len(b) /\ e <= Len(s)
  OBVIOUS
<1>2. x \in Seq(Bytes) /\ Len(x) = Len(b) + Len(r)
      /\ (\A i \in 1..Len(b) : x[i] = b[i]) /\ (\A i \in 1..Len(r) : x[Len(b) + i] = r[i])
  BY Zenon, JoinedBytes
<1>3. Len(x) = Len(s) - e /\ \A i \in 1..(Len(s) - e) : x[i] = s[e + i]
  <2> DEFINE w == SubSeq(s, e+1, Len(s))
  <2>1. Len(w) = Len(s) - e /\ \A i \in 1..(Len(s) - e) : w[i] = s[e + i]
    BY SMTT(30), <1>1
  <2>2. x = w
    BY Zenon DEF Follows
  <2> HIDE DEF x, w
  <2>3. QED BY <2>1, <2>2
<1>4. p \in Seq(Bytes) /\ Len(p) = n /\ \A i \in 1..n : p[i] = b[i]
  BY <1>1
<1>5. q \in Seq(Bytes) /\ Len(q) = Len(b) - n /\ \A i \in 1..(Len(b) - n) : q[i] = b[n + i]
  BY Zenon, AfterBytes
<1>6. e + n <= Len(s) /\ Len(s) - Len(b) - Len(r) = e
  BY <1>1, <1>2, <1>3
<1>7. u \in Seq(Bytes) /\ Len(u) = n /\ \A i \in 1..n : u[i] = s[e + i]
  BY <1>1, <1>6
<1>8. v \in Seq(Bytes) /\ Len(v) = Len(s) - (e + n)
      /\ \A i \in 1..(Len(s) - (e + n)) : v[i] = s[e + n + i]
  <2>1. e + n \in 0..Len(s)
    BY <1>1, <1>6
  <2>2. QED BY Zenon, <2>1, AfterBytes
<1> HIDE DEF x, p, q, u, v
<1>9. p = u
  <2>1. ASSUME NEW i \in 1..n PROVE p[i] = u[i]
    <3>1. i \in 1..Len(b) /\ i \in 1..(Len(s) - e)
      BY <1>1, <1>6
    <3>2. QED BY ZenonT(30), <1>2, <1>3, <1>4, <1>7, <3>1
  <2>2. QED BY <1>4, <1>7, <2>1, SameBytes
<1> DEFINE y == q \o r
<1>10. y \in Seq(Bytes) /\ Len(y) = Len(b) - n + Len(r)
       /\ (\A i \in 1..(Len(b) - n) : y[i] = q[i])
       /\ (\A i \in 1..Len(r) : y[Len(b) - n + i] = r[i])
  <2>1. /\ y \in Seq(Bytes) /\ Len(y) = Len(q) + Len(r)
        /\ \A i \in 1..Len(q) : y[i] = q[i]
        /\ \A i \in 1..Len(r) : y[Len(q) + i] = r[i]
    BY Zenon, <1>5, JoinedBytes
  <2> HIDE DEF y
  <2>2. QED BY ZenonT(30), <1>1, <1>5, <2>1
<1> HIDE DEF y
<1>11. ASSUME NEW i \in 1..(Len(b) - n + Len(r)) PROVE y[i] = v[i]
  <2>0. i \in 1..(Len(s) - (e + n)) /\ n + i \in 1..(Len(s) - e) /\ e + (n + i) = e + n + i
    BY <1>1, <1>6
  <2>1. v[i] = x[n + i]
    BY <1>3, <1>8, <2>0
  <2>2. CASE i \in 1..(Len(b) - n)
    <3>1. n + i \in 1..Len(b)
      BY <1>1, <2>2
    <3>2. QED BY <1>2, <1>5, <1>10, <2>1, <2>2, <3>1
  <2>3. CASE i \in (Len(b) - n + 1)..(Len(b) - n + Len(r))
    <3>1. /\ i - (Len(b) - n) \in 1..Len(r) /\ Len(b) - n + (i - (Len(b) - n)) = i
          /\ Len(b) + (i - (Len(b) - n)) = n + i
      BY <1>1, <2>3
    <3>2. y[i] = r[i - (Len(b) - n)] /\ x[n + i] = r[i - (Len(b) - n)]
      BY <1>2, <1>10, <3>1
    <3>3. QED BY <2>1, <3>2
  <2>4. QED BY <1>1, <2>2, <2>3
<1>12. y = v
  <2>1. Len(y) = Len(v) /\ \A i \in 1..Len(y) : y[i] = v[i]
    BY <1>1, <1>6, <1>8, <1>10, <1>11
  <2>2. QED BY Zenon, <1>8, <1>10, <2>1, SameBytes
<1>13. e + n \in 0..Len(s)
  BY <1>1, <1>6
<1>14. QED BY Zenon, <1>4, <1>5, <1>6, <1>9, <1>12, <1>13 DEF Follows, p, q, u, v, y

-----------------------------------------------------------------------------
(* What holds between the read() calls of an event, beside the types: scan_pos is
   0 while a worker has the connection; as long as no needle has been seen, the
   buffer holds none and the search has not passed the last three bytes; and the
   read() that sees the first needle leaves scan_pos right after it. *)
ScanInv ==
  /\ mode \in {"idle", "dispatched", "draining"} => ~late /\ ~got_complete
  /\ mode \in {"dispatched", "draining"} => scan_pos = 0
  /\ mode \in {"idle", "reading"} /\ ~got_complete =>
       Hits(read_buf, 0) = {} /\ scan_pos <= Overlap(Len(read_buf))
  /\ mode = "reading" /\ got_complete /\ ~late => CutsFirst(read_buf, scan_pos)

Handed == [bytes : Seq(Bytes), late : BOOLEAN, at : Nat]

(* OneRequestEach with the types of the history it is about. *)
StreamInv ==
  /\ sent \in Seq(Bytes) /\ carved \in Seq(Handed)
  /\ CutAfter(Len(carved)) \in 0..Len(sent)
  /\ OneRequestEach

(* dispatch_to_worker() hands over what follows in the stream. *)
LEMMA CarveStep ==
  ASSUME ScanTypeOK, StreamInv, NEW pos \in 0..Len(read_buf), Carve(read_buf, pos),
         ~late => CutsFirst(read_buf, pos), UNCHANGED <<sent, rest>>
  PROVE  StreamInv' /\ read_buf' \in Seq(Bytes)
<1> DEFINE b == read_buf
           e == CutAfter(Len(carved))
           n == IF pos = 0 THEN Len(b) ELSE pos
           new == [bytes |-> SubSeq(b, 1, n), late |-> late,
                   at |-> Len(sent) - Len(b) - Len(rest)]
<1>0. PICK N \in Nat : N = Len(carved)
  BY DEF StreamInv
<1>1. /\ b \in Seq(Bytes) /\ rest \in Seq(Bytes) /\ sent \in Seq(Bytes) /\ Len(b) \in Nat
      /\ carved \in Seq(Handed) /\ e \in 0..Len(sent) /\ late \in BOOLEAN
      /\ b \o rest = SubSeq(sent, e+1, Len(sent)) /\ pos \in Nat
  BY ScanAssumption DEF ScanTypeOK, StreamInv, OneRequestEach, Bytes
<1>2. n \in 0..Len(b)
  BY <1>1
<1>3. carved' = Append(carved, new) /\ read_buf' = SubSeq(b, n+1, Len(b))
  BY DEF Carve
<1> HIDE DEF n, e
<1>4. /\ Len(sent) - Len(b) - Len(rest) = e /\ e + n \in 0..Len(sent)
      /\ SubSeq(b, 1, n) \in Seq(Bytes) /\ Len(SubSeq(b, 1, n)) = n
      /\ SubSeq(b, n+1, Len(b)) \in Seq(Bytes)
      /\ SubSeq(b, 1, n) = SubSeq(sent, e+1, e+n)
      /\ Follows(SubSeq(b, n+1, Len(b)), rest, e + n, sent)
  <2>1. e \in 0..Len(sent)
    BY Zenon, <1>1
  <2>2. Follows(b, rest, e, sent)
    BY Zenon, <1>1 DEF Follows
  <2>3. sent \in Seq(Bytes) /\ b \in Seq(Bytes) /\ rest \in Seq(Bytes)
    BY Zenon, <1>1
  <2> HIDE DEF b
  <2>4. QED BY Zenon, <1>2, <2>1, <2>2, <2>3, CarveSplitsStream
<1>5. ~late => Hits(SubSeq(b, 1, n), 0) = {n - needle_len}
  <2> SUFFICES ASSUME ~late PROVE Hits(SubSeq(b, 1, n), 0) = {n - needle_len}
    OBVIOUS
  <2>1. CutsFirst(b, pos)
    OBVIOUS
  <2>2. pos \in 4..Len(b) /\ Hits(SubSeq(b, 1, pos), 0) = {Len(SubSeq(b, 1, pos)) - needle_len}
    BY Zenon, <1>1, <2>1, CutIsRequest
  <2>3. n = pos
    BY <1>1, <2>2 DEF n
  <2>4. QED BY Zenon, <1>4, <2>2, <2>3
<1>6. /\ new \in Handed /\ new.bytes = SubSeq(b, 1, n) /\ new.at = e /\ new.late = late
      /\ n \in Nat /\ e \in Nat
  <2>1. n \in Nat /\ e \in Nat
    BY <1>1, <1>2
  <2>2. QED BY Zenon, <1>1, <1>4, <2>1 DEF Handed
<1> HIDE DEF new
<1>7. /\ carved' \in Seq(Handed) /\ Len(carved') = N + 1 /\ carved'[N + 1] = new
      /\ \A i \in 1..N : carved'[i] = carved[i]
  BY <1>0, <1>1, <1>3, <1>6
<1>8. /\ CutAfter(N + 1)' = e + n
      /\ \A i \in 0..N : CutAfter(i)' = CutAfter(i)
  <2>1. N + 1 # 0 /\ \A i \in 0..N : i # 0 => i \in 1..N
    BY <1>1
  <2>2. CutAfter(N + 1)' = carved'[N + 1].at + Len(carved'[N + 1].bytes)
    BY <2>1 DEF CutAfter
  <2>3. QED BY Zenon, <1>4, <1>6, <1>7, <2>1, <2>2 DEF CutAfter
<1>9. read_buf' \o rest' = SubSeq(sent', CutAfter(N + 1)' + 1, Len(sent'))
  BY Zenon, <1>3, <1>4, <1>8 DEF Follows
<1>10. ASSUME NEW i \in 1..N
       PROVE  /\ carved'[i].at = CutAfter(i - 1)'
              /\ carved'[i].bytes = SubSeq(sent', CutAfter(i - 1)' + 1, CutAfter(i)')
              /\ ~carved'[i].late => Hits(carved'[i].bytes, 0) = {Len(carved'[i].bytes) - needle_len}
  <2>1. i \in DOMAIN carved /\ i \in 0..N /\ i - 1 \in 0..N
    BY <1>0, <1>1
  <2>2. QED BY Zenon, <1>7, <1>8, <2>1 DEF StreamInv, OneRequestEach
<1>11. /\ new.at = CutAfter(N)'
       /\ new.bytes = SubSeq(sent', CutAfter(N)' + 1, CutAfter(N + 1)')
       /\ ~new.late => Hits(new.bytes, 0) = {Len(new.bytes) - needle_len}
  <2>1. CutAfter(N)' = e
    <3>1. N \in 0..N
      BY <1>1
    <3>2. QED BY Zenon, <1>0, <1>8, <3>1 DEF e
  <2>2. QED BY Zenon, <1>4, <1>5, <1>6, <1>8, <2>1
<1>12. DOMAIN carved' = 1..(N + 1) /\ (N + 1) - 1 = N
       /\ \A i \in 1..(N + 1) : i \in 1..N \/ i = N + 1
  BY <1>1, <1>7
<1>13. OneRequestEach'
  BY Zenon, <1>7, <1>9, <1>10, <1>11, <1>12 DEF OneRequestEach
<1>14. QED BY Zenon, <1>1, <1>3, <1>4, <1>7, <1>8, <1>13 DEF StreamInv

AllScanInv == ScanTypeOK /\ ScanInv /\ StreamInv

(* read() moves bytes; nothing is carved. *)
LEMMA MovedStep ==
  ASSUME ScanTypeOK, StreamInv, NEW n \in Nat, n <= Len(rest), UNCHANGED <<sent, carved>>,
         read_buf' = read_buf \o SubSeq(rest, 1, n), rest' = SubSeq(rest, n+1, Len(rest))
  PROVE  StreamInv' /\ read_buf' \in Seq(Bytes) /\ rest' \in Seq(Bytes)
<1>1. read_buf \in Seq(Bytes) /\ rest \in Seq(Bytes) /\ n \in 0..Len(rest)
  BY DEF ScanTypeOK, Bytes
<1>2. read_buf' \in Seq(Bytes) /\ rest' \in Seq(Bytes) /\ read_buf' \o rest' = read_buf \o rest
  BY Zenon, <1>1, ReadKeepsStream
<1>3. \A i : CutAfter(i)' = CutAfter(i)
  BY Zenon DEF CutAfter
<1>4. OneRequestEach'
  BY Zenon, <1>2, <1>3 DEF StreamInv, OneRequestEach
<1>5. QED BY Zenon, <1>2, <1>3, <1>4 DEF StreamInv

LEMMA ReadEventStep ==
  ASSUME AllScanInv, NEW n \in 1..ReadSize, ReadEvent(n)
  PROVE  AllScanInv'
<1> DEFINE c == SubSeq(rest, 1, n)
           b == read_buf \o c
           from == ScanFrom(Len(read_buf))
           hit == FirstHit(b, from) + needle_len
<1>1. /\ ScanTypeOK /\ ScanInv /\ StreamInv /\ read_buf \in Seq(Bytes) /\ rest \in Seq(Bytes)
      /\ scan_pos \in Nat /\ late \in BOOLEAN /\ n \in Nat
  BY ScanAssumption DEF AllScanInv, ScanTypeOK, ReadEvent, Bytes
<1>2. /\ mode \in {"idle", "reading"} /\ n <= Len(rest) /\ UNCHANGED <<sent, carved>>
      /\ rest' = SubSeq(rest, n+1, Len(rest)) /\ read_buf' = b
      /\ mode' = (IF Len(b) > MaxRequest THEN "closed" ELSE "reading") /\ late' = (late \/ got_complete)
      /\ scan_pos' = (IF Found(b, from) THEN hit ELSE Overlap(Len(b)))
      /\ got_complete' = (got_complete \/ Found(b, from))
  BY Zenon DEF ReadEvent
<1>3. StreamInv' /\ b \in Seq(Bytes) /\ rest' \in Seq(Bytes) /\ c \in Seq(Bytes)
  <2>1. StreamInv' /\ read_buf' \in Seq(Bytes) /\ rest' \in Seq(Bytes)
    BY Zenon, <1>1, <1>2, MovedStep
  <2>2. c \in Seq(Bytes)
    BY <1>1, <1>2
  <2>3. QED BY Zenon, <1>2, <2>1, <2>2
<1> HIDE DEF c, b
<1>4. from \in Nat /\ Overlap(Len(b)) \in 0..Len(b)
  <2>1. Len(read_buf) \in Nat /\ Len(b) \in Nat
    BY <1>1, <1>3
  <2>2. Overlap(Len(read_buf)) \in Nat /\ Overlap(Len(b)) \in 0..Len(b)
    BY <2>1 DEF Overlap, needle_len
  <2>3. QED BY <1>1, <2>2 DEF ScanFrom
<1>5. Found(b, from) => hit \in 0..Len(b)
  <2> SUFFICES ASSUME Found(b, from) PROVE hit \in 0..Len(b)
    OBVIOUS
  <2>1. Hits(b, from) \in SUBSET Nat /\ Hits(b, from) # {}
    BY <1>3, <1>4, HitsByByte DEF Found
  <2>2. FirstHit(b, from) \in Hits(b, from)
    BY Zenon, <2>1, LeastExists DEF FirstHit, Least
  <2>3. FirstHit(b, from) \in Nat /\ FirstHit(b, from) + 4 <= Len(b)
    BY Zenon, <1>3, <1>4, <2>2, HitsByByte
  <2>4. Len(b) \in Nat
    BY <1>3
  <2>5. QED BY <2>3, <2>4 DEF needle_len
<1>6. ScanTypeOK'
  <2>1. scan_pos' \in 0..Len(read_buf')
    BY Zenon, <1>2, <1>4, <1>5
  <2>2. late' \in BOOLEAN
    BY <1>1, <1>2
  <2>3. mode' \in {"idle", "reading", "dispatched", "draining", "closed"}
        /\ got_complete' \in BOOLEAN
    BY <1>1, <1>2 DEF ScanTypeOK, Found
  <2>4. QED BY Zenon, <1>2, <1>3, <2>1, <2>2, <2>3 DEF ScanTypeOK, Bytes
<1>7. ~got_complete => Hits(b, from) = Hits(b, 0)
  BY <1>1, <1>2, <1>3, SearchIsComplete DEF ScanInv, ScanFrom, b
<1>9. mode' \notin {"idle", "dispatched", "draining"}
  BY <1>2
<1>10. ~got_complete' => Hits(read_buf', 0) = {} /\ scan_pos' <= Overlap(Len(read_buf'))
  <2> SUFFICES ASSUME ~got_complete' PROVE Hits(b, 0) = {} /\ scan_pos' <= Overlap(Len(b))
    BY Zenon, <1>2
  <2>1. ~got_complete /\ ~Found(b, from)
    BY Zenon, <1>2
  <2>2. scan_pos' = Overlap(Len(b)) /\ Hits(b, 0) = {}
    BY Zenon, <1>2, <1>7, <2>1 DEF Found
  <2>3. QED BY <1>4, <2>2
<1>11. got_complete' /\ ~late' => CutsFirst(read_buf', scan_pos')
  <2> SUFFICES ASSUME got_complete', ~late' PROVE CutsFirst(b, scan_pos')
    BY Zenon, <1>2
  <2>2. ~got_complete
    BY Zenon, <1>2
  <2>3. Found(b, from)
    BY Zenon, <1>2, <2>2
  <2>4. CutsFirst(b, hit)
    BY Zenon, <1>3, <1>4, <1>7, <2>2, <2>3, FirstHitCuts
  <2>5. QED BY Zenon, <1>2, <2>3, <2>4
<1>12. ScanInv'
  <2>1. mode' # "dispatched" /\ mode' # "draining" /\ mode' # "idle"
    BY <1>9
  <2>2. (mode \in {"idle", "reading"} /\ ~got_complete)' =>
          Hits(read_buf', 0) = {} /\ scan_pos' <= Overlap(Len(read_buf'))
    BY Zenon, <1>10
  <2>3. CutsFirst(read_buf', scan_pos') <=> CutsFirst(read_buf, scan_pos)'
    BY Zenon DEF CutsFirst, Hits
  <2>4. Hits(read_buf', 0) = Hits(read_buf, 0)' /\ Overlap(Len(read_buf')) = Overlap(Len(read_buf))'
    BY Zenon DEF Hits, Overlap
  <2>5. QED BY Zenon, <1>11, <2>1, <2>2, <2>3, <2>4 DEF ScanInv
<1>13. QED BY Zenon, <1>3, <1>6, <1>12 DEF AllScanInv

(* Once a request has been carved, the connection is a worker's. *)
LEMMA CarvedStep ==
  ASSUME AllScanInv, NEW pos \in 0..Len(read_buf), Carve(read_buf, pos),
         ~late => CutsFirst(read_buf, pos), UNCHANGED <<sent, rest>>,
         late' = FALSE, got_complete' = FALSE
  PROVE  AllScanInv'
<1>1. StreamInv' /\ read_buf' \in Seq(Bytes)
  BY Zenon, CarveStep DEF AllScanInv
<1>2. scan_pos' = 0 /\ mode' = "dispatched"
  BY Zenon DEF Carve
<1>3. rest' \in Seq(Bytes) /\ 0 \in 0..Len(read_buf')
  BY <1>1, ScanAssumption DEF AllScanInv, ScanTypeOK, Bytes
<1>4. ScanTypeOK'
  BY Zenon, <1>1, <1>2, <1>3 DEF ScanTypeOK, Bytes
<1>5. ScanInv'
  BY Zenon, <1>2 DEF ScanInv
<1>6. QED BY Zenon, <1>1, <1>4, <1>5 DEF AllScanInv

(* A step that leaves the buffer, the stream and the requests alone. *)
LEMMA StillStep ==
  ASSUME StreamInv, UNCHANGED <<sent, rest, read_buf, carved>>
  PROVE  StreamInv'
BY Zenon DEF StreamInv, OneRequestEach, CutAfter

LEMMA ScanStep ==
  ASSUME AllScanInv, [ScanNext]_scan_vars
  PROVE  AllScanInv'
<1>1. /\ ScanTypeOK /\ ScanInv /\ StreamInv /\ read_buf \in Seq(Bytes) /\ rest \in Seq(Bytes)
      /\ scan_pos \in 0..Len(read_buf) /\ late \in BOOLEAN
  BY ScanAssumption DEF AllScanInv, ScanTypeOK, Bytes
<1>2. CASE EndOfEvent
  <2>1. CASE got_complete
    <3>1. Carve(read_buf, scan_pos) /\ UNCHANGED <<sent, rest>> /\ late' = FALSE /\ got_complete' = FALSE
      BY Zenon, <1>2, <2>1 DEF EndOfEvent
    <3>2. ~late => CutsFirst(read_buf, scan_pos)
      <4>1. mode = "reading"
        BY Zenon, <1>2 DEF EndOfEvent
      <4>2. QED BY Zenon, <1>1, <2>1, <4>1 DEF ScanInv
    <3>3. QED BY Zenon, <1>1, <3>1, <3>2, CarvedStep
  <2>2. CASE ~got_complete
    <3>1. /\ mode = "reading" /\ mode' = "idle" /\ late' = FALSE /\ got_complete' = FALSE
          /\ UNCHANGED <<sent, rest, read_buf, scan_pos, carved>>
      BY Zenon, <1>2, <2>2 DEF EndOfEvent
    <3>2. StreamInv'
      BY Zenon, <1>1, <3>1, StillStep
    <3>3. ScanTypeOK'
      BY Zenon, <1>1, <3>1 DEF ScanTypeOK, Bytes
    <3>4. Hits(read_buf, 0)' = {} /\ (scan_pos <= Overlap(Len(read_buf)))'
      BY Zenon, <1>1, <2>2, <3>1 DEF ScanInv, Hits, Overlap
    <3>5. ScanInv'
      BY Zenon, <3>1, <3>4 DEF ScanInv
    <3>6. QED BY Zenon, <3>2, <3>3, <3>5 DEF AllScanInv
  <2>3. QED BY <2>1, <2>2
<1>3. CASE FinishResponse
  <2>1. /\ mode = "dispatched" /\ mode' = "draining"
        /\ UNCHANGED <<sent, rest, read_buf, scan_pos, got_complete, late, carved>>
    BY Zenon, <1>3 DEF FinishResponse
  <2>2. StreamInv'
    BY Zenon, <1>1, <2>1, StillStep
  <2>3. ScanTypeOK' /\ ScanInv'
    BY Zenon, <1>1, <2>1 DEF ScanTypeOK, ScanInv
  <2>4. QED BY Zenon, <2>2, <2>3 DEF AllScanInv
<1>4. ASSUME NEW n \in 1..ReadSize, DrainRead(n) PROVE AllScanInv'
  <2>1. /\ mode = "draining" /\ n \in Nat /\ n <= Len(rest) /\ mode' \in {"closed", "draining"}
        /\ read_buf' = read_buf \o SubSeq(rest, 1, n) /\ rest' = SubSeq(rest, n+1, Len(rest))
        /\ UNCHANGED <<sent, scan_pos, got_complete, late, carved>>
    <3>1. n \in Nat
      BY ScanAssumption
    <3>2. QED BY Zenon, <1>4, <3>1 DEF DrainRead
  <2>2. StreamInv' /\ read_buf' \in Seq(Bytes) /\ rest' \in Seq(Bytes)
    BY Zenon, <1>1, <2>1, MovedStep
  <2>3. scan_pos = 0 /\ ~late /\ ~got_complete
    BY Zenon, <1>1, <2>1 DEF ScanInv
  <2>4. 0 \in 0..Len(read_buf')
    BY <2>2
  <2>5. ScanTypeOK'
    BY Zenon, <1>1, <2>1, <2>2, <2>3, <2>4 DEF ScanTypeOK, Bytes
  <2>6. ScanInv'
    BY Zenon, <2>1, <2>3 DEF ScanInv
  <2>7. QED BY Zenon, <2>2, <2>5, <2>6 DEF AllScanInv
<1>5. CASE CheckBuffered
  <2>0. /\ mode = "draining" /\ UNCHANGED <<sent, rest, got_complete, late>>
        /\ scan_pos = 0 /\ ~late /\ ~got_complete
    BY Zenon, <1>1, <1>5 DEF CheckBuffered, ScanInv
  <2>1. CASE LacksRequest(read_buf)
    <3>1. mode' = "idle" /\ UNCHANGED <<read_buf, scan_pos, carved>>
      BY Zenon, <1>5, <2>1 DEF CheckBuffered
    <3>2. StreamInv'
      BY Zenon, <1>1, <2>0, <3>1, StillStep
    <3>3. ScanTypeOK'
      BY Zenon, <1>1, <2>0, <3>1 DEF ScanTypeOK, Bytes
    <3>4. Hits(read_buf, 0)' = {}
      BY Zenon, <2>1, <3>1 DEF LacksRequest, Found, Hits
    <3>5. (scan_pos <= Overlap(Len(read_buf)))'
      <4>1. Len(read_buf) \in Nat
        BY <1>1
      <4>2. 0 <= Overlap(Len(read_buf))
        BY <4>1 DEF Overlap, needle_len
      <4>3. QED BY Zenon, <2>0, <3>1, <4>2 DEF Overlap
    <3>6. ScanInv'
      BY Zenon, <2>0, <3>1, <3>4, <3>5 DEF ScanInv
    <3>7. QED BY Zenon, <3>2, <3>3, <3>6 DEF AllScanInv
  <2>2. CASE ~LacksRequest(read_buf)
    <3> DEFINE cut == FirstHit(read_buf, 0) + needle_len
    <3>1. Carve(read_buf, cut)
      BY Zenon, <1>5, <2>2 DEF CheckBuffered
    <3>2. cut \in Nat /\ CutsFirst(read_buf, cut)
      <4>1. Found(read_buf, 0) /\ 0 \in Nat
        BY Zenon, <2>2 DEF LacksRequest
      <4>2. QED BY Zenon, <1>1, <4>1, FirstHitCuts
    <3> HIDE DEF cut
    <3>3. cut \in 4..Len(read_buf)
      BY Zenon, <1>1, <3>2, CutIsRequest
    <3>4. cut \in 0..Len(read_buf)
      BY <3>3
    <3>5. late' = FALSE /\ got_complete' = FALSE
      BY <1>1, <2>0 DEF ScanTypeOK
    <3>6. QED BY Zenon, <2>0, <3>1, <3>2, <3>4, <3>5, CarvedStep
  <2>3. QED BY <2>1, <2>2
<1>6. CASE UNCHANGED scan_vars
  <2>1. UNCHANGED <<sent, rest, read_buf, scan_pos, got_complete, late, mode, carved>>
    BY Zenon, <1>6 DEF scan_vars
  <2>2. StreamInv'
    BY Zenon, <1>1, <2>1, StillStep
  <2>3. ScanTypeOK' /\ ScanInv'
    BY Zenon, <1>1, <2>1 DEF ScanTypeOK, ScanInv, CutsFirst, Hits, Overlap
  <2>4. QED BY Zenon, <2>2, <2>3 DEF AllScanInv
<1>7. QED BY Zenon, <1>2, <1>3, <1>4, <1>5, <1>6, ReadEventStep DEF ScanNext

LEMMA ScanStart ==
  ASSUME ScanInit
  PROVE  AllScanInv
<1>1. /\ sent \in Seq(Bytes) /\ rest = sent /\ read_buf = <<>> /\ carved = <<>> /\ scan_pos = 0
      /\ late = FALSE /\ mode = "idle" /\ got_complete = FALSE
  BY Zenon, ScanAssumption DEF ScanInit, Bytes
<1>2. /\ read_buf \in Seq(Bytes) /\ Len(read_buf) = 0 /\ Len(carved) = 0 /\ DOMAIN carved = {}
      /\ carved \in Seq(Handed) /\ Len(sent) \in Nat /\ 0 \in 0..Len(sent)
      /\ 0 \in 0..Len(read_buf) /\ 0 + 1 = 1
  BY <1>1, ScanAssumption
<1>3. Hits(read_buf, 0) = {}
  <2>1. ASSUME NEW i \in Hits(read_buf, 0) PROVE FALSE
    <3>1. i \in Nat /\ i + 4 <= Len(read_buf)
      <4>1. 0 \in Nat
        OBVIOUS
      <4>2. QED BY Zenon, <1>2, <2>1, <4>1, HitsByByte
    <3>2. QED BY <1>2, <3>1
  <2>2. QED BY Zenon, <2>1
<1>4. scan_pos <= Overlap(Len(read_buf))
  BY <1>1, <1>2 DEF Overlap, needle_len
<1>5. read_buf \o rest = SubSeq(sent, 0 + 1, Len(sent))
  BY <1>1, <1>2
<1>6. CutAfter(Len(carved)) = 0
  BY Zenon, <1>2 DEF CutAfter
<1>7. StreamInv
  BY Zenon, <1>1, <1>2, <1>5, <1>6 DEF StreamInv, OneRequestEach
<1>8. ScanTypeOK
  BY Zenon, <1>1, <1>2 DEF ScanTypeOK, Bytes
<1>9. ScanInv
  BY Zenon, <1>1, <1>3, <1>4 DEF ScanInv
<1>10. QED BY Zenon, <1>7, <1>8, <1>9 DEF AllScanInv

LEMMA ScanInvariance == ScanSpec => []AllScanInv
<1>1. ScanInit => AllScanInv
  BY ScanStart
<1>2. AllScanInv /\ [ScanNext]_scan_vars => AllScanInv'
  BY ScanStep
<1>3. QED BY <1>1, <1>2, PTL DEF ScanSpec

(* However a stream is fragmented into reads and events, no complete request stays in
   the buffer of an idle connection: the incremental search of on_client_event() and
   check_buffered_request() overlook none, for every stream and every size of the
   read buffer and of requests. *)
THEOREM NoRequestIsStuck == ScanSpec => []NothingStuck
<1>1. AllScanInv => NothingStuck
  BY DEF AllScanInv, ScanTypeOK, ScanInv, NothingStuck, Found
<1>2. QED BY <1>1, ScanInvariance, PTL

(* However a stream is fragmented, workers get it in order and without gaps.  It is
   cut right after the first "\r\n\r\n", in however many reads that arrives, where the
   event reads nothing more after it has seen that end, and where the request comes out
   of the buffer after a response; an event that reads on is not cut there, and the
   theorem does not say where.  For every stream and every size of the read buffer and
   of requests. *)
THEOREM RequestsAreCutRight == ScanSpec => []OneRequestEach
<1>1. AllScanInv => OneRequestEach
  BY DEF AllScanInv, StreamInv
<1>2. QED BY <1>1, ScanInvariance, PTL

=============================================================================

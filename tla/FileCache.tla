----------------------------- MODULE FileCache -----------------------------
(***************************************************************************)
(* LruCache (src/muses/lru_cache.hpp) in the place the repository uses it: *)
(* the static file cache that the workers of the HTTP handler share        *)
(* (send_response() in src/muses/net_components/http_handler.hpp).  Every  *)
(* cache method runs under mutex_, so a get, a read from disk and a put    *)
(* are three steps between which other workers and the disk move on.       *)
(***************************************************************************)
EXTENDS Naturals, Sequences

CONSTANTS
  Workers, Keys,
  max_entries,   \* max_entries_; 0 disables caching
  MaxVersion,    \* bound: how often a file is written
  MaxUses,       \* bound: promotions the recency ghost tells apart
  NoKey           \* no key

ASSUME CacheAssumption ==
  max_entries \in Nat /\ MaxVersion \in Nat /\ MaxUses \in Nat

VARIABLES
  entries,   \* entries_: <<key, value>> pairs, front = MRU
  index,     \* index_: the keys that have an iterator
  disk,      \* version of each file; 0 if there is none
  pc,        \* per worker: "idle", "read" or "put"
  key,       \* the file a worker serves
  content,   \* what it has read
  last,      \* ghost: when each key was last got or put
  clock      \* ghost: the number of gets and puts

cache_vars == <<entries, index, disk, pc, key, content, last, clock>>

CacheInit ==
  /\ entries = <<>> /\ index = {}
  /\ disk = [k \in Keys |-> 0]
  /\ pc = [w \in Workers |-> "idle"] /\ key = [w \in Workers |-> NoKey]
  /\ content = [w \in Workers |-> 0]
  /\ last = [k \in Keys |-> 0] /\ clock = 0

-----------------------------------------------------------------------------
(* LruCache *)

(* Where the iterator of k points, and the list without it. *)
Place(k) == CHOOSE i \in DOMAIN entries : entries[i][1] = k
Unlinked(es, i) == SubSeq(es, 1, i-1) \o SubSeq(es, i+1, Len(es))
Without(k) == Unlinked(entries, Place(k))

(* promote(): splice to the front. *)
promote(k, v) == <<<<k, v>>>> \o Without(k)

(* evict_lru_locked(), when the cache is full.  One slip evicts the most recently
   used, one forgets the index. *)
HasRoom == Len(entries) < max_entries

EvictMru == IF HasRoom THEN entries ELSE Tail(entries)
Evicted == IF HasRoom THEN entries ELSE SubSeq(entries, 1, Len(entries) - 1)

IndexKept(k) == index \cup {k}
IndexAfterPut(k) ==
  (IF HasRoom THEN index ELSE index \ {entries[Len(entries)][1]}) \cup {k}

Used(k) == /\ clock' = clock + 1 /\ last' = [last EXCEPT ![k] = clock + 1]

(* put_locked() *)
Put(k, v) ==
  IF max_entries = 0 THEN UNCHANGED <<entries, index, last, clock>>
  ELSE /\ Used(k)
       /\ IF k \in index
          THEN entries' = promote(k, v) /\ UNCHANGED index
          ELSE entries' = <<<<k, v>>>> \o Evicted /\ index' = IndexAfterPut(k)

-----------------------------------------------------------------------------
(* send_response() for file k: a hit is served from memory, a miss reads. *)
Get(w, k) ==
  /\ pc[w] = "idle" /\ clock < MaxUses
  /\ key' = [key EXCEPT ![w] = k]
  /\ IF k \in index
     THEN /\ Used(k) /\ entries' = promote(k, entries[Place(k)][2])
          /\ UNCHANGED <<pc, content>>
     ELSE /\ pc' = [pc EXCEPT ![w] = "read"]
          /\ UNCHANGED <<entries, content, last, clock>>
  /\ UNCHANGED <<index, disk>>

Cacheable(v) == v # 0

Read(w) ==
  /\ pc[w] = "read"
  /\ content' = [content EXCEPT ![w] = disk[key[w]]]
  /\ pc' = [pc EXCEPT ![w] = IF Cacheable(disk[key[w]]) THEN "put" ELSE "idle"]
  /\ UNCHANGED <<entries, index, disk, key, last, clock>>

Store(w) ==
  /\ pc[w] = "put" /\ clock < MaxUses
  /\ Put(key[w], content[w])
  /\ pc' = [pc EXCEPT ![w] = "idle"] /\ content' = [content EXCEPT ![w] = 0]
  /\ UNCHANGED <<disk, key>>

(* The other users of LruCache's interface: erase() and clear(). *)
Erase(k) ==
  /\ IF k \in index THEN entries' = Without(k) /\ index' = index \ {k}
                    ELSE UNCHANGED <<entries, index>>
  /\ UNCHANGED <<disk, pc, key, content, last, clock>>

ClearCache ==
  /\ entries' = <<>> /\ index' = {}
  /\ UNCHANGED <<disk, pc, key, content, last, clock>>

(* Somebody writes a file (external). *)
WriteFile(k) ==
  /\ disk[k] < MaxVersion /\ disk' = [disk EXCEPT ![k] = @ + 1]
  /\ UNCHANGED <<entries, index, pc, key, content, last, clock>>

CacheNext ==
  \/ \E w \in Workers : Read(w) \/ Store(w) \/ \E k \in Keys : Get(w, k)
  \/ \E k \in Keys : WriteFile(k) \/ Erase(k)
  \/ ClearCache

CacheSpec == CacheInit /\ [][CacheNext]_cache_vars

-----------------------------------------------------------------------------

Cached == {entries[i][1] : i \in DOMAIN entries}

(* Values are contents that were read: a failed read is never cached, "so a
   later-created file is still servable". *)
CacheTypeOK ==
  /\ \A i \in DOMAIN entries : entries[i] \in Keys \X (1..MaxVersion)
  /\ pc \in [Workers -> {"idle", "read", "put"}]
  /\ clock \in 0..MaxUses

(* index_ and entries_ describe the same set: no dangling iterator, no entry
   that cannot be found, and the bound is kept.  The list is in the order of use,
   most recent first, so that no key is in it twice, across hits, updates of a
   key by a worker that lost the race for it, evictions and erasures. *)
IndexMatchesList ==
  /\ index = Cached /\ Len(entries) <= max_entries
  /\ \A i, j \in 1..Len(entries) :
       i < j => last[entries[i][1]] > last[entries[j][1]]

(* An eviction takes the least recently used key. *)
EvictsLeastRecent ==
  [][\A k \in Keys : (\E w \in Workers : Store(w)) /\ k \in Cached /\ k \notin Cached'
       => \A l \in Cached' : last'[l] > last[k]]_cache_vars

=============================================================================

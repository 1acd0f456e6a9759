----------------------------- MODULE MemoryPool -----------------------------
(***************************************************************************)
(* MemoryPool, PoolPtr and PooledBuffer (src/muses/memory_pool.hpp).       *)
(* Threads own handles; making, copying and resetting handles allocates,   *)
(* retains and releases blocks, and a PooledBuffer, which is a handle that *)
(* is never copied, trades its block for a larger one.  allocate() is one  *)
(* step (it holds the lock of its bin, and carve_from_arena() takes        *)
(* arena_mu_ inside); a release that drops the last reference is three:    *)
(* fetch_sub, the counters (live and escaped together), recycle_to_bin().  *)
(*                                                                         *)
(* A block is named by where it starts: an arena offset, or a number past  *)
(* the arena for a block from operator new, which is never reused here.    *)
(***************************************************************************)
EXTENDS Naturals, Sequences, FiniteSets

CONSTANTS
  Handles,     \* PoolPtrs and PooledBuffers
  Buffers,     \* the PooledBuffers among them
  classes,     \* classes_: usable bytes per class, ascending
  HeaderSize,  \* sizeof(BlockHeader), in the units of classes
  Align,       \* alignof(std::max_align_t)
  requested,   \* the constructor's arena_bytes
  Requests,    \* sizes that are asked for
  MaxEscaped,  \* bound: blocks from operator new
  MaxRefs,     \* bound: references to one block, its handles included
  Null

ASSUME PoolAssumption ==
  /\ IsFiniteSet(Handles) /\ Buffers \subseteq Handles /\ Null \notin Nat
  /\ classes \in Seq(Nat \ {0}) /\ classes # <<>>
  /\ \A i, j \in 1..Len(classes) : i < j => classes[i] < classes[j]
  /\ HeaderSize \in Nat /\ Align \in Nat \ {0} /\ requested \in Nat
  /\ Requests \subseteq Nat \ {0}
  /\ MaxEscaped \in Nat /\ MaxRefs \in Nat

ESCAPED == 0                 \* the class of a block from operator new
Classes == 1..Len(classes)

(* round_up(), what carve_from_arena() takes for a slot, and the arena that
   allocate_arena() makes: room for at least one block of the largest class. *)
round_up(n) == ((n + Align - 1) \div Align) * Align
need(slot) == round_up(HeaderSize + slot)
arena_bytes ==
  LET unit == need(classes[Len(classes)])
      count == requested \div unit
  IN  IF count = 0 THEN unit ELSE count * unit

VARIABLES
  bump,        \* bump_
  bins,        \* the free-list of each class: head first
  header,      \* BlockHeader of every block made so far: [cls, slot, refcount, magic]
  live,        \* stats_.live
  escaped,     \* stats_.escaped
  made,        \* blocks from operator new so far
  handle,      \* what each PoolPtr and each PooledBuffer points to
  cap,         \* cap_ of each PooledBuffer
  leaving,     \* block a handle is releasing after the last fetch_sub, or Null
  step         \* how far that release is: "none", "stats" or "recycle"

pool_vars == <<bump, bins, header, live, escaped, made, handle, cap, leaving, step>>

PoolInit ==
  /\ bump = 0 /\ bins = [c \in Classes |-> <<>>] /\ header = <<>>
  /\ live = 0 /\ escaped = 0 /\ made = 0
  /\ handle = [h \in Handles |-> Null] /\ cap = [h \in Buffers |-> 0]
  /\ leaving = [h \in Handles |-> Null] /\ step = [h \in Handles |-> "none"]

Idle(h) == step[h] = "none"

(* pick_class() and round_up_to_class() give class c, the first that fits, or
   find that none does. *)
pick_class(bytes, c) == classes[c] >= bytes /\ \A d \in 1..(c - 1) : classes[d] < bytes
Oversized(bytes) == \A c \in Classes : classes[c] < bytes

(* Block b goes to h, with init_header().  The block h has had, when a buffer
   grows, loses its only reference. *)
HandOut(h, b, cls, slot) ==
  LET old == handle[h]
  IN  /\ header' = [x \in DOMAIN header \cup {b} |->
           CASE x = b -> [cls |-> cls, slot |-> slot, refcount |-> 1, magic |-> TRUE]
             [] x = old -> [header[x] EXCEPT !.refcount = @ - 1]
             [] OTHER -> header[x]]
      /\ live' = live + 1
      /\ handle' = [handle EXCEPT ![h] = b]
      /\ IF old = Null
         THEN UNCHANGED <<leaving, step>>
         ELSE leaving' = [leaving EXCEPT ![h] = old] /\ step' = [step EXCEPT ![h] = "stats"]

(* allocate_escaped() *)
Escape(h, bytes) ==
  /\ made < MaxEscaped /\ made' = made + 1
  /\ HandOut(h, arena_bytes + made, ESCAPED, bytes)
  /\ escaped' = escaped + 1
  /\ UNCHANGED <<bump, bins>>

(* carve_from_arena(). *)
CarveFits(cls) == bump + need(classes[cls]) <= arena_bytes

allocate(h, bytes) ==
  \/ Oversized(bytes) /\ Escape(h, bytes)
  \/ \E c \in Classes :
       /\ pick_class(bytes, c)
       /\ \/ /\ bins[c] # <<>>
             /\ HandOut(h, Head(bins[c]), c, classes[c])
             /\ bins' = [bins EXCEPT ![c] = Tail(@)]
             /\ UNCHANGED <<bump, escaped, made>>
          \/ /\ bins[c] = <<>> /\ CarveFits(c)
             /\ HandOut(h, bump, c, classes[c])
             /\ bump' = bump + need(classes[c])
             /\ UNCHANGED <<bins, escaped, made>>
          \/ bins[c] = <<>> /\ ~CarveFits(c) /\ Escape(h, bytes)

(* make_pool(), or the constructor of a PooledBuffer. *)
Make(h, bytes) ==
  /\ Idle(h) /\ handle[h] = Null /\ allocate(h, bytes)
  /\ cap' = IF h \in Buffers THEN [cap EXCEPT ![h] = bytes] ELSE cap

(* PooledBuffer::reserve(), also from append(): the larger block is allocated
   while the old one is still held, and the release of the old one begins.
   Nobody else sees the old block's count, so the two are one step. *)
Reserve(h, bytes) ==
  /\ h \in Buffers /\ Idle(h) /\ handle[h] # Null /\ bytes > cap[h]
  /\ allocate(h, bytes)
  /\ cap' = [cap EXCEPT ![h] = bytes]

(* The copy constructor: retain().  The slip copies the pointer only. *)
CopyPointer(h, g) ==
  /\ {h, g} \cap Buffers = {}
  /\ Idle(h) /\ Idle(g) /\ handle[h] = Null /\ handle[g] # Null
  /\ handle' = [handle EXCEPT ![h] = handle[g]]
  /\ UNCHANGED <<bump, bins, header, live, escaped, made, cap, leaving, step>>

Copy(h, g) ==
  /\ {h, g} \cap Buffers = {}
  /\ Idle(h) /\ Idle(g) /\ handle[h] = Null /\ handle[g] # Null
  /\ header[handle[g]].refcount < MaxRefs
  /\ handle' = [handle EXCEPT ![h] = handle[g]]
  /\ header' = [header EXCEPT ![handle[g]].refcount = @ + 1]
  /\ UNCHANGED <<bump, bins, live, escaped, made, cap, leaving, step>>

(* The move constructors. *)
Move(h, g) ==
  /\ h \in Buffers <=> g \in Buffers
  /\ Idle(h) /\ Idle(g) /\ handle[h] = Null /\ handle[g] # Null
  /\ handle' = [handle EXCEPT ![h] = handle[g], ![g] = Null]
  /\ cap' = IF h \in Buffers THEN [cap EXCEPT ![h] = cap[g], ![g] = 0] ELSE cap
  /\ UNCHANGED <<bump, bins, header, live, escaped, made, leaving, step>>

(* reset(), the destructors, release_pool_block() and the first half of an
   assignment: release(). *)
Release(h) ==
  LET b == handle[h]
  IN  /\ Idle(h) /\ b # Null
      /\ handle' = [handle EXCEPT ![h] = Null]
      /\ cap' = IF h \in Buffers THEN [cap EXCEPT ![h] = 0] ELSE cap
      /\ header' = [header EXCEPT ![b].refcount = @ - 1]
      /\ IF header[b].refcount = 1
         THEN leaving' = [leaving EXCEPT ![h] = b] /\ step' = [step EXCEPT ![h] = "stats"]
         ELSE UNCHANGED <<leaving, step>>
      /\ UNCHANGED <<bump, bins, live, escaped, made>>

(* The counters of stats(). *)
ReleaseStats(h) ==
  /\ step[h] = "stats" /\ step' = [step EXCEPT ![h] = "recycle"]
  /\ live' = live - 1
  /\ escaped' = IF header[leaving[h]].cls = ESCAPED THEN escaped - 1 ELSE escaped
  /\ UNCHANGED <<bump, bins, header, made, handle, cap, leaving>>

(* The push_free() of recycle_to_bin(); the slip forgets it. *)
BinsAsTheyWere(b, cls) == bins
BinsWith(b, cls) == IF cls = ESCAPED THEN bins ELSE [bins EXCEPT ![cls] = <<b>> \o @]

(* operator delete, or recycle_to_bin() with the magic poisoned. *)
Recycle(h) ==
  LET b == leaving[h]
      cls == header[b].cls
  IN  /\ step[h] = "recycle" /\ step' = [step EXCEPT ![h] = "none"]
      /\ leaving' = [leaving EXCEPT ![h] = Null]
      /\ bins' = BinsWith(b, cls)
      /\ header' = [header EXCEPT ![b].magic = FALSE]
      /\ UNCHANGED <<bump, live, escaped, made, handle, cap>>

PoolNext ==
  \/ \E h \in Handles : Release(h) \/ ReleaseStats(h) \/ Recycle(h)
  \/ \E h \in Handles : \E bytes \in Requests : Make(h, bytes) \/ Reserve(h, bytes)
  \/ \E h, g \in Handles : h # g /\ (Copy(h, g) \/ Move(h, g))

PoolSpec == PoolInit /\ [][PoolNext]_pool_vars

-----------------------------------------------------------------------------

Blocks == DOMAIN header
HeldBy(b) == {h \in Handles : handle[h] = b}
Leaving(b) == {h \in Handles : leaving[h] = b}
Free(c) == {bins[c][i] : i \in 1..Len(bins[c])}
InBin(b) == {c \in Classes : b \in Free(c)}

(* What stats() should count: the blocks that are held, and those whose release
   has not got to the counters yet. *)
LiveBlocks == {b \in Blocks : HeldBy(b) # {} \/ \E h \in Leaving(b) : step[h] = "stats"}

(* Headers and counters keep their range; the arena is not overrun. *)
PoolTypeOK ==
  /\ bump \in 0..arena_bytes /\ live \in Nat /\ escaped \in Nat
  /\ \A b \in Blocks : /\ header[b].cls \in Classes \cup {ESCAPED}
                       /\ header[b].refcount \in 0..MaxRefs
  /\ \A h \in Handles : handle[h] \in Blocks \cup {Null}

(* A reference count is the number of handles: no handle points to a block that
   is on its way out, on a free-list or deleted, and its magic is intact, so
   that check_magic() never fires for a legal caller.  stats() reports as live
   and escaped what it should count. *)
CountIsHandles ==
  /\ \A b \in Blocks : /\ header[b].refcount = Cardinality(HeldBy(b))
                       /\ HeldBy(b) # {} => header[b].magic /\ InBin(b) = {}
                       /\ Cardinality(Leaving(b)) <= 1
                       /\ Leaving(b) # {} => HeldBy(b) = {} /\ InBin(b) = {}
  /\ live = Cardinality(LiveBlocks)
  /\ escaped = Cardinality({b \in LiveBlocks : header[b].cls = ESCAPED})

(* Blocks do not overlap and fit into the arena. *)
Arena == {b \in Blocks : header[b].cls # ESCAPED}
End(b) == b + HeaderSize + header[b].slot
Disjoint ==
  /\ \A b \in Arena : End(b) <= arena_bytes
  /\ \A b, d \in Arena : b < d => End(b) <= d

(* Every arena block has bytes of its own inside the arena, and is in exactly one
   place and on one free-list at most, the one of its class: carving never
   overlaps, recycling loses nothing and never links a block twice, also when a
   buffer grows.  What a buffer takes for its capacity fits into its block. *)
NoBlockLost ==
  /\ Disjoint
  /\ \A h \in Buffers :
       IF handle[h] = Null THEN cap[h] = 0 ELSE cap[h] <= header[handle[h]].slot
  /\ \A c \in Classes :
       /\ \A i, j \in 1..Len(bins[c]) : bins[c][i] = bins[c][j] => i = j
       /\ \A b \in Free(c) : header[b].cls = c
  /\ \A b \in Arena : Cardinality(InBin(b)) + Cardinality(Leaving(b))
                      + (IF HeldBy(b) # {} THEN 1 ELSE 0) = 1

=============================================================================

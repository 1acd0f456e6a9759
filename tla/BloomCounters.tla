--------------------------- MODULE BloomCounters ---------------------------
(***************************************************************************)
(* The operations of CountingBloomFilter (src/muses/bloom_filter.hpp) as   *)
(* functions of bytes_: two 4-bit counters per byte, even slots in the low *)
(* nibble.  hashes() and slot_of() are abstracted to the sequence of slots *)
(* an item probes, in which a slot may occur more than once.               *)
(***************************************************************************)
EXTENDS Naturals, Sequences

CONSTANTS
  Items,
  num_slots,   \* m, even
  Probes       \* Probes[item]: the num_hashes_ slots of item

ASSUME BloomAssumption ==
  /\ num_slots \in Nat \ {0} /\ num_slots % 2 = 0
  /\ Probes \in [Items -> Seq(0..num_slots-1)]
  /\ \A i \in Items : Probes[i] # <<>>

kCounterMax == 15
Slots == 0..num_slots-1
NoBytes == [b \in 0..(num_slots \div 2)-1 |-> 0]

get_counter(bytes, slot) ==
  IF slot % 2 = 0 THEN bytes[slot \div 2] % 16 ELSE bytes[slot \div 2] \div 16

(* The slip forgets to keep the other nibble. *)
SetWholeByte(bytes, slot, v) ==
  [bytes EXCEPT ![slot \div 2] = IF slot % 2 = 0 THEN v ELSE v * 16]

set_counter(bytes, slot, v) ==
  [bytes EXCEPT ![slot \div 2] = IF slot % 2 = 0 THEN (@ \div 16) * 16 + (v % 16)
                                 ELSE (v % 16) * 16 + (@ % 16)]

saturate_inc(c) == IF c >= kCounterMax THEN kCounterMax ELSE c + 1

(* The loop over the probes of an item; after[i] is what i rounds leave. *)
Bump(bytes, slot) == set_counter(bytes, slot, saturate_inc(get_counter(bytes, slot)))

add(bytes, item) ==
  LET after[i \in 0..Len(Probes[item])] ==
        IF i = 0 THEN bytes ELSE Bump(after[i - 1], Probes[item][i])
  IN  after[Len(Probes[item])]

contains(bytes, item) ==
  \A i \in 1..Len(Probes[item]) : get_counter(bytes, Probes[item][i]) # 0

Lower(bytes, slot) ==
  IF get_counter(bytes, slot) > 0
  THEN set_counter(bytes, slot, get_counter(bytes, slot) - 1) ELSE bytes

remove(bytes, item) ==
  LET after[i \in 0..Len(Probes[item])] ==
        IF i = 0 THEN bytes ELSE Lower(after[i - 1], Probes[item][i])
  IN  after[Len(Probes[item])]

(* decay(): each nibble is shifted on its own, n >> shift. *)
Shifted(n, shift) == n \div <<2, 4, 8>>[shift]

decay(bytes, shift) ==
  IF shift = 0 THEN bytes
  ELSE IF shift >= 4 THEN NoBytes
  ELSE [b \in DOMAIN bytes |->
          Shifted(bytes[b] \div 16, shift) * 16 + Shifted(bytes[b] % 16, shift)]

=============================================================================

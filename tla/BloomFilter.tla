---------------------------- MODULE BloomFilter ----------------------------
(***************************************************************************)
(* CountingBloomFilter as its users see it: every method runs under        *)
(* mutex_, so one action each.  Ghosts record what a caller may rely on.   *)
(***************************************************************************)
EXTENDS BloomCounters

CONSTANTS
  Shifts,        \* arguments of decay()
  RemoveAbsent,  \* whether callers also remove what they have not added
  MaxFresh       \* bound: additions of one item between two decays

ASSUME UseAssumption ==
  Shifts \subseteq Nat /\ RemoveAbsent \in BOOLEAN /\ MaxFresh \in Nat

VARIABLES
  bytes,       \* bytes_
  fresh,       \* ghost: additions not removed since the last decay, per item
  aged,        \* ghost: bits shifted out since the last addition, at most 4
  overflowed   \* ghost: a counter has been saturated

filter_vars == <<bytes, fresh, aged, overflowed>>

FilterInit ==
  /\ bytes = NoBytes /\ fresh = [i \in Items |-> 0]
  /\ aged = 4 /\ overflowed = FALSE

AddItem(i) ==
  /\ fresh[i] < MaxFresh
  /\ bytes' = add(bytes, i)
  /\ fresh' = [fresh EXCEPT ![i] = @ + 1]
  /\ aged' = 0
  /\ overflowed' = (overflowed \/ \E slot \in Slots : get_counter(bytes', slot) = kCounterMax)

RemoveItem(i) ==
  /\ RemoveAbsent \/ fresh[i] > 0
  /\ bytes' = remove(bytes, i)
  /\ fresh' = [fresh EXCEPT ![i] = IF @ > 0 THEN @ - 1 ELSE 0]
  /\ UNCHANGED <<aged, overflowed>>

Decay(shift) ==
  /\ bytes' = decay(bytes, shift)
  /\ fresh' = IF shift = 0 THEN fresh ELSE [i \in Items |-> 0]
  /\ aged' = IF aged + shift >= 4 THEN 4 ELSE aged + shift
  /\ UNCHANGED overflowed

ClearFilter ==
  /\ bytes' = NoBytes /\ fresh' = [i \in Items |-> 0] /\ aged' = 4
  /\ UNCHANGED overflowed

FilterNext == \/ \E i \in Items : AddItem(i) \/ RemoveItem(i)
        \/ \E shift \in Shifts : Decay(shift)
        \/ ClearFilter

FilterSpec == FilterInit /\ [][FilterNext]_filter_vars

-----------------------------------------------------------------------------

(* bytes_ holds bytes: no operation lets a nibble overflow. *)
FilterTypeOK == bytes \in [DOMAIN NoBytes -> 0..255]

(* "a false result is definitive": an item added since the last decay, and not
   removed as often, is found, whatever else was added to or removed from the
   same slots.  Holds until a counter saturates (the limit the class comment
   names) and while callers remove only what they added.  And expiry is bounded:
   after s bits of decay without an addition, every counter is below 2^(4-s), so
   four halvings empty the filter. *)
FoundUntilFaded ==
  /\ ~overflowed => \A i \in Items : fresh[i] > 0 => contains(bytes, i)
  /\ \A slot \in Slots : get_counter(bytes, slot) < <<16, 8, 4, 2, 1>>[aged + 1]

(* Removing an absent item is a no-op.  The code does not keep to it (README,
   "Where comments and code part"). *)
RemoveAbsentIsNoop ==
  [][\A i \in Items : (RemoveItem(i) /\ fresh[i] = 0 /\ ~contains(bytes, i)) => bytes' = bytes]_filter_vars

=============================================================================

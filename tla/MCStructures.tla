---------------------------- MODULE MCStructures ----------------------------
(***************************************************************************)
(* The parts that no other modelled part looks into, each checked on its   *)
(* own in one run: the file cache, the memory pool, the framing of         *)
(* requests, the counting Bloom filter, the address gate and the kqueue    *)
(* poller.  `subject` is the part a behaviour is about; the others rest in *)
(* an initial state.                                                       *)
(***************************************************************************)
EXTENDS FileCache, MemoryPool, RequestScan, BloomFilter, RateLimiter, KqueuePoller

VARIABLE subject

vars == <<subject, cache_vars, pool_vars, scan_vars, filter_vars, gate_vars, kq_vars>>

(* Two items over two bytes of counters: they share a slot, which ItemB probes
   twice, and each has slots of its own in both nibbles. *)
CONSTANTS ItemA, ItemB
MCProbes == [i \in {ItemA, ItemB} |-> IF i = ItemA THEN <<0, 1, 2>> ELSE <<1, 1, 3>>]
MCShifts == 0..4

MCClasses == <<1, 2>>

(* Streams of two requests with tricky bodies, and an unfinished tail; and the
   empty stream. *)
Bodies == {<<>>, <<"x">>, <<"r">>, <<"x", "r", "n">>, <<"r", "n", "r">>}
Ended(body) == body \o Needle
MCStreams ==
  {Ended(x) \o Ended(y) \o tail :
     x \in Bodies, y \in Bodies, tail \in {<<>>, <<"r", "n">>}} \cup {<<>>}

Init ==
  /\ subject \in {"cache", "pool", "scan", "filter", "gate", "kqueue"}
  /\ CacheInit /\ PoolInit /\ ScanInit /\ FilterInit /\ GateInit /\ KqInit
  /\ subject # "scan" => sent = <<>>

Next ==
  \/ /\ subject = "cache" /\ CacheNext
     /\ UNCHANGED <<subject, pool_vars, scan_vars, filter_vars, gate_vars, kq_vars>>
  \/ /\ subject = "pool" /\ PoolNext
     /\ UNCHANGED <<subject, cache_vars, scan_vars, filter_vars, gate_vars, kq_vars>>
  \/ /\ subject = "scan" /\ ScanNext
     /\ UNCHANGED <<subject, cache_vars, pool_vars, filter_vars, gate_vars, kq_vars>>
  \/ /\ subject = "filter" /\ FilterNext
     /\ UNCHANGED <<subject, cache_vars, pool_vars, scan_vars, gate_vars, kq_vars>>
  \/ /\ subject = "gate" /\ GateNext
     /\ UNCHANGED <<subject, cache_vars, pool_vars, scan_vars, filter_vars, kq_vars>>
  \/ /\ subject = "kqueue" /\ KqNext
     /\ UNCHANGED <<subject, cache_vars, pool_vars, scan_vars, filter_vars, gate_vars>>

Spec == Init /\ [][Next]_vars

(* Every part keeps its types. *)
TypeOK == CacheTypeOK /\ PoolTypeOK /\ ScanTypeOK /\ FilterTypeOK /\ GateTypeOK
          /\ KqTypeOK

=============================================================================

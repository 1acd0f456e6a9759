---------------------------- MODULE KqueuePoller ----------------------------
(***************************************************************************)
(* The kqueue-backed poller (net/kqueue_poller.hpp): changes of interest   *)
(* are buffered and handed to the kernel together at the next wait().  The *)
(* kernel's side, and a caller that registers a descriptor for one         *)
(* direction at a time, as the reactor and IoAwaiter do, are external.     *)
(*                                                                         *)
(* A filter <<f, d>> is one direction of one descriptor.                   *)
(***************************************************************************)
EXTENDS Naturals, Sequences, FiniteSets

CONSTANTS
  KqFds,       \* descriptors
  UseMod,      \* whether the caller changes registrations with mod()
  OutSize,     \* the events one wait() has room for
  MaxPending   \* bound: buffered changes

Dirs == {"R", "W"}
Filters == KqFds \X Dirs
Wake == <<0, "user">>

ASSUME KqAssumption == UseMod \in BOOLEAN /\ {OutSize, MaxPending} \subseteq Nat \ {0}

VARIABLES
  kq_want,     \* the filters asked for; fds_ holds the descriptors among them
  kq_pending,  \* pending_: changes [x, op], x a filter
  kq_filters,  \* registered with the kernel
  kq_fired,    \* active in the kernel: what kevent() would return
  kq_true,     \* filters whose condition holds: data to read, room to write
  kq_seen,     \* those of them the caller has been told of
  kq_woken,    \* wakeup() has been called and no wait() has noticed
  kq_mode,     \* "app", or in wait(): "flush" or "wait"
  kq_modded    \* history: the caller has used mod()

kq_vars == <<kq_want, kq_pending, kq_filters, kq_fired, kq_true, kq_seen, kq_woken, kq_mode,
             kq_modded>>
kq_kernel == <<kq_filters, kq_fired, kq_true, kq_woken>>

KqInit ==
  /\ kq_want = {} /\ kq_pending = <<>> /\ kq_filters = {} /\ kq_fired = {}
  /\ kq_true = {} /\ kq_seen = {} /\ kq_woken = FALSE /\ kq_mode = "app"
  /\ kq_modded = FALSE

Of(f) == {f} \X Dirs
Registered(f) == kq_want \cap Of(f) # {}
Change(f, d, op) == [x |-> <<f, d>>, op |-> op]

(* apply(): EV_ADD for the wanted filter, EV_DELETE for the other, READ before WRITE. *)
Apply(f, d) ==
  <<Change(f, "R", IF d = "R" THEN "add" ELSE "delete"),
    Change(f, "W", IF d = "W" THEN "add" ELSE "delete")>>

Buffer(changes) ==
  /\ kq_mode = "app"
  /\ Len(kq_pending) + Len(changes) <= MaxPending
  /\ kq_pending' = kq_pending \o changes
  /\ UNCHANGED <<kq_kernel, kq_mode>>

KqSetInterest(f, d) ==
  /\ kq_want' = (kq_want \ Of(f)) \cup {<<f, d>>}
  /\ kq_seen' = kq_seen \ Of(f)
  /\ Buffer(Apply(f, d))

KqAdd(f, d) == ~Registered(f) /\ KqSetInterest(f, d) /\ UNCHANGED kq_modded
KqMod(f, d) == UseMod /\ Registered(f) /\ KqSetInterest(f, d) /\ kq_modded' = TRUE

(* The slip takes back the interest in reading only. *)
DeleteRead(f) == <<Change(f, "R", "delete")>>
DeleteBoth(f) == <<Change(f, "R", "delete"), Change(f, "W", "delete")>>
KqDel(f) ==
  /\ Registered(f)
  /\ kq_want' = kq_want \ Of(f) /\ kq_seen' = kq_seen \ Of(f)
  /\ Buffer(DeleteBoth(f)) /\ UNCHANGED kq_modded

(* External: kevent() works through the changes in order.  Adding a filter activates
   it if its condition holds; deleting one that is not there is an error, and the
   rest is still done.  Of the first n changes, the last one to a filter decides. *)
Touched(n) == {kq_pending[i].x : i \in 1..n}
Deciding(i, n) == \A j \in (i + 1)..n : kq_pending[j].x # kq_pending[i].x
Added(n) ==
  {kq_pending[i].x : i \in {k \in 1..n : kq_pending[k].op = "add" /\ Deciding(k, n)}}
FiltersAfter(n) == (kq_filters \ Touched(n)) \cup Added(n)
FiredAfter(n) == (kq_fired \ Touched(n)) \cup (Added(n) \cap kq_true)
InError(i) == kq_pending[i].op = "delete" /\ kq_pending[i].x \notin FiltersAfter(i - 1)

(* wait() begins with flush_pending().  The kevent() call has room for events and
   no timeout: it comes back at once only if some change was in error. *)
KqFlush ==
  LET n == Len(kq_pending)
  IN  /\ kq_mode = "app"
      /\ kq_filters' = FiltersAfter(n) /\ kq_fired' = FiredAfter(n)
      /\ kq_pending' = <<>>
      /\ kq_mode' = IF n = 0 \/ \E i \in 1..n : InError(i) THEN "wait" ELSE "flush"
      /\ UNCHANGED <<kq_want, kq_true, kq_seen, kq_woken, kq_modded>>

(* Otherwise it waits for an event, and what it returns is thrown away. *)
KqFlushReturns ==
  /\ kq_mode = "flush"
  /\ \E some \in SUBSET kq_fired \ {{}} : kq_fired' = kq_fired \ some
  /\ kq_mode' = "wait"
  /\ UNCHANGED <<kq_want, kq_pending, kq_filters, kq_true, kq_seen, kq_woken, kq_modded>>

(* The kevent() of wait() proper returns as many events as there is room for, or
   none at the timeout; the wakeup is swallowed. *)
KqWaitReturns ==
  /\ kq_mode = "wait"
  /\ \E some \in SUBSET kq_fired :
        /\ Cardinality(some) <= OutSize
        /\ kq_fired' = kq_fired \ some
        /\ kq_seen' = kq_seen \cup (some \ {Wake})
        /\ kq_woken' = (kq_woken /\ Wake \notin some)
  /\ kq_mode' = "app"
  /\ UNCHANGED <<kq_want, kq_pending, kq_filters, kq_true, kq_modded>>

(* wakeup(), on any thread. *)
KqWakeup ==
  /\ kq_fired' = kq_fired \cup {Wake} /\ kq_woken' = TRUE
  /\ UNCHANGED <<kq_want, kq_pending, kq_filters, kq_true, kq_seen, kq_mode, kq_modded>>

(* External: a condition comes to hold; the caller reads or writes until it no
   longer does; and it closes a descriptor that it has deregistered, which takes its
   filters from the kernel, and the number is used again. *)
KqBecomesTrue(x) ==
  /\ x \notin kq_true
  /\ kq_true' = kq_true \cup {x} /\ kq_fired' = kq_fired \cup ({x} \cap kq_filters)
  /\ UNCHANGED <<kq_want, kq_pending, kq_filters, kq_seen, kq_woken, kq_mode, kq_modded>>

KqDrained(x) ==
  /\ kq_mode = "app" /\ x \in kq_true
  /\ kq_true' = kq_true \ {x} /\ kq_fired' = kq_fired \ {x} /\ kq_seen' = kq_seen \ {x}
  /\ UNCHANGED <<kq_want, kq_pending, kq_filters, kq_woken, kq_mode, kq_modded>>

KqClose(f) ==
  /\ kq_mode = "app" /\ ~Registered(f)
  /\ kq_filters' = kq_filters \ Of(f) /\ kq_fired' = kq_fired \ Of(f)
  /\ kq_true' = kq_true \ Of(f)
  /\ UNCHANGED <<kq_want, kq_pending, kq_seen, kq_woken, kq_mode, kq_modded>>

KqNext ==
  \/ \E f \in KqFds, d \in Dirs : KqAdd(f, d) \/ KqMod(f, d)
  \/ \E f \in KqFds : KqDel(f) \/ KqClose(f)
  \/ KqFlush \/ KqFlushReturns \/ KqWaitReturns \/ KqWakeup
  \/ \E x \in Filters : KqBecomesTrue(x) \/ KqDrained(x)

KqSpec == KqInit /\ [][KqNext]_kq_vars

----------------------------------------------------------------------------
KqTypeOK ==
  /\ kq_want \subseteq Filters /\ kq_filters \subseteq Filters
  /\ kq_fired \subseteq kq_filters \cup {Wake} /\ kq_true \subseteq Filters
  /\ kq_seen \subseteq kq_true /\ kq_mode \in {"app", "flush", "wait"}

(* One event per state transition: a condition that holds, that the caller asked
   for and has not been told of, is on its way: active in the kernel, or about to be
   by a buffered change; and so is a wakeup. *)
NoTransitionLost ==
  /\ kq_woken => Wake \in kq_fired
  /\ \A x \in (kq_want \cap kq_true) \ kq_seen :
        x \in kq_fired \/ x \in FiredAfter(Len(kq_pending))

(* What a flush leaves behind.  While wait() waits, the kernel's filters are the
   ones last asked for, whatever mixture of add, mod, del, close and reuse of the
   number was flushed.  And no transition is lost as long as the caller only adds
   and deletes, as IoAwaiter and resume_handle() do: each of those flushes holds an
   EV_DELETE that is in error. *)
ChangesReachTheKernel ==
  /\ kq_mode # "app" => kq_filters = kq_want
  /\ kq_modded \/ NoTransitionLost

=============================================================================

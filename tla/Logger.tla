------------------------------- MODULE Logger -------------------------------
(***************************************************************************)
(* The asynchronous logger (src/muses/logging.hpp): producers push into a  *)
(* bounded DropOldest queue; the writer thread drains it into buffer_ and  *)
(* buffer_ into the file; flush() does the same from any thread; the       *)
(* destructor stops the queue, joins the writer and drains once more.      *)
(*                                                                         *)
(* The queue is taken as the FIFO that RingQueue is shown to be, one pop   *)
(* at a time, with the three moments of a push that others can come        *)
(* between: the look at stopped_, the claim of a cell, and the store that  *)
(* lets the cell be popped.  Entries are <<producer, number>>; formatting  *)
(* is left out.                                                            *)
(***************************************************************************)
EXTENDS Naturals, Sequences

CONSTANTS
  Loggers,      \* threads that call log()
  Flushers,     \* threads that call flush(), each once
  LogCapacity,  \* cells of queue_
  Threshold,    \* kFlushThreshold, in entries
  MaxLog,       \* bound: entries per producer
  None

Writer == "writer"
Owner == "owner"     \* runs the destructor
LogThreads == Flushers \cup {Writer, Owner}

(* What the proofs ask of the constants: the ring has a cell, and the names of
   threads and of "nothing" are told apart. *)
ASSUME LoggerAssumption ==
  /\ LogCapacity \in Nat \ {0} /\ MaxLog \in Nat
  /\ {Writer, Owner} \cap Flushers = {} /\ None \notin Loggers \X Nat

VARIABLES
  queue_,
  stopped_,   \* of queue_
  running_,
  buffer_,
  file,       \* the entries on disk
  dropped,    \* entries evicted by DropOldest
  line_mu_,   \* its holder, or None
  at,         \* where each thread is
  popped,     \* the entry a thread has popped and not yet added to buffer_
  to_write,   \* to_write of each thread
  due,        \* ghost: what was queued when a flush() began, logged when ~Logger() did
  logged,     \* entries each producer has pushed
  pushing     \* where each producer is in push()

log_vars == <<queue_, stopped_, running_, buffer_, file, dropped, line_mu_, at, popped,
              to_write, due, logged, pushing>>

LogInit ==
  /\ queue_ = <<>> /\ stopped_ = FALSE /\ running_ = TRUE
  /\ buffer_ = <<>> /\ file = <<>> /\ dropped = {} /\ line_mu_ = None
  /\ at = [t \in LogThreads |-> IF t = Writer THEN "check" ELSE "idle"]
  /\ popped = [t \in LogThreads |-> None] /\ to_write = [t \in LogThreads |-> <<>>]
  /\ due = [t \in LogThreads |-> {}] /\ logged = [p \in Loggers |-> 0]
  /\ pushing = [p \in Loggers |-> "no"]

In(s) == {s[i] : i \in 1..Len(s)}
Goto(t, l) == at' = [at EXCEPT ![t] = l]

(* What try_pop() and evict_one() find at the front: an entry whose cell has been
   claimed and not yet stored is no entry to them. *)
Stored(e) == ~(pushing[e[1]] = "claimed" /\ e[2] = logged[e[1]])
Ready == queue_ # <<>> /\ Stored(Head(queue_))

(* Everything that has been pushed. *)
Entries == {e \in Loggers \X (1..MaxLog) : e[2] <= logged[e[1]]}

(* log(): push() looks at stopped_ once and does nothing if it is set. *)
LogCheck(p) ==
  /\ pushing[p] = "no" /\ ~stopped_
  /\ pushing' = [pushing EXCEPT ![p] = "checked"]
  /\ UNCHANGED <<queue_, stopped_, running_, buffer_, file, dropped, line_mu_, at, popped,
                 to_write, due, logged>>

(* It claims a cell, after evicting the oldest entry when the queue is full; it
   goes round while that one is not stored yet. *)
Full == Len(queue_) >= LogCapacity

Log(p) ==
  LET e == <<p, logged[p] + 1>>
  IN  /\ pushing[p] = "checked" /\ logged[p] < MaxLog
      /\ Full => Ready
      /\ pushing' = [pushing EXCEPT ![p] = "claimed"]
      /\ logged' = [logged EXCEPT ![p] = @ + 1]
      /\ queue_' = Append(IF Full THEN Tail(queue_) ELSE queue_, e)
      /\ dropped' = IF Full THEN dropped \cup {Head(queue_)} ELSE dropped
      /\ UNCHANGED <<stopped_, running_, buffer_, file, line_mu_, at, popped, to_write, due>>

LogStored(p) ==
  /\ pushing[p] = "claimed"
  /\ pushing' = [pushing EXCEPT ![p] = "no"]
  /\ UNCHANGED <<queue_, stopped_, running_, buffer_, file, dropped, line_mu_, at, popped,
                 to_write, due, logged>>

-----------------------------------------------------------------------------
(* Pieces the threads share.  A thread that drains under line_mu_ (write_all()
   and the second half of the writer's batch) adds one entry per step. *)

DrainLocked(t, next) ==
  /\ line_mu_ \in {None, t}
  /\ \/ /\ Ready
        /\ queue_' = Tail(queue_) /\ buffer_' = Append(buffer_, Head(queue_))
        /\ line_mu_' = t /\ UNCHANGED at
     \/ /\ ~Ready /\ line_mu_' = None /\ Goto(t, next)
        /\ UNCHANGED <<queue_, buffer_>>
  /\ UNCHANGED <<stopped_, running_, file, dropped, popped, to_write, due, logged,
                 pushing>>

(* flush_buffer_if_needed(): whether the buffer stays in memory.  The slip
   forgets that everything must go out at the end. *)
KeepsSmallBuffer == Len(buffer_) < Threshold
KeepBuffer == Len(buffer_) < Threshold /\ running_

(* Swap the buffer out under the lock, write it without.  The slip copies. *)
CopyOut(t, keep, write, next) ==
  /\ line_mu_ = None
  /\ \/ /\ buffer_ = <<>> \/ keep
        /\ Goto(t, next) /\ UNCHANGED to_write
     \/ /\ buffer_ # <<>> /\ ~keep
        /\ to_write' = [to_write EXCEPT ![t] = buffer_]
        /\ Goto(t, write)
  /\ UNCHANGED <<queue_, stopped_, running_, buffer_, file, dropped, line_mu_, popped, due,
                 logged, pushing>>

SwapOut(t, keep, write, next) ==
  /\ line_mu_ = None
  /\ \/ /\ buffer_ = <<>> \/ keep
        /\ Goto(t, next) /\ UNCHANGED <<buffer_, to_write>>
     \/ /\ buffer_ # <<>> /\ ~keep
        /\ to_write' = [to_write EXCEPT ![t] = buffer_] /\ buffer_' = <<>>
        /\ Goto(t, write)
  /\ UNCHANGED <<queue_, stopped_, running_, file, dropped, line_mu_, popped, due, logged,
                 pushing>>

WriteOut(t, next) ==
  /\ file' = file \o to_write[t]
  /\ to_write' = [to_write EXCEPT ![t] = <<>>]
  /\ Goto(t, next)
  /\ UNCHANGED <<queue_, stopped_, running_, buffer_, dropped, line_mu_, popped, due, logged,
                 pushing>>

(* An unlocked pop, and the locked append that follows it, after which the lock
   is free (flush()) or kept for the rest of the batch (the writer).  The slip
   puts the entry in front of what is buffered. *)
PopEntry(t, next) ==
  /\ Ready
  /\ popped' = [popped EXCEPT ![t] = Head(queue_)] /\ queue_' = Tail(queue_)
  /\ Goto(t, next)
  /\ UNCHANGED <<stopped_, running_, buffer_, file, dropped, line_mu_, to_write, due, logged,
                 pushing>>

AddInFront(t, holder, next) ==
  /\ line_mu_ = None
  /\ buffer_' = <<popped[t]>> \o buffer_
  /\ popped' = [popped EXCEPT ![t] = None]
  /\ line_mu_' = holder /\ Goto(t, next)
  /\ UNCHANGED <<queue_, stopped_, running_, file, dropped, to_write, due, logged,
                 pushing>>

Add(t, holder, next) ==
  /\ line_mu_ = None
  /\ buffer_' = Append(buffer_, popped[t])
  /\ popped' = [popped EXCEPT ![t] = None]
  /\ line_mu_' = holder /\ Goto(t, next)
  /\ UNCHANGED <<queue_, stopped_, running_, file, dropped, to_write, due, logged,
                 pushing>>

Jump(t, l) ==
  /\ Goto(t, l)
  /\ UNCHANGED <<queue_, stopped_, running_, buffer_, file, dropped, line_mu_, popped,
                 to_write, due, logged, pushing>>

-----------------------------------------------------------------------------
(* writer_loop(): write_all(), wait_pop(50ms), the batch, and a last flush. *)

(* The loop condition: size() counts every claimed cell. *)
LoopEnds == ~running_ /\ queue_ = <<>>

(* wait_pop(50ms). *)
WaitPop == PopEntry(Writer, "add") \/ (~Ready /\ Jump(Writer, "swap2"))

WriterStep ==
  \/ at[Writer] = "check" /\ Jump(Writer, IF LoopEnds THEN "last" ELSE "drain")
  \/ at[Writer] = "drain" /\ DrainLocked(Writer, "swap")
  \/ at[Writer] = "swap" /\ SwapOut(Writer, KeepBuffer, "write", "wait")
  \/ at[Writer] = "write" /\ WriteOut(Writer, "wait")
  \/ at[Writer] = "wait" /\ WaitPop
  \/ at[Writer] = "add" /\ Add(Writer, Writer, "batch")
  \/ at[Writer] = "batch" /\ DrainLocked(Writer, "swap2")
  \/ at[Writer] = "swap2" /\ SwapOut(Writer, KeepBuffer, "write2", "check")
  \/ at[Writer] = "write2" /\ WriteOut(Writer, "check")
  \/ at[Writer] = "last" /\ SwapOut(Writer, KeepBuffer, "write3", "done")
  \/ at[Writer] = "write3" /\ WriteOut(Writer, "done")

(* flush() *)
FlushStep(f) ==
  \/ /\ at[f] = "idle"
     /\ Goto(f, "pop") /\ due' = [due EXCEPT ![f] = In(queue_)]
     /\ UNCHANGED <<queue_, stopped_, running_, buffer_, file, dropped, line_mu_, popped,
                    to_write, logged, pushing>>
  \/ at[f] = "pop" /\ (PopEntry(f, "add") \/ (~Ready /\ Jump(f, "swap")))
  \/ at[f] = "add" /\ Add(f, None, "pop")
  \/ at[f] = "swap" /\ SwapOut(f, FALSE, "write", "done")
  \/ at[f] = "write" /\ WriteOut(f, "done")

(* ~Logger(), at program exit: after every flush() has returned. *)
DestructorStep ==
  \/ /\ at[Owner] = "idle" /\ \A f \in Flushers : at[f] \in {"idle", "done"}
     /\ running_' = FALSE /\ Goto(Owner, "stop") /\ due' = [due EXCEPT ![Owner] = Entries]
     /\ UNCHANGED <<queue_, stopped_, buffer_, file, dropped, line_mu_, popped, to_write,
                    logged, pushing>>
  \/ /\ at[Owner] = "stop" /\ stopped_' = TRUE /\ Goto(Owner, "join")
     /\ UNCHANGED <<queue_, running_, buffer_, file, dropped, line_mu_, popped, to_write,
                    due, logged, pushing>>
  \/ at[Owner] = "join" /\ at[Writer] = "done" /\ Jump(Owner, "drain")
  \/ at[Owner] = "drain" /\ DrainLocked(Owner, "swap")
  \/ at[Owner] = "swap" /\ SwapOut(Owner, KeepBuffer, "write", "done")
  \/ at[Owner] = "write" /\ WriteOut(Owner, "done")

LogNext ==
  \/ \E p \in Loggers : LogCheck(p) \/ Log(p) \/ LogStored(p)
  \/ WriterStep
  \/ \E f \in Flushers : at[Owner] = "idle" /\ FlushStep(f)
  \/ DestructorStep

LogSpec == LogInit /\ [][LogNext]_log_vars

(* The writer and the destructor are threads that run, and so is a producer that
   has claimed a cell; nobody need log. *)
LogFairness ==
  /\ \A p \in Loggers : WF_log_vars(LogStored(p))
  /\ WF_log_vars(WriterStep) /\ WF_log_vars(DestructorStep)
  /\ \A f \in Flushers : WF_log_vars(FlushStep(f) /\ at[Owner] = "idle")
LogFairSpec == LogSpec /\ LogFairness

-----------------------------------------------------------------------------
(* Where an entry can be: queued, buffered, in the file, dropped, swapped out by
   a thread that has yet to write it, or popped by one that has yet to add it. *)
Places == ({"queue", "buffer", "file", "dropped"} \X {None})
            \cup ({"out", "hand"} \X LogThreads)
Held(x) ==
  CASE x[1] = "queue" -> In(queue_)
    [] x[1] = "buffer" -> In(buffer_)
    [] x[1] = "file" -> In(file)
    [] x[1] = "dropped" -> dropped
    [] x[1] = "out" -> In(to_write[x[2]])
    [] x[1] = "hand" -> {popped[x[2]]} \ {None}

(* The lock has one holder, and only threads that pop without it hold a single
   entry. *)
LogTypeOK ==
  /\ Len(queue_) <= LogCapacity /\ line_mu_ \in LogThreads \cup {None}
  /\ \A x \in Places : Held(x) \subseteq Entries
  /\ \A t \in LogThreads : popped[t] # None => at[t] = "add"

Once(s) == \A i, j \in 1..Len(s) : s[i] = s[j] => i = j

(* Every entry is in exactly one place, and there once: two drainers never write
   the same entry twice and never lose one between a pop and the append, or
   between the swap and the write. *)
EachEntryOnce ==
  /\ Once(queue_) /\ Once(buffer_) /\ Once(file) /\ \A t \in LogThreads : Once(to_write[t])
  /\ \A x, y \in Places : x # y => Held(x) \cap Held(y) = {}
  /\ UNION {Held(x) : x \in Places} = Entries

Before(d, e) == d[1] = e[1] => d[2] < e[2]
InOrder(s) == \A i, j \in 1..Len(s) : i < j => Before(s[i], s[j])

(* As long as nobody has called flush(), the lines of one producer are in the
   file in the order the producer wrote them.  (flush() swaps the buffer out
   under the lock and writes it without, and so does the writer: the later swap
   may be the earlier write.) *)
FileInOrder == (\A f \in Flushers : at[f] = "idle") => InOrder(file)

(* flush() returns when everything queued at the call is on disk.  The code does
   not keep to it (README, "Where comments and code part"). *)
FlushCompletes ==
  \A f \in Flushers : at[f] = "done" => due[f] \subseteq In(file) \cup dropped

(* The destructor terminates: stop() gets the writer out of wait_pop() and the
   loop ends once the queue is empty.  By then every entry that was pushed before
   the destructor began, and not evicted, is in the file, whatever is logged while
   it runs. *)
ShutdownKeepsEntries ==
  <>[](at[Owner] = "done" /\ due[Owner] \subseteq In(file) \cup dropped)

(* "Final drain so nothing is lost on shutdown".  A log() that has looked at
   stopped_ in time may claim its cell after the last drain: the code does not keep
   to it (README, "Where comments and code part"). *)
NothingLostOnShutdown ==
  <>[](at[Owner] = "done" /\ In(file) \cup dropped = Entries)

=============================================================================

------------------------------ MODULE CondVar ------------------------------
(***************************************************************************)
(* std::condition_variable as the queues and the thread pool use it.  The  *)
(* state of a condition variable is the set of threads asleep on it; a     *)
(* thread that is inside a wait() and not asleep competes for the mutex to *)
(* look at its predicate again.                                            *)
(***************************************************************************)
EXTENDS FiniteSets

(* notify_one(): the possible sleepers afterwards.  Which thread wakes up is
   not specified; without a sleeper the call does nothing. *)
AfterNotifyOne(sleepers) ==
  IF sleepers = {} THEN {{}} ELSE {sleepers \ {t} : t \in sleepers}

(* notify_all() *)
AfterNotifyAll(sleepers) == {{}}

=============================================================================

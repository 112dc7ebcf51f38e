---------------------------- MODULE PthreadCond -----------------------------
(***************************************************************************)
(* Condition variables of the threads library, on top of its mutexes.      *)
(* Waiting releases the mutex and joins the wait set in one atomic step;   *)
(* a signal with nobody waiting is lost; a waiter may also return without  *)
(* any signal (a spurious wakeup, which POSIX allows).  A thread that left *)
(* the wait set still has to lock the mutex again before it returns.       *)
(***************************************************************************)
CONSTANTS Threads, Mutexes,
          Conds     \* the condition variables of the program

VARIABLES owner,
          waiting   \* waiting[c] is the set of threads blocked on c

INSTANCE PthreadMutex

CondInit == waiting = [c \in Conds |-> {}]

CondTypeOK == waiting \in [Conds -> SUBSET Threads]

(* The first half of pthread_cond_wait. *)
CondWait(c, m, t) ==
  /\ MutexUnlock(m)
  /\ waiting' = [waiting EXCEPT ![c] = @ \union {t}]

(* The second half: t is no longer waiting and gets the mutex back. *)
CondReturn(c, m, t) ==
  /\ t \notin waiting[c]
  /\ MutexLock(m, t)

CondSignal(c) ==
  \/ /\ waiting[c] = {}
     /\ UNCHANGED waiting
  \/ \E t \in waiting[c] : waiting' = [waiting EXCEPT ![c] = @ \ {t}]

SpuriousWakeup(c, t) ==
  /\ t \in waiting[c]
  /\ waiting' = [waiting EXCEPT ![c] = @ \ {t}]
=============================================================================

---------------------------- MODULE PthreadMutex ----------------------------
(***************************************************************************)
(* The mutexes of the threads library, as the programs of test_pthreads    *)
(* use them: default (non-recursive) mutexes, locked and unlocked by the   *)
(* same thread.  The library is external; only its use is in this          *)
(* repository.                                                             *)
(***************************************************************************)
CONSTANTS Threads,  \* the threads that may own a mutex
          Mutexes   \* the mutexes of the program

VARIABLE owner      \* owner[m] is the thread holding m, or NoThread

NoThread == "none"

MutexInit == owner = [m \in Mutexes |-> NoThread]

MutexTypeOK == owner \in [Mutexes -> Threads \union {NoThread}]

Holds(t, m) == owner[m] = t

(* pthread_mutex_lock blocks its caller until the mutex is free. *)
MutexLock(m, t) ==
  /\ owner[m] = NoThread
  /\ owner' = [owner EXCEPT ![m] = t]

MutexUnlock(m) == owner' = [owner EXCEPT ![m] = NoThread]
=============================================================================

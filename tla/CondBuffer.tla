----------------------------- MODULE CondBuffer -----------------------------
(***************************************************************************)
(* test_pthreads/condition_variable_mutex_lock_unlock.c: the producer and  *)
(* the consumer wait on condition variables, under the mutex.              *)
(***************************************************************************)
EXTENDS BufferSection

CONSTANT Spurious   \* whether pthread_cond_wait may return unsignalled

ASSUME CondAssumption == Spurious \in BOOLEAN

VARIABLE waiting

Conds == {"notFull", "notEmpty"}

PC == INSTANCE PthreadCond

vars == <<pc, i, reg, count, buf, taken, owner, waiting>>

(* The condition variable a thread waits on, and the one it signals. *)
WaitsOn(t) == IF t = "producer" THEN "notFull" ELSE "notEmpty"
Signals(t) == IF t = "producer" THEN "notEmpty" ELSE "notFull"

Init == SectionInit /\ PC!CondInit

Create == CreateProducer("lock") /\ UNCHANGED waiting

(* Mutant of Lock: the section is entered without the mutex. *)
EnterUnlocked(t) ==
  /\ Goto(t, "lock", "test")
  /\ UNCHANGED <<i, reg, count, buf, taken, owner, waiting>>

Lock(t) ==
  /\ Goto(t, "lock", "test")
  /\ MutexLock("lock", t)
  /\ UNCHANGED <<i, reg, count, buf, taken, waiting>>

(* while (count == MAX_SIZE) and while (count == 0): into the section... *)
TestPasses(t) ==
  /\ ~Blocked(t)
  /\ Goto(t, "test", "access")
  /\ UNCHANGED <<i, reg, count, buf, taken, owner, waiting>>

(* ...or wait, *)
Wait(t) ==
  /\ Blocked(t)
  /\ Goto(t, "test", "wait")
  /\ PC!CondWait(WaitsOn(t), "lock", t)
  /\ UNCHANGED <<i, reg, count, buf, taken>>

(* and test again on return, whatever the reason for it. *)
WakeUp(t) ==
  /\ Goto(t, "wait", "test")
  /\ PC!CondReturn(WaitsOn(t), "lock", t)
  /\ UNCHANGED <<i, reg, count, buf, taken, waiting>>

(* Mutant of Signal: nobody is signalled. *)
SignalNobody(t) ==
  /\ Goto(t, "signal", "unlock")
  /\ UNCHANGED <<i, reg, count, buf, taken, owner, waiting>>

Signal(t) ==
  /\ Goto(t, "signal", "unlock")
  /\ PC!CondSignal(Signals(t))
  /\ UNCHANGED <<i, reg, count, buf, taken, owner>>

SpuriousReturn(t) ==
  /\ Spurious
  /\ PC!SpuriousWakeup(WaitsOn(t), t)
  /\ UNCHANGED <<pc, i, reg, count, buf, taken, owner>>

(* One iteration's steps.  A spurious return is no step of the thread.     *)
Thread(t) ==
  \/ Lock(t)
  \/ TestPasses(t)
  \/ Wait(t)
  \/ WakeUp(t)
  \/ LoadCount(t) /\ UNCHANGED waiting
  \/ StoreCount(t, "signal") /\ UNCHANGED waiting
  \/ Signal(t)
  \/ EndIteration(t, "lock") /\ UNCHANGED waiting

producer ==
  \/ WriteSlot /\ UNCHANGED waiting
  \/ Thread("producer")

consumer ==
  \/ ReadSlot /\ UNCHANGED waiting
  \/ Thread("consumer")

(* Both threads have called pthread_exit and the process is over. *)
Finished ==
  /\ \A t \in Threads : pc[t] = "exited"
  /\ UNCHANGED vars

Next ==
  \/ Create
  \/ producer
  \/ consumer
  \/ \E t \in Threads : SpuriousReturn(t)
  \/ Finished

Spec == Init /\ [][Next]_vars

(* The scheduler runs every thread that can run.  Spurious returns are     *)
(* possible but not for ever: a thread woken again and again could         *)
(* otherwise win the mutex against the other one each time.                *)
Fairness ==
  /\ WF_vars(producer)
  /\ WF_vars(consumer \/ Create)
  /\ <>[][\A t \in Threads : ~SpuriousReturn(t)]_vars

FairSpec == Spec /\ Fairness

Places == {"create", "unborn", "lock", "test", "wait", "access", "load",
           "store", "signal", "unlock", "exited"}

TypeOK ==
  /\ pc \in [Threads -> Places]
  /\ i \in [Threads -> 0 .. Items]
  /\ reg \in [Threads -> 0 .. MaxSize]
  /\ count \in 0 .. MaxSize
  /\ buf \in [Slots -> Tags \union {Unwritten}]
  /\ taken \subseteq Tags
  /\ MutexTypeOK
  /\ PC!CondTypeOK

(* No wakeup is lost: whoever is in a wait set when the mutex is free      *)
(* still has its condition true, so the other thread has a signal to send. *)
WaitersAreBlocked ==
  \A t \in Threads :
    (t \in waiting[WaitsOn(t)] /\ owner["lock"] = NoThread) => Blocked(t)
=============================================================================

----------------------------- MODULE HaltCounter -----------------------------
(***************************************************************************)
(* test_pthreads/condition_variable.c: two threads increment count until   *)
(* it reaches COUNT_DONE.  functionCount1 halts while count lies between   *)
(* COUNT_HALT1 and COUNT_HALT2, functionCount2 then counts alone and wakes *)
(* it.  The tests of count are made without count_mutex, which protects    *)
(* the increments.  count++ is a load and a store.                         *)
(***************************************************************************)
EXTENDS Integers, FiniteSets

CONSTANTS COUNT_HALT1, COUNT_HALT2, COUNT_DONE,
          CreateMayFail,   \* whether pthread_create may fail
          Spurious         \* whether pthread_cond_wait may return unsignalled

ASSUME HaltAssumption ==
  /\ COUNT_HALT1 \in Nat \ {0}
  /\ COUNT_HALT2 \in Nat
  /\ COUNT_DONE \in Nat
  /\ COUNT_HALT1 <= COUNT_HALT2
  /\ COUNT_HALT2 + 1 < COUNT_DONE
  /\ CreateMayFail \in BOOLEAN
  /\ Spurious \in BOOLEAN

VARIABLES pc,       \* per thread, main included: where it is
          reg,      \* per counting thread: the count it loaded for count++
          count,
          printed,  \* per counting thread: the values it printed
          owner, waiting

vars == <<pc, reg, count, printed, owner, waiting>>

T1 == "functionCount1"
T2 == "functionCount2"
Threads == {T1, T2}
Mutexes == {"condition_mutex", "count_mutex"}
Conds == {"condition_cond"}

INSTANCE PthreadCond

Init ==
  /\ pc = [t \in Threads \union {"main"} |->
             IF t = "main" THEN "create1" ELSE "unborn"]
  /\ reg = [t \in Threads |-> 0]
  /\ count = 0
  /\ printed = [t \in Threads |-> {}]
  /\ MutexInit
  /\ CondInit

(* When main returns the process is over, whatever the threads do.         *)
Goto(t, from, to) ==
  /\ pc["main"] # "returned"
  /\ pc[t] = from
  /\ pc' = [pc EXCEPT ![t] = to]

-----------------------------------------------------------------------------
(* main does not look at what pthread_create returns. *)
Create(t, from, to) ==
  /\ pc["main"] = from
  /\ \/ pc' = [pc EXCEPT !["main"] = to, ![t] = "lock_condition"]
     \/ /\ CreateMayFail
        /\ pc' = [pc EXCEPT !["main"] = to]
  /\ UNCHANGED <<reg, count, printed, owner, waiting>>

(* A thread that was not created leaves its pthread_t uninitialised:       *)
(* joining it fails at once (or crashes the process, which ends it too).   *)
Join(t, from, to) ==
  /\ \/ /\ pc[t] = "done"
        /\ Goto("main", from, to)
     \/ /\ pc[t] = "unborn"
        /\ \/ Goto("main", from, to)
           \/ Goto("main", from, "returned")
  /\ UNCHANGED <<reg, count, printed, owner, waiting>>

main ==
  \/ Create(T1, "create1", "create2")
  \/ Create(T2, "create2", "join1")
  \/ Join(T1, "join1", "join2")
  \/ Join(T2, "join2", "returned")

-----------------------------------------------------------------------------
LockCondition(t) ==
  /\ Goto(t, "lock_condition", "test_low")
  /\ MutexLock("condition_mutex", t)
  /\ UNCHANGED <<reg, count, printed, waiting>>

(* The two operands of && and of || are two loads of count.  Outside is    *)
(* where a thread goes with count outside the halting range.               *)
Outside(t) == IF t = T1 THEN "unlock_condition" ELSE "signal"
Inside(t) == IF t = T1 THEN "wait" ELSE "unlock_condition"

TestLow(t) ==
  /\ Goto(t, "test_low", IF count < COUNT_HALT1 THEN Outside(t) ELSE "test_high")
  /\ UNCHANGED <<reg, count, printed, owner, waiting>>

TestHigh(t) ==
  /\ Goto(t, "test_high", IF count > COUNT_HALT2 THEN Outside(t) ELSE Inside(t))
  /\ UNCHANGED <<reg, count, printed, owner, waiting>>

(* pthread_cond_wait, and the test again when it returns. *)
Wait ==
  /\ Goto(T1, "wait", "waiting")
  /\ CondWait("condition_cond", "condition_mutex", T1)
  /\ UNCHANGED <<reg, count, printed>>

(* Mutant of WakeUp: an if where the code has a while. *)
WakeUpUntested ==
  /\ Goto(T1, "waiting", "unlock_condition")
  /\ CondReturn("condition_cond", "condition_mutex", T1)
  /\ UNCHANGED <<reg, count, printed, waiting>>

WakeUp ==
  /\ Goto(T1, "waiting", "test_low")
  /\ CondReturn("condition_cond", "condition_mutex", T1)
  /\ UNCHANGED <<reg, count, printed, waiting>>

SpuriousReturn ==
  /\ Spurious
  /\ pc["main"] # "returned"
  /\ SpuriousWakeup("condition_cond", T1)
  /\ UNCHANGED <<pc, reg, count, printed, owner>>

(* Mutant of Signal: nobody is signalled. *)
SignalNobody ==
  /\ Goto(T2, "signal", "unlock_condition")
  /\ UNCHANGED <<reg, count, printed, owner, waiting>>

Signal ==
  /\ Goto(T2, "signal", "unlock_condition")
  /\ CondSignal("condition_cond")
  /\ UNCHANGED <<reg, count, printed, owner>>

UnlockCondition(t) ==
  /\ Goto(t, "unlock_condition", "lock_count")
  /\ MutexUnlock("condition_mutex")
  /\ UNCHANGED <<reg, count, printed, waiting>>

(* Mutant of LockCount: the increment is not protected. *)
CountUnlocked(t) ==
  /\ Goto(t, "lock_count", "load")
  /\ UNCHANGED <<reg, count, printed, owner, waiting>>

LockCount(t) ==
  /\ Goto(t, "lock_count", "load")
  /\ MutexLock("count_mutex", t)
  /\ UNCHANGED <<reg, count, printed, waiting>>

LoadCount(t) ==
  /\ Goto(t, "load", "store")
  /\ reg' = [reg EXCEPT ![t] = count]
  /\ UNCHANGED <<count, printed, owner, waiting>>

(* Mutant of StoreCount: the counter is decremented. *)
StoreDown(t) ==
  /\ Goto(t, "store", "print")
  /\ count' = reg[t] - 1
  /\ UNCHANGED <<reg, printed, owner, waiting>>

StoreCount(t) ==
  /\ Goto(t, "store", "print")
  /\ count' = reg[t] + 1
  /\ UNCHANGED <<reg, printed, owner, waiting>>

PrintCount(t) ==
  /\ Goto(t, "print", "unlock_count")
  /\ printed' = [printed EXCEPT ![t] = @ \union {count}]
  /\ UNCHANGED <<reg, count, owner, waiting>>

UnlockCount(t) ==
  /\ Goto(t, "unlock_count", "test_done")
  /\ MutexUnlock("count_mutex")
  /\ UNCHANGED <<reg, count, printed, waiting>>

(* Mutant of TestDone: == where the code has >=. *)
TestDoneExactly(t) ==
  /\ Goto(t, "test_done", IF count = COUNT_DONE THEN "done" ELSE "lock_condition")
  /\ UNCHANGED <<reg, count, printed, owner, waiting>>

(* The test that ends the thread reads count without the mutex. *)
TestDone(t) ==
  /\ Goto(t, "test_done", IF count >= COUNT_DONE THEN "done" ELSE "lock_condition")
  /\ UNCHANGED <<reg, count, printed, owner, waiting>>

Section(t) ==
  \/ LockCondition(t)
  \/ TestLow(t)
  \/ TestHigh(t)
  \/ UnlockCondition(t)
  \/ LockCount(t)
  \/ LoadCount(t)
  \/ StoreCount(t)
  \/ PrintCount(t)
  \/ UnlockCount(t)
  \/ TestDone(t)

functionCount1 == Section(T1) \/ Wait \/ WakeUp
functionCount2 == Section(T2) \/ Signal

Next == main \/ functionCount1 \/ functionCount2 \/ SpuriousReturn

Spec == Init /\ [][Next]_vars

(* The scheduler runs every thread that can run; spurious returns are      *)
(* possible but not for ever.                                              *)
Fairness ==
  /\ WF_vars(main)
  /\ WF_vars(functionCount1)
  /\ WF_vars(functionCount2)
  /\ <>[][~SpuriousReturn]_vars

FairSpec == Spec /\ Fairness

-----------------------------------------------------------------------------
Places == {"unborn", "lock_condition", "test_low", "test_high", "wait",
           "waiting", "signal", "unlock_condition", "lock_count", "load",
           "store", "print", "unlock_count", "test_done", "done"}

MainPlaces == {"create1", "create2", "join1", "join2", "returned"}

TypeOK ==
  /\ pc \in [Threads \union {"main"} -> Places \union MainPlaces]
  /\ reg \in [Threads -> Nat]
  /\ count \in Nat
  /\ printed \in [Threads -> SUBSET Nat]
  /\ MutexTypeOK
  /\ CondTypeOK

(* COUNT_DONE ends each thread by a test made outside count_mutex          *)
(* (lines 38 and 55): a thread that passed it with COUNT_DONE - 1 may      *)
(* still count once, so the counter can overshoot, but by one at most.     *)
OvershootByOne == count <= COUNT_DONE + 1

(* Every increment moves the counter by one: no increment is lost between  *)
(* the load and the store of count++ (lines 35 and 52).                    *)
NoLostIncrement == [][count' = count + 1]_count

(* functionCount1 tests count under condition_mutex only and increments it *)
(* later (lines 30 and 35), so it can count inside the range it is meant   *)
(* to halt in.  It does so at most once.                                   *)
HaltRange == COUNT_HALT1 + 1 .. COUNT_HALT2 + 1
HaltsButOnce == Cardinality(printed[T1] \intersect HaltRange) <= 1

(* The condition functionCount1 waits for is changed under another mutex   *)
(* than the one it waits with (lines 30, 35, 47).  No wakeup is lost all   *)
(* the same: functionCount2 never finishes and leaves it waiting.          *)
NoLostWakeup ==
  pc[T2] = "done" =>
    /\ waiting["condition_cond"] = {}
    /\ pc[T1] # "wait"

(* When main has joined both threads each of them has seen COUNT_DONE, and *)
(* the two threads together printed every value once.                      *)
AllPrintedOnce ==
  (pc[T1] = "done" /\ pc[T2] = "done") =>
    /\ printed[T1] \union printed[T2] = 1 .. count
    /\ printed[T1] \intersect printed[T2] = {}
    /\ count >= COUNT_DONE

(* main gets past both joins, provided functionCount2 was created: without *)
(* it nobody wakes functionCount1.                                         *)
Terminates == <>(pc[T2] # "unborn") => <>(pc["main"] = "returned")
=============================================================================

-------------------------- MODULE HaltCounter_proofs -------------------------
(***************************************************************************)
(* What holds of condition_variable.c for all values of its three          *)
(* constants that leave functionCount2 something to count after the        *)
(* halting range (HaltAssumption).  IInv has a part per property:          *)
(*   - Registers: nobody changes count between a load and its store;       *)
(*   - Posts: when count has reached COUNT_DONE some thread has counted    *)
(*     for the last time, and both have when it is one above;              *)
(*   - Wakes: while functionCount1 waits, functionCount2 is not past the   *)
(*     test that makes it signal;                                          *)
(*   - Halts: once functionCount1 has printed a value of the range it gets *)
(*     past its test only above it;                                        *)
(*   - Prints: together the threads printed the values up to the last.     *)
(***************************************************************************)
EXTENDS HaltCounter, FiniteSetTheorems, TLAPS

ConditionSection == {"test_low", "test_high", "wait", "signal", "unlock_condition"}
CountSection == {"load", "store", "print", "unlock_count"}
PreStore == {"unlock_condition", "lock_count", "load", "store"}
Post == {"print", "unlock_count", "test_done", "done"}

Exclusion ==
  \A t \in Threads :
    /\ pc[t] \in ConditionSection => owner["condition_mutex"] = t
    /\ pc[t] \in CountSection => owner["count_mutex"] = t

Births ==
  /\ pc["main"] = "create1" => pc[T1] = "unborn"
  /\ pc["main"] \in {"create1", "create2"} => pc[T2] = "unborn"
  /\ \A t \in Threads : pc[t] \notin MainPlaces

Registers ==
  \A t \in Threads :
    /\ pc[t] = "store" => reg[t] = count
    /\ pc[t] = "print" => count > 0

Posts ==
  /\ count <= COUNT_DONE + 1
  /\ count >= COUNT_DONE => \E t \in Threads : pc[t] \in Post
  /\ count > COUNT_DONE => \A t \in Threads : pc[t] \in Post
  /\ \A t \in Threads : pc[t] = "done" => count >= COUNT_DONE

Waiters ==
  /\ T1 \in waiting["condition_cond"] => pc[T1] = "waiting"
  /\ T2 \notin waiting["condition_cond"]
  /\ pc[T2] \notin {"wait", "waiting"} /\ pc[T1] # "signal"

Wakes ==
  (pc[T1] = "wait" \/ T1 \in waiting["condition_cond"]) =>
    /\ pc[T2] # "done"
    /\ count <= COUNT_HALT2 + 1
    /\ pc[T2] \in PreStore => count <= COUNT_HALT2

InRange == printed[T1] \intersect HaltRange

Halts ==
  /\ \E v \in Nat : InRange \subseteq {v}
  /\ InRange # {} =>
       /\ count > COUNT_HALT1
       /\ pc[T1] \in PreStore => count > COUNT_HALT2
       /\ pc[T1] = "print" => count > COUNT_HALT2 + 1

Printed == IF \E t \in Threads : pc[t] = "print" THEN count - 1 ELSE count

Prints ==
  /\ printed[T1] \union printed[T2] = 1 .. Printed
  /\ printed[T1] \intersect printed[T2] = {}

IInv ==
  /\ TypeOK
  /\ Births
  /\ Exclusion
  /\ Registers
  /\ Posts
  /\ Waiters
  /\ Wakes
  /\ Halts
  /\ Prints

LEMMA InitInv == Init => IInv
<1> SUFFICES ASSUME Init PROVE IInv
  OBVIOUS
<1>1. /\ pc = [t \in Threads \union {"main"} |->
                 IF t = "main" THEN "create1" ELSE "unborn"]
      /\ reg = [t \in Threads |-> 0] /\ count = 0
      /\ printed = [t \in Threads |-> {}]
      /\ owner = [m \in Mutexes |-> NoThread] /\ waiting = [c \in Conds |-> {}]
  BY DEF Init, MutexInit, CondInit
<1> USE HaltAssumption DEF Threads, T1, T2
<1>2. TypeOK
  BY <1>1 DEF TypeOK, Mutexes, Conds, MutexTypeOK, CondTypeOK, NoThread, Places,
       MainPlaces
<1>3. Births
  BY <1>1 DEF Births, MainPlaces
<1>4. Exclusion
  BY <1>1 DEF Births, Exclusion, ConditionSection, CountSection, MainPlaces
<1>5. Registers
  BY <1>1 DEF Registers, Exclusion, CountSection
<1>6. Posts
  BY <1>1 DEF Posts, Post, Registers, Births, Exclusion, CountSection
<1>7. Waiters
  BY <1>1 DEF Waiters, Births, Conds
<1>8. Wakes
  BY <1>1 DEF Births, Wakes, Waiters, Exclusion, ConditionSection, PreStore, Posts,
       Registers, Conds
<1>9. Halts
  BY <1>1 DEF Halts, InRange, HaltRange, PreStore, Births, Registers
<1>10. Prints
  BY <1>1 DEF Births, Prints, Printed, Registers, Exclusion, CountSection
<1> QED
  BY <1>2, <1>3, <1>4, <1>5, <1>6, <1>7, <1>8, <1>9, <1>10 DEF IInv

LEMMA NextInv == IInv /\ [Next]_vars => IInv'
<1> SUFFICES ASSUME IInv, [Next]_vars PROVE IInv'
  OBVIOUS
<1> USE HaltAssumption DEF IInv, TypeOK, Threads, T1, T2, Mutexes, Conds, MutexTypeOK,
     CondTypeOK, NoThread, Goto, Places, MainPlaces
<1>1. CASE main
  <2>1. TypeOK' /\ Births' /\ Exclusion' /\ Registers' /\ Waiters'
    BY <1>1 DEF main, Create, Join, Births, Exclusion, ConditionSection, CountSection,
         Registers, Waiters
  <2>2. Posts' /\ Wakes'
    BY <1>1 DEF main, Create, Join, Posts, Post, Registers, Births, Exclusion,
         CountSection, Wakes, Waiters, ConditionSection, PreStore
  <2>3. Halts' /\ Prints'
    BY <1>1 DEF main, Create, Join, Halts, InRange, HaltRange, PreStore, Births,
         Registers, Prints, Printed, Exclusion, CountSection
  <2> QED
    BY <2>1, <2>2, <2>3
<1>2. ASSUME NEW t \in Threads, LockCondition(t) PROVE IInv'
  <2>1. TypeOK' /\ Births' /\ Exclusion' /\ Registers' /\ Waiters'
    BY <1>2 DEF LockCondition, MutexLock, Births, Exclusion, ConditionSection,
         CountSection, Registers, Waiters
  <2>2. Posts' /\ Wakes'
    BY <1>2 DEF LockCondition, MutexLock, Posts, Post, Registers, Births, Exclusion,
         CountSection, Wakes, Waiters, ConditionSection, PreStore
  <2>3. Halts' /\ Prints'
    BY <1>2 DEF LockCondition, MutexLock, Halts, InRange, HaltRange, PreStore, Births,
         Registers, Prints, Printed, Exclusion, CountSection
  <2> QED
    BY <2>1, <2>2, <2>3
<1>3. ASSUME NEW t \in Threads, TestLow(t) PROVE IInv'
  <2>1. TypeOK' /\ Births' /\ Exclusion' /\ Registers' /\ Waiters'
    BY <1>3 DEF TestLow, Outside, Births, Exclusion, ConditionSection, CountSection,
         Registers, Waiters
  <2>2. Posts' /\ Wakes'
    BY <1>3 DEF TestLow, Outside, Posts, Post, Registers, Births, Exclusion,
         CountSection, Wakes, Waiters, ConditionSection, PreStore
  <2>3. Halts' /\ Prints'
    BY <1>3 DEF TestLow, Outside, Halts, InRange, HaltRange, PreStore, Births,
         Registers, Prints, Printed, Exclusion, CountSection
  <2> QED
    BY <2>1, <2>2, <2>3
<1>4. ASSUME NEW t \in Threads, TestHigh(t) PROVE IInv'
  <2>1. TypeOK' /\ Births' /\ Exclusion' /\ Registers' /\ Waiters'
    BY <1>4 DEF TestHigh, Outside, Inside, Births, Exclusion, ConditionSection,
         CountSection, Registers, Waiters
  <2>2. Posts' /\ Wakes'
    BY <1>4 DEF TestHigh, Outside, Inside, Posts, Post, Registers, Births, Exclusion,
         CountSection, Wakes, Waiters, ConditionSection, PreStore
  <2>3. Halts' /\ Prints'
    BY <1>4 DEF TestHigh, Outside, Inside, Halts, InRange, HaltRange, PreStore, Births,
         Registers, Prints, Printed, Exclusion, CountSection
  <2> QED
    BY <2>1, <2>2, <2>3
<1>5. CASE Wait
  <2>1. TypeOK' /\ Births' /\ Exclusion' /\ Registers' /\ Waiters'
    BY <1>5 DEF Wait, CondWait, MutexUnlock, Births, Exclusion, ConditionSection,
         CountSection, Registers, Waiters
  <2>2. Posts' /\ Wakes'
    BY <1>5 DEF Wait, CondWait, MutexUnlock, Posts, Post, Registers, Births, Exclusion,
         CountSection, Wakes, Waiters, ConditionSection, PreStore
  <2>3. Halts' /\ Prints'
    BY <1>5 DEF Wait, CondWait, MutexUnlock, Halts, InRange, HaltRange, PreStore,
         Births, Registers, Prints, Printed, Exclusion, CountSection
  <2> QED
    BY <2>1, <2>2, <2>3
<1>6. CASE WakeUp
  <2>1. TypeOK' /\ Births' /\ Exclusion' /\ Registers' /\ Waiters'
    BY <1>6 DEF WakeUp, CondReturn, MutexLock, Births, Exclusion, ConditionSection,
         CountSection, Registers, Waiters
  <2>2. Posts' /\ Wakes'
    BY <1>6 DEF WakeUp, CondReturn, MutexLock, Posts, Post, Registers, Births,
         Exclusion, CountSection, Wakes, Waiters, ConditionSection, PreStore
  <2>3. Halts' /\ Prints'
    BY <1>6 DEF WakeUp, CondReturn, MutexLock, Halts, InRange, HaltRange, PreStore,
         Births, Registers, Prints, Printed, Exclusion, CountSection
  <2> QED
    BY <2>1, <2>2, <2>3
<1>7. CASE SpuriousReturn
  <2>1. TypeOK' /\ Births' /\ Exclusion' /\ Registers' /\ Waiters'
    BY <1>7 DEF SpuriousReturn, SpuriousWakeup, Births, Exclusion, ConditionSection,
         CountSection, Registers, Waiters
  <2>2. Posts' /\ Wakes'
    BY <1>7 DEF SpuriousReturn, SpuriousWakeup, Posts, Post, Registers, Births,
         Exclusion, CountSection, Wakes, Waiters, ConditionSection, PreStore
  <2>3. Halts' /\ Prints'
    BY <1>7 DEF SpuriousReturn, SpuriousWakeup, Halts, InRange, HaltRange, PreStore,
         Births, Registers, Prints, Printed, Exclusion, CountSection
  <2> QED
    BY <2>1, <2>2, <2>3
<1>8. CASE Signal
  <2>1. TypeOK' /\ Births' /\ Exclusion' /\ Registers' /\ Waiters'
    BY <1>8 DEF Signal, CondSignal, Births, Exclusion, ConditionSection, CountSection,
         Registers, Waiters
  <2>2. Posts' /\ Wakes'
    BY <1>8 DEF Signal, CondSignal, Posts, Post, Registers, Births, Exclusion,
         CountSection, Wakes, Waiters, ConditionSection, PreStore
  <2>3. Halts' /\ Prints'
    BY <1>8 DEF Signal, CondSignal, Halts, InRange, HaltRange, PreStore, Births,
         Registers, Prints, Printed, Exclusion, CountSection
  <2> QED
    BY <2>1, <2>2, <2>3
<1>9. ASSUME NEW t \in Threads, UnlockCondition(t) PROVE IInv'
  <2>1. TypeOK' /\ Births' /\ Exclusion' /\ Registers' /\ Waiters'
    BY <1>9 DEF UnlockCondition, MutexUnlock, Births, Exclusion, ConditionSection,
         CountSection, Registers, Waiters
  <2>2. Posts' /\ Wakes'
    BY <1>9 DEF UnlockCondition, MutexUnlock, Posts, Post, Registers, Births, Exclusion,
         CountSection, Wakes, Waiters, ConditionSection, PreStore
  <2>3. Halts' /\ Prints'
    BY <1>9 DEF UnlockCondition, MutexUnlock, Halts, InRange, HaltRange, PreStore,
         Births, Registers, Prints, Printed, Exclusion, CountSection
  <2> QED
    BY <2>1, <2>2, <2>3
<1>10. ASSUME NEW t \in Threads, LockCount(t) PROVE IInv'
  <2>1. TypeOK' /\ Births' /\ Exclusion' /\ Registers' /\ Waiters'
    BY <1>10 DEF LockCount, MutexLock, Births, Exclusion, ConditionSection,
         CountSection, Registers, Waiters
  <2>2. Posts' /\ Wakes'
    BY <1>10 DEF LockCount, MutexLock, Posts, Post, Registers, Births, Exclusion,
         CountSection, Wakes, Waiters, ConditionSection, PreStore
  <2>3. Halts' /\ Prints'
    BY <1>10 DEF LockCount, MutexLock, Halts, InRange, HaltRange, PreStore, Births,
         Registers, Prints, Printed, Exclusion, CountSection
  <2> QED
    BY <2>1, <2>2, <2>3
<1>11. ASSUME NEW t \in Threads, LoadCount(t) PROVE IInv'
  <2>1. TypeOK' /\ Births' /\ Exclusion' /\ Registers' /\ Waiters'
    BY <1>11 DEF LoadCount, Births, Exclusion, ConditionSection, CountSection,
         Registers, Waiters
  <2>2. Posts' /\ Wakes'
    BY <1>11 DEF LoadCount, Posts, Post, Registers, Births, Exclusion, CountSection,
         Wakes, Waiters, ConditionSection, PreStore
  <2>3. Halts' /\ Prints'
    BY <1>11 DEF LoadCount, Halts, InRange, HaltRange, PreStore, Births, Registers,
         Prints, Printed, Exclusion, CountSection
  <2> QED
    BY <2>1, <2>2, <2>3
<1>12. ASSUME NEW t \in Threads, StoreCount(t) PROVE IInv'
  <2>1. TypeOK' /\ Births' /\ Exclusion' /\ Registers' /\ Waiters'
    BY <1>12 DEF StoreCount, Births, Exclusion, ConditionSection, CountSection,
         Registers, Waiters
  <2>2. Posts' /\ Wakes'
    BY <1>12 DEF StoreCount, Posts, Post, Registers, Births, Exclusion, CountSection,
         Wakes, Waiters, ConditionSection, PreStore
  <2>3. Halts' /\ Prints'
    BY <1>12 DEF StoreCount, Halts, InRange, HaltRange, PreStore, Births, Registers,
         Prints, Printed, Exclusion, CountSection
  <2> QED
    BY <2>1, <2>2, <2>3
<1>13. ASSUME NEW t \in Threads, PrintCount(t) PROVE IInv'
  <2>1. TypeOK' /\ Births' /\ Exclusion' /\ Registers' /\ Waiters'
    BY <1>13 DEF PrintCount, Births, Exclusion, ConditionSection, CountSection,
         Registers, Waiters
  <2>2. Posts' /\ Wakes'
    BY <1>13 DEF PrintCount, Posts, Post, Registers, Births, Exclusion, CountSection,
         Wakes, Waiters, ConditionSection, PreStore
  <2>3. Halts'
    BY <1>13 DEF PrintCount, Halts, InRange, HaltRange, PreStore, Births, Registers
  <2>4. Prints'
    <3>1. /\ pc[t] = "print" /\ pc' = [pc EXCEPT ![t] = "unlock_count"]
          /\ printed' = [printed EXCEPT ![t] = @ \union {count}] /\ count' = count
      BY <1>13 DEF PrintCount
    <3>2. \A u \in Threads : u # t => pc[u] # "print"
      BY <3>1 DEF Exclusion, CountSection
    <3>3. Printed = count - 1 /\ Printed' = count /\ count \in Nat /\ count > 0
      BY <3>1, <3>2 DEF Printed, Registers
    <3>4. printed'[T1] \union printed'[T2] = printed[T1] \union printed[T2] \union {count}
      BY <3>1
    <3>5. 1 .. count = (1 .. count - 1) \union {count}
      BY <3>3
    <3>6. count \notin printed[T1] \union printed[T2]
      BY <3>3 DEF Prints
    <3>7. printed'[T1] \intersect printed'[T2] = {}
      BY <3>1, <3>6 DEF Prints
    <3> QED
      BY <3>3, <3>4, <3>5, <3>7 DEF Prints
  <2> QED
    BY <2>1, <2>2, <2>3, <2>4
<1>14. ASSUME NEW t \in Threads, UnlockCount(t) PROVE IInv'
  <2>1. TypeOK' /\ Births' /\ Exclusion' /\ Registers' /\ Waiters'
    BY <1>14 DEF UnlockCount, MutexUnlock, Births, Exclusion, ConditionSection,
         CountSection, Registers, Waiters
  <2>2. Posts' /\ Wakes'
    BY <1>14 DEF UnlockCount, MutexUnlock, Posts, Post, Registers, Births, Exclusion,
         CountSection, Wakes, Waiters, ConditionSection, PreStore
  <2>3. Halts' /\ Prints'
    BY <1>14 DEF UnlockCount, MutexUnlock, Halts, InRange, HaltRange, PreStore, Births,
         Registers, Prints, Printed, Exclusion, CountSection
  <2> QED
    BY <2>1, <2>2, <2>3
<1>15. ASSUME NEW t \in Threads, TestDone(t) PROVE IInv'
  <2>1. TypeOK' /\ Births' /\ Exclusion' /\ Registers' /\ Waiters'
    BY <1>15 DEF TestDone, Births, Exclusion, ConditionSection, CountSection, Registers,
         Waiters
  <2>2. Posts' /\ Wakes'
    BY <1>15 DEF TestDone, Posts, Post, Registers, Births, Exclusion, CountSection,
         Wakes, Waiters, ConditionSection, PreStore
  <2>3. Halts' /\ Prints'
    BY <1>15 DEF TestDone, Halts, InRange, HaltRange, PreStore, Births, Registers,
         Prints, Printed, Exclusion, CountSection
  <2> QED
    BY <2>1, <2>2, <2>3
<1>16. CASE UNCHANGED vars
  BY <1>16 DEF vars, Births, Exclusion, Registers, Posts, Waiters, Wakes, Halts,
       InRange, Prints, Printed
<1> QED
  BY <1>1, <1>2, <1>3, <1>4, <1>5, <1>6, <1>7, <1>8, <1>9, <1>10, <1>11, <1>12, <1>13,
       <1>14, <1>15, <1>16 DEF Next, functionCount1, functionCount2, Section

LEMMA Invariant == Spec => []IInv
  BY InitInv, NextInv, PTL DEF Spec

(* Type correctness of condition_variable.c.                               *)
THEOREM TypeCorrect == Spec => []TypeOK
<1>1. IInv => TypeOK
  BY DEF IInv
<1> QED
  BY <1>1, Invariant, PTL

(* The tests of count outside its mutex let it overshoot by one at most.   *)
THEOREM Overshoot == Spec => []OvershootByOne
<1>1. IInv => OvershootByOne
  BY DEF IInv, Posts, OvershootByOne
<1> QED
  BY <1>1, Invariant, PTL

(* functionCount2 never ends while functionCount1 waits for its signal,    *)
(* although the signaller tests count under another mutex than it changes  *)
(* it.                                                                     *)
THEOREM WakeupsArrive == Spec => []NoLostWakeup
<1>1. IInv => NoLostWakeup
  <2> SUFFICES ASSUME IInv, pc[T2] = "done"
               PROVE  waiting["condition_cond"] = {} /\ pc[T1] # "wait"
    BY DEF NoLostWakeup
  <2>1. waiting["condition_cond"] \subseteq {T1, T2}
    BY DEF IInv, TypeOK, CondTypeOK, Conds, Threads
  <2> QED
    BY <2>1 DEF IInv, Wakes, Waiters
<1> QED
  BY <1>1, Invariant, PTL

(* functionCount1 counts inside its halting range at most once.            *)
THEOREM OnceInRange == Spec => []HaltsButOnce
<1>1. IInv => HaltsButOnce
  <2> SUFFICES ASSUME IInv PROVE Cardinality(InRange) <= 1
    BY DEF HaltsButOnce, InRange
  <2>1. PICK v \in Nat : InRange \subseteq {v}
    BY DEF IInv, Halts
  <2>2. IsFiniteSet({v}) /\ Cardinality({v}) = 1
    BY FS_Singleton
  <2> QED
    BY <2>1, <2>2, FS_Subset
<1> QED
  BY <1>1, Invariant, PTL

(* When both threads are done they have printed 1 to count, each value     *)
(* once.                                                                   *)
THEOREM EachValueOnce == Spec => []AllPrintedOnce
<1>1. IInv => AllPrintedOnce
  BY DEF IInv, Prints, Printed, Posts, Threads, AllPrintedOnce
<1> QED
  BY <1>1, Invariant, PTL

(* Every step that changes count adds one to it.                           *)
THEOREM IncrementsCount == Spec => NoLostIncrement
<1>1. IInv /\ [Next]_vars => [count' = count + 1]_count
  <2> SUFFICES ASSUME IInv, [Next]_vars, count' # count PROVE count' = count + 1
    OBVIOUS
  <2>1. PICK t \in Threads : StoreCount(t)
    BY DEF Next, main, Create, Join, functionCount1, functionCount2, Section, Wait,
       WakeUp, SpuriousReturn, Signal, LockCondition, TestLow, TestHigh,
       UnlockCondition, LockCount, LoadCount, PrintCount, UnlockCount, TestDone,
       vars, Threads
  <2> QED
    BY <2>1 DEF StoreCount, Goto, IInv, Registers
<1> QED
  BY <1>1, Invariant, PTL DEF Spec, NoLostIncrement
=============================================================================

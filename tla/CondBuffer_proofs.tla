-------------------------- MODULE CondBuffer_proofs --------------------------
(***************************************************************************)
(* What holds of condition_variable_mutex_lock_unlock.c for every size of  *)
(* the buffer, any number of iterations and any spurious return.  The      *)
(* argument is in IInv.  Count is touched under the mutex only, so what a  *)
(* thread has tested stays true until it stores; and a thread in a wait    *)
(* set has its condition true, or the other thread, still in the section,  *)
(* is about to signal it.                                                  *)
(***************************************************************************)
EXTENDS CondBuffer, SequenceTheorems, TLAPS

Section == {"test", "access", "load", "store", "signal", "unlock"}
Checked == {"access", "load", "store"}
Running == Section \union {"lock", "wait"}

Other(t) == IF t = "producer" THEN "consumer" ELSE "producer"

(* The increments or decrements thread t has stored. *)
Stored(t) == i[t] + (IF pc[t] \in {"signal", "unlock"} THEN 1 ELSE 0)

(* The slots that hold an item, from the bottom. *)
Filled == IF InFlight("producer") THEN count + 1 ELSE count

Exclusion == \A t \in Threads : pc[t] \in Section => owner["lock"] = t

Checks ==
  /\ pc["producer"] \in Checked => count < MaxSize
  /\ pc["consumer"] \in Checked => count > 0

Registers == \A t \in Threads : pc[t] = "store" => reg[t] = count

Loops ==
  \A t \in Threads :
    /\ pc[t] \in Running => i[t] < Items
    /\ pc[t] = "exited" => i[t] = Items
    /\ pc[t] \in {"create", "unborn"} => i[t] = 0

Balance == count = Stored("producer") - Stored("consumer")

Written == \A s \in Slots : s < Filled => buf[s] \in Tags

Births ==
  /\ pc["consumer"] = "create" => pc["producer"] = "unborn"
  /\ pc["consumer"] # "unborn" /\ pc["producer"] # "create"

(* A wait set holds the one thread that waits on its condition variable,   *)
(* and no waiter is forgotten.                                             *)
Waiters ==
  \A t \in Threads :
    /\ waiting[WaitsOn(t)] \subseteq {t}
    /\ t \in waiting[WaitsOn(t)] =>
         pc[t] = "wait" /\ (Blocked(t) \/ pc[Other(t)] = "signal")

IInv ==
  /\ TypeOK
  /\ Births
  /\ Exclusion
  /\ Checks
  /\ Registers
  /\ Loops
  /\ Balance
  /\ Written
  /\ Waiters

LEMMA InitInv == Init => IInv
  BY SectionAssumption DEF Init, SectionInit, MutexInit, PC!CondInit, IInv,
     TypeOK, Births, Exclusion, Checks, Registers, Loops, Balance, Written,
     Waiters, Stored, Filled, InFlight, Threads, Mutexes, Conds, Slots, Tags,
     Places, MutexTypeOK, PC!CondTypeOK, NoThread, Section, Checked, Running,
     Unwritten, WaitsOn

LEMMA NextInv == IInv /\ [Next]_vars => IInv'
<1> SUFFICES ASSUME IInv, [Next]_vars PROVE IInv'
  OBVIOUS
<1> USE SectionAssumption DEF IInv, TypeOK, Threads, Mutexes, MutexTypeOK,
   NoThread, Goto, Slots, Tags, Conds, PC!CondTypeOK, WaitsOn
<1>1. CASE Create
  <2>1. TypeOK'
    BY <1>1 DEF Create, CreateProducer, Places
  <2>2. Births' /\ Exclusion' /\ Registers'
    BY <1>1 DEF Create, CreateProducer, Births, Exclusion, Section, Registers
  <2>3. Checks' /\ Loops'
    BY <1>1 DEF Create, CreateProducer, Checks, Checked, Exclusion, Section,
       Loops, Running, Places, Births
  <2>4. Balance' /\ Written'
    BY <1>1 DEF Create, CreateProducer, Balance, Stored, Written, Filled,
       InFlight, Births, Places
  <2>5. Waiters'
    BY <1>1 DEF Create, CreateProducer, Waiters, Other, Blocked, Exclusion,
       Section, Births
  <2> QED
    BY <2>1, <2>2, <2>3, <2>4, <2>5
<1>2. CASE WriteSlot /\ UNCHANGED waiting
  <2>1. TypeOK'
    <3>1. i["producer"] \in Tags
      BY <1>2 DEF WriteSlot, Loops, Running, Section
    <3> QED
      BY <1>2, <3>1 DEF WriteSlot, Places
  <2>2. Births' /\ Exclusion' /\ Registers'
    BY <1>2 DEF WriteSlot, Births, Exclusion, Section, Registers
  <2>3. Checks' /\ Loops'
    BY <1>2 DEF WriteSlot, Checks, Checked, Exclusion, Section, Loops, Running,
       Places
  <2>4. Balance' /\ Written'
    BY <1>2 DEF WriteSlot, Balance, Stored, Written, Filled, InFlight,
       Exclusion, Section, Loops, Running
  <2>5. Waiters'
    BY <1>2 DEF WriteSlot, Waiters, Other, Blocked, Exclusion, Section, Births
  <2> QED
    BY <2>1, <2>2, <2>3, <2>4, <2>5
<1>3. CASE ReadSlot /\ UNCHANGED waiting
  <2>1. TypeOK'
    <3>1. count - 1 \in Slots /\ count - 1 < Filled
      BY <1>3 DEF ReadSlot, Checks, Checked, Filled
    <3>2. buf[count - 1] \in Tags
      BY <3>1 DEF Written
    <3> QED
      BY <1>3, <3>2 DEF ReadSlot, Places
  <2>2. Births' /\ Exclusion' /\ Registers'
    BY <1>3 DEF ReadSlot, Births, Exclusion, Section, Registers
  <2>3. Checks' /\ Loops'
    BY <1>3 DEF ReadSlot, Checks, Checked, Exclusion, Section, Loops, Running,
       Places
  <2>4. Balance' /\ Written'
    BY <1>3 DEF ReadSlot, Balance, Stored, Written, Filled, InFlight
  <2>5. Waiters'
    BY <1>3 DEF ReadSlot, Waiters, Other, Blocked, Exclusion, Section, Births
  <2> QED
    BY <2>1, <2>2, <2>3, <2>4, <2>5
<1>4. ASSUME NEW t \in Threads, Lock(t) PROVE IInv'
  <2>1. TypeOK'
    BY <1>4 DEF Lock, MutexLock, Places
  <2>2. Births' /\ Exclusion' /\ Registers'
    BY <1>4 DEF Lock, MutexLock, Births, Exclusion, Section, Registers
  <2>3. Checks' /\ Loops'
    BY <1>4 DEF Lock, MutexLock, Checks, Checked, Exclusion, Section, Loops,
       Running, Places
  <2>4. Balance' /\ Written'
    BY <1>4 DEF Lock, MutexLock, Balance, Stored, Written, Filled, InFlight
  <2>5. Waiters'
    BY <1>4 DEF Lock, MutexLock, Waiters, Other, Blocked, Exclusion, Section,
       Births
  <2> QED
    BY <2>1, <2>2, <2>3, <2>4, <2>5
<1>5. ASSUME NEW t \in Threads, TestPasses(t) PROVE IInv'
  <2>1. TypeOK'
    BY <1>5 DEF TestPasses, Blocked, Places
  <2>2. Births' /\ Exclusion' /\ Registers'
    BY <1>5 DEF TestPasses, Blocked, Births, Exclusion, Section, Registers
  <2>3. Checks' /\ Loops'
    BY <1>5 DEF TestPasses, Blocked, Checks, Checked, Exclusion, Section, Loops,
       Running, Places
  <2>4. Balance' /\ Written'
    BY <1>5 DEF TestPasses, Blocked, Balance, Stored, Written, Filled, InFlight
  <2>5. Waiters'
    BY <1>5 DEF TestPasses, Blocked, Waiters, Other, Blocked, Exclusion,
       Section, Births
  <2> QED
    BY <2>1, <2>2, <2>3, <2>4, <2>5
<1>6. ASSUME NEW t \in Threads, Wait(t) PROVE IInv'
  <2>1. TypeOK'
    BY <1>6 DEF Wait, PC!CondWait, PC!MutexUnlock, PC!NoThread, Places
  <2>2. Births' /\ Exclusion' /\ Registers'
    BY <1>6 DEF Wait, PC!CondWait, PC!MutexUnlock, PC!NoThread, Births,
       Exclusion, Section, Registers
  <2>3. Checks' /\ Loops'
    BY <1>6 DEF Wait, PC!CondWait, PC!MutexUnlock, PC!NoThread, Checks, Checked,
       Exclusion, Section, Loops, Running, Places
  <2>4. Balance' /\ Written'
    BY <1>6 DEF Wait, PC!CondWait, PC!MutexUnlock, PC!NoThread, Balance, Stored,
       Written, Filled, InFlight
  <2>5. Waiters'
    BY <1>6 DEF Wait, PC!CondWait, PC!MutexUnlock, PC!NoThread, Waiters, Other,
       Blocked, Exclusion, Section, Births
  <2> QED
    BY <2>1, <2>2, <2>3, <2>4, <2>5
<1>7. ASSUME NEW t \in Threads, WakeUp(t) PROVE IInv'
  <2>1. TypeOK'
    BY <1>7 DEF WakeUp, PC!CondReturn, PC!MutexLock, PC!NoThread, Places
  <2>2. Births' /\ Exclusion' /\ Registers'
    BY <1>7 DEF WakeUp, PC!CondReturn, PC!MutexLock, PC!NoThread, Births,
       Exclusion, Section, Registers
  <2>3. Checks' /\ Loops'
    BY <1>7 DEF WakeUp, PC!CondReturn, PC!MutexLock, PC!NoThread, Checks,
       Checked, Exclusion, Section, Loops, Running, Places
  <2>4. Balance' /\ Written'
    BY <1>7 DEF WakeUp, PC!CondReturn, PC!MutexLock, PC!NoThread, Balance,
       Stored, Written, Filled, InFlight
  <2>5. Waiters'
    BY <1>7 DEF WakeUp, PC!CondReturn, PC!MutexLock, PC!NoThread, Waiters,
       Other, Blocked, Exclusion, Section, Births
  <2> QED
    BY <2>1, <2>2, <2>3, <2>4, <2>5
<1>8. ASSUME NEW t \in Threads, LoadCount(t), UNCHANGED waiting PROVE IInv'
  <2>1. TypeOK'
    BY <1>8 DEF LoadCount, Places
  <2>2. Births' /\ Exclusion' /\ Registers'
    BY <1>8 DEF LoadCount, Births, Exclusion, Section, Registers
  <2>3. Checks' /\ Loops'
    BY <1>8 DEF LoadCount, Checks, Checked, Exclusion, Section, Loops, Running,
       Places
  <2>4. Balance' /\ Written'
    BY <1>8 DEF LoadCount, Balance, Stored, Written, Filled, InFlight
  <2>5. Waiters'
    BY <1>8 DEF LoadCount, Waiters, Other, Blocked, Exclusion, Section, Births
  <2> QED
    BY <2>1, <2>2, <2>3, <2>4, <2>5
<1>9. ASSUME NEW t \in Threads, StoreCount(t, "signal"), UNCHANGED waiting
      PROVE IInv'
  <2>1. TypeOK'
    BY <1>9 DEF StoreCount, Places, Registers, Checks, Checked
  <2>2. Births' /\ Exclusion' /\ Registers'
    BY <1>9 DEF StoreCount, Births, Exclusion, Section, Registers
  <2>3. Checks' /\ Loops'
    BY <1>9 DEF StoreCount, Checks, Checked, Exclusion, Section, Loops, Running,
       Places
  <2>4. Balance' /\ Written'
    BY <1>9 DEF StoreCount, Balance, Stored, Written, Filled, InFlight,
       Registers, Exclusion, Section
  <2>5. Waiters'
    BY <1>9 DEF StoreCount, Waiters, Other, Blocked, Exclusion, Section, Births
  <2> QED
    BY <2>1, <2>2, <2>3, <2>4, <2>5
<1>10. ASSUME NEW t \in Threads, Signal(t) PROVE IInv'
  <2>1. TypeOK'
    BY <1>10 DEF Signal, Signals, PC!CondSignal, Places
  <2>2. Births' /\ Exclusion' /\ Registers'
    BY <1>10 DEF Signal, Signals, PC!CondSignal, Births, Exclusion, Section,
       Registers
  <2>3. Checks' /\ Loops'
    BY <1>10 DEF Signal, Signals, PC!CondSignal, Checks, Checked, Exclusion,
       Section, Loops, Running, Places
  <2>4. Balance' /\ Written'
    BY <1>10 DEF Signal, Signals, PC!CondSignal, Balance, Stored, Written,
       Filled, InFlight
  <2>5. Waiters'
    BY <1>10 DEF Signal, Signals, PC!CondSignal, Waiters, Other, Blocked,
       Exclusion, Section, Births
  <2> QED
    BY <2>1, <2>2, <2>3, <2>4, <2>5
<1>11. ASSUME NEW t \in Threads, EndIteration(t, "lock"), UNCHANGED waiting
      PROVE IInv'
  <2>1. TypeOK'
    BY <1>11 DEF EndIteration, MutexUnlock, Places, Loops, Running, Section
  <2>2. Births' /\ Exclusion' /\ Registers'
    BY <1>11 DEF EndIteration, MutexUnlock, Births, Exclusion, Section,
       Registers
  <2>3. Checks' /\ Loops'
    <3>1. Checks'
      BY <1>11 DEF EndIteration, Checks, Checked
    <3>2. i[t] < Items /\ i'[t] = i[t] + 1
      BY <1>11 DEF EndIteration, Loops, Running, Section
    <3>3. pc'[t] = IF i[t] + 1 < Items THEN "lock" ELSE "exited"
      BY <1>11 DEF EndIteration
    <3>4. \A u \in Threads \ {t} : pc'[u] = pc[u] /\ i'[u] = i[u]
      BY <1>11 DEF EndIteration
    <3>5. Loops'
      BY <3>2, <3>3, <3>4 DEF Loops, Running, Section
    <3> QED
      BY <3>1, <3>5
  <2>4. Balance' /\ Written'
    BY <1>11 DEF EndIteration, Balance, Stored, Written, Filled, InFlight
  <2>5. Waiters'
    BY <1>11 DEF EndIteration, MutexUnlock, Waiters, Other, Blocked, Exclusion,
       Section, Births
  <2> QED
    BY <2>1, <2>2, <2>3, <2>4, <2>5
<1>12. ASSUME NEW t \in Threads, SpuriousReturn(t) PROVE IInv'
  <2>1. TypeOK'
    BY <1>12 DEF SpuriousReturn, PC!SpuriousWakeup, Places
  <2>2. Births' /\ Exclusion' /\ Registers'
    BY <1>12 DEF SpuriousReturn, PC!SpuriousWakeup, Births, Exclusion, Section,
       Registers
  <2>3. Checks' /\ Loops'
    BY <1>12 DEF SpuriousReturn, PC!SpuriousWakeup, Checks, Checked, Exclusion,
       Section, Loops, Running, Places
  <2>4. Balance' /\ Written'
    BY <1>12 DEF SpuriousReturn, PC!SpuriousWakeup, Balance, Stored, Written,
       Filled, InFlight
  <2>5. Waiters'
    BY <1>12 DEF SpuriousReturn, PC!SpuriousWakeup, Waiters, Other, Blocked,
       Exclusion, Section, Births
  <2> QED
    BY <2>1, <2>2, <2>3, <2>4, <2>5
<1>13. CASE UNCHANGED vars
  BY <1>13 DEF vars, Births, Exclusion, Checks, Registers, Loops, Balance,
     Stored, Written, Filled, InFlight, Waiters, Blocked
<1> QED
  BY <1>1, <1>2, <1>3, <1>4, <1>5, <1>6, <1>7, <1>8, <1>9, <1>10, <1>11, <1>12,
     <1>13
     DEF Next, Thread, producer, consumer, Finished

(* Type correctness of condition_variable_mutex_lock_unlock.c.             *)
THEOREM TypeCorrect == Spec => []TypeOK
<1>1. IInv => TypeOK
  BY DEF IInv
<1> QED
  BY <1>1, InitInv, NextInv, PTL DEF Spec

(* buf[count] and buf[count - 1] are inside the buffer, whatever ended the *)
(* wait, and when main leaves by pthread_exit the producer has used the    *)
(* buffer in main's frame for the last time.                               *)
THEOREM SafeAccesses == Spec => []AccessesAreSafe
<1>1. IInv => SlotsInBounds
  BY SectionAssumption DEF IInv, TypeOK, Checks, Checked, SlotsInBounds, Slots
<1>2. IInv => NoUseAfterMainExits
  BY SectionAssumption DEF IInv, TypeOK, Loops, Running, Section, Balance,
     Stored, Threads, Places, NoUseAfterMainExits
<1>3. IInv => AccessesAreSafe
  BY <1>1, <1>2 DEF AccessesAreSafe
<1> QED
  BY <1>3, InitInv, NextInv, PTL DEF Spec

(* No wakeup is lost: a thread is in a wait set, with the mutex free, only *)
(* while its condition holds, so the signal it waits for is still to come. *)
THEOREM NoLostWakeup == Spec => []WaitersAreBlocked
<1>1. IInv => WaitersAreBlocked
  BY DEF IInv, Waiters, Exclusion, Section, Other, Threads, NoThread,
     WaitersAreBlocked
<1> QED
  BY <1>1, InitInv, NextInv, PTL DEF Spec

-----------------------------------------------------------------------------
(* The refinement.  BBP is the bounded stack with its theorems.            *)
BBP == INSTANCE BoundedBuffer_proofs
         WITH stack <- [k \in 1 .. Depth |-> buf[k - 1]],
              next <- Produced

LEMMA BBAssumption == BBP!BufferAssumption
  BY SectionAssumption DEF BBP!BufferAssumption

LEMMA StackOfDepth ==
  ASSUME IInv
  PROVE  /\ Depth \in Nat
         /\ \A k \in 1 .. Depth : k - 1 \in Slots /\ buf[k - 1] \in Tags
<1>1. Depth \in Nat /\ Depth <= Filled /\ Depth <= MaxSize
  <2>1. count \in 0 .. MaxSize
    BY DEF IInv, TypeOK
  <2>2. CASE InFlight("producer")
    <3>1. count < MaxSize
      BY <2>2 DEF InFlight, IInv, Checks, Checked
    <3> QED
      BY <2>1, <2>2, <3>1, SectionAssumption DEF Depth, Filled
  <2>3. CASE ~InFlight("producer") /\ InFlight("consumer")
    <3>1. count > 0
      BY <2>3 DEF InFlight, IInv, Checks, Checked
    <3> QED
      BY <2>1, <2>3, <3>1, SectionAssumption DEF Depth, Filled
  <2>4. CASE ~InFlight("producer") /\ ~InFlight("consumer")
    BY <2>1, <2>4, SectionAssumption DEF Depth, Filled
  <2> QED
    BY <2>2, <2>3, <2>4
<1>2. \A k \in 1 .. Depth : k - 1 \in Slots /\ k - 1 < Filled
  BY <1>1, SectionAssumption DEF IInv, TypeOK, Slots, Filled
<1> QED
  BY <1>1, <1>2 DEF IInv, Written

(* Writing the slot puts an item on the stack. *)
LEMMA WriteIsPut ==
  ASSUME IInv, WriteSlot
  PROVE  BBP!Put
<1>1. /\ pc["producer"] = "access" /\ pc' = [pc EXCEPT !["producer"] = "load"]
      /\ buf' = [buf EXCEPT ![count] = i["producer"]]
      /\ UNCHANGED <<i, reg, count, taken, owner>>
  BY DEF WriteSlot, Goto
<1>2. count \in Slots /\ i["producer"] \in Tags /\ pc["consumer"] \notin Section
  BY <1>1, SectionAssumption DEF IInv, TypeOK, Checks, Checked, Exclusion,
     Section, Loops, Running, Slots, Tags, Threads
<1>3. Depth = count /\ Depth' = count + 1
  BY <1>1, <1>2 DEF Depth, InFlight, IInv, TypeOK, Threads, Section
<1>4. Produced = i["producer"] /\ Produced' = Produced + 1
  BY <1>1, <1>2 DEF Produced, IInv, TypeOK, Threads, Tags
<1>5. \A k \in 1 .. count : buf[k - 1] \in Tags /\ k - 1 \in Slots
  BY <1>3, StackOfDepth
<1>6. buf'[count] = Produced /\ \A k \in 1 .. count : buf'[k - 1] = buf[k - 1]
  BY <1>1, <1>2, <1>4, <1>5 DEF IInv, TypeOK, Slots
<1>7. count \in Nat /\ count < MaxSize /\ Produced \in 0 .. Items - 1
  BY <1>2, <1>4, SectionAssumption DEF Slots, Tags
<1>8. /\ \A k \in 1 .. count : buf[k - 1] \in 0 .. Items - 1 /\ buf'[k - 1] = buf[k - 1]
      /\ buf'[count] = Produced /\ Produced' = Produced + 1 /\ taken' = taken
  BY <1>1, <1>4, <1>5, <1>6 DEF Tags
<1>9. /\ [k \in 1 .. Depth |-> buf[k - 1]] = BBP!Stack(count, buf)
      /\ [k \in 1 .. Depth |-> buf[k - 1]]' = BBP!Stack(count + 1, buf')
  BY <1>3 DEF BBP!Stack
<1> QED
  BY <1>7, <1>8, <1>9, BBAssumption, BBP!ArrayPut

(* Printing the slot takes the item on top of it. *)
LEMMA ReadIsGet ==
  ASSUME IInv, ReadSlot
  PROVE  BBP!Get
<1>1. /\ pc["consumer"] = "access" /\ pc' = [pc EXCEPT !["consumer"] = "load"]
      /\ taken' = taken \union {buf[count - 1]}
      /\ UNCHANGED <<i, reg, count, buf, owner>>
  BY DEF ReadSlot, Goto
<1>2. count \in Nat \ {0} /\ pc["producer"] \notin Section
  BY <1>1, SectionAssumption DEF IInv, TypeOK, Checks, Checked, Exclusion,
     Section, Threads
<1>3. Depth = count /\ Depth' = count - 1
  BY <1>1, <1>2 DEF Depth, InFlight, IInv, TypeOK, Threads, Section
<1>4. Produced' = Produced
  BY <1>1 DEF Produced, IInv, TypeOK, Threads
<1>5. \A k \in 1 .. count : buf[k - 1] \in Tags
  BY <1>3, StackOfDepth
<1> QED
  BY <1>1, <1>2, <1>3, <1>4, <1>5, BBAssumption, BBP!ArrayGet DEF BBP!Stack,
     Tags

(* Every other step leaves the stack alone. *)
LEMMA OthersStutter ==
  ASSUME IInv, buf' = buf, taken' = taken, Depth' = Depth, Produced' = Produced
  PROVE  UNCHANGED BBP!bbVars
  BY DEF BBP!bbVars

LEMMA StepRefines == IInv /\ [Next]_vars => [BBP!BBNext]_(BBP!bbVars)
<1> SUFFICES ASSUME IInv, [Next]_vars PROVE [BBP!BBNext]_(BBP!bbVars)
  OBVIOUS
<1> USE DEF Goto, Depth, Produced, InFlight, Threads
<1>1. CASE Create
  BY <1>1, OthersStutter DEF Create, CreateProducer, IInv, TypeOK, Births
<1>2. CASE WriteSlot
  BY <1>2, WriteIsPut DEF BBP!BBNext
<1>3. CASE ReadSlot
  BY <1>3, ReadIsGet DEF BBP!BBNext
<1>4. ASSUME NEW t \in Threads, Lock(t) \/ TestPasses(t) PROVE UNCHANGED BBP!bbVars
  BY <1>4, OthersStutter DEF Lock, TestPasses, IInv, TypeOK
<1>5. ASSUME NEW t \in Threads, Wait(t) \/ WakeUp(t) PROVE UNCHANGED BBP!bbVars
  BY <1>5, OthersStutter DEF Wait, WakeUp, IInv, TypeOK
<1>6. ASSUME NEW t \in Threads, Signal(t) \/ SpuriousReturn(t) PROVE UNCHANGED BBP!bbVars
  BY <1>6, OthersStutter DEF Signal, SpuriousReturn, IInv, TypeOK
<1>7. ASSUME NEW t \in Threads, LoadCount(t) PROVE UNCHANGED BBP!bbVars
  BY <1>7, OthersStutter DEF LoadCount, IInv, TypeOK
<1>8. ASSUME NEW t \in Threads, StoreCount(t, "signal") PROVE UNCHANGED BBP!bbVars
  BY <1>8, OthersStutter DEF StoreCount, IInv, TypeOK, Registers, Exclusion,
     Section
<1>9. ASSUME NEW t \in Threads, EndIteration(t, "lock") PROVE UNCHANGED BBP!bbVars
  BY <1>9, OthersStutter DEF EndIteration, IInv, TypeOK
<1>10. CASE UNCHANGED vars
  BY <1>10, OthersStutter DEF vars
<1> QED
  BY <1>1, <1>2, <1>3, <1>4, <1>5, <1>6, <1>7, <1>8, <1>9, <1>10
     DEF Next, Thread, producer, consumer, Finished

LEMMA InitRefines == Init => BBP!BBInit
<1> SUFFICES ASSUME Init PROVE BBP!BBInit
  OBVIOUS
<1>1. Depth = 0 /\ Produced = 0 /\ taken = {}
  BY DEF Init, SectionInit, Depth, Produced, InFlight, Threads
<1>2. BBP!Stack(0, buf) = << >>
  BY BBAssumption, BBP!EmptyStack
<1> QED
  BY <1>1, <1>2 DEF BBP!BBInit, BBP!Stack

(* BB of BufferSection is the same specification. *)
LEMMA SameBuffer ==
  /\ BB!BBInit <=> BBP!BBInit
  /\ [BB!BBNext]_(BB!bbVars) <=> [BBP!BBNext]_(BBP!bbVars)
  /\ BB!ExactlyOnce <=> BBP!ExactlyOnce
<1>1. BB!BBInit <=> BBP!BBInit
  BY DEF BB!BBInit, BBP!BBInit
<1>2. [BB!BBNext]_(BB!bbVars) <=> [BBP!BBNext]_(BBP!bbVars)
  BY DEF BB!BBNext, BBP!BBNext, BB!Put, BBP!Put, BB!Get, BBP!Get, BB!bbVars,
     BBP!bbVars
<1>3. BB!ExactlyOnce <=> BBP!ExactlyOnce
  BY DEF BB!ExactlyOnce, BBP!ExactlyOnce, BB!NoDuplicates, BBP!NoDuplicates,
     BB!NothingLost, BBP!NothingLost, BB!NothingInvented, BBP!NothingInvented,
     BB!InStack, BBP!InStack
<1> QED
  BY <1>1, <1>2, <1>3

(* condition_variable_mutex_lock_unlock.c is a bounded stack: nothing is   *)
(* written over, read twice or read before it was written.                 *)
THEOREM Refinement == Spec => ImplementsBoundedBuffer
  BY InitInv, NextInv, InitRefines, StepRefines, SameBuffer, PTL
     DEF Spec, ImplementsBoundedBuffer, BB!BBSafety

(* So what BoundedBuffer_proofs shows of the stack is true of the program: *)
(* every item the producer has written is in one slot of buf, or the       *)
(* consumer has printed it, once.                                          *)
THEOREM PrintedExactlyOnce == Spec => []BB!ExactlyOnce
<1>1. BBP!BBSafety => []BBP!ExactlyOnce
  BY BBAssumption, BBP!ItemsExactlyOnce, PTL
<1> QED
  BY <1>1, Refinement, SameBuffer, PTL
     DEF ImplementsBoundedBuffer, BB!BBSafety, BBP!BBSafety
=============================================================================

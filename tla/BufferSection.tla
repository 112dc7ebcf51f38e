---------------------------- MODULE BufferSection ---------------------------
(***************************************************************************)
(* The part mutex_lock_unlock.c and condition_variable_mutex_lock_unlock.c *)
(* share: two threads, the main one running consumer(), a buffer in main's *)
(* frame, and the section each thread runs inside the mutex.  The programs *)
(* differ in how a thread gets to that section (SpinBuffer, CondBuffer).   *)
(*                                                                         *)
(* Every item is the character 'p'.  The model stores the number of the    *)
(* producer's iteration instead, so that properties can tell one write     *)
(* from another; no guard reads it.  count++ and count-- are a load and a  *)
(* store, as they compile to.                                              *)
(***************************************************************************)
EXTENDS Integers

CONSTANTS MaxSize,        \* MAX_SIZE, 5 in the code
          Items,          \* the bound of both for loops, 9 in the code
          CreateMayFail   \* whether pthread_create may fail

ASSUME SectionAssumption ==
  /\ MaxSize \in Nat \ {0}
  /\ Items \in Nat \ {0}
  /\ CreateMayFail \in BOOLEAN

VARIABLES pc, i, reg,     \* per thread: place, loop variable, register
          count, buf,     \* the shared counter and the buffer
          taken,          \* the items printed by the consumer
          owner           \* the mutex (bufLock, lock)

Threads == {"producer", "consumer"}
Mutexes == {"lock"}

INSTANCE PthreadMutex

Unwritten == -1           \* what a slot nobody wrote holds
Tags == 0 .. Items - 1
Slots == 0 .. MaxSize - 1

SectionInit ==
  /\ pc = [t \in Threads |-> IF t = "consumer" THEN "create" ELSE "unborn"]
  /\ i = [t \in Threads |-> 0]
  /\ reg = [t \in Threads |-> 0]
  /\ count = 0
  /\ buf = [s \in Slots |-> Unwritten]
  /\ taken = {}
  /\ MutexInit

Goto(t, from, to) ==
  /\ pc[t] = from
  /\ pc' = [pc EXCEPT ![t] = to]

(* main creates the producer thread and calls consumer() itself.  It does  *)
(* not look at what pthread_create returns.                                *)
CreateProducer(entry) ==
  /\ pc["consumer"] = "create"
  /\ \/ pc' = [t \in Threads |-> entry]
     \/ /\ CreateMayFail
        /\ pc' = [pc EXCEPT !["consumer"] = entry]
  /\ UNCHANGED <<i, reg, count, buf, taken, owner>>

(* Mutant of Blocked: the test for a full buffer is off by one. *)
BlockedTooLate(t) == IF t = "producer" THEN count > MaxSize ELSE count = 0

(* The condition a thread waits out: a full or an empty buffer. *)
Blocked(t) == IF t = "producer" THEN count = MaxSize ELSE count = 0

(* buf[count] = 'p' *)
WriteSlot ==
  /\ Goto("producer", "access", "load")
  /\ buf' = [buf EXCEPT ![count] = i["producer"]]
  /\ UNCHANGED <<i, reg, count, taken, owner>>

(* printf("%c\n", buf[count - 1]) *)
ReadSlot ==
  /\ Goto("consumer", "access", "load")
  /\ taken' = taken \union {buf[count - 1]}
  /\ UNCHANGED <<i, reg, count, buf, owner>>

LoadCount(t) ==
  /\ Goto(t, "load", "store")
  /\ reg' = [reg EXCEPT ![t] = count]
  /\ UNCHANGED <<i, count, buf, taken, owner>>

(* after is the place behind count++ or count-- in the program. *)
StoreCount(t, after) ==
  /\ Goto(t, "store", after)
  /\ count' = IF t = "producer" THEN reg[t] + 1 ELSE reg[t] - 1
  /\ UNCHANGED <<i, reg, buf, taken, owner>>

(* Mutants of EndIteration: one iteration too many, one too few in the      *)
(* consumer, one too few in the producer, and no unlock.                   *)
IterateOnceMore(t, first) ==
  /\ Goto(t, "unlock", IF i[t] < Items THEN first ELSE "exited")
  /\ MutexUnlock("lock")
  /\ i' = [i EXCEPT ![t] = @ + 1]
  /\ UNCHANGED <<reg, count, buf, taken>>

LeaveEarly(t, first) ==
  /\ Goto(t, "unlock",
          IF i[t] + 1 < (IF t = "consumer" THEN Items - 1 ELSE Items)
            THEN first ELSE "exited")
  /\ MutexUnlock("lock")
  /\ i' = [i EXCEPT ![t] = @ + 1]
  /\ UNCHANGED <<reg, count, buf, taken>>

StopShort(t, first) ==
  /\ Goto(t, "unlock",
          IF i[t] + 1 < (IF t = "producer" THEN Items - 1 ELSE Items)
            THEN first ELSE "exited")
  /\ MutexUnlock("lock")
  /\ i' = [i EXCEPT ![t] = @ + 1]
  /\ UNCHANGED <<reg, count, buf, taken>>

KeepLocked(t, first) ==
  /\ Goto(t, "unlock", IF i[t] + 1 < Items THEN first ELSE "exited")
  /\ i' = [i EXCEPT ![t] = @ + 1]
  /\ UNCHANGED <<reg, count, buf, taken, owner>>

(* Unlocks, counts the iteration and enters the next one at first, or      *)
(* leaves by pthread_exit.  When main does so its frame, and the buffer in *)
(* it, are gone while the producer may still run.                          *)
EndIteration(t, first) ==
  /\ Goto(t, "unlock", IF i[t] + 1 < Items THEN first ELSE "exited")
  /\ MutexUnlock("lock")
  /\ i' = [i EXCEPT ![t] = @ + 1]
  /\ UNCHANGED <<reg, count, buf, taken>>

-----------------------------------------------------------------------------
(* The bounded stack these threads implement.  An item is put when its     *)
(* slot is written and taken when it is printed; between that step and the *)
(* store to count the depth is one off count.                              *)
InFlight(t) == pc[t] \in {"load", "store"}

Depth ==
  IF InFlight("producer") THEN count + 1
  ELSE IF InFlight("consumer") THEN count - 1
  ELSE count

Produced ==
  i["producer"]
    + (IF pc["producer"] \in {"load", "store", "signal", "unlock"} THEN 1 ELSE 0)

BB == INSTANCE BoundedBuffer
        WITH stack <- [k \in 1 .. Depth |-> buf[k - 1]],
             next <- Produced

(* Every put and get of either program is a put or a get of a bounded      *)
(* stack: no item is written over, read twice or read before it is there.  *)
ImplementsBoundedBuffer == BB!BBSafety

(* Every access is to a slot of a buffer that still exists.                *)
(*                                                                         *)
(* The spinning program tests count before it takes the mutex (lines 13    *)
(* and 28), the other one under the mutex, after a wait that anything may  *)
(* have ended.  And the buffer is an array in main's frame, which main     *)
(* leaves by pthread_exit without joining the producer: once it has, the   *)
(* producer must have no use of the buffer left.                           *)
SlotsInBounds ==
  /\ pc["producer"] = "access" => count \in Slots
  /\ pc["consumer"] = "access" => count - 1 \in Slots

NoUseAfterMainExits ==
  pc["consumer"] = "exited" =>
    pc["producer"] \in {"unborn", "signal", "unlock", "exited"}

AccessesAreSafe == SlotsInBounds /\ NoUseAfterMainExits

(* Both loops run to their end and every item was printed, if there is a   *)
(* producer.                                                               *)
EverythingConsumed ==
  <>(pc["producer"] # "unborn") => <>(/\ \A t \in Threads : pc[t] = "exited"
                                      /\ taken = Tags)
=============================================================================

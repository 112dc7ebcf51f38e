----------------------------- MODULE SpinBuffer -----------------------------
(***************************************************************************)
(* test_pthreads/mutex_lock_unlock.c: a producer and a consumer that wait  *)
(* by spinning on count outside the mutex that protects it.                *)
(*                                                                         *)
(* The unlocked read is a data race.  What a build makes of it is chosen   *)
(* in Init: without optimisation every turn of a loop loads count again; an*)
(* optimising compiler may have it loaded once, and a thread that finds its*)
(* condition true then spins for ever (hoisted).                           *)
(***************************************************************************)
EXTENDS BufferSection

VARIABLE hoisted   \* the threads whose loop loads count once

vars == <<pc, i, reg, count, buf, taken, owner, hoisted>>

Init == SectionInit /\ hoisted \in SUBSET Threads

Create == CreateProducer("spin")

(* while (count == MAX_SIZE); and while (count == 0); *)
SpinEnds(t) ==
  /\ ~Blocked(t)
  /\ Goto(t, "spin", "lock")
  /\ UNCHANGED <<i, reg, count, buf, taken, owner>>

SpinsForEver(t) ==
  /\ t \in hoisted
  /\ Blocked(t)
  /\ Goto(t, "spin", "stuck")
  /\ UNCHANGED <<i, reg, count, buf, taken, owner>>

(* Mutant of Lock: the section is entered without the mutex. *)
EnterUnlocked(t) ==
  /\ Goto(t, "lock", "access")
  /\ UNCHANGED <<i, reg, count, buf, taken, owner>>

Lock(t) ==
  /\ Goto(t, "lock", "access")
  /\ MutexLock("lock", t)
  /\ UNCHANGED <<i, reg, count, buf, taken>>

Thread(t) ==
  \/ SpinEnds(t)
  \/ SpinsForEver(t)
  \/ Lock(t)
  \/ LoadCount(t)
  \/ StoreCount(t, "unlock")
  \/ EndIteration(t, "spin")

producer == (WriteSlot \/ Thread("producer")) /\ UNCHANGED hoisted

consumer == (Create \/ ReadSlot \/ Thread("consumer")) /\ UNCHANGED hoisted

Next == producer \/ consumer

Spec == Init /\ [][Next]_vars

(* The scheduler runs every thread that can run. *)
Fairness == WF_vars(producer) /\ WF_vars(consumer)

FairSpec == Spec /\ Fairness

Places == {"create", "unborn", "spin", "stuck", "lock", "access", "load",
           "store", "unlock", "exited"}

TypeOK ==
  /\ pc \in [Threads -> Places]
  /\ i \in [Threads -> 0 .. Items]
  /\ reg \in [Threads -> 0 .. MaxSize]
  /\ count \in 0 .. MaxSize
  /\ buf \in [Slots -> Tags \union {Unwritten}]
  /\ taken \subseteq Tags
  /\ MutexTypeOK
  /\ hoisted \subseteq Threads

(* In a build that loads count every time both loops end.  A stale count   *)
(* stops the thread that has it and no other: if the consumer's loop loads *)
(* count every time it prints all that was put, with or without a producer *)
(* and wherever that one is stuck; if the producer's does, the producer    *)
(* ends or leaves the buffer full.                                         *)
LoopsEnd ==
  /\ hoisted = {} => EverythingConsumed
  /\ "consumer" \notin hoisted => <>[](taken = 0 .. Produced - 1)
  /\ "producer" \notin hoisted => <>[](pc["producer"] \in {"unborn", "exited"}
                                      \/ count = MaxSize)
=============================================================================

---------------------------- MODULE SignalGroup -----------------------------
(***************************************************************************)
(* assignment_8/signal_process_group.c: the program of assignment_7, whose *)
(* process 5 now tells process 0 the group's number through shared memory. *)
(* Process 0 spins until the number is there or its alarm went off, and    *)
(* signals the group.                                                      *)
(***************************************************************************)
EXTENDS GroupSection

CONSTANT Hoisted   \* whether the build loads *shared_pgid_3 once per loop

SignalCalls == Calls \union {"mmap", "signal", "munmap"}

ASSUME SignalAssumption ==
  /\ MayFail \subseteq SignalCalls
  /\ Punctual \in BOOLEAN
  /\ Hoisted \in BOOLEAN

VARIABLES shared,   \* *shared_pgid_3
          armed,    \* whether the alarm of process 0 is set
          ready,    \* the processes with a handler for SIGUSR1
          usr1      \* per process: what became of SIGUSR1

ownVars == <<shared, armed, ready, usr1>>
vars == <<groupVars, ownVars>>

Unset == -1        \* what process 0 stores before it forks
TimedOut == -2     \* what sig_alrm stores

Init ==
  /\ SectionInit("mmap")
  /\ shared = Unset
  /\ armed = FALSE
  /\ ready = {}
  /\ usr1 = [p \in Procs |-> "none"]

(* A step of process p that only moves it and touches what is named.       *)
Step(p, from, to) ==
  /\ Goto(p, from, to)
  /\ UNCHANGED <<pgid, fifo, met, pipe, pgid_3>>

-----------------------------------------------------------------------------
(* Mutant of Mmap: process 1 is never forked. *)
MmapSkipsFork == Step(0, "mmap", "fork2") /\ UNCHANGED ownVars

(* Process 0 *)
Mmap == Step(0, "mmap", "fork") /\ UNCHANGED ownVars

CatchAlarm == Step(0, "sigalrm", "alarm") /\ UNCHANGED ownVars

(* Mutant of SetAlarm: the alarm is not set. *)
SetNoAlarm == Step(0, "alarm", "spin") /\ UNCHANGED ownVars

SetAlarm ==
  /\ Step(0, "alarm", "spin")
  /\ armed' = TRUE
  /\ UNCHANGED <<shared, ready, usr1>>

(* sig_alrm interrupts process 0 wherever it is. *)
sig_alrm ==
  /\ armed
  /\ Alive(0)
  /\ shared' = TimedOut
  /\ armed' = FALSE
  /\ UNCHANGED <<groupVars, ready, usr1>>

(* while ( *shared_pgid_3 == -1); *)
SpinEnds ==
  /\ shared # Unset
  /\ Step(0, "spin", "cancel")
  /\ UNCHANGED ownVars

SpinsForEver ==
  /\ Hoisted
  /\ shared = Unset
  /\ Step(0, "spin", "stuck")
  /\ UNCHANGED ownVars

(* Mutant of CancelAlarm: alarm(0) is missing. *)
LeaveAlarm == Step(0, "cancel", "check") /\ UNCHANGED ownVars

CancelAlarm ==
  /\ Step(0, "cancel", "check")
  /\ armed' = FALSE
  /\ UNCHANGED <<shared, ready, usr1>>

Check ==
  /\ Step(0, "check", IF shared = TimedOut THEN "exited" ELSE "kill")
  /\ UNCHANGED ownVars

(* kill(-number, SIGUSR1) fails when the group is gone.  Dead members that *)
(* wait to be reaped do not make it fail.                                  *)
Target == IF shared = Zero THEN pgid[0] ELSE shared

(* Mutant of Kill: the leader is signalled, not its group. *)
KillLeader ==
  /\ pc[0] = "kill"
  /\ IF Alive(Target)
       THEN /\ Step(0, "kill", "munmap")
            /\ usr1' = [usr1 EXCEPT ![Target] = "pending"]
       ELSE Step(0, "kill", "exited") /\ UNCHANGED usr1
  /\ UNCHANGED <<shared, armed, ready>>

Kill ==
  /\ IF GroupExists(Target)
       THEN /\ Step(0, "kill", "munmap")
            /\ usr1' = [p \in Procs |->
                          IF Alive(p) /\ pgid[p] = Target THEN "pending" ELSE usr1[p]]
       ELSE Step(0, "kill", "exited") /\ UNCHANGED usr1
  /\ UNCHANGED <<shared, armed, ready>>

Munmap == Step(0, "munmap", "deref") /\ UNCHANGED ownVars

(* The last printf reads *shared_pgid_3, which is no longer mapped: the    *)
(* process dies of it.                                                     *)
Deref == Step(0, "deref", "segfault") /\ UNCHANGED ownVars

Reap == Step(0, "segfault", "exited") /\ UNCHANGED ownVars

-----------------------------------------------------------------------------
(* Processes 3, 4 and 5 *)
Peek == Step(5, "peek", "store") /\ UNCHANGED ownVars

Store ==
  /\ Step(5, "store", "sigusr1")
  /\ shared' = pgid_3
  /\ UNCHANGED <<armed, ready, usr1>>

CatchUsr1(p) ==
  /\ Step(p, "sigusr1", "sleep")
  /\ ready' = ready \union {p}
  /\ UNCHANGED <<shared, armed, usr1>>

(* SIGUSR1 runs the handler, which also ends the sleep and with it the     *)
(* process, or kills a process that has not installed one yet.             *)
Deliver(p) ==
  /\ usr1[p] = "pending"
  /\ Alive(p)
  /\ Step(p, pc[p], "exited")
  /\ usr1' = [usr1 EXCEPT ![p] = IF p \in ready THEN "handled" ELSE "killed"]
  /\ UNCHANGED <<shared, armed, ready>>

OwnCall(p) ==
  CASE pc[p] \in {"mmap", "munmap"} -> pc[p]
    [] pc[p] \in {"sigalrm", "sigusr1"} -> "signal"
    [] OTHER -> "none"

OwnCallFails(p) ==
  /\ OwnCall(p) \in MayFail
  /\ Step(p, pc[p], "exited")
  /\ UNCHANGED ownVars

(* Where each process goes from the part both programs share. *)
Then ==
  [p \in Procs |-> CASE p = 0 -> "sigalrm"
                     [] p \in {1, 2} -> "sleep"
                     [] p \in {3, 4} -> "sigusr1"
                     [] p = 5 -> "peek"]

Process0 ==
  \/ Mmap \/ CatchAlarm \/ SetAlarm \/ sig_alrm \/ SpinEnds \/ SpinsForEver
  \/ CancelAlarm \/ Check \/ Kill \/ Munmap \/ Deref \/ Reap

Process5 == Peek \/ Store

Next ==
  \/ Group(Then) /\ UNCHANGED ownVars
  \/ Process0
  \/ Process5
  \/ \E p \in {3, 4, 5} : CatchUsr1(p)
  \/ \E p \in Procs : Deliver(p) \/ OwnCallFails(p)

Spec == Init /\ [][Next]_vars

FairSpec == Spec /\ WF_vars(Next)

-----------------------------------------------------------------------------
Places ==
  GroupPlaces \union
    {"mmap", "sigalrm", "alarm", "spin", "stuck", "cancel", "check", "kill",
     "munmap", "deref", "segfault", "peek", "store", "sigusr1"}

TypeOK ==
  /\ GroupTypeOK(Places)
  /\ shared \in {Unset, TimedOut, Zero, 0, 3, 5}
  /\ armed \in BOOLEAN
  /\ ready \subseteq {3, 4, 5}
  /\ usr1 \in [Procs -> {"none", "pending", "handled", "killed"}]

(* Process 0 never signals a group when it does not know its number: what  *)
(* it checks at line 242 still holds at line 253, because the alarm was    *)
(* cancelled in between, and process 5 is in that group already.  Nobody   *)
(* outside the group is signalled.                                         *)
SignalsOnlyTheGroup ==
  /\ pc[0] = "kill" => shared = 3 /\ pgid[5] = 3
  /\ \A p \in 0 .. 2 : usr1[p] = "none"

(* The signal of line 253 reaches "all processes in the process group      *)
(* created by 3 i.e. 3, 4 and 5" (lines 249 to 251), if they still run.    *)
ReachesTheWholeGroup ==
  [][(pc[0] = "kill" /\ pc'[0] = "munmap") =>
       \A p \in {3, 4, 5} : usr1'[p] = "pending" \/ pc[p] = "exited"]_vars

(* The group part of this program is the program of assignment_7: what is  *)
(* new here does not disturb it.  A process that sets up a handler, spins  *)
(* or signals counts as asleep, and one that dies of SIGUSR1 before it has *)
(* closed the FIFO as one whose close failed.                              *)
GroupPlace(p) ==
  CASE pc[p] = "mmap" -> "fork"
    [] pc[p] \in Places \ (GroupPlaces \union {"mmap"}) -> "sleep"
    [] OTHER -> pc[p]

PG == INSTANCE ProcessGroup
        WITH pc <- [p \in Procs |-> GroupPlace(p)],
             MayFail <- MayFail \union {"close", "fork"},
             Punctual <- FALSE

ImplementsProcessGroup == PG!Spec

(* The alarm gets process 0 out of its loop, whatever went wrong with the  *)
(* others: it always comes to its end.                                     *)
Process0Ends == <>(pc[0] = "exited")

(* Process 5 stores the number only when it is in the group "so that it    *)
(* too receives SIGUSR1" (lines 112 to 118): its handler is run, and so    *)
(* are those of 3 and 4, whose place in the group was taken before.        *)
SignalIsHandled == \A p \in {3, 4, 5} : usr1[p] # "killed"
=============================================================================

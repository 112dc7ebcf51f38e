---------------------------- MODULE GroupSection ----------------------------
(***************************************************************************)
(* The part assignment_7/change_process_group.c and                        *)
(* assignment_8/signal_process_group.c share: process 0 forks a tree of    *)
(* six processes, 0 -> 1 -> 5 and 0 -> 2 -> 3 -> 4.  Process 3 makes a     *)
(* process group of its own, moves its child 4 into it and sends the       *)
(* group's number through the FIFO "transfer" to process 5, its cousin,    *)
(* which joins the group.                                                  *)
(*                                                                         *)
(* A process is named by its number in the comments of the code; the group *)
(* process p leads is named p as well, and 0 is the group all of them      *)
(* start in.  sleep() is untimed: a process may sleep for as long or as    *)
(* short as it likes (but see Punctual).                                   *)
(***************************************************************************)
EXTENDS Integers

CONSTANTS MayFail,    \* the calls whose error branch may be taken
          Punctual    \* TRUE: nobody wakes up before the FIFO was used

Procs == 0 .. 5

Calls == {"fork", "setpgid_self", "setpgid_child", "mkfifo", "creat", "read",
          "write", "close"}

Parent(p) == CASE p \in {1, 2} -> 0 [] p = 3 -> 2 [] p = 4 -> 3 [] p = 5 -> 1

VARIABLES pc,      \* per process: the call it is about to make
          pgid,    \* per process: its process group
          fifo,    \* whether the file "transfer" exists
          met,     \* whether reader and writer have met in opening it
          pipe,    \* what is in the pipe: a group, or Nothing
          pgid_3   \* the local variable of process 5

groupVars == <<pc, pgid, fifo, met, pipe, pgid_3>>

Nothing == -1      \* no number is there
NoGroup == -2      \* a number that is not that of a process group
Zero == -3         \* the number 0, which setpgid and kill take specially

Alive(p) == pc[p] \notin {"unborn", "exited"}

(* "transfer" is never removed, so a run finds the one a previous run left.*)
SectionInit(start) ==
  /\ pc = [p \in Procs |-> IF p = 0 THEN start ELSE "unborn"]
  /\ pgid = [p \in Procs |-> 0]
  /\ fifo \in BOOLEAN
  /\ met = FALSE
  /\ pipe = Nothing
  /\ pgid_3 = Nothing

Goto(p, from, to) ==
  /\ pc[p] = from
  /\ pc' = [pc EXCEPT ![p] = to]

(* A dead process is reaped when its parent is gone; until then it counts  *)
(* as a member of its group.                                               *)
Member(p, g) ==
  /\ pgid[p] = g
  /\ \/ Alive(p)
     \/ pc[p] = "exited" /\ p # 0 /\ pc[Parent(p)] # "exited"

GroupExists(g) == \E p \in Procs : Member(p, g)

-----------------------------------------------------------------------------
(* fork() in the parent, with the places both processes are at then. *)
Fork(parent, from, after, child, entry) ==
  /\ pc[parent] = from
  /\ pc' = [pc EXCEPT ![parent] = after, ![child] = entry]
  /\ pgid' = [pgid EXCEPT ![child] = pgid[parent]]
  /\ UNCHANGED <<fifo, met, pipe, pgid_3>>

(* next[p] is where process p goes when it is through with the section. *)
Forks(next) ==
  \/ Fork(0, "fork", "fork2", 1, "fork")
  \/ Fork(1, "fork", "sleep", 5, "open")
  \/ Fork(0, "fork2", next[0], 2, "fork")
  \/ Fork(2, "fork", "sleep", 3, "fork")
  \/ Fork(3, "fork", "setpgid_self", 4, next[4])

(* setpgid(0, 0) in process 3 *)
NewGroup ==
  /\ Goto(3, "setpgid_self", "setpgid_child")
  /\ pgid' = [pgid EXCEPT ![3] = 3]
  /\ UNCHANGED <<fifo, met, pipe, pgid_3>>

(* Mutant of MoveChild: the call is missing. *)
LeaveChild ==
  /\ Goto(3, "setpgid_child", "access")
  /\ UNCHANGED <<pgid, fifo, met, pipe, pgid_3>>

(* setpgid(pid, getpgid(0)) in process 3: its error is reported, no more. *)
MoveChild ==
  /\ Goto(3, "setpgid_child", "access")
  /\ \/ pgid' = [pgid EXCEPT ![4] = pgid[3]]
     \/ "setpgid_child" \in MayFail /\ UNCHANGED pgid
  /\ UNCHANGED <<fifo, met, pipe, pgid_3>>

(* Mutant of Access: the FIFO is taken for granted. *)
AccessUnchecked ==
  /\ Goto(3, "access", "creat")
  /\ UNCHANGED <<pgid, fifo, met, pipe, pgid_3>>

Access ==
  /\ Goto(3, "access", IF fifo THEN "creat" ELSE "mkfifo")
  /\ UNCHANGED <<pgid, fifo, met, pipe, pgid_3>>

Mkfifo ==
  /\ Goto(3, "mkfifo", "creat")
  /\ fifo' = TRUE
  /\ UNCHANGED <<pgid, met, pipe, pgid_3>>

(* Opening a FIFO blocks until the other end is opened too: creat() waits  *)
(* for the reader, open() for the writer.                                  *)
ArriveWriter ==
  /\ Goto(3, "creat", "creat_blocked")
  /\ met' = (pc[5] = "open_blocked")
  /\ UNCHANGED <<pgid, fifo, pipe, pgid_3>>

(* while ((fd = open(...)) == -1); spins while there is no FIFO. *)
ArriveReader ==
  /\ fifo
  /\ Goto(5, "open", "open_blocked")
  /\ met' = (pc[3] = "creat_blocked")
  /\ UNCHANGED <<pgid, fifo, pipe, pgid_3>>

Opened ==
  /\ met
  /\ \/ Goto(3, "creat_blocked", "write")
     \/ Goto(5, "open_blocked", "read")
  /\ UNCHANGED <<pgid, fifo, met, pipe, pgid_3>>

(* Mutant of Write: the group of the parent is sent. *)
WriteParentGroup ==
  /\ Goto(3, "write", "close")
  /\ pipe' = pgid[2]
  /\ UNCHANGED <<pgid, fifo, met, pgid_3>>

(* Writing to a pipe without a reader kills the writer. *)
Write ==
  /\ pc[3] = "write"
  /\ IF pc[5] = "exited"
       THEN Goto(3, "write", "exited") /\ UNCHANGED pipe
       ELSE Goto(3, "write", "close") /\ pipe' = pgid[3]
  /\ UNCHANGED <<pgid, fifo, met, pgid_3>>

Close(next) ==
  /\ Goto(3, "close", next[3])
  /\ UNCHANGED <<pgid, fifo, met, pipe, pgid_3>>

(* read() waits for the number or for the end of file, at which process 5  *)
(* gives up.  The writer has the pipe open until it closes it or exits.    *)
Read ==
  \/ /\ pipe # Nothing
     /\ Goto(5, "read", "setpgid")
     /\ pgid_3' = pipe
     /\ pipe' = Nothing
     /\ UNCHANGED <<pgid, fifo, met>>
  \/ /\ pipe = Nothing
     /\ pc[3] = "exited"
     /\ Goto(5, "read", "exited")
     /\ UNCHANGED <<pgid, fifo, met, pipe, pgid_3>>

(* When read() fails process 5 says so and goes on with what happens to be *)
(* in pgid_3, which nobody initialised.                                    *)
ReadFails ==
  /\ "read" \in MayFail
  /\ Goto(5, "read", "setpgid")
  /\ pgid_3' \in {0, 3, 5, NoGroup, Zero}
  /\ UNCHANGED <<pgid, fifo, met, pipe>>

(* setpgid(0, pgid_3) in process 5: its own number and zero make a new     *)
(* group, any other number must be that of a group that still exists.      *)
JoinGroup(next) ==
  LET g == IF pgid_3 = Zero THEN 5 ELSE pgid_3
  IN  /\ IF GroupExists(g) \/ g = 5
           THEN Goto(5, "setpgid", next[5]) /\ pgid' = [pgid EXCEPT ![5] = g]
           ELSE Goto(5, "setpgid", "exited") /\ UNCHANGED pgid
      /\ UNCHANGED <<fifo, met, pipe, pgid_3>>

SleepEnds(p) ==
  /\ Punctual => pc[5] \notin {"unborn", "open", "open_blocked", "read", "setpgid"}
  /\ Goto(p, "sleep", "exited")
  /\ UNCHANGED <<pgid, fifo, met, pipe, pgid_3>>

(* The calls whose failure ends the process that made them. *)
FatalCall(p) ==
  CASE pc[p] \in {"fork", "fork2"} -> "fork"
    [] pc[p] \in {"setpgid_self", "mkfifo", "creat", "write", "close"} -> pc[p]
    [] OTHER -> "none"

CallFails(p) ==
  /\ FatalCall(p) \in MayFail
  /\ Goto(p, pc[p], "exited")
  /\ UNCHANGED <<pgid, fifo, met, pipe, pgid_3>>

Group(next) ==
  \/ Forks(next)
  \/ NewGroup
  \/ MoveChild
  \/ Access
  \/ Mkfifo
  \/ ArriveWriter
  \/ ArriveReader
  \/ Opened
  \/ Write
  \/ Close(next)
  \/ Read
  \/ ReadFails
  \/ JoinGroup(next)
  \/ \E p \in Procs : SleepEnds(p) \/ CallFails(p)

GroupTypeOK(places) ==
  /\ pc \in [Procs -> places]
  /\ pgid \in [Procs -> {0, 3, 5}]
  /\ fifo \in BOOLEAN
  /\ met \in BOOLEAN
  /\ pipe \in {Nothing, 3}
  /\ pgid_3 \in {Nothing, NoGroup, Zero, 0, 3, 5}

GroupPlaces ==
  {"unborn", "fork", "fork2", "open", "open_blocked", "read", "setpgid",
   "setpgid_self", "setpgid_child", "access", "mkfifo", "creat",
   "creat_blocked", "write", "close", "sleep", "exited"}

(* Whatever goes wrong elsewhere, process 5 is in group 3 only when        *)
(* process 3 has made that group and moved its child 4 into it before      *)
(* (lines 102 to 126 come before line 52).  That is so even when read has  *)
(* failed and the number process 5 uses happens to be the right one: the   *)
(* open before it has waited for process 3.                                *)
JoinsCompleteGroup == pgid[5] = 3 => pgid[3] = 3 /\ pgid[4] = 3
=============================================================================

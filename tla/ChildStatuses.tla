---------------------------- MODULE ChildStatuses ----------------------------
(***************************************************************************)
(* assignment_5/print_child_statuses.c: a process forks num_children       *)
(* children, sleeps and asks for the status of each of them once, without  *)
(* waiting.  Child i sleeps for its time and exits with status i.  Sleeps  *)
(* are untimed: any child may be done or not when the parent asks.         *)
(***************************************************************************)
EXTENDS Integers, Sequences, SequencesExt

CONSTANTS num_children,
          StatusRange,   \* how many exit statuses wait can tell apart, 256
          ForkMayFail

ASSUME StatusAssumption ==
  /\ num_children \in Nat
  /\ StatusRange \in Nat \ {0}
  /\ ForkMayFail \in BOOLEAN

Children == 1 .. num_children

VARIABLES pc, i,     \* where main is, and its loop variable
          pids,      \* the array of the children's pids
          child,     \* per child: what became of it
          reports    \* what was printed about each slot of pids, in order

vars == <<pc, i, pids, child, reports>>

NotYet == -1   \* the report "not yet terminated"

Init ==
  /\ pc = "fork"
  /\ i = 1
  /\ pids = << >>
  /\ child = [c \in Children |-> "unborn"]
  /\ reports = << >>

Fork ==
  /\ pc = "fork"
  /\ i <= num_children
  /\ \/ /\ child' = [child EXCEPT ![i] = "running"]
        /\ pids' = Append(pids, i)
        /\ i' = i + 1
        /\ UNCHANGED pc
     \/ /\ ForkMayFail
        /\ pc' = "returned"
        /\ UNCHANGED <<child, pids, i>>
  /\ UNCHANGED reports

(* The parent sleeps for as long as it takes and starts its second loop. *)
Sleep ==
  /\ pc = "fork"
  /\ i > num_children
  /\ pc' = "waitpid"
  /\ i' = 0
  /\ UNCHANGED <<pids, child, reports>>

(* Mutant of ExitStatus: the status keeps all of i. *)
FullStatus(c) == c

(* exit(i) keeps the low byte of i. *)
ExitStatus(c) == c % StatusRange

(* Mutant of Report: a return value of 0 is taken for a status. *)
ReportZero(c) == IF child[c] = "exited" THEN ExitStatus(c) ELSE 0

(* waitpid(pids[i], &status, WNOHANG) and the line printed about it.  A    *)
(* child that was killed is printed with status 0.                         *)
Report(c) ==
  CASE child[c] = "running" -> NotYet
    [] child[c] = "exited" -> ExitStatus(c)
    [] child[c] = "killed" -> 0

(* Mutant of Waitpid: it waits, without WNOHANG. *)
WaitpidBlocks ==
  /\ pc = "waitpid"
  /\ i < num_children
  /\ LET c == pids[i + 1]
     IN  /\ child[c] \in {"exited", "killed"}
         /\ reports' = Append(reports, [pid |-> c, status |-> Report(c)])
         /\ child' = [child EXCEPT ![c] = IF @ = "exited" THEN "reaped"
                                         ELSE "reaped_killed"]
  /\ i' = i + 1
  /\ UNCHANGED <<pc, pids>>

Waitpid ==
  /\ pc = "waitpid"
  /\ i < num_children
  /\ LET c == pids[i + 1]
     IN  /\ child[c] \in {"running", "exited", "killed"}
         /\ reports' = Append(reports, [pid |-> c, status |-> Report(c)])
         /\ child' = [child EXCEPT ![c] =
                        IF @ = "exited" THEN "reaped"
                        ELSE IF @ = "killed" THEN "reaped_killed" ELSE @]
  /\ i' = i + 1
  /\ UNCHANGED <<pc, pids>>

Return ==
  /\ pc = "waitpid"
  /\ i = num_children
  /\ pc' = "returned"
  /\ UNCHANGED <<i, pids, child, reports>>

ChildExits(c) ==
  /\ child[c] = "running"
  /\ child' = [child EXCEPT ![c] = "exited"]
  /\ UNCHANGED <<pc, i, pids, reports>>

(* Anybody may kill a child. *)
ChildKilled(c) ==
  /\ child[c] = "running"
  /\ child' = [child EXCEPT ![c] = "killed"]
  /\ UNCHANGED <<pc, i, pids, reports>>

main == Fork \/ Sleep \/ Waitpid \/ Return

Next == main \/ \E c \in Children : ChildExits(c) \/ ChildKilled(c)

Spec == Init /\ [][Next]_vars

(* Nothing is assumed of the children: they may sleep for ever. *)
Fairness == WF_vars(main)

-----------------------------------------------------------------------------
TypeOK ==
  /\ pc \in {"fork", "waitpid", "returned"}
  /\ i \in 0 .. num_children + 1
  /\ pids \in Seq(Children)
  /\ child \in [Children -> {"unborn", "running", "exited", "killed", "reaped",
                             "reaped_killed"}]
  /\ reports \in Seq([pid : Children,
                      status : {NotYet} \union 0 .. StatusRange - 1])

(* What is printed about a child is about that child and stays true: one   *)
(* that is reported terminated was collected with the status it exited     *)
(* with, modulo 256, and no child is collected without being reported so   *)
(* (lines 52 to 61).                                                       *)
StatusesAreTrue ==
  \A c \in Children :
    LET status == {reports[k].status : k \in {l \in DOMAIN reports : reports[l].pid = c}}
    IN  /\ child[c] = "reaped" => status = {c % StatusRange}
        /\ child[c] = "reaped_killed" => status = {0}
        /\ child[c] \notin {"reaped", "reaped_killed"} => status \subseteq {NotYet}

(* When main ends, every child it forked was reported once, in order,      *)
(* unless a fork failed: then it leaves at once and reports none (line 27).*)
AllReported ==
  pc = "returned" =>
    \/ [k \in DOMAIN reports |-> reports[k].pid] = [k \in Children |-> k]
    \/ ForkMayFail /\ i <= num_children /\ reports = << >>

(* The report is true of every child and complete. *)
ReportsAreTrue == StatusesAreTrue /\ AllReported

(* Because of WNOHANG main ends even if no child ever does.                *)
ParentNeverBlocks == <>(pc = "returned")
=============================================================================

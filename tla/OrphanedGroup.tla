---------------------------- MODULE OrphanedGroup ----------------------------
(***************************************************************************)
(* assignment_8/sighup_sigcont.c: a child stops itself with SIGTSTP and    *)
(* its parent exits.  When that orphans their process group, the kernel    *)
(* sends the stopped child SIGHUP and SIGCONT, which it handles.  The      *)
(* parent's sleep is untimed: it may exit before the child has stopped.    *)
(***************************************************************************)
EXTENDS Sequences, SequencesExt

CONSTANT GroupMayFail   \* the calls whose error branch may be taken

VARIABLES anchor,    \* who keeps the group from being orphaned
          parent,    \* where the parent is
          offspring, \* where the child is
          installed, \* the signals the child has a handler for
          signals,   \* the signals pending for the child
          frames,    \* the handlers on the child's stack, the last on top
          printed    \* what the child has printed

vars == <<anchor, parent, offspring, installed, signals, frames, printed>>

(* A job-control shell puts the program into a group of its own, anchored  *)
(* by the parent; a script runs it in the group of its shell; under setsid *)
(* the group is orphaned from the start.                                   *)
Init ==
  /\ anchor \in {"parent", "shell", "none"}
  /\ parent = "fork"
  /\ offspring = "unborn"
  /\ installed = {}
  /\ signals = {}
  /\ frames = << >>
  /\ printed = << >>

Goto(from, to) ==
  /\ frames = << >>
  /\ offspring = from
  /\ offspring' = to

(* If the group is orphaned while the child is stopped, the kernel sends   *)
(* it SIGHUP and then SIGCONT, on which it can take them.                  *)
OrphanGroup ==
  /\ anchor' = "none"
  /\ IF offspring = "stopped"
       THEN offspring' = "continued" /\ signals' = {"SIGHUP", "SIGCONT"}
       ELSE UNCHANGED <<offspring, signals>>

-----------------------------------------------------------------------------
Fork ==
  /\ parent = "fork"
  /\ parent' = "sleep"
  /\ offspring' = "SIGHUP"
  /\ printed' = <<"child">>
  /\ UNCHANGED <<anchor, installed, signals, frames>>

(* Mutant of ParentEnds: the parent waits for the child. *)
ParentWaits == parent = "sleep" /\ offspring \in {"done", "failed", "killed"}

(* After sleep(5), or because fork failed. *)
ParentEnds == parent = "sleep" \/ (parent = "fork" /\ "fork" \in GroupMayFail)

ParentExits ==
  /\ ParentEnds
  /\ parent' = "exited"
  /\ IF anchor = "parent" THEN OrphanGroup
                          ELSE UNCHANGED <<anchor, offspring, signals>>
  /\ UNCHANGED <<installed, frames, printed>>

(* The script that has waited for the parent ends as well. *)
ShellExits ==
  /\ anchor = "shell"
  /\ parent = "exited"
  /\ OrphanGroup
  /\ UNCHANGED <<parent, installed, frames, printed>>

-----------------------------------------------------------------------------
(* Mutant of Handled: SIGHUP keeps its default action. *)
HandledContOnly(s) == {s} \ {"SIGHUP"}

(* What signal(s, sig_hup) or signal(s, sig_cont) installs a handler for. *)
Handled(s) == {s}

Signal(s, to) ==
  /\ Goto(s, to)
  /\ installed' = installed \union Handled(s)
  /\ UNCHANGED <<anchor, parent, signals, frames, printed>>

(* SIGTSTP stops the child, but is discarded in an orphaned group. *)
Kill ==
  /\ Goto("kill", IF anchor = "none" THEN "continued" ELSE "stopped")
  /\ UNCHANGED <<anchor, parent, installed, signals, frames, printed>>

ChildFails ==
  /\ offspring \in {"SIGHUP", "SIGCONT", "kill"} \intersect GroupMayFail
  /\ offspring' = "failed"
  /\ UNCHANGED <<anchor, parent, installed, signals, frames, printed>>

(* A pending signal is taken before kill returns, possibly on top of the   *)
(* handler of the other.                                                   *)
Deliver(s) ==
  /\ s \in signals
  /\ signals' = signals \ {s}
  /\ IF s \in installed THEN frames' = Append(frames, s) ELSE UNCHANGED frames
  /\ IF s = "SIGHUP" /\ s \notin installed
       THEN offspring' = "killed" ELSE UNCHANGED offspring
  /\ UNCHANGED <<anchor, parent, installed, printed>>

(* sig_hup and sig_cont print their signal and return. *)
Handler ==
  /\ frames # << >>
  /\ frames' = Front(frames)
  /\ printed' = Append(printed, Last(frames))
  /\ UNCHANGED <<anchor, parent, offspring, installed, signals>>

PrintAgain ==
  /\ signals = {}
  /\ Goto("continued", "done")
  /\ printed' = Append(printed, "child")
  /\ UNCHANGED <<anchor, parent, installed, signals, frames>>

childSteps ==
  \/ Signal("SIGHUP", "SIGCONT")
  \/ Signal("SIGCONT", "kill")
  \/ Kill
  \/ ChildFails
  \/ \E s \in signals : Deliver(s)
  \/ Handler
  \/ PrintAgain

Next == Fork \/ ParentExits \/ ShellExits \/ childSteps

Spec == Init /\ [][Next]_vars

(* Both processes run, and the script ends when the program has.           *)
Fairness ==
  /\ WF_vars(Fork \/ ParentExits)
  /\ WF_vars(ShellExits)
  /\ WF_vars(childSteps)

-----------------------------------------------------------------------------
TypeOK ==
  /\ anchor \in {"parent", "shell", "none"}
  /\ parent \in {"fork", "sleep", "exited"}
  /\ offspring \in {"unborn", "SIGHUP", "SIGCONT", "kill", "stopped",
                    "continued", "done", "failed", "killed"}
  /\ installed \subseteq {"SIGHUP", "SIGCONT"}
  /\ signals \subseteq {"SIGHUP", "SIGCONT"}
  /\ frames \in Seq({"SIGHUP", "SIGCONT"})
  /\ printed \in Seq({"child", "SIGHUP", "SIGCONT"})

(* Whoever is faster, SIGHUP never kills the child: it is sent only once   *)
(* the child has stopped, that is, with its handlers installed.  And the   *)
(* child prints its ids again (line 57) either after both handlers, in     *)
(* either order, or, if its SIGTSTP was discarded, after neither.          *)
HangupIsHandled ==
  /\ offspring # "killed"
  /\ offspring \in {"stopped", "kill"} => printed = <<"child">>
  /\ offspring = "done" =>
       printed \in {<<"child", "child">>,
                    <<"child", "SIGHUP", "SIGCONT", "child">>,
                    <<"child", "SIGCONT", "SIGHUP", "child">>}

(* The parent does not wait for the child, and so the child, stopped, is   *)
(* not left so: the group is orphaned in the end, and the child goes on.   *)
ChildGoesOn ==
  <>[](parent = "exited" /\ offspring \in {"unborn", "done", "failed"})
=============================================================================

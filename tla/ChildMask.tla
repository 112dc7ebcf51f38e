------------------------------ MODULE ChildMask ------------------------------
(***************************************************************************)
(* assignment_8/child_pending_signals_and_mask.c: a process blocks SIGUSR1 *)
(* and SIGUSR2, sends itself both, unblocks the first and forks a child,   *)
(* which unblocks the second.  Nobody else signals the two.                *)
(***************************************************************************)
EXTENDS FiniteSets, Sequences, SequencesExt

CONSTANT MaskCallsMayFail   \* the calls whose error branch may be taken

Procs == {"parent", "child"}
Signals == {"SIGUSR1", "SIGUSR2"}

VARIABLES step,       \* per process: the call it makes next
          sigset,     \* its variable sigset
          mask,       \* the signals it has blocked
          waiting,    \* the signals generated for it and not delivered
          taken,      \* the signals its handlers have run for, in order
          told,       \* what it has printed about its mask and pending signals
          unreliable  \* whether one of its calls of sigprocmask has failed

vars == <<step, sigset, mask, waiting, taken, told, unreliable>>

Init ==
  /\ step = [parent |-> "sigprocmask_all", child |-> "unborn"]
  /\ sigset = [p \in Procs |-> IF p = "parent" THEN Signals ELSE {}]
  /\ mask = [p \in Procs |-> {}]
  /\ waiting = [p \in Procs |-> {}]
  /\ taken = [p \in Procs |-> << >>]
  /\ told = [p \in Procs |-> << >>]
  /\ unreliable = [p \in Procs |-> FALSE]

Goto(p, from, to) ==
  /\ step[p] = from
  /\ step' = [step EXCEPT ![p] = to]

(* The signals of S are generated for p, or come to be unblocked; those    *)
(* that newMask lets through are handled before the call returns.          *)
Signal(p, S, newMask) ==
  /\ mask' = [mask EXCEPT ![p] = newMask]
  /\ waiting' = [waiting EXCEPT ![p] = (@ \union S) \intersect newMask]
  /\ taken' = [taken EXCEPT ![p] =
                 @ \o SetToSeq((waiting[p] \union S) \ newMask)]

(* The lines printed about the blocked signals, which sigset is taken for, *)
(* or about those sigpending returns.                                      *)
Tell(p, blocked) ==
  told' = [told EXCEPT ![p] = Append(@, IF blocked THEN sigset[p] ELSE waiting[p])]

-----------------------------------------------------------------------------
(* Mutant of NewMask: SIG_BLOCK instead of SIG_SETMASK. *)
BlockMore(p) == mask[p] \union sigset[p]

NewMask(p) == sigset[p]

(* sigprocmask(SIG_SETMASK, &sigset, NULL): a failure is only reported. *)
Sigprocmask(p, from, to) ==
  /\ Goto(p, from, to)
  /\ \/ Signal(p, {}, NewMask(p)) /\ UNCHANGED unreliable
     \/ /\ "sigprocmask" \in MaskCallsMayFail
        /\ unreliable' = [unreliable EXCEPT ![p] = TRUE]
        /\ UNCHANGED <<mask, waiting, taken>>
  /\ UNCHANGED <<sigset, told>>

(* Both handlers are installed, and the blocked signals are reported. *)
Handlers ==
  /\ Goto("parent", "signal", "kill_usr1")
  /\ Tell("parent", TRUE)
  /\ UNCHANGED <<sigset, mask, waiting, taken, unreliable>>

Kill(s, from, to) ==
  /\ Goto("parent", from, to)
  /\ Signal("parent", {s}, mask["parent"])
  /\ UNCHANGED <<sigset, told, unreliable>>

Sigpending(p, from, to) ==
  /\ Goto(p, from, to)
  /\ Tell(p, FALSE)
  /\ UNCHANGED <<sigset, mask, waiting, taken, unreliable>>

Sigdelset(p, s, from, to) ==
  /\ Goto(p, from, to)
  /\ sigset' = [sigset EXCEPT ![p] = @ \ {s}]
  /\ UNCHANGED <<mask, waiting, taken, told, unreliable>>

(* Mutant of Inherited: pending signals cross the fork. *)
InheritedAll == waiting["parent"]

(* The signals that become pending for a child at the fork. *)
Inherited == {}

(* The child inherits memory and mask; it reports the mask first. *)
Fork ==
  /\ step["parent"] = "fork"
  /\ step' = [parent |-> "done", child |-> "sigpending_first"]
  /\ sigset' = [sigset EXCEPT !["child"] = sigset["parent"]]
  /\ mask' = [mask EXCEPT !["child"] = mask["parent"]]
  /\ waiting' = [waiting EXCEPT !["child"] = Inherited]
  /\ unreliable' = [unreliable EXCEPT !["child"] = unreliable["parent"]]
  /\ told' = [told EXCEPT !["child"] = <<sigset["parent"]>>]
  /\ UNCHANGED taken

(* The call each step makes, as far as a failure of it ends the process. *)
CallAt(p) ==
  CASE step[p] \in {"kill_usr1", "kill_usr2"} -> "kill"
    [] step[p] \in {"sigpending_before", "sigpending_after",
                    "sigpending_first", "sigpending_last"} -> "sigpending"
    [] step[p] \in {"signal", "fork"} -> step[p]
    [] OTHER -> "none"

CallFails(p) ==
  /\ CallAt(p) \in MaskCallsMayFail
  /\ step' = [step EXCEPT ![p] = "failed"]
  /\ UNCHANGED <<sigset, mask, waiting, taken, told, unreliable>>

Next ==
  \/ Sigprocmask("parent", "sigprocmask_all", "signal")
  \/ Handlers
  \/ Kill("SIGUSR1", "kill_usr1", "kill_usr2")
  \/ Kill("SIGUSR2", "kill_usr2", "sigpending_before")
  \/ Sigpending("parent", "sigpending_before", "sigdelset_usr1")
  \/ Sigdelset("parent", "SIGUSR1", "sigdelset_usr1", "sigprocmask_usr2")
  \/ Sigprocmask("parent", "sigprocmask_usr2", "sigpending_after")
  \/ Sigpending("parent", "sigpending_after", "fork")
  \/ Fork
  \/ Sigpending("child", "sigpending_first", "sigdelset_usr2")
  \/ Sigdelset("child", "SIGUSR2", "sigdelset_usr2", "sigprocmask_none")
  \/ Sigprocmask("child", "sigprocmask_none", "sigpending_last")
  \/ Sigpending("child", "sigpending_last", "done")
  \/ \E p \in Procs : CallFails(p)

Spec == Init /\ [][Next]_vars

-----------------------------------------------------------------------------
TypeOK ==
  /\ step \in [Procs -> {"unborn", "sigprocmask_all", "signal", "kill_usr1", "kill_usr2",
                        "sigpending_before", "sigdelset_usr1", "sigprocmask_usr2",
                        "sigpending_after", "fork", "sigpending_first", "sigdelset_usr2",
                        "sigprocmask_none", "sigpending_last", "done", "failed"}]
  /\ sigset \in [Procs -> SUBSET Signals]
  /\ mask \in [Procs -> SUBSET Signals]
  /\ waiting \in [Procs -> SUBSET Signals]
  /\ taken \in [Procs -> Seq(Signals)]
  /\ told \in [Procs -> Seq(SUBSET Signals)]
  /\ unreliable \in [Procs -> BOOLEAN]

(* A signal the parent has sent itself is pending for it or was handled by *)
(* it, once, whatever becomes of the masks; none ever crosses the fork,    *)
(* not even SIGUSR2, which the child unblocks (comments of lines 49, 78    *)
(* and 128).                                                               *)
SignalsStayHome ==
  /\ taken["child"] = << >>
  /\ waiting["child"] = {}
  /\ IsInjective(taken["parent"])
  /\ ToSet(taken["parent"]) \intersect waiting["parent"] = {}
  /\ step["parent"] = "sigpending_before" \/ Len(told["parent"]) > 1 =>
       ToSet(taken["parent"]) \union waiting["parent"] = Signals

(* As long as sigprocmask does not fail, all that is printed is so: the    *)
(* variable sigset is the mask whenever it is reported for it, both        *)
(* signals are pending before SIGUSR1 is unblocked (line 82), only SIGUSR2 *)
(* is after; the child has SIGUSR2 blocked and nothing pending, before and *)
(* after unblocking it.                                                    *)
ReportsHold ==
  /\ ~unreliable["parent"] =>
       /\ IsPrefix(told["parent"], <<Signals, Signals, {"SIGUSR2"}>>)
       /\ IsPrefix(told["child"], <<{"SIGUSR2"}, {}, {}>>)
  /\ \A p \in Procs : ~unreliable[p] /\ step[p] \in {"signal", "fork",
       "sigpending_first", "done"} => mask[p] = sigset[p]
=============================================================================

----------------------------- MODULE SigchldWait -----------------------------
(***************************************************************************)
(* assignment_9/sigchld_wait_sync.c and sigchld_block_wait.c: a process    *)
(* forks a child and calls wait while SIGCHLD may be delivered to it.  In  *)
(* the first program ("sync") the handler calls wait too, in the second    *)
(* ("block") SIGCHLD is blocked and the process sleeps before it waits.    *)
(***************************************************************************)
EXTENDS Integers, FiniteSets

CONSTANTS ForkMayFail,
          MaskMayFail   \* sigprocmask may fail, which the code only reports

ASSUME SigchldAssumption == ForkMayFail \in BOOLEAN /\ MaskMayFail \in BOOLEAN

VARIABLES program,  \* which of the two programs is run
          pc,       \* where main is
          handler,  \* where sig_chld is: "idle", "wait" or "return"
          child,
          pending,  \* whether a SIGCHLD is generated and not yet delivered
          masked,   \* whether SIGCHLD is blocked
          results   \* what the calls of wait returned, by caller

vars == <<program, pc, handler, child, pending, masked, results>>

Init ==
  /\ program \in {"sync", "block"}
  /\ pc = "sigprocmask"
  /\ handler = "idle"
  /\ child = "none"
  /\ pending = FALSE
  /\ masked = FALSE
  /\ results = {}

(* main runs only while the handler does not. *)
Goto(from, to) ==
  /\ handler = "idle"
  /\ pc = from
  /\ pc' = to

-----------------------------------------------------------------------------
(* Only the second program blocks SIGCHLD. *)
Sigprocmask ==
  /\ Goto("sigprocmask", "fork")
  /\ \/ masked' = (program = "block")
     \/ MaskMayFail /\ UNCHANGED masked
  /\ UNCHANGED <<program, handler, child, pending, results>>

Fork ==
  /\ \/ /\ Goto("fork", IF program = "block" THEN "sleep" ELSE "wait")
        /\ child' = "running"
     \/ /\ ForkMayFail
        /\ Goto("fork", "exited")
        /\ UNCHANGED child
  /\ UNCHANGED <<program, handler, pending, masked, results>>

(* sleep(5), cut short when a handler runs, and sigpending. *)
Sleep ==
  /\ Goto("sleep", "wait")
  /\ UNCHANGED <<program, handler, child, pending, masked, results>>

(* A process in wait collects a child as it dies, before any handler runs. *)
EnterWait ==
  /\ child \in {"running", "stopped"}
  /\ Goto("wait", "waiting")
  /\ UNCHANGED <<program, handler, child, pending, masked, results>>

(* Mutant of Collect: without a child to wait for it blocks. *)
CollectOrBlock(caller) ==
  /\ child = "zombie"
  /\ child' = "reaped"
  /\ results' = results \union {<<caller, "ok">>}

Collect(caller) ==
  IF child = "zombie"
    THEN child' = "reaped" /\ results' = results \union {<<caller, "ok">>}
    ELSE /\ child \in {"none", "reaped"}
         /\ results' = results \union {<<caller, "failed">>}
         /\ UNCHANGED child

(* Mutant of Wait: it does not hang. *)
WaitNoHang ==
  /\ Goto(pc, "exited")
  /\ pc \in {"wait", "waiting"}
  /\ UNCHANGED <<program, handler, child, pending, masked, results>>

(* The call of wait in main; a handler that interrupted it has it restarted.*)
Wait ==
  /\ Goto(pc, "exited")
  /\ pc \in {"wait", "waiting"}
  /\ Collect("main")
  /\ UNCHANGED <<program, handler, pending, masked>>

-----------------------------------------------------------------------------
(* Mutant of Deliver: the mask is not looked at. *)
DeliverMasked ==
  /\ pending
  /\ handler = "idle"
  /\ pc # "exited"
  /\ pending' = FALSE
  /\ handler' = IF program = "sync" THEN "wait" ELSE "return"
  /\ UNCHANGED <<program, pc, child, masked, results>>

(* SIGCHLD is delivered to main wherever it is, once at a time. *)
Deliver ==
  /\ pending
  /\ ~masked
  /\ handler = "idle"
  /\ pc # "exited"
  /\ pending' = FALSE
  /\ handler' = IF program = "sync" THEN "wait" ELSE "return"
  /\ UNCHANGED <<program, pc, child, masked, results>>

HandlerWait ==
  /\ handler = "wait"
  /\ handler' = "return"
  /\ Collect("handler")
  /\ UNCHANGED <<program, pc, pending, masked>>

(* Mutant of sig_chld_returns: main's wait is not restarted. *)
InterruptWait ==
  /\ handler = "return"
  /\ handler' = "idle"
  /\ results' = results \union {<<"main", "interrupted">>}
  /\ UNCHANGED <<program, pc, child, pending, masked>>

sig_chld_returns ==
  /\ handler = "return"
  /\ handler' = "idle"
  /\ UNCHANGED <<program, pc, child, pending, masked, results>>

-----------------------------------------------------------------------------
(* The child.  Stopping and continuing it, which anybody may do, generates *)
(* SIGCHLD as well.                                                        *)
ChildExits ==
  /\ child = "running"
  /\ pending' = TRUE
  /\ IF pc = "waiting" /\ handler = "idle"
       THEN /\ child' = "reaped"
            /\ pc' = "collected"
            /\ results' = results \union {<<"main", "ok">>}
       ELSE child' = "zombie" /\ UNCHANGED <<pc, results>>
  /\ UNCHANGED <<program, handler, masked>>

Return ==
  /\ Goto("collected", "exited")
  /\ UNCHANGED <<program, handler, child, pending, masked, results>>

ChildStops ==
  /\ child = "running"
  /\ child' = "stopped"
  /\ pending' = TRUE
  /\ UNCHANGED <<program, pc, handler, masked, results>>

ChildContinues ==
  /\ child = "stopped"
  /\ child' = "running"
  /\ pending' = TRUE
  /\ UNCHANGED <<program, pc, handler, masked, results>>

sig_chld == HandlerWait \/ sig_chld_returns
main == Sigprocmask \/ Fork \/ Sleep \/ EnterWait \/ Wait \/ Return

Next ==
  \/ main
  \/ Deliver
  \/ sig_chld
  \/ ChildExits
  \/ ChildStops
  \/ ChildContinues

Spec == Init /\ [][Next]_vars

(* The process and its handler run; a child that is stopped is continued,  *)
(* and one that runs again and again comes to its exit.                    *)
Fairness ==
  /\ WF_vars(main \/ sig_chld)
  /\ WF_vars(ChildContinues)
  /\ SF_vars(ChildExits)

-----------------------------------------------------------------------------
TypeOK ==
  /\ program \in {"sync", "block"}
  /\ pc \in {"sigprocmask", "fork", "sleep", "wait", "waiting", "collected",
             "exited"}
  /\ handler \in {"idle", "wait", "return"}
  /\ child \in {"none", "running", "stopped", "zombie", "reaped"}
  /\ pending \in BOOLEAN
  /\ masked \in BOOLEAN
  /\ results \subseteq {"main", "handler"} \X {"ok", "failed"}

Successes == {r \in results : r[2] = "ok"}

(* Two calls of wait compete for one child: exactly one of them succeeds,  *)
(* and main does not exit before the child is collected, whichever call    *)
(* comes first and however often SIGCHLD is generated.                     *)
OneWaitSucceeds ==
  /\ Cardinality(Successes) = IF child = "reaped" THEN 1 ELSE 0
  /\ pc = "exited" => child \in {"none", "reaped"}

(* While SIGCHLD is blocked it stays pending and no handler runs; wait     *)
(* does not need it delivered (the question assignment 9 asks).            *)
BlockedIsNotHandled ==
  masked =>
    /\ handler = "idle"
    /\ child \in {"zombie", "reaped"} => pending
    /\ pc = "exited" /\ child # "none" => <<"main", "ok">> \in results

(* A wait inside the handler can wait for the child of a stop, but never   *)
(* for good: main comes to its end.                                        *)
MainEnds == <>(pc = "exited")
=============================================================================

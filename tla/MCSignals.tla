------------------------------ MODULE MCSignals ------------------------------
(***************************************************************************)
(* The programs about a child and its signals, for TLC: one of them is     *)
(* run, the others have ended.                                             *)
(***************************************************************************)
EXTENDS SigchldWait

VARIABLES anchor, parent, offspring, installed, signals, frames, printed,
          step, sigset, mask, waiting, taken, told, unreliable

CONSTANT MayFail   \* the calls that may fail in the last two programs

Orphan == INSTANCE OrphanedGroup WITH GroupMayFail <- MayFail
Mask == INSTANCE ChildMask WITH MaskCallsMayFail <- MayFail

orphanVars == <<anchor, parent, offspring, installed, signals, frames, printed>>
maskVars == <<step, sigset, mask, waiting, taken, told, unreliable>>

WaitEnded ==
  /\ program = "sync" /\ pc = "exited" /\ handler = "idle" /\ child = "none"
  /\ pending = FALSE /\ masked = FALSE /\ results = {}

OrphanEnded ==
  /\ anchor = "none" /\ parent = "exited" /\ offspring = "unborn"
  /\ installed = {} /\ signals = {} /\ frames = << >> /\ printed = << >>

NoSignals == [p \in Mask!Procs |-> {}]
NoLines == [p \in Mask!Procs |-> << >>]

MaskEnded ==
  /\ step = [p \in Mask!Procs |-> "failed"]
  /\ sigset = NoSignals /\ mask = NoSignals /\ waiting = NoSignals
  /\ taken = NoLines /\ told = NoLines
  /\ unreliable = [p \in Mask!Procs |-> FALSE]

MCInit ==
  \/ Init /\ OrphanEnded /\ MaskEnded
  \/ WaitEnded /\ Orphan!Init /\ MaskEnded
  \/ WaitEnded /\ OrphanEnded /\ Mask!Init

MCNext ==
  \/ Next /\ UNCHANGED <<orphanVars, maskVars>>
  \/ Orphan!Next /\ UNCHANGED <<vars, maskVars>>
  \/ Mask!Next /\ UNCHANGED <<vars, orphanVars>>

MCSpec ==
  /\ MCInit
  /\ [][MCNext]_<<vars, orphanVars, maskVars>>
  /\ Fairness
  /\ Orphan!Fairness

-----------------------------------------------------------------------------
(* The type invariants of the programs.                                    *)
TypesOK == TypeOK /\ Orphan!TypeOK /\ Mask!TypeOK

(* sighup_sigcont.c: SIGHUP finds its handler, and both handlers or none   *)
(* run before the child goes on.                                           *)
HangupIsHandled == Orphan!HangupIsHandled

(* child_pending_signals_and_mask.c: no signal is lost, doubled or         *)
(* inherited, and what is printed about mask and pending signals is so.    *)
SignalsStayHome == Mask!SignalsStayHome /\ Mask!ReportsHold

(* The process that waits for its child and the child that its parent      *)
(* leaves stopped come to an end.                                          *)
ProgramsEnd == MainEnds /\ Orphan!ChildGoesOn
=============================================================================

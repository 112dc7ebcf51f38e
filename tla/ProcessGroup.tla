---------------------------- MODULE ProcessGroup ----------------------------
(***************************************************************************)
(* assignment_7/change_process_group.c: a process joins the process group  *)
(* of its cousin, having been told its number through a FIFO.  Every       *)
(* process sleeps when it is through.                                      *)
(***************************************************************************)
EXTENDS GroupSection

ASSUME GroupAssumption == MayFail \subseteq Calls /\ Punctual \in BOOLEAN

Init == SectionInit("fork")

ThenSleep == [p \in Procs |-> "sleep"]

Next == Group(ThenSleep)

Spec == Init /\ [][Next]_groupVars

(* Every process makes its calls: the scheduler runs what can run.         *)
FairSpec == Spec /\ WF_groupVars(Next)

TypeOK == GroupTypeOK(GroupPlaces)

(* Process 5 spins until process 3 has made the FIFO (line 30), and each   *)
(* of them blocks in opening it until the other one has (lines 30, 118).   *)
(* Once both run and process 3 has come to open it, the hand-over cannot   *)
(* hang, whichever call fails from there on: every process ends.           *)
HandOverEnds ==
  (pc[3] = "creat_blocked" /\ pc[5] # "unborn")
    ~> (\A p \in Procs : ~Alive(p))
=============================================================================

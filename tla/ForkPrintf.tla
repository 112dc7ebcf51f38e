----------------------------- MODULE ForkPrintf ------------------------------
(***************************************************************************)
(* test_fork_printf_buffering/fork_printf_buffering.c: a chain of three    *)
(* processes.  Process p forks process p + 1, prints 2p, waits for its     *)
(* child and prints 2p + 1; the last one only prints 4.  What printf       *)
(* leaves in the buffer of stdout is copied by fork and written out when   *)
(* the process ends.                                                       *)
(***************************************************************************)
EXTENDS Integers, Sequences, SequencesExt

CONSTANT ForkMayFail

ForkAssumption == ForkMayFail \in BOOLEAN

LastProc == 2
Procs == 0 .. LastProc

VARIABLES NO_NEWLINE,   \* the macro: with a newline, a terminal flushes
          pc,
          buffer,       \* per process: what its stdout has not written yet
          forked,       \* the processes that have a child
          output        \* what was written to the terminal

vars == <<NO_NEWLINE, pc, buffer, forked, output>>

(* Where a process starts: the last one does not fork. *)
Start(p) == IF p < LastProc THEN "fork" ELSE "print_first"

Init ==
  /\ NO_NEWLINE \in BOOLEAN
  /\ pc = [p \in Procs |-> IF p = 0 THEN Start(0) ELSE "unborn"]
  /\ buffer = [p \in Procs |-> << >>]
  /\ forked = {}
  /\ output = << >>

(* The code only tests fork() for zero: a failure, -1, counts as parent.   *)
Fork(p) ==
  /\ pc[p] = "fork"
  /\ \/ /\ pc' = [pc EXCEPT ![p] = "print_first", ![p + 1] = Start(p + 1)]
        /\ buffer' = [buffer EXCEPT ![p + 1] = buffer[p]]
        /\ forked' = forked \union {p}
     \/ /\ ForkMayFail
        /\ pc' = [pc EXCEPT ![p] = "print_first"]
        /\ UNCHANGED <<buffer, forked>>
  /\ UNCHANGED <<NO_NEWLINE, output>>

(* The macro print(x), on a terminal. *)
print(p, x) ==
  IF NO_NEWLINE
    THEN /\ buffer' = [buffer EXCEPT ![p] = Append(@, x)]
         /\ UNCHANGED output
    ELSE /\ output' = output \o Append(buffer[p], x)
         /\ buffer' = [buffer EXCEPT ![p] = << >>]

PrintFirst(p) ==
  /\ pc[p] = "print_first"
  /\ pc' = [pc EXCEPT ![p] = IF p < LastProc THEN "wait" ELSE "return"]
  /\ print(p, 2 * p)
  /\ UNCHANGED <<NO_NEWLINE, forked>>

(* Mutants of Wait: nobody is waited for; a child that was never forked is *)
(* waited for.                                                             *)
WaitForNobody(p) ==
  /\ pc[p] = "wait"
  /\ pc' = [pc EXCEPT ![p] = "print_second"]
  /\ UNCHANGED <<NO_NEWLINE, buffer, forked, output>>

WaitAnyway(p) ==
  /\ pc[p] = "wait"
  /\ pc[p + 1] = "exited"
  /\ pc' = [pc EXCEPT ![p] = "print_second"]
  /\ UNCHANGED <<NO_NEWLINE, buffer, forked, output>>

(* wait(NULL) returns at once when there is no child. *)
Wait(p) ==
  /\ pc[p] = "wait"
  /\ p \in forked => pc[p + 1] = "exited"
  /\ pc' = [pc EXCEPT ![p] = "print_second"]
  /\ UNCHANGED <<NO_NEWLINE, buffer, forked, output>>

PrintSecond(p) ==
  /\ pc[p] = "print_second"
  /\ pc' = [pc EXCEPT ![p] = "return"]
  /\ print(p, 2 * p + 1)
  /\ UNCHANGED <<NO_NEWLINE, forked>>

(* Mutant of Return: the process leaves by _exit, without flushing. *)
ReturnUnflushed(p) ==
  /\ pc[p] = "return"
  /\ pc' = [pc EXCEPT ![p] = "exited"]
  /\ UNCHANGED <<NO_NEWLINE, buffer, forked, output>>

(* Returning from main flushes the buffer. *)
Return(p) ==
  /\ pc[p] = "return"
  /\ pc' = [pc EXCEPT ![p] = "exited"]
  /\ output' = output \o buffer[p]
  /\ buffer' = [buffer EXCEPT ![p] = << >>]
  /\ UNCHANGED <<NO_NEWLINE, forked>>

Next ==
  \E p \in Procs :
    Fork(p) \/ PrintFirst(p) \/ Wait(p) \/ PrintSecond(p) \/ Return(p)

Spec == Init /\ [][Next]_vars

(* The scheduler runs what can run. *)
Fairness == WF_vars(Next)

-----------------------------------------------------------------------------
TypeOK ==
  /\ NO_NEWLINE \in BOOLEAN
  /\ pc \in [Procs -> {"unborn", "fork", "print_first", "wait",
                       "print_second", "return", "exited"}]
  /\ buffer \in [Procs -> Seq(0 .. 4)]
  /\ forked \subseteq Procs
  /\ output \in Seq(0 .. 4)

(* The numbers of the processes that exist, in the order the comment gives *)
(* for a build without newlines: 42301.                                    *)
BottomUp ==
  CASE pc[2] # "unborn" -> <<4, 2, 3, 0, 1>>
    [] pc[2] = "unborn" /\ pc[1] # "unborn" -> <<2, 3, 0, 1>>
    [] OTHER -> <<0, 1>>

(* Without newlines the processes write bottom up (lines 9 to 19), in      *)
(* every interleaving: whatever is out is the beginning of 42301.          *)
WithoutNewline ==
  NO_NEWLINE =>
    /\ Len(output) <= Len(BottomUp)
    /\ \A k \in 1 .. Len(output) : output[k] = BottomUp[k]

(* No number is written twice or lost: the buffers a fork copies are empty *)
(* (lines 50 to 61; the explanation of lines 31 to 45 does not hold).      *)
NumbersOnce ==
  /\ IsInjective(output)
  /\ pc[0] = "exited" => ToSet(output) = ToSet(BottomUp)

(* With or without newlines, a process writes its second number when all   *)
(* its descendants have written theirs.                                    *)
SecondNumberLast ==
  \A k, l \in 1 .. Len(output) :
    output[k] \in {1, 3} /\ output[l] > output[k] => l < k

(* All that the comments of lines 9 to 21 ask about the output.            *)
OutputIsRight == WithoutNewline /\ NumbersOnce /\ SecondNumberLast

(* Everybody comes to an end.                                              *)
Ends == <>[](\A p \in Procs : pc[p] \in {"unborn", "exited"})
=============================================================================

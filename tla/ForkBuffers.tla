----------------------------- MODULE ForkBuffers -----------------------------
(***************************************************************************)
(* Programs that print and fork without flushing in between:               *)
(* assignment_6/execution_time.c and inherit_ids.c and assignment_5/       *)
(* inherit_exit_handler.c.  On a terminal a line is written as it is       *)
(* printed; redirected to a file it stays in the buffer of stdout, which   *)
(* fork copies, until its process exits.  Nobody waits for a child.        *)
(***************************************************************************)
EXTENDS Integers, FiniteSets, Sequences, SequencesExt

CONSTANTS Loops,       \* the rounds of execution_time, 10 in the source
          MayNotFork

VARIABLES text,        \* which program runs
          redirected,  \* whether its output goes to a file
          todo,        \* per process: what it has left to do
          past,        \* what the parent has done
          buffer,      \* per process: the lines not written yet
          written      \* how often each line has been written

vars == <<text, redirected, todo, past, buffer, written>>

(* Something to do: a fork, an exit, or a line or more printed at once.     *)
fork(c) == <<"fork", c>>
exit == <<"exit", 0>>
IsFork(x) == x[1] = "fork"
IsLine(x) == x[1] \notin {"fork", "exit"}

(* exit() calls what atexit has registered. *)
exit_handler(p) ==
  IF text = "inherit_exit_handler" THEN <<<<"exit_handler", p>>, exit>>
                                   ELSE <<exit>>

(* Process 0 is the parent, process k what its k-th fork creates. *)
Processes == 0 .. Loops

(* What the parent of each program does, and its child c. *)
execution_time ==
  [k \in 1 .. 3 * Loops + 3 |->
     LET round == (k + 1) \div 3
     IN  CASE k = 1 -> <<"title", 0>>
           [] k = 3 * Loops + 2 -> <<"averages", 0>>
           [] k = 3 * Loops + 3 -> exit
           [] OTHER -> CASE k % 3 = 2 -> <<"getpid_took", round>>
                         [] k % 3 = 0 -> fork(round)
                         [] k % 3 = 1 -> <<"fork_took", round>>]
inherit_ids == <<<<"parent_ids", 0>>, fork(1), exit>>
inherit_exit_handler ==
  <<fork(1), <<"parent_done", 0>>, <<"exit_handler", 0>>, exit>>

parent == CASE text = "execution_time" -> execution_time
            [] text = "inherit_ids" -> inherit_ids
            [] text = "inherit_exit_handler" -> inherit_exit_handler

child(c) ==
  CASE text = "execution_time" -> exit_handler(c)
    [] text = "inherit_ids" -> <<<<"child_ids", c>>, exit>>
    [] text = "inherit_exit_handler" ->
         <<<<"child_done", c>>, <<"exit_handler", c>>, exit>>

Init ==
  /\ text \in {"execution_time", "inherit_ids", "inherit_exit_handler"}
  /\ redirected \in BOOLEAN
  /\ todo = [p \in Processes |-> IF p = 0 THEN parent ELSE << >>]
  /\ past = << >>
  /\ buffer = [p \in Processes |-> {}]
  /\ written = [l \in {} |-> 0]

(* written once all the lines of L have been written once more. *)
Write(L) ==
  written' = [l \in DOMAIN written \union L |->
                (IF l \in DOMAIN written THEN written[l] ELSE 0)
                + (IF l \in L THEN 1 ELSE 0)]

Advance(p) == /\ todo[p] # << >>
              /\ past' = IF p = 0 THEN Append(past, todo[0][1]) ELSE past
              /\ UNCHANGED <<text, redirected>>

PrintLine(p) ==
  /\ Advance(p)
  /\ IsLine(todo[p][1])
  /\ todo' = [todo EXCEPT ![p] = Tail(@)]
  /\ IF redirected
       THEN /\ buffer' = [buffer EXCEPT ![p] = @ \union {todo[p][1]}]
            /\ UNCHANGED written
       ELSE Write({todo[p][1]}) /\ UNCHANGED buffer

Fork ==
  /\ Advance(0)
  /\ IsFork(todo[0][1])
  /\ LET c == todo[0][1][2]
     IN  /\ todo' = [todo EXCEPT ![0] = Tail(@), ![c] = child(c)]
         /\ buffer' = [buffer EXCEPT ![c] = buffer[0]]
  /\ UNCHANGED written

(* main returns errno. *)
ForkFails ==
  /\ MayNotFork
  /\ todo[0] # << >>
  /\ IsFork(todo[0][1])
  /\ todo' = [todo EXCEPT ![0] = exit_handler(0)]
  /\ UNCHANGED <<text, redirected, past, buffer, written>>

(* Mutant of Flushed: a child leaves by _exit. *)
FlushedByParent(p) == IF p = 0 THEN buffer[0] ELSE {}

(* What is left in the buffer of stdout is written by exit. *)
Flushed(p) == buffer[p]

ProcessExits(p) ==
  /\ Advance(p)
  /\ todo[p][1] = exit
  /\ todo' = [todo EXCEPT ![p] = << >>]
  /\ Write(Flushed(p))
  /\ buffer' = [buffer EXCEPT ![p] = {}]

Next == Fork \/ ForkFails \/ \E p \in Processes : PrintLine(p) \/ ProcessExits(p)

Spec == Init /\ [][Next]_vars

Fairness == WF_vars(Next)

-----------------------------------------------------------------------------
TypeOK ==
  /\ text \in {"execution_time", "inherit_ids", "inherit_exit_handler"}
  /\ redirected \in BOOLEAN
  /\ Cardinality({k \in DOMAIN past : IsFork(past[k])}) \in 0 .. Loops
  /\ \A l \in DOMAIN written : written[l] \in 1 .. Loops + 1

(* How often a line has been written or is to be when the processes exit.  *)
Copies(l) ==
  (IF l \in DOMAIN written THEN written[l] ELSE 0)
  + Cardinality({p \in Processes : l \in buffer[p]})

(* On a terminal every line comes once.  In a file a line of the parent    *)
(* comes once more for every fork after it: the title of execution_time    *)
(* eleven times, the parent's ids of inherit_ids twice, but what the exit  *)
(* handler prints, after the fork, once for each of the two processes.     *)
(* This holds in every interleaving of the processes.                      *)
CopiesOfLines ==
  /\ \A k \in DOMAIN past : IsLine(past[k]) =>
       Copies(past[k]) =
         1 + IF redirected
               THEN Cardinality({m \in DOMAIN past : m > k /\ IsFork(past[m])}) ELSE 0
  /\ \A l \in DOMAIN written \ ToSet(past) : Copies(l) = 1

AllWritten == <>[](\A p \in Processes : todo[p] = << >> /\ buffer[p] = {})
=============================================================================

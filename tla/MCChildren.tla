----------------------------- MODULE MCChildren ------------------------------
(***************************************************************************)
(* The programs that only fork and print, for TLC: one of them is run, the *)
(* others have ended.                                                      *)
(***************************************************************************)
EXTENDS ChildStatuses

VARIABLES NO_NEWLINE, printer, buffer, forked, output,        \* ForkPrintf
          text, redirected, todo, past, unwritten, written,   \* ForkBuffers
          clock, initial_t, taken, total, calls               \* ElapsedTime

CONSTANTS Loops, Second, Longest, Measured

Printf == INSTANCE ForkPrintf WITH pc <- printer
Buffers == INSTANCE ForkBuffers WITH buffer <- unwritten, MayNotFork <- ForkMayFail
Elapsed == INSTANCE ElapsedTime

ASSUME ChildrenAssumption ==
  /\ Printf!ForkAssumption
  /\ {Loops, Second, Measured} \subseteq Nat \ {0}
  /\ Longest \in Nat

printfVars == <<NO_NEWLINE, printer, buffer, forked, output>>
buffersVars == <<text, redirected, todo, past, unwritten, written>>
elapsedVars == <<clock, initial_t, taken, total, calls>>
all == <<vars, printfVars, buffersVars, elapsedVars>>

StatusesEnded ==
  /\ pc = "returned" /\ i = 1 /\ pids = << >> /\ reports = << >>
  /\ child = [c \in Children |-> "unborn"]

PrintfEnded ==
  /\ NO_NEWLINE = FALSE /\ forked = {} /\ output = << >>
  /\ printer = [p \in Printf!Procs |-> "unborn"]
  /\ buffer = [p \in Printf!Procs |-> << >>]

BuffersEnded ==
  /\ text = "inherit_ids" /\ redirected = FALSE /\ past = << >>
  /\ todo = [p \in Buffers!Processes |-> << >>]
  /\ unwritten = [p \in Buffers!Processes |-> {}]
  /\ written = [l \in {} |-> 0]

ElapsedEnded ==
  /\ clock = 0 /\ initial_t = -1 /\ taken = 0 /\ total = 0 /\ calls = Measured

MCInit ==
  \/ Init /\ PrintfEnded /\ BuffersEnded /\ ElapsedEnded
  \/ StatusesEnded /\ Printf!Init /\ BuffersEnded /\ ElapsedEnded
  \/ StatusesEnded /\ PrintfEnded /\ Buffers!Init /\ ElapsedEnded
  \/ StatusesEnded /\ PrintfEnded /\ BuffersEnded /\ Elapsed!Init

MCNext ==
  \/ Next /\ UNCHANGED <<printfVars, buffersVars, elapsedVars>>
  \/ Printf!Next /\ UNCHANGED <<vars, buffersVars, elapsedVars>>
  \/ Buffers!Next /\ UNCHANGED <<vars, printfVars, elapsedVars>>
  \/ Elapsed!Next /\ UNCHANGED <<vars, printfVars, buffersVars>>

MCSpec ==
  /\ MCInit
  /\ [][MCNext]_all
  /\ Fairness
  /\ Printf!Fairness
  /\ Buffers!Fairness

-----------------------------------------------------------------------------
(* The type invariants of the programs.                                    *)
TypesOK == TypeOK /\ Printf!TypeOK /\ Buffers!TypeOK

(* What is printed: the numbers of fork_printf_buffering.c, whose order is *)
(* that of its comments; the lines of execution_time.c and of the programs *)
(* like it, as often as fork copies them; the times in these lines, off by *)
(* whole seconds.                                                          *)
OutputIsRight ==
  Printf!OutputIsRight /\ Buffers!CopiesOfLines /\ Elapsed!OffByWholeSeconds

(* Each program that is run comes to its end, all of it written.           *)
ProgramsEnd == ParentNeverBlocks /\ Printf!Ends /\ Buffers!AllWritten
=============================================================================

------------------------------ MODULE FifoCopy -------------------------------
(***************************************************************************)
(* assignment_3/client.c and server.c: the client sends the lines of its   *)
(* standard input through the FIFO "america", the server prints what it    *)
(* reads until the end of file.  A line is its number; what separates the  *)
(* lines is not sent, and an empty line sends nothing.                     *)
(*                                                                         *)
(* The server reads up to 300 bytes into an array of 100, so what it does  *)
(* is defined only as long as what is unread fits: the input of the model  *)
(* has fewer than 100 bytes.  Every read then takes all that is there, and *)
(* no write finds the pipe full.                                           *)
(***************************************************************************)
EXTENDS Integers, Sequences, SequencesExt

CONSTANTS Lines,     \* the number of lines of the input
          MayFail    \* the calls whose error branch may be taken

Calls == {"mkfifo", "open", "stat", "write", "read", "close"}

ASSUME FifoAssumption ==
  /\ Lines \in Nat
  /\ MayFail \subseteq Calls

VARIABLES pc,            \* where client and server are
          empty,         \* the empty lines of the input
          unterminated,  \* whether its last line lacks the newline
          fifo,          \* whether "america" exists
          met,           \* whether the two have met in opening it
          gotten,        \* how many lines the client has read
          pipe, received

vars == <<pc, empty, unterminated, fifo, met, gotten, pipe, received>>

(* Nothing removes "america": a run may find the one of a run before. *)
Init ==
  /\ pc = [client |-> "mkfifo", server |-> "open"]
  /\ empty \in SUBSET (1 .. Lines)
  /\ unterminated \in {b \in BOOLEAN : b => Lines > 0}
  /\ fifo \in BOOLEAN
  /\ met = FALSE
  /\ gotten = 0
  /\ pipe = << >>
  /\ received = << >>

(* A main that is over: it returned 0 ("done"), or an error or a signal    *)
(* ended it.  Either way its end of the FIFO is closed.                    *)
Ended(p) == pc[p] \in {"done", "failed"}

Other(p) == IF p = "client" THEN "server" ELSE "client"

Goto(p, from, to) ==
  /\ pc[p] = from
  /\ pc' = [pc EXCEPT ![p] = to]

Mkfifo ==
  /\ Goto("client", "mkfifo", IF fifo THEN "failed" ELSE "open")
  /\ fifo' = TRUE
  /\ UNCHANGED <<empty, unterminated, met, gotten, pipe, received>>

(* open() fails when there is no FIFO and blocks until both ends are open. *)
Open(p) ==
  /\ Goto(p, "open", IF fifo THEN "open_blocked" ELSE "failed")
  /\ met' = (fifo /\ pc[Other(p)] = "open_blocked")
  /\ UNCHANGED <<empty, unterminated, fifo, gotten, pipe, received>>

Opened(p) ==
  /\ met
  /\ Goto(p, "open_blocked", IF p = "client" THEN "gets" ELSE "read")
  /\ UNCHANGED <<empty, unterminated, fifo, met, gotten, pipe, received>>

(* gets(s), !feof(stdin): a last line that ends with the file and not with *)
(* a newline sets feof, so the loop ends without it.                       *)
LinesRead == IF unterminated THEN Lines - 1 ELSE Lines

(* Mutant of Gets: the end of the file is noticed one turn too late. *)
GetsOnceMore ==
  /\ IF gotten <= LinesRead
       THEN Goto("client", "gets", "stat_before") /\ gotten' = gotten + 1
       ELSE Goto("client", "gets", "close") /\ UNCHANGED gotten
  /\ UNCHANGED <<empty, unterminated, fifo, met, pipe, received>>

Gets ==
  /\ IF gotten < LinesRead
       THEN Goto("client", "gets", "stat_before") /\ gotten' = gotten + 1
       ELSE Goto("client", "gets", "close") /\ UNCHANGED gotten
  /\ UNCHANGED <<empty, unterminated, fifo, met, pipe, received>>

Stat(p, from, to) ==
  /\ Goto(p, from, to)
  /\ UNCHANGED <<empty, unterminated, fifo, met, gotten, pipe, received>>

(* Writing nothing does nothing, writing to a pipe without a reader kills  *)
(* the writer.  A write does not wait for the read.                        *)
Write ==
  /\ IF gotten \in empty
       THEN Goto("client", "write", "stat_after") /\ UNCHANGED pipe
     ELSE IF Ended("server")
       THEN Goto("client", "write", "failed") /\ UNCHANGED pipe
     ELSE /\ Goto("client", "write", "stat_after")
          /\ pipe' = Append(pipe, gotten)
  /\ UNCHANGED <<empty, unterminated, fifo, met, gotten, received>>

TakeAll ==
  /\ received' = received \o pipe
  /\ pipe' = << >>

(* Mutants of Read: an empty pipe is taken for the end of the file; the    *)
(* end of the file is not noticed.                                         *)
ReadDoesNotBlock ==
  /\ Goto("server", "read", IF pipe = << >> THEN "last_stat" ELSE "stat")
  /\ TakeAll
  /\ UNCHANGED <<empty, unterminated, fifo, met, gotten>>

ReadForEver ==
  /\ pipe # << >> \/ Ended("client")
  /\ Goto("server", "read", "stat")
  /\ TakeAll
  /\ UNCHANGED <<empty, unterminated, fifo, met, gotten>>

(* read() waits for data or, with the client's end closed, the end of file.*)
Read ==
  /\ pipe # << >> \/ Ended("client")
  /\ Goto("server", "read", IF pipe = << >> THEN "last_stat" ELSE "stat")
  /\ TakeAll
  /\ UNCHANGED <<empty, unterminated, fifo, met, gotten>>

Close(p) ==
  /\ Goto(p, "close", "done")
  /\ UNCHANGED <<empty, unterminated, fifo, met, gotten, pipe, received>>

(* A call that fails ends its process; exiting closes its end as close()   *)
(* would have done.                                                        *)
CallAt(p) ==
  CASE pc[p] \in {"stat_before", "stat_after", "stat", "last_stat"} -> "stat"
    [] OTHER -> pc[p]

CallFails(p) ==
  /\ CallAt(p) \in MayFail
  /\ Goto(p, pc[p], "failed")
  /\ UNCHANGED <<empty, unterminated, fifo, met, gotten, pipe, received>>

client ==
  \/ Mkfifo
  \/ Open("client")
  \/ Opened("client")
  \/ Gets
  \/ Stat("client", "stat_before", "write")
  \/ Write
  \/ Stat("client", "stat_after", "gets")
  \/ Close("client")
  \/ CallFails("client")

server ==
  \/ Open("server")
  \/ Opened("server")
  \/ Read
  \/ Stat("server", "stat", "read")
  \/ Stat("server", "last_stat", "close")
  \/ Close("server")
  \/ CallFails("server")

Next == client \/ server

Spec == Init /\ [][Next]_vars

(* Both processes are run; the client's input does not keep it waiting for *)
(* ever.                                                                   *)
Fairness == WF_vars(client) /\ WF_vars(server)

-----------------------------------------------------------------------------
TypeOK ==
  /\ pc \in [{"client", "server"} ->
               {"mkfifo", "open", "open_blocked", "gets", "stat_before", "write",
                "stat_after", "read", "stat", "last_stat", "close", "done",
                "failed"}]
  /\ empty \subseteq 1 .. Lines
  /\ unterminated \in BOOLEAN
  /\ fifo \in BOOLEAN
  /\ met \in BOOLEAN
  /\ gotten \in 0 .. Lines
  /\ pipe \in Seq(1 .. Lines)
  /\ received \in Seq(1 .. Lines)

(* The first n lines of the input, without the empty ones, in their order. *)
IsText(s, n) ==
  /\ \A j, k \in DOMAIN s : j < k => s[j] < s[k]
  /\ ToSet(s) = (1 .. n) \ empty

(* Whatever fails, what the server has printed (line 33) is the beginning  *)
(* of the input: nothing is skipped, doubled or reordered.  When both      *)
(* mains return 0 all of it has arrived, up to a last line without         *)
(* newline.  And the server ends its loop (line 40) by the client's end,   *)
(* not by an empty line or by an empty pipe.                               *)
CopyIsFaithful ==
  /\ \E n \in 0 .. LinesRead : IsText(received \o pipe, n)
  /\ pc["client"] = "done" /\ pc["server"] = "done" => IsText(received, LinesRead)
  /\ pc["server"] \in {"last_stat", "close"} => Ended("client") /\ pipe = << >>

(* Once the two have met, neither can hang on the other, in open or in a   *)
(* read of the empty pipe, whichever of them fails at whichever call.      *)
BothEnd == met ~> (Ended("client") /\ Ended("server"))
=============================================================================

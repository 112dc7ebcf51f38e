----------------------------- MODULE ElapsedTime -----------------------------
(***************************************************************************)
(* The measurements of assignment_6/execution_time.c: how long getpid and  *)
(* fork take, as differences of the microseconds within the second.  A     *)
(* call takes any time up to a bound; the clock is not set back.           *)
(***************************************************************************)
EXTENDS Integers

CONSTANTS Second,    \* microseconds in a second
          Longest,   \* how long a call may take, and what comes between two
          Measured   \* how many calls are measured, 20 in the source

VARIABLES clock,     \* microseconds since the start of a second
          initial_t, \* what is subtracted, or -1 between measurements
          taken,     \* what the calls measured so far have taken
          total,     \* the sum of what is printed about them
          calls

vars == <<clock, initial_t, taken, total, calls>>

Init ==
  /\ clock \in 0 .. Second - 1
  /\ initial_t = -1
  /\ taken = 0
  /\ total = 0
  /\ calls = 0

tv_usec(t) == t % Second

(* gettimeofday before the call, some time after the last measurement. *)
Begin ==
  /\ initial_t = -1
  /\ calls < Measured
  /\ \E d \in 0 .. Longest :
       /\ clock' = clock + d
       /\ initial_t' = tv_usec(clock + d)
  /\ UNCHANGED <<taken, total, calls>>

(* Mutant of Printed: one microsecond too many. *)
PrintedUp(now) == tv_usec(now) - initial_t + 1

Printed(now) == tv_usec(now) - initial_t

(* The call and gettimeofday after it; the line printed. *)
Finish ==
  /\ initial_t # -1
  /\ \E d \in 0 .. Longest :
       /\ clock' = clock + d
       /\ taken' = taken + d
       /\ total' = total + Printed(clock + d)
  /\ initial_t' = -1
  /\ calls' = calls + 1

Next == Begin \/ Finish

Spec == Init /\ [][Next]_vars

-----------------------------------------------------------------------------
(* The printed times add up to the time the calls took, less a whole number*)
(* of seconds, at most one for each second that has begun: the sum may be  *)
(* negative, and the averages (lines 47 and 48) are right while none has.  *)
OffByWholeSeconds ==
  /\ (taken - total) % Second = 0
  /\ taken - total \in 0 .. Second * (clock \div Second)
=============================================================================

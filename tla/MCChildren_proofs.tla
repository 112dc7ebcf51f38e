-------------------------- MODULE MCChildren_proofs --------------------------
(***************************************************************************)
(* What holds of print_child_statuses.c for any number of children, of     *)
(* fork_printf_buffering.c, of the lines of execution_time.c, inherit_ids.c*)
(* and inherit_exit_handler.c for any number of forks, and of the times of *)
(* execution_time.c for any length of a second.                            *)
(***************************************************************************)
EXTENDS MCChildren, SequenceTheorems, FiniteSetTheorems, TLAPS

-----------------------------------------------------------------------------
(* The parent that asks for its children's statuses.  Before it asks,      *)
(* child k is in slot k and nobody is collected; while it asks, the        *)
(* reports are about the first i children, and each is as old as its last  *)
(* news: NotYet for a child that is still there to be collected.           *)
Uncollected == {"running", "exited", "killed"}

Forking ==
  pc = "fork" =>
    /\ i >= 1
    /\ Len(pids) = i - 1
    /\ \A k \in 1 .. i - 1 : pids[k] = k /\ child[k] \in Uncollected
    /\ \A c \in Children : c >= i => child[c] = "unborn"
    /\ reports = << >>

Told(c) ==
  /\ reports[c].pid = c
  /\ child[c] \in Uncollected \union {"reaped", "reaped_killed"}
  /\ child[c] \in Uncollected => reports[c].status = NotYet
  /\ child[c] = "reaped" => reports[c].status = c % StatusRange
  /\ child[c] = "reaped_killed" => reports[c].status = 0

AllForked ==
  /\ i <= num_children
  /\ Len(pids) = num_children
  /\ \A k \in Children : pids[k] = k
  /\ Len(reports) = i
  /\ \A c \in 1 .. i : Told(c)
  /\ \A c \in Children : c > i => child[c] \in Uncollected

LeftAtOnce ==
  /\ ForkMayFail
  /\ i <= num_children
  /\ reports = << >>
  /\ \A c \in Children : child[c] \in Uncollected \union {"unborn"}

StatusInv ==
  /\ TypeOK
  /\ Forking
  /\ pc = "waitpid" => AllForked
  /\ pc = "returned" => LeftAtOnce \/ (AllForked /\ i = num_children)

LEMMA StatusInit == Init => StatusInv
  BY StatusAssumption DEF Init, StatusInv, TypeOK, Forking, Children

LEMMA StatusStep == ASSUME StatusInv, [Next]_vars PROVE StatusInv'
<1> USE StatusAssumption DEF StatusInv, TypeOK, Children
<1>1. CASE Fork
  <2>1. CASE /\ child' = [child EXCEPT ![i] = "running"]
             /\ pids' = Append(pids, i) /\ i' = i + 1 /\ UNCHANGED <<pc, reports>>
    <3>1. pc = "fork" /\ i \in Children /\ Len(pids) = i - 1
      BY <1>1 DEF Fork, Forking
    <3>2. /\ pids' \in Seq(Children) /\ Len(pids') = i
          /\ \A k \in 1 .. i - 1 : pids'[k] = pids[k]
          /\ pids'[i] = i
      BY <2>1, <3>1, AppendProperties
    <3>3. TypeOK'
      BY <2>1, <3>1, <3>2
    <3>4. \A k \in 1 .. i : pids'[k] = k /\ child'[k] \in Uncollected
      BY <2>1, <3>1, <3>2 DEF Forking, Uncollected
    <3>5. \A c \in Children : c >= i + 1 => child'[c] = "unborn"
      BY <2>1, <3>1 DEF Forking
    <3> QED
      BY <2>1, <3>1, <3>2, <3>3, <3>4, <3>5 DEF Forking
  <2>2. CASE /\ ForkMayFail /\ pc' = "returned"
             /\ UNCHANGED <<child, pids, i, reports>>
    <3>1. LeftAtOnce'
      BY <1>1, <2>2 DEF Fork, Forking, LeftAtOnce
    <3> QED
      BY <2>2, <3>1 DEF Forking
  <2> QED
    BY <1>1, <2>1, <2>2 DEF Fork
<1>2. CASE Sleep
  <2>1. i = num_children + 1 /\ pc = "fork"
    BY <1>2 DEF Sleep
  <2>2. AllForked'
    BY <1>2, <2>1, EmptySeq DEF Sleep, Forking, AllForked
  <2> QED
    BY <1>2, <2>2 DEF Sleep, Forking
<1>3. CASE Waitpid
  <2> DEFINE c == i + 1
             r == [pid |-> c, status |-> Report(c)]
  <2>1. /\ AllForked /\ pc = "waitpid" /\ i < num_children
        /\ c \in Children /\ pids[i + 1] = c /\ child[c] \in Uncollected
    BY <1>3 DEF Waitpid, AllForked
  <2>2. /\ reports' = Append(reports, r)
        /\ child' = [child EXCEPT ![c] =
                       IF @ = "exited" THEN "reaped"
                       ELSE IF @ = "killed" THEN "reaped_killed" ELSE @]
        /\ i' = i + 1 /\ UNCHANGED <<pc, pids>>
    BY <1>3, <2>1 DEF Waitpid
  <2>3. /\ child[c] = "running" => Report(c) = NotYet
        /\ child[c] = "exited" => Report(c) = c % StatusRange
        /\ child[c] = "killed" => Report(c) = 0
        /\ Report(c) \in {NotYet} \union 0 .. StatusRange - 1
    <3>1. c % StatusRange \in 0 .. StatusRange - 1
      BY <2>1
    <3>2. CASE child[c] = "running"
      BY <3>2 DEF Report, NotYet
    <3>3. CASE child[c] = "exited"
      BY <3>1, <3>3 DEF Report, ExitStatus
    <3>4. CASE child[c] = "killed"
      BY <3>4 DEF Report
    <3> QED
      BY <2>1, <3>2, <3>3, <3>4 DEF Uncollected
  <2> HIDE DEF c
  <2>4. /\ reports' \in Seq([pid : Children, status : {NotYet} \union 0 .. StatusRange - 1])
        /\ Len(reports') = i + 1
        /\ \A k \in 1 .. i : reports'[k] = reports[k]
        /\ reports'[i + 1] = r
    <3>1. r \in [pid : Children, status : {NotYet} \union 0 .. StatusRange - 1]
      BY <2>1, <2>3
    <3>2. Len(reports) = i
      BY <2>1 DEF AllForked
    <3> HIDE DEF r
    <3> QED
      BY <2>2, <3>1, <3>2, AppendProperties
  <2>5. ASSUME NEW k \in 1 .. i + 1 PROVE Told(k)'
    <3>1. CASE k = c
      BY <2>1, <2>2, <2>3, <2>4, <3>1 DEF Told, Uncollected, c
    <3>2. CASE k # c
      <4>1. k \in 1 .. i /\ Told(k)
        BY <2>1, <3>2 DEF AllForked, c
      <4> QED
        BY <2>2, <2>4, <3>2, <4>1 DEF Told
    <3> QED
      BY <3>1, <3>2
  <2>6. ASSUME NEW k \in Children, k > i + 1 PROVE child'[k] \in Uncollected
    BY <2>1, <2>2, <2>6 DEF AllForked, c
  <2>7. AllForked'
    BY <2>1, <2>2, <2>4, <2>5, <2>6 DEF AllForked, c
  <2> QED
    BY <2>1, <2>2, <2>4, <2>7 DEF Forking
<1>4. CASE Return
  BY <1>4 DEF Return, Forking, AllForked, Told
<1>5. ASSUME NEW c \in Children, ChildExits(c) \/ ChildKilled(c) PROVE StatusInv'
  <2>1. /\ child[c] = "running" /\ child' \in [Children -> Uncollected \union
             {"unborn", "reaped", "reaped_killed"}]
        /\ child'[c] \in Uncollected
        /\ \A d \in Children : d # c => child'[d] = child[d]
        /\ UNCHANGED <<pc, i, pids, reports>>
    BY <1>5 DEF ChildExits, ChildKilled, Uncollected
  <2>2. Forking'
    BY <2>1 DEF Forking, Uncollected
  <2>3. ASSUME NEW d \in Children, Told(d) PROVE Told(d)'
    BY <2>1, <2>3 DEF Told, Uncollected
  <2>4. AllForked => AllForked'
    BY <2>1, <2>3 DEF AllForked
  <2>5. LeftAtOnce => LeftAtOnce'
    BY <2>1 DEF LeftAtOnce
  <2> QED
    BY <2>1, <2>2, <2>4, <2>5 DEF Uncollected
<1>6. CASE UNCHANGED vars
  BY <1>6 DEF vars, Forking, AllForked, Told, LeftAtOnce
<1> QED
  BY <1>1, <1>2, <1>3, <1>4, <1>5, <1>6 DEF Next, main

LEMMA StatusInvSuffices == StatusInv => ReportsAreTrue
<1> SUFFICES ASSUME StatusInv PROVE ReportsAreTrue
  OBVIOUS
<1> USE StatusAssumption DEF StatusInv, TypeOK, Children
<1>1. DOMAIN reports = 1 .. Len(reports)
  OBVIOUS
<1>2. CASE AllForked
  <2>1. ASSUME NEW c \in Children
        PROVE  LET status == {reports[k].status :
                               k \in {l \in DOMAIN reports : reports[l].pid = c}}
               IN  status = IF c <= i THEN {reports[c].status} ELSE {}
    <3>1. {l \in DOMAIN reports : reports[l].pid = c} = IF c <= i THEN {c} ELSE {}
      BY <1>1, <1>2 DEF AllForked, Told
    <3> QED
      BY <3>1
  <2>2. StatusesAreTrue
    <3> SUFFICES ASSUME NEW c \in Children
                 PROVE  LET status == {reports[k].status :
                              k \in {l \in DOMAIN reports : reports[l].pid = c}}
                        IN  /\ child[c] = "reaped" => status = {c % StatusRange}
                            /\ child[c] = "reaped_killed" => status = {0}
                            /\ child[c] \notin {"reaped", "reaped_killed"} =>
                                 status \subseteq {NotYet}
      BY DEF StatusesAreTrue
    <3>1. CASE c <= i
      <4>1. Told(c)
        BY <1>2, <3>1 DEF AllForked
      <4> QED
        BY <2>1, <3>1, <4>1 DEF Told, Uncollected
    <3>2. CASE ~(c <= i)
      <4>1. child[c] \in Uncollected
        BY <1>2, <3>2 DEF AllForked
      <4> QED
        BY <2>1, <3>2, <4>1 DEF Uncollected
    <3> QED
      BY <3>1, <3>2
  <2>3. AllReported
    <3>1. CASE i = num_children
      BY <1>1, <1>2, <3>1 DEF AllReported, AllForked, Told
    <3>2. CASE i # num_children
      BY <1>2, <3>2 DEF AllReported, LeftAtOnce
    <3> QED
      BY <3>1, <3>2
  <2> QED
    BY <2>2, <2>3 DEF ReportsAreTrue
<1>3. CASE reports = << >> /\ (pc = "returned" => LeftAtOnce)
           /\ \A c \in Children : child[c] \in Uncollected \union {"unborn"}
  <2>1. StatusesAreTrue
    <3> SUFFICES ASSUME NEW c \in Children
                 PROVE  LET status == {reports[k].status :
                              k \in {l \in DOMAIN reports : reports[l].pid = c}}
                        IN  /\ child[c] = "reaped" => status = {c % StatusRange}
                            /\ child[c] = "reaped_killed" => status = {0}
                            /\ child[c] \notin {"reaped", "reaped_killed"} =>
                                 status \subseteq {NotYet}
      BY DEF StatusesAreTrue
    <3>1. {l \in DOMAIN reports : reports[l].pid = c} = {}
      BY <1>3
    <3>2. child[c] \notin {"reaped", "reaped_killed"}
      BY <1>3 DEF Uncollected
    <3> QED
      BY <3>1, <3>2
  <2>2. AllReported
    BY <1>3 DEF AllReported, LeftAtOnce
  <2> QED
    BY <2>1, <2>2 DEF ReportsAreTrue
<1>4. pc = "fork" =>
       reports = << >> /\ \A c \in Children : child[c] \in Uncollected \union {"unborn"}
  BY DEF Forking
<1> QED
  BY <1>2, <1>3, <1>4 DEF LeftAtOnce

(* Each child is reported once and truly, for any number of children and   *)
(* any of them done or not when it is asked for.                           *)
THEOREM ChildrenAreReported == Spec => []ReportsAreTrue
<1>1. Init => StatusInv
  BY StatusInit
<1>2. StatusInv /\ [Next]_vars => StatusInv'
  BY StatusStep
<1>3. StatusInv => ReportsAreTrue
  BY StatusInvSuffices
<1> QED
  BY <1>1, <1>2, <1>3, PTL DEF Spec

(* The types of its variables.                                             *)
THEOREM TypeCorrect == Spec => []TypeOK
<1>1. Init => StatusInv
  BY StatusInit
<1>2. StatusInv /\ [Next]_vars => StatusInv'
  BY StatusStep
<1>3. StatusInv => TypeOK
  BY DEF StatusInv
<1> QED
  BY <1>1, <1>2, <1>3, PTL DEF Spec

-----------------------------------------------------------------------------
(* The measurements.  What is printed falls short of what has passed by a  *)
(* second for each time the microseconds have wrapped around in a call.    *)
Seconds(t) == t \div Second

LEMMA Wraps ==
  ASSUME NEW t \in Nat
  PROVE  /\ Seconds(t) \in Nat
         /\ Elapsed!tv_usec(t) \in 0 .. Second - 1
         /\ t = Second * Seconds(t) + Elapsed!tv_usec(t)
  BY ChildrenAssumption DEF Seconds, Elapsed!tv_usec

LEMMA SecondsGrow ==
  ASSUME NEW t \in Nat, NEW d \in Nat
  PROVE  Seconds(t) <= Seconds(t + d)
<1>1. t + d \in Nat /\ Second \in Nat \ {0}
  BY ChildrenAssumption
<1>2. CASE Seconds(t + d) < Seconds(t)
  <2>1. Second * Seconds(t + d) + Second <= Second * Seconds(t)
    <3>1. Seconds(t + d) + 1 <= Seconds(t) /\ Seconds(t) \in Nat /\ Seconds(t + d) \in Nat
      BY <1>1, <1>2, Wraps
    <3> QED
      BY <1>1, <3>1
  <2> QED
    BY <1>1, <2>1, Wraps
<1> QED
  BY <1>1, <1>2, Wraps

ElapsedInv ==
  /\ clock \in Nat /\ taken \in Int /\ total \in Int
  /\ initial_t \in {-1, Elapsed!tv_usec(clock)}
  /\ \E wraps \in 0 .. Seconds(clock) : taken - total = Second * wraps

LEMMA ElapsedInit == Elapsed!Init => ElapsedInv
<1> SUFFICES ASSUME Elapsed!Init PROVE ElapsedInv
  OBVIOUS
<1>1. clock \in Nat
  BY ChildrenAssumption DEF Elapsed!Init
<1>2. 0 \in 0 .. Seconds(clock) /\ taken - total = Second * 0
  BY <1>1, ChildrenAssumption, Wraps DEF Elapsed!Init
<1> QED
  BY <1>1, <1>2 DEF Elapsed!Init, ElapsedInv

LEMMA ElapsedStep == ASSUME ElapsedInv, [Elapsed!Next]_elapsedVars PROVE ElapsedInv'
<1>1. PICK wraps \in 0 .. Seconds(clock) : taken - total = Second * wraps
  BY DEF ElapsedInv
<1>2. /\ clock \in Nat /\ taken \in Int /\ total \in Int
      /\ Second \in Nat \ {0} /\ Longest \in Nat
  BY ChildrenAssumption DEF ElapsedInv
<1>3. CASE Elapsed!Begin
  <2>1. PICK d \in 0 .. Longest :
          clock' = clock + d /\ initial_t' = Elapsed!tv_usec(clock + d)
    BY <1>3 DEF Elapsed!Begin
  <2>2. /\ Seconds(clock) \in Nat /\ Seconds(clock') \in Nat
        /\ Seconds(clock) <= Seconds(clock')
    <3>1. d \in Nat /\ clock + d \in Nat
      BY <1>2, <2>1
    <3>2. Seconds(clock) \in Nat /\ Seconds(clock + d) \in Nat
      BY <1>2, <3>1, Wraps
    <3>3. Seconds(clock) <= Seconds(clock + d)
      BY <1>2, <3>1, SecondsGrow
    <3>4. Seconds(clock') = Seconds(clock + d)
      BY <2>1
    <3> QED
      BY <3>2, <3>3, <3>4
  <2>3. wraps \in 0 .. Seconds(clock')
    BY <1>1, <2>2
  <2> QED
    BY <1>1, <1>2, <1>3, <2>1, <2>3 DEF Elapsed!Begin, ElapsedInv, Seconds
<1>4. CASE Elapsed!Finish
  <2>1. PICK d \in 0 .. Longest :
          /\ clock' = clock + d /\ taken' = taken + d
          /\ total' = total + Elapsed!Printed(clock + d)
    BY <1>4 DEF Elapsed!Finish
  <2> DEFINE more == Seconds(clock + d) - Seconds(clock)
  <2>2. initial_t = Elapsed!tv_usec(clock)
    BY <1>4 DEF Elapsed!Finish, ElapsedInv
  <2>3. /\ Seconds(clock) \in Nat /\ Seconds(clock + d) \in Nat
        /\ more \in Nat
        /\ Elapsed!tv_usec(clock) \in Int /\ Elapsed!tv_usec(clock + d) \in Int
        /\ clock = Second * Seconds(clock) + Elapsed!tv_usec(clock)
        /\ clock + d = Second * Seconds(clock + d) + Elapsed!tv_usec(clock + d)
    <3>1. d \in Nat /\ clock + d \in Nat
      BY <1>2, <2>1
    <3>2. /\ Seconds(clock) \in Nat /\ Elapsed!tv_usec(clock) \in 0 .. Second - 1
          /\ clock = Second * Seconds(clock) + Elapsed!tv_usec(clock)
      BY <1>2, Wraps
    <3>3. /\ Seconds(clock + d) \in Nat /\ Elapsed!tv_usec(clock + d) \in 0 .. Second - 1
          /\ clock + d = Second * Seconds(clock + d) + Elapsed!tv_usec(clock + d)
      BY <3>1, Wraps
    <3>4. Seconds(clock) <= Seconds(clock + d)
      BY <1>2, <3>1, SecondsGrow
    <3> QED
      BY <1>2, <3>2, <3>3, <3>4
  <2>4. /\ total' \in Int /\ taken' \in Int
        /\ taken' - total' = Second * (wraps + more)
    <3>1. total' = total + Elapsed!tv_usec(clock + d) - Elapsed!tv_usec(clock)
      BY <1>2, <2>1, <2>2, <2>3 DEF Elapsed!Printed
    <3>2. Second * more = Second * Seconds(clock + d) - Second * Seconds(clock)
      BY <1>2, <2>3
    <3>3. Second * (wraps + more) = Second * wraps + Second * more
      BY <1>2, <2>3
    <3> QED
      BY <1>1, <1>2, <2>1, <2>3, <3>1, <3>2, <3>3
  <2>5. wraps + more \in 0 .. Seconds(clock')
    BY <1>1, <2>1, <2>3
  <2>6. clock' \in Nat /\ initial_t' = -1
    BY <1>2, <1>4, <2>1 DEF Elapsed!Finish
  <2> QED
    BY <2>4, <2>5, <2>6 DEF ElapsedInv, Seconds
<1>5. CASE UNCHANGED elapsedVars
  BY <1>5 DEF elapsedVars, ElapsedInv, Seconds, Elapsed!tv_usec
<1> QED
  BY <1>3, <1>4, <1>5 DEF Elapsed!Next

LEMMA WholeSeconds ==
  ASSUME NEW w \in Nat
  PROVE  Elapsed!tv_usec(Second * w) = 0
<1> DEFINE n == Second * w
           q == Seconds(n)
           r == Elapsed!tv_usec(n)
<1>1. Second \in Nat \ {0} /\ n \in Nat
  BY ChildrenAssumption
<1>2. q \in Nat /\ r \in 0 .. Second - 1 /\ n = Second * q + r
  BY <1>1, Wraps
<1>3. n = Second * w
  OBVIOUS
<1> HIDE DEF n, q, r
<1>4. ~ q < w
  <2>1. q < w => Second * (q + 1) <= Second * w
    BY <1>1, <1>2
  <2>2. Second * (q + 1) = Second * q + Second
    BY <1>1, <1>2
  <2> QED
    BY <1>1, <1>2, <1>3, <2>1, <2>2
<1>5. ~ w < q
  <2>1. w < q => Second * (w + 1) <= Second * q
    BY <1>1, <1>2
  <2>2. Second * (w + 1) = Second * w + Second
    BY <1>1
  <2> QED
    BY <1>1, <1>2, <1>3, <2>1, <2>2
<1>6. q = w
  BY <1>2, <1>4, <1>5
<1>7. r = 0
  BY <1>1, <1>2, <1>3, <1>6
<1> QED
  BY <1>7 DEF r, n

LEMMA ElapsedInvSuffices == ElapsedInv => Elapsed!OffByWholeSeconds
<1> SUFFICES ASSUME ElapsedInv PROVE Elapsed!OffByWholeSeconds
  OBVIOUS
<1>1. PICK wraps \in 0 .. Seconds(clock) : taken - total = Second * wraps
  BY DEF ElapsedInv
<1>2. clock \in Nat /\ Second \in Nat \ {0} /\ Seconds(clock) \in Nat
  BY ChildrenAssumption, Wraps DEF ElapsedInv
<1>3. (Second * wraps) % Second = 0
  <2>1. wraps \in Nat
    BY <1>1, <1>2
  <2>2. Elapsed!tv_usec(Second * wraps) = 0
    BY <2>1, WholeSeconds
  <2> QED
    BY <2>2 DEF Elapsed!tv_usec
<1>4. Second * wraps \in 0 .. Second * Seconds(clock)
  BY <1>1, <1>2
<1> QED
  BY <1>1, <1>3, <1>4 DEF Elapsed!OffByWholeSeconds, Seconds

(* execution_time.c: the printed times are off by whole seconds, however   *)
(* long a call takes, and by none before the first second is over.         *)
THEOREM TimesAreOffByWholeSeconds == Elapsed!Spec => []Elapsed!OffByWholeSeconds
<1>1. Elapsed!Init => ElapsedInv
  BY ElapsedInit
<1>2. ElapsedInv /\ [Elapsed!Next]_Elapsed!vars => ElapsedInv'
  BY ElapsedStep DEF elapsedVars, Elapsed!vars
<1>3. ElapsedInv => Elapsed!OffByWholeSeconds
  BY ElapsedInvSuffices
<1> QED
  BY <1>1, <1>2, <1>3, PTL DEF Elapsed!Spec
-----------------------------------------------------------------------------
(* fork_printf_buffering.c.  A process that has waited has no child left.  *)
(* Without newlines a buffer holds what its process has printed, and what  *)
(* has been written are the numbers of the processes that have ended, the  *)
(* deepest first.  With newlines each number is out once it is printed.    *)
Waited(p) == printer[p] \in {"print_second", "return", "exited"}

Chain ==
  /\ \A p \in {0, 1} :
       /\ p \in forked <=> printer[p + 1] # "unborn"
       /\ p \in forked => printer[p] \notin {"unborn", "fork"}
       /\ p \in forked /\ Waited(p) => printer[p + 1] = "exited"
  /\ 2 \notin forked
  /\ printer[2] \notin {"fork", "wait", "print_second"}

Numbers(p) == IF p = 2 THEN <<4>> ELSE <<2 * p, 2 * p + 1>>

Held(p) ==
  CASE printer[p] \in {"wait", "print_second"} -> <<2 * p>>
    [] printer[p] = "return" -> Numbers(p)
    [] OTHER -> << >>

Flushed(p) == IF printer[p] = "exited" THEN Numbers(p) ELSE << >>

AtTheEnd ==
  NO_NEWLINE =>
    /\ \A p \in Printf!Procs : buffer[p] = Held(p)
    /\ output = Flushed(2) \o Flushed(1) \o Flushed(0)

(* x has been printed. *)
IsOut(x) ==
  CASE x \in {0, 2, 4} -> printer[x \div 2] \notin {"unborn", "fork", "print_first"}
    [] OTHER -> printer[x \div 2] \in {"return", "exited"}

AtOnce ==
  ~NO_NEWLINE =>
    /\ \A p \in Printf!Procs : buffer[p] = << >>
    /\ \A x \in 0 .. 4 : IsOut(x) <=> x \in Printf!ToSet(output)
    /\ Printf!IsInjective(output)
    /\ Printf!SecondNumberLast

PrintfInv == Printf!TypeOK /\ Chain /\ AtTheEnd /\ AtOnce

LEMMA AppendTwo == ASSUME NEW a, NEW b PROVE Append(<<a>>, b) = <<a, b>>
<1> DEFINE S == {a, b}
           push == Append(<<a>>, b)
           both == <<a, b>>
<1>1. <<a>> \in Seq(S) /\ both \in Seq(S) /\ Len(both) = 2 /\ both[1] = a /\ both[2] = b
  OBVIOUS
<1>2. push \in Seq(S) /\ Len(push) = 2 /\ push[1] = a /\ push[2] = b
  BY <1>1, AppendProperties
<1> HIDE DEF push, both, S
<1>3. push = both
  BY <1>1, <1>2, SeqEqual
<1> QED
  BY <1>3 DEF push, both

LEMMA EmptyConcat == << >> \o << >> \o << >> = << >>
  OBVIOUS

LEMMA PrintfInit == Printf!Init \/ PrintfEnded => PrintfInv
<1> SUFFICES ASSUME Printf!Init \/ PrintfEnded PROVE PrintfInv
  OBVIOUS
<1> USE DEF Printf!Init, PrintfEnded, Printf!Procs, Printf!LastProc, Printf!Start
<1>0. Printf!Procs = {0, 1, 2}
  OBVIOUS
<1>1. Printf!TypeOK
  BY EmptySeq DEF Printf!TypeOK
<1>2. Chain
  BY DEF Chain, Waited
<1>3. AtTheEnd
  <2>1. \A p \in Printf!Procs : buffer[p] = << >> /\ Held(p) = << >> /\ Flushed(p) = << >>
    BY DEF Held, Flushed
  <2>2. output = Flushed(2) \o Flushed(1) \o Flushed(0)
    BY <2>1, EmptyConcat, <1>0
  <2> QED
    BY <2>1, <2>2 DEF AtTheEnd
<1>4. AtOnce
  BY DEF AtOnce, IsOut, Printf!ToSet, Printf!IsInjective, Printf!SecondNumberLast
<1> QED
  BY <1>1, <1>2, <1>3, <1>4 DEF PrintfInv

(* What is written without newlines changes when a process ends.           *)
LEMMA HeldBack ==
  ASSUME AtTheEnd, UNCHANGED <<NO_NEWLINE, output>>,
         \A p \in Printf!Procs : printer'[p] = "exited" <=> printer[p] = "exited",
         NO_NEWLINE => \A p \in Printf!Procs : buffer'[p] = Held(p)'
  PROVE  AtTheEnd'
<1> USE DEF Printf!Procs, Printf!LastProc
<1>1. \A p \in Printf!Procs : Flushed(p)' = Flushed(p)
  BY DEF Flushed
<1>2. 0 \in Printf!Procs /\ 1 \in Printf!Procs /\ 2 \in Printf!Procs
  OBVIOUS
<1> QED
  BY <1>1, <1>2 DEF AtTheEnd

(* With newlines a number is added to the output.                          *)
LEMMA NumberOut ==
  ASSUME Printf!TypeOK, AtOnce, ~NO_NEWLINE, UNCHANGED NO_NEWLINE,
         NEW p \in Printf!Procs, NEW x \in 0 .. 4,
         Printf!print(p, x),
         ~IsOut(x), \A y \in 0 .. 4 : IsOut(y)' <=> y = x \/ IsOut(y),
         \A y \in {1, 3} : y < x => ~IsOut(y)
  PROVE  AtOnce' /\ output' \in Seq(0 .. 4)
<1> USE DEF Printf!TypeOK
<1>1. output' = Append(output, x) /\ \A q \in Printf!Procs : buffer'[q] = << >>
  <2>1. buffer[p] = << >>
    BY DEF AtOnce
  <2>3. Append(<< >>, x) = <<x>>
    OBVIOUS
  <2>2. output \o <<x>> = Append(output, x)
    BY AppendIsConcat
  <2> QED
    BY <2>1, <2>2, <2>3 DEF Printf!print, AtOnce
<1>2. /\ output' \in Seq(0 .. 4) /\ Len(output') = Len(output) + 1
      /\ output'[Len(output) + 1] = x
      /\ \A k \in 1 .. Len(output) : output'[k] = output[k]
      /\ DOMAIN output' = 1 .. Len(output) + 1 /\ DOMAIN output = 1 .. Len(output)
  BY <1>1, AppendProperties, LenProperties
<1>3. \A y \in 0 .. 4 : y \in Printf!ToSet(output') <=> y = x \/ y \in Printf!ToSet(output)
  BY <1>2 DEF Printf!ToSet
<1>4. \A k \in 1 .. Len(output) : output[k] \in 0 .. 4 /\ output[k] # x /\ IsOut(output[k])
  <2> TAKE k \in 1 .. Len(output)
  <2>1. output[k] \in 0 .. 4 /\ output[k] \in Printf!ToSet(output)
    BY <1>2, ElementOfSeq DEF Printf!ToSet
  <2>2. IsOut(output[k])
    BY <2>1 DEF AtOnce
  <2> QED
    BY <2>1, <2>2
<1>5. Printf!IsInjective(output')
  <2>1. \A k, l \in 1 .. Len(output) : output[k] = output[l] => k = l
    BY <1>2 DEF AtOnce, Printf!IsInjective
  <2> QED
    BY <1>2, <1>4, <2>1 DEF Printf!IsInjective
<1>6. Printf!SecondNumberLast'
  <2>1. \A k, l \in 1 .. Len(output) :
          output[k] \in {1, 3} /\ output[l] > output[k] => l < k
    BY DEF AtOnce, Printf!SecondNumberLast
  <2>2. \A k \in 1 .. Len(output) : ~(output[k] \in {1, 3} /\ x > output[k])
    BY <1>4
  <2>3. ASSUME NEW k \in 1 .. Len(output) + 1, NEW l \in 1 .. Len(output) + 1,
               output'[k] \in {1, 3}, output'[l] > output'[k]
        PROVE  l < k
    <3>1. CASE k \in 1 .. Len(output) /\ l \in 1 .. Len(output)
      BY <1>2, <2>1, <2>3, <3>1
    <3>2. CASE k \in 1 .. Len(output) /\ l = Len(output) + 1
      BY <1>2, <2>2, <2>3, <3>2
    <3>3. CASE k = Len(output) + 1
      BY <1>2, <2>3, <3>3
    <3> QED
      BY <1>2, <3>1, <3>2, <3>3
  <2> QED
    BY <1>2, <2>3 DEF Printf!SecondNumberLast
<1> QED
  BY <1>1, <1>2, <1>3, <1>5, <1>6 DEF AtOnce

LEMMA PrintfStep == ASSUME PrintfInv, [Printf!Next]_printfVars PROVE PrintfInv'
<1> USE DEF PrintfInv, Printf!Procs, Printf!LastProc, Printf!Start, Printf!TypeOK
<1>0. Printf!Procs = {0, 1, 2}
  OBVIOUS
<1>1. ASSUME NEW p \in Printf!Procs, Printf!Fork(p) PROVE PrintfInv'
  <2>0. p \in {0, 1}
    BY <1>1 DEF Chain, Printf!Fork
  <2>1. Printf!TypeOK'
    BY <1>1, <2>0, EmptySeq DEF Printf!Fork, AtTheEnd, AtOnce
  <2>2. Chain'
    BY <1>1, <2>0 DEF Printf!Fork, Chain, Waited
  <2>3. AtTheEnd'
    <3>1. \A q \in Printf!Procs : printer'[q] = "exited" <=> printer[q] = "exited"
      BY <1>1, <2>0 DEF Printf!Fork, Chain
    <3>2. NO_NEWLINE => \A q \in Printf!Procs : buffer'[q] = Held(q)'
      BY <1>1, <2>0 DEF Printf!Fork, Chain, AtTheEnd, Held
    <3> QED
      BY <1>1, <3>1, <3>2, HeldBack DEF Printf!Fork
  <2>4. AtOnce'
    BY <1>1, <2>0 DEF Printf!Fork, Chain, AtOnce, IsOut, Printf!SecondNumberLast
  <2> QED
    BY <2>1, <2>2, <2>3, <2>4
<1>2. ASSUME NEW p \in Printf!Procs, Printf!PrintFirst(p) PROVE PrintfInv'
  <2>2. Chain'
    BY <1>2 DEF Printf!PrintFirst, Chain, Waited
  <2>3. CASE NO_NEWLINE
    <3>1. Append(<< >>, 2 * p) = <<2 * p>> /\ <<2 * p>> \in Seq(0 .. 4)
      BY <1>2
    <3>2. \A q \in Printf!Procs : buffer'[q] = Held(q)'
      <4>1. buffer[p] = << >> /\ buffer' = [buffer EXCEPT ![p] = Append(@, 2 * p)]
        BY <1>2, <2>3 DEF Printf!PrintFirst, Printf!print, AtTheEnd, Held
      <4>2. buffer'[p] = <<2 * p>> /\ Held(p)' = <<2 * p>>
        BY <1>2, <3>1, <4>1, <1>0 DEF Printf!PrintFirst, Held, Numbers
      <4>3. \A q \in Printf!Procs \ {p} : buffer'[q] = buffer[q] /\ Held(q)' = Held(q)
        BY <1>2, <4>1 DEF Printf!PrintFirst, Held
      <4> QED
        BY <2>3, <4>2, <4>3 DEF AtTheEnd
    <3>3. AtTheEnd'
      BY <1>2, <2>3, <3>2, HeldBack DEF Printf!PrintFirst, Printf!print
    <3>4. Append(buffer[p], 2 * p) \in Seq(0 .. 4)
      BY <1>2, <1>0, AppendProperties
    <3>5. Printf!TypeOK' /\ AtOnce'
      BY <1>2, <2>3, <3>4 DEF Printf!PrintFirst, Printf!print, AtOnce
    <3> QED
      BY <2>2, <3>3, <3>5
  <2>4. CASE ~NO_NEWLINE
    <3>1. ~IsOut(2 * p) /\ \A y \in 0 .. 4 : IsOut(y)' <=> y = 2 * p \/ IsOut(y)
      BY <1>2, <1>0 DEF Printf!PrintFirst, IsOut
    <3>2. \A y \in {1, 3} : y < 2 * p => ~IsOut(y)
      BY <1>2, <1>0 DEF Printf!PrintFirst, IsOut, Chain, Waited
    <3>3. AtOnce' /\ output' \in Seq(0 .. 4)
      BY <1>2, <2>4, <3>1, <3>2, NumberOut DEF Printf!PrintFirst
    <3>4. Printf!TypeOK' /\ AtTheEnd'
      BY <1>2, <2>4, <3>3, EmptySeq DEF Printf!PrintFirst, Printf!print, AtTheEnd
    <3> QED
      BY <2>2, <3>3, <3>4
  <2> QED
    BY <2>3, <2>4
<1>3. ASSUME NEW p \in Printf!Procs, Printf!Wait(p) PROVE PrintfInv'
  <2>1. Printf!TypeOK'
    BY <1>3 DEF Printf!Wait
  <2>2. Chain'
    BY <1>3 DEF Printf!Wait, Chain, Waited
  <2>3. AtTheEnd'
    <3>1. NO_NEWLINE => \A q \in Printf!Procs : buffer'[q] = Held(q)'
      BY <1>3 DEF Printf!Wait, AtTheEnd, Held
    <3> QED
      BY <1>3, <3>1, HeldBack DEF Printf!Wait
  <2>4. AtOnce'
    BY <1>3 DEF Printf!Wait, Chain, AtOnce, IsOut, Printf!SecondNumberLast
  <2> QED
    BY <2>1, <2>2, <2>3, <2>4
<1>4. ASSUME NEW p \in Printf!Procs, Printf!PrintSecond(p) PROVE PrintfInv'
  <2>0. p \in {0, 1}
    BY <1>4 DEF Chain, Printf!PrintSecond
  <2>2. Chain'
    BY <1>4 DEF Printf!PrintSecond, Chain, Waited
  <2>3. CASE NO_NEWLINE
    <3>1. Append(<<2 * p>>, 2 * p + 1) = <<2 * p, 2 * p + 1>>
      BY AppendTwo
    <3>2. \A q \in Printf!Procs : buffer'[q] = Held(q)'
      <4>1. buffer[p] = <<2 * p>> /\ buffer' = [buffer EXCEPT ![p] = Append(@, 2 * p + 1)]
        BY <1>4, <2>3 DEF Printf!PrintSecond, Printf!print, AtTheEnd, Held
      <4>2. buffer'[p] = <<2 * p, 2 * p + 1>> /\ Held(p)' = <<2 * p, 2 * p + 1>>
        BY <1>4, <2>0, <3>1, <4>1 DEF Printf!PrintSecond, Held, Numbers
      <4>3. \A q \in Printf!Procs \ {p} : buffer'[q] = buffer[q] /\ Held(q)' = Held(q)
        BY <1>4, <4>1 DEF Printf!PrintSecond, Held
      <4> QED
        BY <2>3, <4>2, <4>3 DEF AtTheEnd
    <3>3. AtTheEnd'
      BY <1>4, <2>3, <3>2, HeldBack DEF Printf!PrintSecond, Printf!print
    <3>4. Append(buffer[p], 2 * p + 1) \in Seq(0 .. 4)
      BY <1>4, <2>0, AppendProperties
    <3>5. Printf!TypeOK' /\ AtOnce'
      BY <1>4, <2>3, <3>4 DEF Printf!PrintSecond, Printf!print, AtOnce
    <3> QED
      BY <2>2, <3>3, <3>5
  <2>4. CASE ~NO_NEWLINE
    <3>1. ~IsOut(2 * p + 1) /\ \A y \in 0 .. 4 : IsOut(y)' <=> y = 2 * p + 1 \/ IsOut(y)
      BY <1>4, <2>0 DEF Printf!PrintSecond, IsOut
    <3>2. \A y \in {1, 3} : y < 2 * p + 1 => ~IsOut(y)
      BY <1>4, <2>0 DEF Printf!PrintSecond, IsOut, Chain, Waited
    <3>3. AtOnce' /\ output' \in Seq(0 .. 4)
      BY <1>4, <2>0, <2>4, <3>1, <3>2, NumberOut DEF Printf!PrintSecond
    <3>4. Printf!TypeOK' /\ AtTheEnd'
      BY <1>4, <2>4, <3>3, EmptySeq DEF Printf!PrintSecond, Printf!print, AtTheEnd
    <3> QED
      BY <2>2, <3>3, <3>4
  <2> QED
    BY <2>3, <2>4
<1>5. ASSUME NEW p \in Printf!Procs, Printf!Return(p) PROVE PrintfInv'
  <2>2. Chain'
    BY <1>5 DEF Printf!Return, Chain, Waited
  <2>3. CASE NO_NEWLINE
    <3>1. \A q \in Printf!Procs : buffer'[q] = Held(q)'
      BY <1>5, <2>3 DEF Printf!Return, AtTheEnd, Held
    <3>0. Printf!TypeOK' /\ output' = output \o Numbers(p)
      <4>1. output' = output \o buffer[p] /\ output \o buffer[p] \in Seq(0 .. 4)
        BY <1>5, ConcatProperties DEF Printf!Return
      <4>2. buffer[p] = Numbers(p)
        BY <1>5, <2>3 DEF Printf!Return, AtTheEnd, Held
      <4> QED
        BY <1>5, <4>1, <4>2, EmptySeq DEF Printf!Return
    <3>2. output' = Flushed(2)' \o Flushed(1)' \o Flushed(0)'
      <4>1. output = Flushed(2) \o Flushed(1) \o Flushed(0)
        BY <2>3 DEF AtTheEnd
      <4>2. Flushed(2) \in Seq(Nat) /\ Flushed(1) \in Seq(Nat)
        BY DEF Flushed, Numbers
      <4>4. CASE p = 2
        <5>1. /\ Flushed(2) = << >> /\ Flushed(1) = << >> /\ Flushed(0) = << >>
              /\ Flushed(2)' = <<4>> /\ Flushed(1)' = << >> /\ Flushed(0)' = << >>
          BY <1>5, <4>4 DEF Printf!Return, Flushed, Chain, Waited, Numbers
        <5>2. output = << >>
          BY <4>1, <5>1, EmptyConcat
        <5>3. << >> \o <<4>> = <<4>> \o << >> \o << >>
          OBVIOUS
        <5> QED
          BY <3>0, <4>4, <5>1, <5>2, <5>3 DEF Numbers
      <4>5. CASE p = 1
        <5>1. /\ Flushed(1) = << >> /\ Flushed(0) = << >>
              /\ Flushed(2)' = Flushed(2) /\ Flushed(1)' = <<2, 3>> /\ Flushed(0)' = << >>
          BY <1>5, <4>5 DEF Printf!Return, Flushed, Chain, Waited, Numbers
        <5>2. output = Flushed(2)
          BY <4>1, <4>2, <5>1, ConcatEmptySeq
        <5>3. Flushed(2) \o <<2, 3>> \in Seq(Nat)
          BY <4>2, ConcatProperties
        <5>4. output' = Flushed(2) \o <<2, 3>>
          BY <3>0, <4>5, <5>2 DEF Numbers
        <5> QED
          BY <5>1, <5>3, <5>4, ConcatEmptySeq
      <4>6. CASE p = 0
        <5>1. /\ Flushed(0) = << >> /\ Flushed(0)' = <<0, 1>>
              /\ Flushed(2)' = Flushed(2) /\ Flushed(1)' = Flushed(1)
          BY <1>5, <4>6 DEF Printf!Return, Flushed, Chain, Waited, Numbers
        <5>2. Flushed(2) \o Flushed(1) \in Seq(Nat)
          BY <4>2, ConcatProperties
        <5>3. output = Flushed(2) \o Flushed(1)
          BY <4>1, <5>1, <5>2, ConcatEmptySeq
        <5>4. output' = (Flushed(2) \o Flushed(1)) \o <<0, 1>>
          BY <3>0, <4>6, <5>3 DEF Numbers
        <5> QED
          BY <5>1, <5>4
      <4> QED
        BY <1>0, <4>4, <4>5, <4>6
    <3>4. AtTheEnd' /\ AtOnce'
      BY <1>5, <2>3, <3>1, <3>2 DEF Printf!Return, AtTheEnd, AtOnce
    <3> QED
      BY <2>2, <3>0, <3>4
  <2>4. CASE ~NO_NEWLINE
    <3>1. output' = output /\ \A q \in Printf!Procs : buffer'[q] = << >>
      BY <1>5, <2>4, ConcatEmptySeq DEF Printf!Return, AtOnce
    <3>2. \A y \in 0 .. 4 : IsOut(y)' <=> IsOut(y)
      BY <1>5, <1>0 DEF Printf!Return, IsOut
    <3>3. AtOnce'
      BY <1>5, <2>4, <3>1, <3>2 DEF Printf!Return, AtOnce, Printf!SecondNumberLast
    <3>4. Printf!TypeOK' /\ AtTheEnd'
      BY <1>5, <2>4, <3>1, EmptySeq DEF Printf!Return, AtTheEnd
    <3> QED
      BY <2>2, <3>3, <3>4
  <2> QED
    BY <2>3, <2>4
<1>6. CASE UNCHANGED printfVars
  BY <1>6 DEF printfVars, Chain, Waited, AtTheEnd, AtOnce, Held, Flushed, IsOut, Printf!SecondNumberLast
<1> QED
  BY <1>1, <1>2, <1>3, <1>4, <1>5, <1>6 DEF Printf!Next

Begins(s, t) == \A k \in 1 .. Len(s) : t[k] = s[k]

LEMMA ThenPair ==
  ASSUME NEW s \in Seq(Nat), NEW a \in Nat, NEW b \in Nat, NEW u \in Seq(Nat),
         Len(u) = Len(s) + 2, u[Len(s) + 1] = a, u[Len(s) + 2] = b, Begins(s, u)
  PROVE  s \o <<a, b>> = u
<1> DEFINE t == <<a, b>>
           st == s \o t
<1>1. t \in Seq(Nat) /\ Len(t) = 2 /\ t[1] = a /\ t[2] = b
  OBVIOUS
<1> HIDE DEF t
<1>2. /\ st \in Seq(Nat) /\ Len(st) = Len(s) + Len(t)
      /\ \A k \in 1 .. Len(s) + Len(t) :
           st[k] = IF k <= Len(s) THEN s[k] ELSE t[k - Len(s)]
  BY <1>1, ConcatProperties
<1>3. Len(s) \in Nat
  BY LenProperties
<1> HIDE DEF st
<1>4. ASSUME NEW k \in 1 .. Len(s) + 2 PROVE st[k] = u[k]
  <2>1. CASE k \in 1 .. Len(s)
    <3>1. st[k] = s[k]
      BY <1>1, <1>2, <1>3, <2>1
    <3> QED
      BY <3>1, <2>1 DEF Begins
  <2>2. CASE k = Len(s) + 1
    <3>1. k \in 1 .. Len(s) + Len(t) /\ ~(k <= Len(s)) /\ k - Len(s) = 1
      BY <1>1, <1>3, <2>2
    <3>2. st[k] = t[k - Len(s)]
      BY <1>2, <3>1
    <3> QED
      BY <1>1, <2>2, <3>1, <3>2
  <2>3. CASE k = Len(s) + 2
    <3>1. k \in 1 .. Len(s) + Len(t) /\ ~(k <= Len(s)) /\ k - Len(s) = 2
      BY <1>1, <1>3, <2>3
    <3>2. st[k] = t[k - Len(s)]
      BY <1>2, <3>1
    <3> QED
      BY <1>1, <2>3, <3>1, <3>2
  <2> QED
    BY <1>3, <2>1, <2>2, <2>3
<1>5. st = u
  BY <1>1, <1>2, <1>4, SeqEqual
<1> QED
  BY <1>5 DEF st, t

LEMMA Joined ==
  /\ <<4>> \o <<2, 3>> = <<4, 2, 3>>
  /\ <<4, 2, 3>> \o <<0, 1>> = <<4, 2, 3, 0, 1>>
  /\ <<2, 3>> \o <<0, 1>> = <<2, 3, 0, 1>>
<1>0. 0 \in Nat /\ 1 \in Nat /\ 2 \in Nat /\ 3 \in Nat
  OBVIOUS
<1>1. <<4>> \o <<2, 3>> = <<4, 2, 3>>
  <2> DEFINE s == <<4>>
             u == <<4, 2, 3>>
  <2>1. /\ s \in Seq(Nat) /\ Len(s) = 1 /\ s[1] = 4
        /\ u \in Seq(Nat) /\ Len(u) = 3 /\ u[1] = 4 /\ u[2] = 2 /\ u[3] = 3
    OBVIOUS
  <2> HIDE DEF s, u
  <2>2. Begins(s, u)
    BY <2>1 DEF Begins
  <2>3. Len(u) = Len(s) + 2 /\ u[Len(s) + 1] = 2 /\ u[Len(s) + 2] = 3
    BY <2>1
  <2>4. s \o <<2, 3>> = u
    BY <2>1, <2>2, <2>3, <1>0, ThenPair, Zenon
  <2> QED
    BY <2>4 DEF s, u
<1>2. <<4, 2, 3>> \o <<0, 1>> = <<4, 2, 3, 0, 1>>
  <2> DEFINE s == <<4, 2, 3>>
             u == <<4, 2, 3, 0, 1>>
  <2>1. /\ s \in Seq(Nat) /\ Len(s) = 3 /\ s[1] = 4 /\ s[2] = 2 /\ s[3] = 3
        /\ u \in Seq(Nat) /\ Len(u) = 5 /\ u[1] = 4 /\ u[2] = 2 /\ u[3] = 3
        /\ u[4] = 0 /\ u[5] = 1
    OBVIOUS
  <2> HIDE DEF s, u
  <2>2. Begins(s, u)
    BY <2>1 DEF Begins
  <2>3. Len(u) = Len(s) + 2 /\ u[Len(s) + 1] = 0 /\ u[Len(s) + 2] = 1
    BY <2>1
  <2>4. s \o <<0, 1>> = u
    BY <2>1, <2>2, <2>3, <1>0, ThenPair, Zenon
  <2> QED
    BY <2>4 DEF s, u
<1>3. <<2, 3>> \o <<0, 1>> = <<2, 3, 0, 1>>
  <2> DEFINE s == <<2, 3>>
             u == <<2, 3, 0, 1>>
  <2>1. /\ s \in Seq(Nat) /\ Len(s) = 2 /\ s[1] = 2 /\ s[2] = 3
        /\ u \in Seq(Nat) /\ Len(u) = 4 /\ u[1] = 2 /\ u[2] = 3 /\ u[3] = 0 /\ u[4] = 1
    OBVIOUS
  <2> HIDE DEF s, u
  <2>2. Begins(s, u)
    BY <2>1 DEF Begins
  <2>3. Len(u) = Len(s) + 2 /\ u[Len(s) + 1] = 0 /\ u[Len(s) + 2] = 1
    BY <2>1
  <2>4. s \o <<0, 1>> = u
    BY <2>1, <2>2, <2>3, <1>0, ThenPair, Zenon
  <2> QED
    BY <2>4 DEF s, u
<1> QED
  BY <1>1, <1>2, <1>3

(* All that can be written without newlines. *)
LEMMA OutputsAre ==
  ASSUME PrintfInv, NO_NEWLINE
  PROVE  \/ output = << >> /\ printer[0] # "exited"
         \/ /\ printer[2] # "unborn"
            /\ \/ output \in {<<4>>, <<4, 2, 3>>} /\ printer[0] # "exited"
               \/ output = <<4, 2, 3, 0, 1>>
         \/ /\ printer[2] = "unborn" /\ printer[1] # "unborn"
            /\ \/ output = <<2, 3>> /\ printer[0] # "exited"
               \/ output = <<2, 3, 0, 1>>
         \/ /\ printer[2] = "unborn" /\ printer[1] = "unborn"
            /\ output = <<0, 1>>
<1> USE DEF PrintfInv, Printf!Procs, Printf!LastProc, Printf!TypeOK
<1>0. output = Flushed(2) \o Flushed(1) \o Flushed(0)
  BY DEF AtTheEnd
<1>1. /\ <<4>> \o << >> = <<4>> /\ << >> \o <<2, 3>> = <<2, 3>> /\ << >> \o << >> = << >>
      /\ << >> \o <<0, 1>> = <<0, 1>>
      /\ <<4, 2, 3>> \o << >> = <<4, 2, 3>> /\ <<2, 3>> \o << >> = <<2, 3>>
  BY ConcatEmptySeq
<1>2. CASE printer[2] # "unborn"
  <2>1. Flushed(2) = IF printer[2] = "exited" THEN <<4>> ELSE << >>
    BY DEF Flushed, Numbers
  <2>2. Flushed(1) = IF printer[1] = "exited" THEN <<2, 3>> ELSE << >>
    BY DEF Flushed, Numbers
  <2>3. Flushed(0) = IF printer[0] = "exited" THEN <<0, 1>> ELSE << >>
    BY DEF Flushed, Numbers
  <2>4. /\ printer[1] = "exited" => printer[2] = "exited"
        /\ printer[0] = "exited" => printer[1] = "exited"
    BY <1>2 DEF Chain, Waited
  <2>5. CASE printer[0] = "exited"
    BY <1>0, <1>2, <2>1, <2>2, <2>3, <2>4, <2>5, Joined
  <2>6. CASE printer[0] # "exited" /\ printer[1] = "exited"
    BY <1>0, <1>1, <1>2, <2>1, <2>2, <2>3, <2>4, <2>6, Joined
  <2>7. CASE printer[0] # "exited" /\ printer[1] # "exited"
    BY <1>0, <1>1, <1>2, <2>1, <2>2, <2>3, <2>7
  <2> QED
    BY <2>5, <2>6, <2>7
<1>3. CASE printer[2] = "unborn" /\ printer[1] # "unborn"
  <2>1. Flushed(2) = << >>
    BY <1>3 DEF Flushed
  <2>2. Flushed(1) = IF printer[1] = "exited" THEN <<2, 3>> ELSE << >>
    BY DEF Flushed, Numbers
  <2>3. Flushed(0) = IF printer[0] = "exited" THEN <<0, 1>> ELSE << >>
    BY DEF Flushed, Numbers
  <2>4. printer[0] = "exited" => printer[1] = "exited"
    BY <1>3 DEF Chain, Waited
  <2> QED
    BY <1>0, <1>1, <1>3, <2>1, <2>2, <2>3, <2>4, Joined
<1>4. CASE printer[2] = "unborn" /\ printer[1] = "unborn"
  <2>1. Flushed(2) = << >> /\ Flushed(1) = << >>
    BY <1>4 DEF Flushed
  <2>3. Flushed(0) = IF printer[0] = "exited" THEN <<0, 1>> ELSE << >>
    BY DEF Flushed, Numbers
  <2> QED
    BY <1>0, <1>1, <1>4, <2>1, <2>3
<1>5. printer[2] # "unborn" => printer[1] # "unborn"
  BY DEF Chain
<1> QED
  BY <1>2, <1>3, <1>4, <1>5

LEMMA PrintfInvSuffices == PrintfInv => Printf!OutputIsRight
<1> SUFFICES ASSUME PrintfInv PROVE Printf!OutputIsRight
  OBVIOUS
<1> USE DEF PrintfInv, Printf!Procs, Printf!LastProc, Printf!TypeOK
<1>0. Printf!Procs = {0, 1, 2}
  OBVIOUS
<1>1. CASE NO_NEWLINE
  <2>1. /\ Printf!BottomUp = IF printer[2] # "unborn" THEN <<4, 2, 3, 0, 1>>
                             ELSE IF printer[1] # "unborn" THEN <<2, 3, 0, 1>>
                             ELSE <<0, 1>>
    BY DEF Printf!BottomUp
  <2>2. output \in {<< >>, <<4>>, <<4, 2, 3>>, <<4, 2, 3, 0, 1>>, <<2, 3>>, <<2, 3, 0, 1>>, <<0, 1>>}
    BY <1>1, OutputsAre
  <2>3. Printf!WithoutNewline
    <3>1. CASE output = << >>
      BY <2>1, <3>1 DEF Printf!WithoutNewline
    <3>2. CASE output = <<4>>
      BY <1>1, <2>1, <3>2, OutputsAre DEF Printf!WithoutNewline
    <3>3. CASE output = <<4, 2, 3>>
      BY <1>1, <2>1, <3>3, OutputsAre DEF Printf!WithoutNewline
    <3>4. CASE output = <<4, 2, 3, 0, 1>>
      BY <1>1, <2>1, <3>4, OutputsAre DEF Printf!WithoutNewline
    <3>5. CASE output = <<2, 3>>
      BY <1>1, <2>1, <3>5, OutputsAre DEF Printf!WithoutNewline
    <3>6. CASE output = <<2, 3, 0, 1>>
      BY <1>1, <2>1, <3>6, OutputsAre DEF Printf!WithoutNewline
    <3>7. CASE output = <<0, 1>>
      BY <1>1, <2>1, <3>7, OutputsAre DEF Printf!WithoutNewline
    <3> QED
      BY <2>2, <3>1, <3>2, <3>3, <3>4, <3>5, <3>6, <3>7
  <2>4. Printf!IsInjective(output)
    <3>1. CASE output = << >>
      BY <3>1 DEF Printf!IsInjective
    <3>2. CASE output = <<4>>
      BY <3>2 DEF Printf!IsInjective
    <3>3. CASE output = <<4, 2, 3>>
      BY <3>3 DEF Printf!IsInjective
    <3>4. CASE output = <<4, 2, 3, 0, 1>>
      BY <3>4 DEF Printf!IsInjective
    <3>5. CASE output = <<2, 3>>
      BY <3>5 DEF Printf!IsInjective
    <3>6. CASE output = <<2, 3, 0, 1>>
      BY <3>6 DEF Printf!IsInjective
    <3>7. CASE output = <<0, 1>>
      BY <3>7 DEF Printf!IsInjective
    <3> QED
      BY <2>2, <3>1, <3>2, <3>3, <3>4, <3>5, <3>6, <3>7
  <2>5. ASSUME printer[0] = "exited" PROVE output = Printf!BottomUp
    BY <1>1, <2>1, <2>5, OutputsAre
  <2>6. Printf!SecondNumberLast
    <3>1. CASE output = << >>
      BY <3>1 DEF Printf!SecondNumberLast
    <3>2. CASE output = <<4>>
      BY <3>2 DEF Printf!SecondNumberLast
    <3>3. CASE output = <<4, 2, 3>>
      BY <3>3 DEF Printf!SecondNumberLast
    <3>4. CASE output = <<4, 2, 3, 0, 1>>
      BY <3>4 DEF Printf!SecondNumberLast
    <3>5. CASE output = <<2, 3>>
      BY <3>5 DEF Printf!SecondNumberLast
    <3>6. CASE output = <<2, 3, 0, 1>>
      BY <3>6 DEF Printf!SecondNumberLast
    <3>7. CASE output = <<0, 1>>
      BY <3>7 DEF Printf!SecondNumberLast
    <3> QED
      BY <2>2, <3>1, <3>2, <3>3, <3>4, <3>5, <3>6, <3>7
  <2> QED
    BY <2>3, <2>4, <2>5, <2>6 DEF Printf!NumbersOnce, Printf!OutputIsRight
<1>2. CASE ~NO_NEWLINE
  <2>1. Printf!WithoutNewline
    BY <1>2 DEF Printf!WithoutNewline
  <2>2. ASSUME printer[0] = "exited" PROVE Printf!ToSet(output) = Printf!ToSet(Printf!BottomUp)
    <3>1. \A x \in 0 .. 4 : x \in Printf!ToSet(output) <=> printer[x \div 2] # "unborn"
      BY <1>2, <2>2, <1>0 DEF AtOnce, IsOut, Chain, Waited
    <3>2. Printf!ToSet(output) = {x \in 0 .. 4 : printer[x \div 2] # "unborn"}
      BY <3>1, ElementOfSeq, LenProperties DEF Printf!ToSet
    <3>3. {x \in 0 .. 4 : printer[x \div 2] # "unborn"} =
            IF printer[2] # "unborn" THEN {0, 1, 2, 3, 4}
            ELSE IF printer[1] # "unborn" THEN {0, 1, 2, 3} ELSE {0, 1}
      <4>1. /\ 0 \div 2 = 0 /\ 1 \div 2 = 0 /\ 2 \div 2 = 1 /\ 3 \div 2 = 1 /\ 4 \div 2 = 2
            /\ 0 .. 4 = {0, 1, 2, 3, 4}
        OBVIOUS
      <4>2. /\ printer[2] # "unborn" => printer[1] # "unborn"
            /\ printer[0] # "unborn"
        BY <2>2 DEF Chain
      <4> QED
        BY <4>1, <4>2
    <3>4. /\ Printf!ToSet(<<4, 2, 3, 0, 1>>) = {0, 1, 2, 3, 4}
          /\ Printf!ToSet(<<2, 3, 0, 1>>) = {0, 1, 2, 3}
          /\ Printf!ToSet(<<0, 1>>) = {0, 1}
      BY DEF Printf!ToSet
    <3> QED
      BY <3>2, <3>3, <3>4 DEF Printf!BottomUp
  <2>3. Printf!NumbersOnce
    BY <1>2, <2>2 DEF AtOnce, Printf!NumbersOnce
  <2> QED
    BY <1>2, <2>1, <2>3 DEF AtOnce, Printf!OutputIsRight
<1> QED
  BY <1>1, <1>2

-----------------------------------------------------------------------------
(* execution_time.c, inherit_ids.c, inherit_exit_handler.c.  Nothing is    *)
(* done twice, no line is seen before it is printed, a child's lines are   *)
(* its own, and while the parent runs on its buffer holds all that it has  *)
(* printed into a file.                                                    *)
Steps == {"title", "getpid_took", "fork_took", "averages", "parent_ids", "parent_done",
          "child_ids", "child_done", "exit_handler", "fork", "exit"} \X Nat
Elements(s) == {s[k] : k \in 1 .. Len(s)}
Distinct(s) == \A k, l \in 1 .. Len(s) : s[k] = s[l] => k = l

LastSteps == {"exit_handler", "exit"}

OfParent(x) ==
  \/ x[1] \in {"title", "getpid_took", "fork_took", "averages", "parent_ids",
               "parent_done"}
  \/ Buffers!IsFork(x) /\ x[2] \in 1 .. Loops
  \/ x[1] \in LastSteps /\ x[2] = 0

LineOfChild(c, x) ==
  x[1] \in {"child_ids", "child_done", "exit_handler"} /\ x[2] = c

Seen(l) == l \in DOMAIN written \/ \E p \in Buffers!Processes : l \in unwritten[p]

(* The parts of the invariant: types; what there is to do and was done;    *)
(* no fork comes after the last steps; what has been seen.                 *)
KnownProgram == text \in {"execution_time", "inherit_ids", "inherit_exit_handler"}

BuffersTypes ==
  /\ KnownProgram
  /\ redirected \in BOOLEAN
  /\ todo \in [Buffers!Processes -> Seq(Steps)]
  /\ past \in Seq(Steps)
  /\ unwritten \in [Buffers!Processes -> SUBSET Steps]
  /\ \A l \in DOMAIN written : l \in Steps /\ written[l] \in Nat \ {0}

ToDoAndDone ==
  /\ \A p \in Buffers!Processes : Distinct(todo[p])
  /\ Distinct(past)
  /\ Elements(todo[0]) \cap Elements(past) = {}
  /\ \A x \in Elements(todo[0]) \union Elements(past) : OfParent(x)
  /\ \A c \in 1 .. Loops : \A x \in Elements(todo[c]) :
       LineOfChild(c, x) \/ x = Buffers!exit
  /\ \A c \in 1 .. Loops : Buffers!fork(c) \notin Elements(past) =>
       todo[c] = << >> /\ unwritten[c] = {}

LastStepsLast ==
  /\ \A k, l \in 1 .. Len(todo[0]) :
       k < l /\ todo[0][k][1] \in LastSteps => ~Buffers!IsFork(todo[0][l])
  /\ \A x \in Elements(todo[0]), y \in Elements(past) :
       Buffers!IsFork(x) => y[1] \notin LastSteps

WhatIsSeen ==
  /\ \A l \in Steps : Seen(l) =>
       /\ Buffers!IsLine(l)
       /\ \/ l \in Elements(past)
          \/ \E c \in 1 .. Loops : Buffers!fork(c) \in Elements(past) /\ LineOfChild(c, l)
  /\ \A p \in Buffers!Processes : \A l \in Elements(todo[p]) :
       Buffers!IsLine(l) => ~Seen(l)
  /\ ~redirected => \A p \in Buffers!Processes : unwritten[p] = {}
  /\ redirected /\ todo[0] # << >> =>
       \A l \in Elements(past) : Buffers!IsLine(l) => l \in unwritten[0]

LinesOfChildren ==
  \A c \in 1 .. Loops, l \in Steps : LineOfChild(c, l) =>
    /\ \A p \in Buffers!Processes : l \in unwritten[p] => p = c /\ l \notin DOMAIN written
    /\ l \in DOMAIN written => written[l] = 1

ForksAfter(k) == {m \in DOMAIN past : m > k /\ Buffers!IsFork(past[m])}

LinesOfParent ==
  \A k \in DOMAIN past : Buffers!IsLine(past[k]) =>
    Buffers!Copies(past[k]) = 1 + IF redirected THEN Cardinality(ForksAfter(k)) ELSE 0

BuffersInv ==
  /\ BuffersTypes
  /\ ToDoAndDone
  /\ LastStepsLast
  /\ WhatIsSeen
  /\ LinesOfChildren
  /\ LinesOfParent

LEMMA TailElements ==
  ASSUME NEW s \in Seq(Steps), s # << >>, Distinct(s)
  PROVE  /\ Tail(s) \in Seq(Steps) /\ Distinct(Tail(s))
         /\ s[1] \in Steps /\ s[1] \in Elements(s)
         /\ Elements(Tail(s)) = Elements(s) \ {s[1]}
<1>1. /\ Tail(s) \in Seq(Steps) /\ Len(Tail(s)) = Len(s) - 1 /\ Len(s) \in Nat \ {0}
      /\ \A k \in 1 .. Len(s) - 1 : Tail(s)[k] = s[k + 1]
  BY HeadTailProperties, LenProperties, EmptySeq
<1>2. s[1] \in Steps /\ s[1] \in Elements(s)
  BY <1>1, ElementOfSeq DEF Elements
<1>3. Distinct(Tail(s))
  BY <1>1 DEF Distinct
<1>4. ASSUME NEW x \in Elements(Tail(s)) PROVE x \in Elements(s) \ {s[1]}
  <2>1. PICK k \in 1 .. Len(s) - 1 : x = s[k + 1]
    BY <1>1 DEF Elements
  <2>2. k + 1 \in 1 .. Len(s) /\ 1 \in 1 .. Len(s) /\ k + 1 # 1
    BY <1>1
  <2> QED
    BY <2>1, <2>2 DEF Elements, Distinct
<1>5. ASSUME NEW x \in Elements(s) \ {s[1]} PROVE x \in Elements(Tail(s))
  <2>1. PICK k \in 1 .. Len(s) : x = s[k]
    BY DEF Elements
  <2>2. k - 1 \in 1 .. Len(s) - 1 /\ (k - 1) + 1 = k
    BY <1>1, <2>1
  <2>3. Tail(s)[k - 1] = x
    BY <1>1, <2>1, <2>2
  <2> QED
    BY <1>1, <2>2, <2>3 DEF Elements
<1> QED
  BY <1>1, <1>2, <1>3, <1>4, <1>5

LEMMA AppendElements ==
  ASSUME NEW s \in Seq(Steps), Distinct(s), NEW x \in Steps, x \notin Elements(s)
  PROVE  /\ Append(s, x) \in Seq(Steps) /\ Distinct(Append(s, x))
         /\ Len(Append(s, x)) = Len(s) + 1 /\ Len(s) \in Nat
         /\ Append(s, x)[Len(s) + 1] = x
         /\ \A k \in 1 .. Len(s) : Append(s, x)[k] = s[k]
         /\ Elements(Append(s, x)) = Elements(s) \union {x}
<1> DEFINE t == Append(s, x)
<1>1. /\ t \in Seq(Steps) /\ Len(t) = Len(s) + 1 /\ Len(s) \in Nat
      /\ t[Len(s) + 1] = x
      /\ \A k \in 1 .. Len(s) : t[k] = s[k]
  BY AppendProperties, LenProperties
<1> HIDE DEF t
<1>2. Distinct(t)
  BY <1>1 DEF Distinct, Elements
<1>3. Elements(t) = Elements(s) \union {x}
  <2>1. \A y \in Elements(s) : y \in Elements(t)
    BY <1>1 DEF Elements
  <2>2. x \in Elements(t)
    BY <1>1 DEF Elements
  <2>3. \A y \in Elements(t) : y \in Elements(s) \union {x}
    BY <1>1 DEF Elements
  <2> QED
    BY <2>1, <2>2, <2>3
<1> QED
  BY <1>1, <1>2, <1>3 DEF t

Times(l) == IF l \in DOMAIN written THEN written[l] ELSE 0
Holders(l) == {p \in Buffers!Processes : l \in unwritten[p]}

LEMMA WriteTimes ==
  ASSUME NEW L, Buffers!Write(L), BuffersTypes, L \subseteq Steps
  PROVE  /\ DOMAIN written' = DOMAIN written \union L
         /\ \A l : Times(l)' = Times(l) + IF l \in L THEN 1 ELSE 0
         /\ \A l \in DOMAIN written' : l \in Steps /\ written'[l] \in Nat \ {0}
  BY DEF Buffers!Write, BuffersTypes, Times

LEMMA FiniteHolders ==
  /\ \A l : IsFiniteSet(Holders(l))
  /\ IsFiniteSet(Buffers!Processes)
<1>1. IsFiniteSet(Buffers!Processes)
  BY ChildrenAssumption, FS_Interval DEF Buffers!Processes
<1> QED
  BY <1>1, FS_Subset DEF Holders

LEMMA FiniteForks ==
  ASSUME BuffersTypes
  PROVE  IsFiniteSet(DOMAIN past) /\ \A k : IsFiniteSet(ForksAfter(k))
<1>1. IsFiniteSet(1 .. Len(past)) /\ DOMAIN past = 1 .. Len(past)
  BY FS_Interval, LenProperties DEF BuffersTypes
<1> QED
  BY <1>1, FS_Subset DEF ForksAfter

LEMMA OneStep ==
  ASSUME NEW S, NEW a \in S
  PROVE  /\ <<a>> \in Seq(S) /\ Len(<<a>>) = 1
         /\ Elements(<<a>>) = {a} /\ Distinct(<<a>>)
  BY DEF Elements, Distinct

LEMMA TwoSteps ==
  ASSUME NEW S, NEW a \in S, NEW b \in S
  PROVE  /\ <<a, b>> \in Seq(S) /\ Len(<<a, b>>) = 2
         /\ Elements(<<a, b>>) = {a, b} /\ (a # b => Distinct(<<a, b>>))
  BY DEF Elements, Distinct

LEMMA ThreeSteps ==
  ASSUME NEW S, NEW a \in S, NEW b \in S, NEW c \in S
  PROVE  /\ <<a, b, c>> \in Seq(S) /\ Len(<<a, b, c>>) = 3
         /\ Elements(<<a, b, c>>) = {a, b, c}
         /\ a # b /\ b # c /\ c # a => Distinct(<<a, b, c>>)
  BY DEF Elements, Distinct

LEMMA FourSteps ==
  ASSUME NEW S, NEW a \in S, NEW b \in S, NEW c \in S, NEW d \in S
  PROVE  /\ <<a, b, c, d>> \in Seq(S) /\ Len(<<a, b, c, d>>) = 4
         /\ Elements(<<a, b, c, d>>) = {a, b, c, d}
         /\ a # b /\ a # c /\ a # d /\ b # c /\ b # d /\ c # d => Distinct(<<a, b, c, d>>)
  BY DEF Elements, Distinct

(* Where execution_time does what.                                         *)
StepAt(k, x) ==
  \/ x = <<"title", 0>> /\ k = 1
  \/ x = <<"averages", 0>> /\ k = 3 * Loops + 2
  \/ x = <<"exit", 0>> /\ k = 3 * Loops + 3
  \/ \E r \in 1 .. Loops :
       \/ x = <<"getpid_took", r>> /\ k = 3 * r - 1
       \/ x = <<"fork", r>> /\ k = 3 * r
       \/ x = <<"fork_took", r>> /\ k = 3 * r + 1

LEMMA ExecutionTimeSteps ==
  ASSUME NEW k \in 1 .. 3 * Loops + 3
  PROVE  StepAt(k, Buffers!execution_time[k])
<1> DEFINE x == Buffers!execution_time[k]
<1> SUFFICES StepAt(k, x)
  OBVIOUS
<1>0. Loops \in Nat \ {0}
  BY ChildrenAssumption
<1>1. x = CASE k = 1 -> <<"title", 0>>
            [] k = 3 * Loops + 2 -> <<"averages", 0>>
            [] k = 3 * Loops + 3 -> <<"exit", 0>>
            [] OTHER -> CASE k % 3 = 2 -> <<"getpid_took", (k + 1) \div 3>>
                          [] k % 3 = 0 -> <<"fork", (k + 1) \div 3>>
                          [] k % 3 = 1 -> <<"fork_took", (k + 1) \div 3>>
  BY DEF Buffers!execution_time, Buffers!fork, Buffers!exit
<1> HIDE DEF x
<1>2. CASE k = 1
  BY <1>0, <1>1, <1>2 DEF StepAt
<1>3. CASE k = 3 * Loops + 2
  BY <1>0, <1>1, <1>3 DEF StepAt
<1>4. CASE k = 3 * Loops + 3
  BY <1>0, <1>1, <1>4 DEF StepAt
<1>5. CASE k \in 2 .. 3 * Loops + 1
  <2>1. /\ k % 3 \in {0, 1, 2} /\ (k + 1) \div 3 \in 1 .. Loops
        /\ k % 3 = 2 => k = 3 * ((k + 1) \div 3) - 1
        /\ k % 3 = 0 => k = 3 * ((k + 1) \div 3)
        /\ k % 3 = 1 => k = 3 * ((k + 1) \div 3) + 1
    BY <1>0, <1>5
  <2>2. PICK r \in 1 .. Loops : r = (k + 1) \div 3
    BY <2>1
  <2>3. CASE k % 3 = 2
    <3>1. x = <<"getpid_took", r>> /\ k = 3 * r - 1
      BY <1>0, <1>1, <1>5, <2>1, <2>2, <2>3
    <3> QED
      BY <3>1 DEF StepAt
  <2>4. CASE k % 3 = 0
    <3>1. x = <<"fork", r>> /\ k = 3 * r
      BY <1>0, <1>1, <1>5, <2>1, <2>2, <2>4
    <3> QED
      BY <3>1 DEF StepAt
  <2>5. CASE k % 3 = 1
    <3>1. x = <<"fork_took", r>> /\ k = 3 * r + 1
      BY <1>0, <1>1, <1>5, <2>1, <2>2, <2>5
    <3> QED
      BY <3>1 DEF StepAt
  <2> QED
    BY <2>1, <2>3, <2>4, <2>5
<1> QED
  BY <1>0, <1>2, <1>3, <1>4, <1>5

(* The programs do nothing twice.                                          *)
LEMMA ParentSteps ==
  ASSUME KnownProgram
  PROVE  /\ Buffers!parent \in Seq(Steps)
         /\ Distinct(Buffers!parent)
         /\ \A x \in Elements(Buffers!parent) : OfParent(x)
         /\ \A k, l \in 1 .. Len(Buffers!parent) :
              k < l /\ Buffers!parent[k][1] \in LastSteps =>
                ~Buffers!IsFork(Buffers!parent[l])
<1> USE DEF OfParent, Buffers!IsFork, LastSteps
<1>0. Loops \in Nat \ {0}
  BY ChildrenAssumption
<1>1. CASE text = "execution_time"
  <2> DEFINE s == Buffers!execution_time
             n == 3 * Loops + 3
  <2>1. \A k \in 1 .. n : StepAt(k, s[k])
    BY ExecutionTimeSteps
  <2>2. s = [k \in 1 .. n |-> s[k]] /\ n \in Nat
    BY <1>0 DEF Buffers!execution_time
  <2>4. Buffers!parent = s
    BY <1>1 DEF Buffers!parent
  <2> HIDE DEF s
  <2>3. \A k \in 1 .. n : s[k] \in Steps /\ OfParent(s[k])
    <3>1. ASSUME NEW k, NEW x, StepAt(k, x) PROVE x \in Steps /\ OfParent(x)
      <4>1. CASE \E r \in 1 .. Loops :
                   x \in {<<"getpid_took", r>>, <<"fork", r>>, <<"fork_took", r>>}
        BY <1>0, <4>1 DEF Steps
      <4>2. CASE x \in {<<"title", 0>>, <<"averages", 0>>, <<"exit", 0>>}
        BY <4>2 DEF Steps
      <4> QED
        BY <3>1, <4>1, <4>2 DEF StepAt
    <3> QED
      BY <2>1, <3>1
  <2>5. \A k, l \in 1 .. n : s[k] = s[l] => k = l
    BY <1>0, <2>1 DEF StepAt
  <2>6. \A k, l \in 1 .. n : k < l /\ s[k][1] \in LastSteps => s[l][1] # "fork"
    BY <1>0, <2>1 DEF StepAt
  <2> HIDE DEF n
  <2>7. s \in Seq(Steps)
    <3>1. \A k \in 1 .. n : s[k] \in Steps
      BY <2>3
    <3> QED
      BY <2>2, <3>1, IsASeq
  <2>8. Len(s) = n
    BY <2>2, <2>7, LenProperties
  <2> QED
    BY <2>3, <2>4, <2>5, <2>6, <2>7, <2>8 DEF Distinct, Elements
<1>2. CASE text = "inherit_ids"
  <2> DEFINE a == <<"parent_ids", 0>>
             b == <<"fork", 1>>
             c == <<"exit", 0>>
             s == <<a, b, c>>
  <2>1. Buffers!parent = s
    BY <1>2 DEF Buffers!parent, Buffers!inherit_ids, Buffers!fork, Buffers!exit
  <2>2. /\ a \in Steps /\ b \in Steps /\ c \in Steps /\ a # b /\ b # c /\ c # a
        /\ OfParent(a) /\ OfParent(b) /\ OfParent(c)
        /\ a[1] \notin LastSteps /\ b[1] \notin LastSteps
    BY <1>0 DEF Steps
  <2> HIDE DEF a, b, c
  <2>3. \A k \in 1 .. Len(s) : k \in {1, 2, 3}
    BY <2>2
  <2> QED
    BY <1>0, <2>1, <2>2, <2>3, ThreeSteps
<1>3. CASE text = "inherit_exit_handler"
  <2> DEFINE a == <<"fork", 1>>
             b == <<"parent_done", 0>>
             c == <<"exit_handler", 0>>
             d == <<"exit", 0>>
             s == <<a, b, c, d>>
  <2>1. Buffers!parent = s
    BY <1>3 DEF Buffers!parent, Buffers!inherit_exit_handler, Buffers!fork, Buffers!exit
  <2>2. /\ a \in Steps /\ b \in Steps /\ c \in Steps /\ d \in Steps
        /\ a # b /\ a # c /\ a # d /\ b # c /\ b # d /\ c # d
        /\ OfParent(a) /\ OfParent(b) /\ OfParent(c) /\ OfParent(d)
        /\ b[1] # "fork" /\ c[1] # "fork" /\ d[1] # "fork"
    BY <1>0 DEF Steps
  <2> HIDE DEF a, b, c, d
  <2>3. \A k \in 1 .. Len(s) : k \in {1, 2, 3, 4}
    BY <2>2
  <2> QED
    BY <1>0, <2>1, <2>2, <2>3, FourSteps
<1> QED
  BY <1>1, <1>2, <1>3 DEF KnownProgram

LEMMA HandlerSteps ==
  ASSUME NEW p \in Nat
  PROVE  /\ Buffers!exit_handler(p) \in Seq(Steps) /\ Distinct(Buffers!exit_handler(p))
         /\ \A x \in Elements(Buffers!exit_handler(p)) :
              x \in {<<"exit_handler", p>>, Buffers!exit}
<1> DEFINE a == <<"exit_handler", p>>
           b == Buffers!exit
<1>0. a \in Steps /\ b \in Steps /\ a # b
  BY DEF Steps, Buffers!exit
<1>1. Buffers!exit_handler(p) \in {<<a, b>>, <<b>>}
  BY DEF Buffers!exit_handler
<1> HIDE DEF a, b
<1>2. \A x \in Elements(Buffers!exit_handler(p)) : x \in {a, b}
  <2>1. Elements(<<a, b>>) = {a, b} /\ Elements(<<b>>) = {b}
    BY <1>0, OneStep, TwoSteps
  <2> QED
    BY <1>1, <2>1
<1>3. Buffers!exit_handler(p) \in Seq(Steps) /\ Distinct(Buffers!exit_handler(p))
  <2>1. /\ <<a, b>> \in Seq(Steps) /\ <<b>> \in Seq(Steps)
        /\ Distinct(<<a, b>>) /\ Distinct(<<b>>)
    BY <1>0, OneStep, TwoSteps
  <2> QED
    BY <1>1, <2>1
<1> QED
  BY <1>2, <1>3 DEF a, b

LEMMA ChildSteps ==
  ASSUME KnownProgram, NEW c \in 1 .. Loops
  PROVE  /\ Buffers!child(c) \in Seq(Steps) /\ Distinct(Buffers!child(c))
         /\ \A x \in Elements(Buffers!child(c)) : LineOfChild(c, x) \/ x = Buffers!exit
<1> DEFINE ids == <<"child_ids", c>>
           done == <<"child_done", c>>
           handler == <<"exit_handler", c>>
           e == Buffers!exit
           s == Buffers!child(c)
<1>0. /\ c \in Nat
      /\ ids \in Steps /\ done \in Steps /\ handler \in Steps /\ e \in Steps
      /\ ids # e /\ done # e /\ handler # e /\ done # handler
      /\ LineOfChild(c, ids) /\ LineOfChild(c, done) /\ LineOfChild(c, handler)
  BY ChildrenAssumption DEF Steps, Buffers!exit, LineOfChild
<1>1. \/ text = "execution_time" /\ s = Buffers!exit_handler(c)
      \/ s = <<ids, e>>
      \/ s = <<done, handler, e>>
  BY DEF Buffers!child, KnownProgram
<1>2. CASE s = Buffers!exit_handler(c)
  BY <1>0, <1>2, HandlerSteps
<1> HIDE DEF ids, done, handler, e, s
<1>3. CASE s = <<ids, e>>
  BY <1>0, <1>3, TwoSteps DEF s, e
<1>4. CASE s = <<done, handler, e>>
  BY <1>0, <1>4, ThreeSteps DEF s, e
<1> QED
  BY <1>1, <1>2, <1>3, <1>4 DEF s

LEMMA BuffersInit == Buffers!Init \/ BuffersEnded => BuffersInv
<1> SUFFICES ASSUME Buffers!Init \/ BuffersEnded PROVE BuffersInv
  OBVIOUS
<1>0. /\ Loops \in Nat \ {0} /\ 0 \in Buffers!Processes
      /\ \A c \in 1 .. Loops : c \in Buffers!Processes /\ c # 0
      /\ \A p \in Buffers!Processes : p = 0 \/ p \in 1 .. Loops
  BY ChildrenAssumption DEF Buffers!Processes
<1>1. /\ KnownProgram
      /\ redirected \in BOOLEAN
      /\ past = << >>
      /\ unwritten = [p \in Buffers!Processes |-> {}]
      /\ DOMAIN written = {}
      /\ \/ todo = [p \in Buffers!Processes |-> IF p = 0 THEN Buffers!parent ELSE << >>]
         \/ todo = [p \in Buffers!Processes |-> << >>]
  BY DEF Buffers!Init, BuffersEnded, KnownProgram
<1>2. << >> \in Seq(Steps) /\ Len(<< >>) = 0 /\ Elements(<< >>) = {} /\ Distinct(<< >>)
  BY EmptySeq DEF Elements, Distinct
<1>3. /\ todo \in [Buffers!Processes -> {Buffers!parent, << >>}]
      /\ \A c \in 1 .. Loops : todo[c] = << >>
  BY <1>0, <1>1
<1>4. /\ todo \in [Buffers!Processes -> Seq(Steps)]
      /\ \A p \in Buffers!Processes : Distinct(todo[p])
  <2>1. \A s \in {Buffers!parent, << >>} : s \in Seq(Steps) /\ Distinct(s)
    BY <1>1, <1>2, ParentSteps
  <2> QED
    BY <1>3, <2>1
<1>5. /\ \A x \in Elements(todo[0]) : OfParent(x)
      /\ \A k, l \in 1 .. Len(todo[0]) :
           k < l /\ todo[0][k][1] \in LastSteps => ~Buffers!IsFork(todo[0][l])
  <2>1. CASE todo[0] = Buffers!parent
    BY <1>1, <2>1, ParentSteps
  <2>2. CASE todo[0] = << >>
    BY <1>2, <2>2
  <2> QED
    BY <1>0, <1>3, <2>1, <2>2
<1>6. BuffersTypes
  BY <1>1, <1>2, <1>4 DEF BuffersTypes
<1>7. ToDoAndDone
  BY <1>0, <1>1, <1>2, <1>3, <1>4, <1>5 DEF ToDoAndDone
<1>8. LastStepsLast
  BY <1>1, <1>2, <1>5 DEF LastStepsLast
<1>9. WhatIsSeen
  BY <1>0, <1>1, <1>2 DEF WhatIsSeen, Seen
<1>10. LinesOfChildren /\ LinesOfParent
  BY <1>0, <1>1 DEF LinesOfChildren, LinesOfParent
<1> QED
  BY <1>6, <1>7, <1>8, <1>9, <1>10 DEF BuffersInv

LEMMA ProcessIds ==
  /\ Loops \in Nat \ {0} /\ 0 \in Buffers!Processes
  /\ \A c \in 1 .. Loops : c \in Buffers!Processes /\ c # 0
  /\ \A p \in Buffers!Processes : p = 0 \/ p \in 1 .. Loops
  BY ChildrenAssumption DEF Buffers!Processes

LEMMA SameCardinality == \A S : Buffers!Cardinality(S) = Cardinality(S)
  BY DEF Buffers!Cardinality, Cardinality

LEMMA CopiesAre ==
  /\ \A l : Buffers!Copies(l) = Times(l) + Cardinality(Holders(l))
  /\ \A l : Buffers!Copies(l)' = Times(l)' + Cardinality(Holders(l)')
<1>1. ASSUME NEW l PROVE Buffers!Copies(l) = Times(l) + Cardinality(Holders(l))
  BY SameCardinality DEF Buffers!Copies, Times, Holders
<1>2. ASSUME NEW l PROVE Buffers!Copies(l)' = Times(l)' + Cardinality(Holders(l)')
  BY SameCardinality DEF Buffers!Copies, Times, Holders
<1> QED
  BY <1>1, <1>2

(* A line is printed: it has its first copy and the others keep theirs.    *)
LEMMA Printed ==
  ASSUME BuffersTypes, NEW p \in Buffers!Processes, NEW x \in Steps, ~Seen(x),
         UNCHANGED redirected,
         IF redirected
           THEN /\ unwritten' = [unwritten EXCEPT ![p] = @ \union {x}]
                /\ UNCHANGED written
           ELSE Buffers!Write({x}) /\ UNCHANGED unwritten
  PROVE  /\ unwritten' \in [Buffers!Processes -> SUBSET Steps]
         /\ \A l \in DOMAIN written' : l \in Steps /\ written'[l] \in Nat \ {0}
         /\ \A l : Seen(l)' <=> Seen(l) \/ l = x
         /\ \A l : l # x => (l \in DOMAIN written' <=> l \in DOMAIN written)
         /\ \A l : l # x => Times(l)' = Times(l)
         /\ \A q \in Buffers!Processes : \A l :
              l \in unwritten'[q] <=> l \in unwritten[q] \/ (redirected /\ q = p /\ l = x)
         /\ x \in DOMAIN written' <=> ~redirected
         /\ x \in DOMAIN written' => written'[x] = 1
         /\ Buffers!Copies(x)' = 1
         /\ \A l : l # x => Buffers!Copies(l)' = Buffers!Copies(l)
<1>1. /\ \A l : Buffers!Copies(l) = Times(l) + Cardinality(Holders(l))
      /\ \A l : Buffers!Copies(l)' = Times(l)' + Cardinality(Holders(l)')
  BY CopiesAre
<1>2. Times(x) = 0 /\ Holders(x) = {} /\ Cardinality({}) = 0 /\ Cardinality({p}) = 1
  BY FS_EmptySet, FS_Singleton DEF Seen, Times, Holders
<1>3. CASE redirected
  <2>0. /\ unwritten' \in [Buffers!Processes -> SUBSET Steps]
        /\ \A l \in DOMAIN written' : l \in Steps /\ written'[l] \in Nat \ {0}
    BY <1>3 DEF BuffersTypes
  <2>a. \A q \in Buffers!Processes : \A l :
          l \in unwritten'[q] <=> l \in unwritten[q] \/ (q = p /\ l = x)
    BY <1>3 DEF BuffersTypes
  <2>1. \A l : Seen(l)' <=> Seen(l) \/ l = x
    BY <1>3, <2>a DEF Seen
  <2>2. \A l : Times(l)' = Times(l)
    BY <1>3 DEF Times
  <2>3. Holders(x)' = {p}
    BY <1>2, <2>a DEF Holders
  <2>4. ASSUME NEW l, l # x PROVE Holders(l)' = Holders(l)
    BY <2>a, <2>4 DEF Holders
  <2>5. Buffers!Copies(x)' = 1
    BY <1>1, <1>2, <2>2, <2>3
  <2>6. \A l : l # x => Buffers!Copies(l)' = Buffers!Copies(l)
    BY <1>1, <2>2, <2>4
  <2>7. x \notin DOMAIN written'
    BY <1>3 DEF Seen
  <2> QED
    BY <1>3, <2>0, <2>a, <2>1, <2>2, <2>5, <2>6, <2>7
<1>4. CASE ~redirected
  <2>1. /\ DOMAIN written' = DOMAIN written \union {x}
        /\ \A l : Times(l)' = Times(l) + IF l \in {x} THEN 1 ELSE 0
        /\ \A l \in DOMAIN written' : l \in Steps /\ written'[l] \in Nat \ {0}
    BY <1>4, WriteTimes
  <2>2. \A l : Holders(l)' = Holders(l)
    BY <1>4 DEF Holders
  <2>3. \A l : Times(l) \in Nat
    BY DEF BuffersTypes, Times
  <2>4. \A l : Seen(l)' <=> Seen(l) \/ l = x
    BY <1>4, <2>1 DEF Seen
  <2>5. Buffers!Copies(x)' = 1
    <3>1. Times(x)' = 1 /\ Holders(x)' = {}
      BY <1>2, <2>1, <2>2
    <3> QED
      BY <1>1, <1>2, <3>1
  <2>6. \A l : l # x => Times(l)' = Times(l)
    BY <2>1, <2>3
  <2>7. \A l : l # x => Buffers!Copies(l)' = Buffers!Copies(l)
    BY <1>1, <2>2, <2>6
  <2>8. unwritten' \in [Buffers!Processes -> SUBSET Steps]
    BY <1>4 DEF BuffersTypes
  <2>9. \A l : l # x => (l \in DOMAIN written' <=> l \in DOMAIN written)
    BY <2>1
  <2>10. written'[x] = 1
    BY <1>2, <2>1 DEF Times
  <2> QED
    BY <1>4, <2>1, <2>4, <2>5, <2>6, <2>7, <2>8, <2>9, <2>10
<1> QED
  BY <1>3, <1>4

(* A process exits: what it had not written is.                            *)
LEMMA WrittenOut ==
  ASSUME BuffersTypes, NEW p \in Buffers!Processes, Buffers!Write(unwritten[p]),
         unwritten' = [unwritten EXCEPT ![p] = {}]
  PROVE  /\ unwritten' \in [Buffers!Processes -> SUBSET Steps]
         /\ \A l \in DOMAIN written' : l \in Steps /\ written'[l] \in Nat \ {0}
         /\ DOMAIN written' = DOMAIN written \union unwritten[p]
         /\ \A l : Times(l)' = Times(l) + IF l \in unwritten[p] THEN 1 ELSE 0
         /\ \A l : Seen(l)' <=> Seen(l)
         /\ \A l : Buffers!Copies(l)' = Buffers!Copies(l)
<1>1. /\ \A l : Buffers!Copies(l) = Times(l) + Cardinality(Holders(l))
      /\ \A l : Buffers!Copies(l)' = Times(l)' + Cardinality(Holders(l)')
  BY CopiesAre
<1>2. /\ DOMAIN written' = DOMAIN written \union unwritten[p]
      /\ \A l : Times(l)' = Times(l) + IF l \in unwritten[p] THEN 1 ELSE 0
      /\ \A l \in DOMAIN written' : l \in Steps /\ written'[l] \in Nat \ {0}
  <2>1. unwritten[p] \subseteq Steps
    BY DEF BuffersTypes
  <2> QED
    BY <2>1, WriteTimes
<1>3. ASSUME NEW l PROVE Buffers!Copies(l)' = Buffers!Copies(l)
  <2>1. IsFiniteSet(Holders(l)) /\ Cardinality(Holders(l)) \in Nat /\ Times(l) \in Nat
    BY FiniteHolders, FS_CardinalityType DEF Times, BuffersTypes
  <2>2. CASE l \in unwritten[p]
    <3>1. Holders(l)' = Holders(l) \ {p} /\ p \in Holders(l)
      BY <2>2 DEF Holders, BuffersTypes
    <3>2. Cardinality(Holders(l) \ {p}) = Cardinality(Holders(l)) - 1
      BY <2>1, <3>1, FS_RemoveElement
    <3>3. Times(l)' = Times(l) + 1 /\ Cardinality(Holders(l)') = Cardinality(Holders(l)) - 1
      BY <1>2, <2>2, <3>1, <3>2
    <3> QED
      BY <1>1, <2>1, <3>3
  <2>3. CASE l \notin unwritten[p]
    <3>1. Holders(l)' = Holders(l)
      BY <2>3 DEF Holders, BuffersTypes
    <3> QED
      BY <1>1, <1>2, <2>1, <2>3, <3>1
  <2> QED
    BY <2>2, <2>3
<1>4. \A l : Seen(l)' <=> Seen(l)
  BY <1>2 DEF Seen, BuffersTypes
<1> QED
  BY <1>2, <1>3, <1>4 DEF BuffersTypes

(* The parent's buffer is copied to a new child.                           *)
LEMMA BufferCopied ==
  ASSUME BuffersTypes, NEW c \in 1 .. Loops, unwritten[c] = {}, UNCHANGED written,
         unwritten' = [unwritten EXCEPT ![c] = unwritten[0]]
  PROVE  /\ unwritten' \in [Buffers!Processes -> SUBSET Steps]
         /\ \A l : Seen(l)' <=> Seen(l)
         /\ \A l : Buffers!Copies(l)' =
                     Buffers!Copies(l) + IF l \in unwritten[0] THEN 1 ELSE 0
<1>1. /\ \A l : Buffers!Copies(l) = Times(l) + Cardinality(Holders(l))
      /\ \A l : Buffers!Copies(l)' = Times(l)' + Cardinality(Holders(l)')
  BY CopiesAre
<1>3. ASSUME NEW l
      PROVE  Buffers!Copies(l)' = Buffers!Copies(l) + IF l \in unwritten[0] THEN 1 ELSE 0
  <2>1. /\ IsFiniteSet(Holders(l)) /\ Cardinality(Holders(l)) \in Nat
        /\ Times(l) \in Nat /\ Times(l)' = Times(l)
    BY FiniteHolders, FS_CardinalityType DEF Times, BuffersTypes
  <2>2. CASE l \in unwritten[0]
    <3>1. Holders(l)' = Holders(l) \union {c} /\ c \notin Holders(l)
      BY <2>2, ProcessIds DEF Holders, BuffersTypes
    <3>2. Cardinality(Holders(l) \union {c}) = Cardinality(Holders(l)) + 1
      BY <2>1, <3>1, FS_AddElement
    <3>3. Times(l)' = Times(l) /\ Cardinality(Holders(l)') = Cardinality(Holders(l)) + 1
      BY <2>1, <3>1, <3>2
    <3> QED
      BY <1>1, <2>1, <2>2, <3>3
  <2>3. CASE l \notin unwritten[0]
    <3>1. Holders(l)' = Holders(l)
      BY <2>3, ProcessIds DEF Holders, BuffersTypes
    <3> QED
      BY <1>1, <2>1, <2>3, <3>1
  <2> QED
    BY <2>2, <2>3
<1>4. \A l : Seen(l)' <=> Seen(l)
  BY ProcessIds DEF Seen, BuffersTypes
<1> QED
  BY <1>3, <1>4, ProcessIds DEF BuffersTypes

(* The parent does what is next.                                           *)
LEMMA ParentAdvances ==
  ASSUME BuffersTypes, ToDoAndDone, LastStepsLast, NEW x, x = todo[0][1], todo[0] # << >>,
         todo'[0] = Tail(todo[0]), past' = Append(past, x)
  PROVE  /\ x \in Steps /\ x \in Elements(todo[0]) /\ OfParent(x) /\ x \notin Elements(past)
         /\ todo'[0] \in Seq(Steps) /\ past' \in Seq(Steps)
         /\ Distinct(todo'[0]) /\ Distinct(past')
         /\ Elements(todo'[0]) = Elements(todo[0]) \ {x}
         /\ Elements(past') = Elements(past) \union {x}
         /\ LastStepsLast'
         /\ Len(past) \in Nat
         /\ DOMAIN past = 1 .. Len(past) /\ DOMAIN past' = 1 .. Len(past) + 1
         /\ past'[Len(past) + 1] = x
         /\ \A k \in 1 .. Len(past) : past'[k] = past[k] /\ past[k] \in Elements(past)
<1>1. /\ todo[0] \in Seq(Steps) /\ Distinct(todo[0])
      /\ past \in Seq(Steps) /\ Distinct(past)
  BY ProcessIds DEF BuffersTypes, ToDoAndDone
<1>2. /\ Tail(todo[0]) \in Seq(Steps) /\ Distinct(Tail(todo[0]))
      /\ x \in Steps /\ x \in Elements(todo[0])
      /\ Elements(Tail(todo[0])) = Elements(todo[0]) \ {x}
  BY <1>1, TailElements
<1>3. x \notin Elements(past) /\ OfParent(x)
  BY <1>2 DEF ToDoAndDone
<1>4. /\ past' \in Seq(Steps) /\ Distinct(past')
      /\ Len(past') = Len(past) + 1 /\ Len(past) \in Nat
      /\ past'[Len(past) + 1] = x
      /\ \A k \in 1 .. Len(past) : past'[k] = past[k]
      /\ Elements(past') = Elements(past) \union {x}
  BY <1>1, <1>2, <1>3, AppendElements
<1>5. /\ Len(Tail(todo[0])) = Len(todo[0]) - 1 /\ Len(todo[0]) \in Nat \ {0}
      /\ \A k \in 1 .. Len(todo[0]) - 1 : Tail(todo[0])[k] = todo[0][k + 1]
  BY <1>1, HeadTailProperties, LenProperties, EmptySeq
<1>6. \A k, l \in 1 .. Len(todo[0]) - 1 :
        k < l /\ todo'[0][k][1] \in LastSteps => ~Buffers!IsFork(todo'[0][l])
  <2> TAKE k, l \in 1 .. Len(todo[0]) - 1
  <2>1. k + 1 \in 1 .. Len(todo[0]) /\ l + 1 \in 1 .. Len(todo[0]) /\ (k < l => k + 1 < l + 1)
    BY <1>5
  <2> QED
    BY <1>5, <2>1 DEF LastStepsLast
<1>7. \A y \in Elements(todo'[0]) : Buffers!IsFork(y) => x[1] \notin LastSteps
  <2> TAKE y \in Elements(todo'[0])
  <2>1. PICK k \in 1 .. Len(todo[0]) - 1 : y = todo[0][k + 1]
    BY <1>5 DEF Elements
  <2>2. 1 \in 1 .. Len(todo[0]) /\ k + 1 \in 1 .. Len(todo[0]) /\ 1 < k + 1
    BY <1>5
  <2> QED
    BY <2>1, <2>2 DEF LastStepsLast
<1>8. LastStepsLast'
  BY <1>2, <1>4, <1>5, <1>6, <1>7 DEF LastStepsLast
<1>9. \A k \in 1 .. Len(past) : past[k] \in Elements(past)
  BY DEF Elements
<1>10. DOMAIN past = 1 .. Len(past) /\ DOMAIN past' = 1 .. Len(past')
  BY <1>1, <1>4, LenProperties
<1> QED
  BY <1>2, <1>3, <1>4, <1>8, <1>9, <1>10

(* A fork comes after all that has been done before it.                    *)
LEMMA ForksCount ==
  ASSUME BuffersTypes, NEW x \in Steps, past' = Append(past, x),
         NEW n, n = Len(past) + 1
  PROVE  /\ \A k \in 1 .. Len(past) : Cardinality(ForksAfter(k)') =
              Cardinality(ForksAfter(k)) + IF Buffers!IsFork(x) THEN 1 ELSE 0
         /\ Cardinality(ForksAfter(n)') = 0
<1>1. /\ Len(past') = Len(past) + 1 /\ Len(past) \in Nat
      /\ DOMAIN past = 1 .. Len(past) /\ DOMAIN past' = 1 .. Len(past) + 1
      /\ past'[Len(past) + 1] = x
      /\ \A k \in 1 .. Len(past) : past'[k] = past[k]
  BY AppendProperties, LenProperties DEF BuffersTypes
<1>2. ForksAfter(n)' = {}
  BY <1>1 DEF ForksAfter
<1>3. ASSUME NEW k \in 1 .. Len(past)
      PROVE  Cardinality(ForksAfter(k)') =
               Cardinality(ForksAfter(k)) + IF Buffers!IsFork(x) THEN 1 ELSE 0
  <2>1. IsFiniteSet(ForksAfter(k)) /\ Cardinality(ForksAfter(k)) \in Nat
    BY FiniteForks, FS_CardinalityType
  <2>2. CASE Buffers!IsFork(x)
    <3>1. /\ ForksAfter(k)' = ForksAfter(k) \union {Len(past) + 1}
          /\ Len(past) + 1 \notin ForksAfter(k)
      BY <1>1, <2>2 DEF ForksAfter, Buffers!IsFork
    <3> QED
      BY <2>1, <2>2, <3>1, FS_AddElement
  <2>3. CASE ~Buffers!IsFork(x)
    <3>1. ForksAfter(k)' = ForksAfter(k)
      BY <1>1, <2>3 DEF ForksAfter, Buffers!IsFork
    <3> QED
      BY <2>1, <2>3, <3>1
  <2> QED
    BY <2>2, <2>3
<1> QED
  BY <1>2, <1>3, FS_EmptySet

LEMMA WhoseLines ==
  /\ \A x : OfParent(x) => \A c \in 1 .. Loops : ~LineOfChild(c, x)
  /\ \A c, d, x : LineOfChild(c, x) /\ LineOfChild(d, x) => c = d
  /\ \A c, x : LineOfChild(c, x) => Buffers!IsLine(x)
  /\ ~Buffers!IsLine(Buffers!exit) /\ ~Buffers!IsFork(Buffers!exit)
  /\ \A x : Buffers!IsFork(x) => ~Buffers!IsLine(x)
  /\ \A x \in Steps : OfParent(x) /\ Buffers!IsFork(x) =>
       x[2] \in 1 .. Loops /\ x = Buffers!fork(x[2])
  /\ \A c : Buffers!IsFork(Buffers!fork(c)) /\ Buffers!fork(c) # Buffers!exit
<1>1. \A x : OfParent(x) => \A c \in 1 .. Loops : ~LineOfChild(c, x)
  BY ProcessIds DEF OfParent, LineOfChild, Buffers!IsFork, LastSteps
<1>2. /\ \A c, d, x : LineOfChild(c, x) /\ LineOfChild(d, x) => c = d
      /\ \A c, x : LineOfChild(c, x) => Buffers!IsLine(x)
  BY DEF LineOfChild, Buffers!IsLine
<1>3. /\ ~Buffers!IsLine(Buffers!exit) /\ ~Buffers!IsFork(Buffers!exit)
      /\ \A x : Buffers!IsFork(x) => ~Buffers!IsLine(x)
  BY DEF Buffers!IsLine, Buffers!IsFork, Buffers!exit
<1>4. \A x \in Steps : OfParent(x) /\ Buffers!IsFork(x) =>
        x[2] \in 1 .. Loops /\ x = Buffers!fork(x[2])
  BY DEF Steps, OfParent, LastSteps, Buffers!IsFork, Buffers!fork
<1>5. \A c : Buffers!IsFork(Buffers!fork(c)) /\ Buffers!fork(c) # Buffers!exit
  BY DEF Buffers!IsFork, Buffers!fork, Buffers!exit
<1> QED
  BY <1>1, <1>2, <1>3, <1>4, <1>5

LEMMA PrintLineStep ==
  ASSUME BuffersInv, NEW p \in Buffers!Processes, Buffers!PrintLine(p)
  PROVE  BuffersInv'
<1>0. PICK x : x = todo[p][1]
  OBVIOUS
<1> USE DEF BuffersInv
<1>1. /\ todo[p] # << >> /\ Buffers!IsLine(x)
      /\ todo' = [todo EXCEPT ![p] = Tail(@)]
      /\ UNCHANGED <<text, redirected>>
      /\ past' = IF p = 0 THEN Append(past, todo[0][1]) ELSE past
      /\ IF redirected
           THEN /\ unwritten' = [unwritten EXCEPT ![p] = @ \union {x}]
                /\ UNCHANGED written
           ELSE Buffers!Write({x}) /\ UNCHANGED unwritten
  BY <1>0 DEF Buffers!PrintLine, Buffers!Advance
<1>2. /\ Tail(todo[p]) \in Seq(Steps) /\ Distinct(Tail(todo[p]))
      /\ x \in Steps /\ x \in Elements(todo[p])
      /\ Elements(Tail(todo[p])) = Elements(todo[p]) \ {x}
  BY <1>0, <1>1, TailElements DEF BuffersTypes, ToDoAndDone
<1>3. ~Seen(x)
  BY <1>1, <1>2 DEF WhatIsSeen
<1>4. /\ unwritten' \in [Buffers!Processes -> SUBSET Steps]
      /\ \A l \in DOMAIN written' : l \in Steps /\ written'[l] \in Nat \ {0}
      /\ \A l : Seen(l)' <=> Seen(l) \/ l = x
      /\ \A l : l # x => (l \in DOMAIN written' <=> l \in DOMAIN written)
      /\ \A l : l # x => Times(l)' = Times(l)
      /\ \A q \in Buffers!Processes : \A l :
           l \in unwritten'[q] <=> l \in unwritten[q] \/ (redirected /\ q = p /\ l = x)
      /\ x \in DOMAIN written' <=> ~redirected
      /\ x \in DOMAIN written' => written'[x] = 1
      /\ Buffers!Copies(x)' = 1
      /\ \A l : l # x => Buffers!Copies(l)' = Buffers!Copies(l)
  <2>1. UNCHANGED redirected
    BY <1>1
  <2> QED
    BY <1>1, <1>2, <1>3, <2>1, Printed
<1>5. /\ todo' \in [Buffers!Processes -> Seq(Steps)]
      /\ todo'[p] = Tail(todo[p])
      /\ \A q \in Buffers!Processes : q # p => todo'[q] = todo[q]
      /\ \A q \in Buffers!Processes : Distinct(todo'[q])
      /\ \A q \in Buffers!Processes :
           \A l \in Elements(todo'[q]) : l \in Elements(todo[q]) /\ (q = p => l # x)
  BY <1>1, <1>2 DEF BuffersTypes, ToDoAndDone
<1>6. CASE p = 0
  <2>1. /\ OfParent(x) /\ x \notin Elements(past)
        /\ todo'[0] \in Seq(Steps) /\ past' \in Seq(Steps)
        /\ Distinct(todo'[0]) /\ Distinct(past')
        /\ Elements(todo'[0]) = Elements(todo[0]) \ {x}
        /\ Elements(past') = Elements(past) \union {x}
        /\ LastStepsLast'
        /\ Len(past) \in Nat
        /\ DOMAIN past = 1 .. Len(past) /\ DOMAIN past' = 1 .. Len(past) + 1
        /\ past'[Len(past) + 1] = x
        /\ \A k \in 1 .. Len(past) : past'[k] = past[k] /\ past[k] \in Elements(past)
    BY <1>1, <1>5, <1>6, <1>0, ParentAdvances
  <2>2. BuffersTypes'
    BY <1>1, <1>4, <1>5, <2>1 DEF BuffersTypes, KnownProgram
  <2>3. ToDoAndDone'
    <3>1. ASSUME NEW c \in 1 .. Loops, Buffers!fork(c) \notin Elements(past')
          PROVE  todo'[c] = << >> /\ unwritten'[c] = {}
      <4>1. todo[c] = << >> /\ unwritten[c] = {} /\ c \in Buffers!Processes /\ c # p
        BY <1>6, <2>1, <3>1, ProcessIds DEF ToDoAndDone
      <4> QED
        BY <1>4, <1>5, <4>1
    <3>2. \A c \in 1 .. Loops : \A y \in Elements(todo'[c]) :
            LineOfChild(c, y) \/ y = Buffers!exit
      BY <1>5, <1>6, ProcessIds DEF ToDoAndDone
    <3>3. /\ Elements(todo'[0]) \cap Elements(past') = {}
          /\ \A y \in Elements(todo'[0]) \union Elements(past') : OfParent(y)
      BY <2>1 DEF ToDoAndDone
    <3> QED
      BY <1>5, <2>1, <3>1, <3>2, <3>3 DEF ToDoAndDone
  <2>4. WhatIsSeen'
    <3>1. ASSUME NEW l \in Steps, Seen(l)'
          PROVE  /\ Buffers!IsLine(l)
                 /\ \/ l \in Elements(past')
                    \/ \E c \in 1 .. Loops : Buffers!fork(c) \in Elements(past') /\ LineOfChild(c, l)
      BY <1>1, <1>4, <2>1, <3>1 DEF WhatIsSeen
    <3>2. ASSUME NEW q \in Buffers!Processes, NEW l \in Elements(todo'[q]), Buffers!IsLine(l)
          PROVE  ~Seen(l)'
      <4>1. l \in Elements(todo[q]) /\ ~Seen(l)
        BY <1>5, <3>2 DEF WhatIsSeen
      <4>2. l # x
        BY <1>5, <1>6, <2>1, <3>2, <4>1, ProcessIds, WhoseLines DEF ToDoAndDone
      <4> QED
        BY <1>4, <4>1, <4>2
    <3>3. ~redirected' => \A q \in Buffers!Processes : unwritten'[q] = {}
      BY <1>1 DEF WhatIsSeen
    <3>4. redirected' /\ todo'[0] # << >> =>
            \A l \in Elements(past') : Buffers!IsLine(l) => l \in unwritten'[0]
      BY <1>1, <1>4, <1>6, <2>1, ProcessIds DEF WhatIsSeen
    <3> QED
      BY <3>1, <3>2, <3>3, <3>4 DEF WhatIsSeen
  <2>5. LinesOfChildren'
    BY <1>4, <2>1, WhoseLines DEF LinesOfChildren, Times
  <2>6. LinesOfParent'
    <3> SUFFICES ASSUME NEW k \in 1 .. Len(past) + 1, NEW l, l = past'[k],
                        Buffers!IsLine(l)
                 PROVE  Buffers!Copies(l)' =
                          1 + IF redirected' THEN Cardinality(ForksAfter(k)') ELSE 0
      BY <2>1 DEF LinesOfParent
    <3>0. x = todo[0][1] /\ ~Buffers!IsFork(x)
      BY <1>1, <1>6, WhoseLines, <1>0
    <3>1. CASE k = Len(past) + 1
      <4>1. Cardinality(ForksAfter(k)') = 0
        BY <1>1, <1>2, <1>6, <3>0, <3>1, ForksCount
      <4>2. l = x
        BY <2>1, <3>1
      <4> QED
        BY <1>4, <4>1, <4>2
    <3>2. CASE k \in 1 .. Len(past)
      <4>1. l = past[k] /\ l # x
        BY <2>1, <3>2
      <4>2. Buffers!Copies(l) = 1 + IF redirected THEN Cardinality(ForksAfter(k)) ELSE 0
        BY <2>1, <3>2, <4>1 DEF LinesOfParent
      <4>3. Cardinality(ForksAfter(k)') = Cardinality(ForksAfter(k)) + 0
        BY <1>1, <1>2, <1>6, <3>0, <3>2, ForksCount
      <4>4. Cardinality(ForksAfter(k)) \in Nat
        BY FiniteForks, FS_CardinalityType
      <4>5. Buffers!Copies(l)' = Buffers!Copies(l)
        BY <1>4, <4>1
      <4> QED
        BY <1>1, <4>2, <4>3, <4>4, <4>5
    <3> QED
      BY <2>1, <3>1, <3>2
  <2> QED
    BY <2>1, <2>2, <2>3, <2>4, <2>5, <2>6
<1>7. CASE p # 0
  <2>1. /\ p \in 1 .. Loops /\ LineOfChild(p, x)
        /\ past' = past /\ todo'[0] = todo[0]
        /\ Buffers!fork(p) \in Elements(past)
    BY <1>1, <1>2, <1>5, <1>7, ProcessIds, WhoseLines DEF ToDoAndDone
  <2>2. BuffersTypes'
    BY <1>1, <1>4, <1>5, <2>1 DEF BuffersTypes, KnownProgram
  <2>3. ToDoAndDone'
    <3>1. ASSUME NEW c \in 1 .. Loops, Buffers!fork(c) \notin Elements(past)
          PROVE  todo'[c] = << >> /\ unwritten'[c] = {}
      <4>1. todo[c] = << >> /\ unwritten[c] = {} /\ c \in Buffers!Processes /\ c # p
        BY <2>1, <3>1, ProcessIds DEF ToDoAndDone
      <4> QED
        BY <1>4, <1>5, <4>1
    <3>2. \A c \in 1 .. Loops : \A y \in Elements(todo'[c]) :
            LineOfChild(c, y) \/ y = Buffers!exit
      BY <1>5, ProcessIds DEF ToDoAndDone
    <3> QED
      BY <1>5, <2>1, <3>1, <3>2 DEF ToDoAndDone
  <2>4. WhatIsSeen'
    <3>1. ASSUME NEW l \in Steps, Seen(l)'
          PROVE  /\ Buffers!IsLine(l)
                 /\ \/ l \in Elements(past)
                    \/ \E c \in 1 .. Loops : Buffers!fork(c) \in Elements(past) /\ LineOfChild(c, l)
      BY <1>1, <1>4, <2>1, <3>1 DEF WhatIsSeen
    <3>2. ASSUME NEW q \in Buffers!Processes, NEW l \in Elements(todo'[q]), Buffers!IsLine(l)
          PROVE  ~Seen(l)'
      <4>1. l \in Elements(todo[q]) /\ ~Seen(l)
        BY <1>5, <3>2 DEF WhatIsSeen
      <4>2. l # x
        <5>1. CASE q = p
          BY <1>5, <5>1
        <5>2. CASE q = 0
          BY <2>1, <4>1, <5>2, WhoseLines DEF ToDoAndDone
        <5>3. CASE q # p /\ q \in 1 .. Loops
          BY <2>1, <3>2, <4>1, <5>3, WhoseLines DEF ToDoAndDone
        <5> QED
          BY <5>1, <5>2, <5>3, ProcessIds
      <4> QED
        BY <1>4, <4>1, <4>2
    <3>3. ~redirected' => \A q \in Buffers!Processes : unwritten'[q] = {}
      BY <1>1 DEF WhatIsSeen
    <3>4. redirected' /\ todo'[0] # << >> =>
            \A l \in Elements(past) : Buffers!IsLine(l) => l \in unwritten'[0]
      BY <1>1, <1>4, <2>1, ProcessIds DEF WhatIsSeen
    <3> QED
      BY <2>1, <3>1, <3>2, <3>3, <3>4 DEF WhatIsSeen
  <2>5. LinesOfChildren'
    <3> SUFFICES ASSUME NEW c \in 1 .. Loops, NEW l \in Steps, LineOfChild(c, l)
                 PROVE  /\ \A q \in Buffers!Processes : l \in unwritten'[q] =>
                             q = c /\ l \notin DOMAIN written'
                        /\ l \in DOMAIN written' => written'[l] = 1
      BY DEF LinesOfChildren
    <3>1. CASE l = x
      <4>1. c = p
        BY <2>1, <3>1, WhoseLines
      <4> QED
        BY <1>3, <1>4, <3>1, <4>1 DEF Seen
    <3>2. CASE l # x
      BY <1>4, <3>2 DEF LinesOfChildren, Times
    <3> QED
      BY <3>1, <3>2
  <2>6. LinesOfParent'
    <3>1. \A k : ForksAfter(k)' = ForksAfter(k)
      BY <2>1 DEF ForksAfter
    <3>2. \A k \in DOMAIN past : past[k] # x
      <4>1. DOMAIN past = 1 .. Len(past)
        BY LenProperties DEF BuffersTypes
      <4> QED
        BY <2>1, <4>1, WhoseLines DEF ToDoAndDone, Elements
    <3> QED
      BY <1>1, <1>4, <2>1, <3>1, <3>2 DEF LinesOfParent
  <2>7. LastStepsLast'
    BY <2>1 DEF LastStepsLast
  <2> QED
    BY <2>2, <2>3, <2>4, <2>5, <2>6, <2>7
<1> QED
  BY <1>6, <1>7

LEMMA ForkStep == ASSUME BuffersInv, Buffers!Fork PROVE BuffersInv'
<1> USE DEF BuffersInv
<1>0. PICK x : x = todo[0][1]
  OBVIOUS
<1>1. PICK c : c = x[2]
  OBVIOUS
<1>2. /\ todo[0] # << >> /\ Buffers!IsFork(x)
      /\ past' = Append(past, x)
      /\ todo' = [todo EXCEPT ![0] = Tail(@), ![c] = Buffers!child(c)]
      /\ unwritten' = [unwritten EXCEPT ![c] = unwritten[0]]
      /\ UNCHANGED <<text, redirected, written>>
  BY <1>0, <1>1 DEF Buffers!Fork, Buffers!Advance
<1>3. x \in Steps /\ x \in Elements(todo[0]) /\ OfParent(x) /\ x \notin Elements(past)
  <2>1. todo[0] \in Seq(Steps) /\ Distinct(todo[0])
    BY ProcessIds DEF BuffersTypes, ToDoAndDone
  <2>2. x \in Steps /\ x \in Elements(todo[0])
    BY <1>0, <1>2, <2>1, TailElements
  <2> QED
    BY <2>2 DEF ToDoAndDone
<1>4. c \in 1 .. Loops /\ x = Buffers!fork(c) /\ ~Buffers!IsLine(x)
  BY <1>1, <1>2, <1>3, WhoseLines
<1>5. todo[c] = << >> /\ unwritten[c] = {}
  BY <1>3, <1>4 DEF ToDoAndDone
<1>6. todo'[0] = Tail(todo[0]) /\ todo'[c] = Buffers!child(c)
      /\ \A q \in Buffers!Processes : q # 0 /\ q # c => todo'[q] = todo[q]
  BY <1>2, <1>4, ProcessIds DEF BuffersTypes
<1>7. /\ Buffers!child(c) \in Seq(Steps) /\ Distinct(Buffers!child(c))
      /\ \A y \in Elements(Buffers!child(c)) : LineOfChild(c, y) \/ y = Buffers!exit
  BY <1>4, ChildSteps DEF BuffersTypes
<1>8. /\ todo'[0] \in Seq(Steps) /\ past' \in Seq(Steps)
      /\ Distinct(todo'[0]) /\ Distinct(past')
      /\ Elements(todo'[0]) = Elements(todo[0]) \ {x}
      /\ Elements(past') = Elements(past) \union {x}
      /\ LastStepsLast'
      /\ Len(past) \in Nat
      /\ DOMAIN past = 1 .. Len(past) /\ DOMAIN past' = 1 .. Len(past) + 1
      /\ past'[Len(past) + 1] = x
      /\ \A k \in 1 .. Len(past) : past'[k] = past[k] /\ past[k] \in Elements(past)
  BY <1>0, <1>2, <1>6, ParentAdvances
<1>9. /\ unwritten' \in [Buffers!Processes -> SUBSET Steps]
      /\ \A l : Seen(l)' <=> Seen(l)
      /\ \A l : Buffers!Copies(l)' = Buffers!Copies(l) + IF l \in unwritten[0] THEN 1 ELSE 0
  BY <1>2, <1>4, <1>5, BufferCopied
<1>10. /\ unwritten'[c] = unwritten[0]
       /\ \A q \in Buffers!Processes : q # c => unwritten'[q] = unwritten[q]
  BY <1>2, <1>4, ProcessIds DEF BuffersTypes
<1>11. BuffersTypes'
  <2>1. todo' \in [Buffers!Processes -> Seq(Steps)]
    BY <1>2, <1>4, <1>6, <1>7, <1>8, ProcessIds DEF BuffersTypes
  <2> QED
    BY <1>2, <1>8, <1>9, <2>1 DEF BuffersTypes, KnownProgram
<1>12. ToDoAndDone'
  <2>1. ASSUME NEW d \in 1 .. Loops, Buffers!fork(d) \notin Elements(past')
        PROVE  todo'[d] = << >> /\ unwritten'[d] = {}
    <3>1. todo[d] = << >> /\ unwritten[d] = {} /\ d \in Buffers!Processes /\ d # 0 /\ d # c
      BY <1>4, <1>8, <2>1, ProcessIds DEF ToDoAndDone
    <3> QED
      BY <1>6, <1>10, <3>1
  <2>2. ASSUME NEW d \in 1 .. Loops, NEW y \in Elements(todo'[d])
        PROVE  LineOfChild(d, y) \/ y = Buffers!exit
    <3>1. CASE d = c
      BY <1>6, <1>7, <2>2, <3>1
    <3>2. CASE d # c
      BY <1>6, <2>2, <3>2, ProcessIds DEF ToDoAndDone
    <3> QED
      BY <3>1, <3>2
  <2>3. \A q \in Buffers!Processes : Distinct(todo'[q])
    <3> TAKE q \in Buffers!Processes
    <3>1. CASE q \in {0, c}
      BY <1>6, <1>7, <1>8, <3>1
    <3>2. CASE q \notin {0, c}
      BY <1>6, <3>2 DEF ToDoAndDone
    <3> QED
      BY <3>1, <3>2
  <2>4. /\ Elements(todo'[0]) \cap Elements(past') = {}
        /\ \A y \in Elements(todo'[0]) \union Elements(past') : OfParent(y)
    BY <1>3, <1>8 DEF ToDoAndDone
  <2> QED
    BY <1>8, <2>1, <2>2, <2>3, <2>4 DEF ToDoAndDone
<1>13. WhatIsSeen'
  <2>1. ASSUME NEW l \in Steps, Seen(l)'
        PROVE  /\ Buffers!IsLine(l)
               /\ \/ l \in Elements(past')
                  \/ \E d \in 1 .. Loops : Buffers!fork(d) \in Elements(past') /\ LineOfChild(d, l)
    BY <1>8, <1>9, <2>1 DEF WhatIsSeen
  <2>2. ASSUME NEW q \in Buffers!Processes, NEW l \in Elements(todo'[q]), Buffers!IsLine(l)
        PROVE  ~Seen(l)'
    <3>1. CASE q = c
      <4>1. LineOfChild(c, l) /\ l \in Steps
        <5>1. LineOfChild(c, l)
          BY <1>6, <1>7, <2>2, <3>1, WhoseLines
        <5>2. l \in Steps
          BY <1>6, <1>7, <2>2, <3>1, ElementOfSeq DEF Elements
        <5> QED
          BY <5>1, <5>2
      <4>2. l \notin Elements(past)
        BY <1>4, <4>1, WhoseLines DEF ToDoAndDone
      <4>3. \A d \in 1 .. Loops : LineOfChild(d, l) => Buffers!fork(d) \notin Elements(past)
        BY <1>3, <1>4, <4>1, WhoseLines
      <4> QED
        BY <1>9, <4>1, <4>2, <4>3 DEF WhatIsSeen
    <3>2. CASE q # c
      <4>1. l \in Elements(todo[q])
        BY <1>6, <1>8, <2>2, <3>2
      <4> QED
        BY <1>9, <2>2, <4>1 DEF WhatIsSeen
    <3> QED
      BY <3>1, <3>2
  <2>3. ~redirected' => \A q \in Buffers!Processes : unwritten'[q] = {}
    BY <1>2, <1>10, ProcessIds DEF WhatIsSeen
  <2>4. redirected' /\ todo'[0] # << >> =>
          \A l \in Elements(past') : Buffers!IsLine(l) => l \in unwritten'[0]
    BY <1>2, <1>4, <1>8, <1>10, ProcessIds DEF WhatIsSeen
  <2> QED
    BY <2>1, <2>2, <2>3, <2>4 DEF WhatIsSeen
<1>14. LinesOfChildren'
  <2> SUFFICES ASSUME NEW d \in 1 .. Loops, NEW l \in Steps, LineOfChild(d, l)
               PROVE  /\ \A q \in Buffers!Processes : l \in unwritten'[q] =>
                           q = d /\ l \notin DOMAIN written'
                      /\ l \in DOMAIN written' => written'[l] = 1
    BY DEF LinesOfChildren
  <2>1. l \notin unwritten[0]
    BY ProcessIds DEF LinesOfChildren
  <2> QED
    BY <1>2, <1>10, <2>1 DEF LinesOfChildren
<1>15. LinesOfParent'
  <2> SUFFICES ASSUME NEW k \in 1 .. Len(past) + 1, NEW l, l = past'[k],
                      Buffers!IsLine(l)
               PROVE  Buffers!Copies(l)' =
                        1 + IF redirected' THEN Cardinality(ForksAfter(k)') ELSE 0
    BY <1>8 DEF LinesOfParent
  <2>1. k \in 1 .. Len(past) /\ l = past[k] /\ l \in Elements(past)
    BY <1>4, <1>8
  <2>2. Buffers!Copies(l) = 1 + IF redirected THEN Cardinality(ForksAfter(k)) ELSE 0
    BY <1>8, <2>1 DEF LinesOfParent
  <2>3. Cardinality(ForksAfter(k)') = Cardinality(ForksAfter(k)) + 1
    BY <1>2, <1>3, <2>1, ForksCount
  <2>4. Cardinality(ForksAfter(k)) \in Nat
    BY FiniteForks, FS_CardinalityType
  <2>5. l \in unwritten[0] <=> redirected
    BY <1>2, <2>1, ProcessIds DEF WhatIsSeen, BuffersTypes
  <2>6. Buffers!Copies(l)' = Buffers!Copies(l) + IF redirected THEN 1 ELSE 0
    BY <1>9, <2>5
  <2> QED
    BY <1>2, <2>2, <2>3, <2>4, <2>6
<1> QED
  BY <1>8, <1>11, <1>12, <1>13, <1>14, <1>15

LEMMA ForkFailsStep == ASSUME BuffersInv, Buffers!ForkFails PROVE BuffersInv'
<1> USE DEF BuffersInv
<1>1. /\ todo[0] # << >> /\ Buffers!IsFork(todo[0][1])
      /\ todo' = [todo EXCEPT ![0] = Buffers!exit_handler(0)]
      /\ UNCHANGED <<text, redirected, past, unwritten, written>>
  BY DEF Buffers!ForkFails
<1>2. /\ todo[0] \in Seq(Steps) /\ Distinct(todo[0]) /\ todo[0][1] \in Elements(todo[0])
  BY <1>1, TailElements, ProcessIds DEF BuffersTypes, ToDoAndDone
<1>3. /\ Buffers!exit_handler(0) \in Seq(Steps) /\ Distinct(Buffers!exit_handler(0))
      /\ \A x \in Elements(Buffers!exit_handler(0)) :
           x \in {<<"exit_handler", 0>>, Buffers!exit}
  BY HandlerSteps
<1>4. /\ todo'[0] = Buffers!exit_handler(0)
      /\ \A q \in Buffers!Processes : q # 0 => todo'[q] = todo[q]
      /\ todo' \in [Buffers!Processes -> Seq(Steps)]
  BY <1>1, <1>3, ProcessIds DEF BuffersTypes
<1>5. \A x \in Elements(todo'[0]) :
        /\ x[1] \in LastSteps /\ x[2] = 0 /\ x \in Steps
        /\ OfParent(x) /\ ~Buffers!IsFork(x) /\ x \notin Elements(past)
  <2> TAKE x \in Elements(todo'[0])
  <2>1. x \in {<<"exit_handler", 0>>, <<"exit", 0>>}
    BY <1>3, <1>4 DEF Buffers!exit
  <2>2. x[1] \in LastSteps /\ x[2] = 0 /\ x \in Steps /\ OfParent(x) /\ ~Buffers!IsFork(x)
    BY <2>1 DEF LastSteps, Steps, OfParent, Buffers!IsFork
  <2>3. \A y \in Elements(past) : y[1] \notin LastSteps
    BY <1>1, <1>2 DEF LastStepsLast
  <2> QED
    BY <2>2, <2>3
<1>6. BuffersTypes'
  BY <1>1, <1>4 DEF BuffersTypes, KnownProgram
<1>7. ToDoAndDone'
  BY <1>1, <1>3, <1>4, <1>5, ProcessIds DEF ToDoAndDone
<1>8. LastStepsLast'
  BY <1>1, <1>5 DEF LastStepsLast, Elements
<1>9. \A l : Seen(l)' <=> Seen(l)
  BY <1>1 DEF Seen
<1>10. ASSUME NEW l \in Elements(todo'[0]) PROVE ~Seen(l)
  BY <1>5, WhoseLines DEF WhatIsSeen
<1>11. WhatIsSeen'
  <2>1. ASSUME NEW q \in Buffers!Processes, NEW l \in Elements(todo'[q]), Buffers!IsLine(l)
        PROVE  ~Seen(l)'
    BY <1>4, <1>9, <1>10, <2>1 DEF WhatIsSeen
  <2> QED
    BY <1>1, <1>9, <2>1 DEF WhatIsSeen
<1>12. LinesOfChildren'
  BY <1>1 DEF LinesOfChildren
<1>13. LinesOfParent'
  BY <1>1 DEF LinesOfParent, ForksAfter, Buffers!Copies
<1> QED
  BY <1>6, <1>7, <1>8, <1>11, <1>12, <1>13

LEMMA ProcessExitsStep ==
  ASSUME BuffersInv, NEW p \in Buffers!Processes, Buffers!ProcessExits(p)
  PROVE  BuffersInv'
<1> USE DEF BuffersInv
<1>1. /\ todo[p] # << >> /\ todo[p][1] = Buffers!exit
      /\ todo' = [todo EXCEPT ![p] = << >>]
      /\ past' = IF p = 0 THEN Append(past, Buffers!exit) ELSE past
      /\ Buffers!Write(unwritten[p])
      /\ unwritten' = [unwritten EXCEPT ![p] = {}]
      /\ UNCHANGED <<text, redirected>>
  BY DEF Buffers!ProcessExits, Buffers!Advance, Buffers!Flushed
<1>2. /\ unwritten' \in [Buffers!Processes -> SUBSET Steps]
      /\ \A l \in DOMAIN written' : l \in Steps /\ written'[l] \in Nat \ {0}
      /\ DOMAIN written' = DOMAIN written \union unwritten[p]
      /\ \A l : Times(l)' = Times(l) + IF l \in unwritten[p] THEN 1 ELSE 0
      /\ \A l : Seen(l)' <=> Seen(l)
      /\ \A l : Buffers!Copies(l)' = Buffers!Copies(l)
  BY <1>1, WrittenOut
<1>3. << >> \in Seq(Steps) /\ Len(<< >>) = 0 /\ Elements(<< >>) = {} /\ Distinct(<< >>)
  BY EmptySeq DEF Elements, Distinct
<1>4. /\ todo' \in [Buffers!Processes -> Seq(Steps)]
      /\ todo'[p] = << >>
      /\ \A q \in Buffers!Processes : q # p => todo'[q] = todo[q] /\ unwritten'[q] = unwritten[q]
      /\ unwritten'[p] = {}
  BY <1>1, <1>3 DEF BuffersTypes
<1>5. /\ Buffers!exit \in Steps /\ Buffers!exit \in Elements(todo[p])
  BY <1>1, TailElements DEF BuffersTypes, ToDoAndDone
<1>6. /\ past' \in Seq(Steps) /\ Distinct(past')
      /\ Elements(past') \subseteq Elements(past) \union {Buffers!exit}
      /\ Elements(past) \subseteq Elements(past')
      /\ p = 0 \/ past' = past
  <2>1. CASE p = 0
    <3>1. Buffers!exit \notin Elements(past) /\ past \in Seq(Steps) /\ Distinct(past)
      BY <1>5, <2>1 DEF ToDoAndDone, BuffersTypes
    <3> QED
      BY <1>1, <1>5, <2>1, <3>1, AppendElements
  <2>2. CASE p # 0
    BY <1>1, <2>2 DEF ToDoAndDone, BuffersTypes
  <2> QED
    BY <2>1, <2>2
<1>7. BuffersTypes'
  BY <1>1, <1>2, <1>4, <1>6 DEF BuffersTypes, KnownProgram
<1>8. ToDoAndDone'
  <2>1. \A q \in Buffers!Processes : Distinct(todo'[q])
    BY <1>3, <1>4 DEF ToDoAndDone
  <2>2. \A q \in Buffers!Processes : Elements(todo'[q]) \subseteq Elements(todo[q])
    BY <1>3, <1>4
  <2>3. /\ Elements(todo'[0]) \cap Elements(past') = {}
        /\ \A x \in Elements(todo'[0]) \union Elements(past') : OfParent(x)
    <3>1. CASE p = 0
      <4>1. OfParent(Buffers!exit) /\ Elements(todo'[0]) = {}
        BY <1>3, <1>4, <1>5, <3>1 DEF ToDoAndDone
      <4> QED
        BY <1>6, <4>1 DEF ToDoAndDone
    <3>2. CASE p # 0
      BY <1>4, <1>6, <3>2, ProcessIds DEF ToDoAndDone
    <3> QED
      BY <3>1, <3>2
  <2>4. \A c \in 1 .. Loops : \A x \in Elements(todo'[c]) :
          LineOfChild(c, x) \/ x = Buffers!exit
    BY <2>2, ProcessIds DEF ToDoAndDone
  <2>5. ASSUME NEW c \in 1 .. Loops, Buffers!fork(c) \notin Elements(past')
        PROVE  todo'[c] = << >> /\ unwritten'[c] = {}
    <3>1. todo[c] = << >> /\ unwritten[c] = {} /\ c \in Buffers!Processes
      BY <1>6, <2>5, ProcessIds DEF ToDoAndDone
    <3> QED
      BY <1>4, <3>1
  <2> QED
    BY <1>6, <2>1, <2>3, <2>4, <2>5 DEF ToDoAndDone
<1>9. LastStepsLast'
  <2>1. CASE p = 0
    BY <1>3, <1>4, <2>1 DEF LastStepsLast
  <2>2. CASE p # 0
    BY <1>4, <1>6, <2>2, ProcessIds DEF LastStepsLast
  <2> QED
    BY <2>1, <2>2
<1>10. WhatIsSeen'
  <2>1. ASSUME NEW l \in Steps, Seen(l)'
        PROVE  /\ Buffers!IsLine(l)
               /\ \/ l \in Elements(past')
                  \/ \E c \in 1 .. Loops : Buffers!fork(c) \in Elements(past') /\ LineOfChild(c, l)
    BY <1>2, <1>6, <2>1 DEF WhatIsSeen
  <2>2. ASSUME NEW q \in Buffers!Processes, NEW l \in Elements(todo'[q]), Buffers!IsLine(l)
        PROVE  ~Seen(l)'
    <3>1. l \in Elements(todo[q])
      BY <1>3, <1>4, <2>2
    <3> QED
      BY <1>2, <2>2, <3>1 DEF WhatIsSeen
  <2>3. ~redirected' => \A q \in Buffers!Processes : unwritten'[q] = {}
    BY <1>1, <1>4 DEF WhatIsSeen
  <2>4. redirected' /\ todo'[0] # << >> =>
          \A l \in Elements(past') : Buffers!IsLine(l) => l \in unwritten'[0]
    <3>1. CASE p = 0
      BY <1>4, <3>1
    <3>2. CASE p # 0
      BY <1>1, <1>4, <1>6, <3>2, ProcessIds DEF WhatIsSeen
    <3> QED
      BY <3>1, <3>2
  <2> QED
    BY <2>1, <2>2, <2>3, <2>4 DEF WhatIsSeen
<1>11. LinesOfChildren'
  <2> SUFFICES ASSUME NEW c \in 1 .. Loops, NEW l \in Steps, LineOfChild(c, l)
               PROVE  /\ \A q \in Buffers!Processes : l \in unwritten'[q] =>
                           q = c /\ l \notin DOMAIN written'
                      /\ l \in DOMAIN written' => written'[l] = 1
    BY DEF LinesOfChildren
  <2>1. ASSUME NEW q \in Buffers!Processes, l \in unwritten'[q]
        PROVE  q = c /\ l \notin DOMAIN written'
    <3>1. q # p /\ l \in unwritten[q]
      BY <1>4, <2>1
    <3>2. q = c /\ l \notin DOMAIN written /\ l \notin unwritten[p]
      BY <3>1 DEF LinesOfChildren
    <3> QED
      BY <1>2, <3>2
  <2>2. ASSUME l \in DOMAIN written' PROVE written'[l] = 1
    <3>1. Times(l)' = written'[l]
      BY <2>2 DEF Times
    <3>2. CASE l \in unwritten[p]
      <4>1. Times(l) = 0
        BY <3>2 DEF LinesOfChildren, Times
      <4> QED
        BY <1>2, <3>1, <3>2, <4>1
    <3>3. CASE l \notin unwritten[p]
      <4>1. Times(l) = 1
        BY <1>2, <2>2, <3>3 DEF LinesOfChildren, Times
      <4> QED
        BY <1>2, <3>1, <3>3, <4>1
    <3> QED
      BY <3>2, <3>3
  <2> QED
    BY <2>1, <2>2
<1>12. LinesOfParent'
  <2>1. CASE p = 0
    <3>0. /\ Len(past') = Len(past) + 1 /\ Len(past) \in Nat
          /\ DOMAIN past = 1 .. Len(past) /\ DOMAIN past' = 1 .. Len(past) + 1
          /\ past'[Len(past) + 1] = Buffers!exit
          /\ \A k \in 1 .. Len(past) : past'[k] = past[k]
      BY <1>1, <1>5, <2>1, AppendProperties, LenProperties DEF BuffersTypes
    <3> SUFFICES ASSUME NEW k \in 1 .. Len(past) + 1, NEW l, l = past'[k],
                        Buffers!IsLine(l)
                 PROVE  Buffers!Copies(l)' =
                          1 + IF redirected' THEN Cardinality(ForksAfter(k)') ELSE 0
      BY <3>0 DEF LinesOfParent
    <3>1. k \in 1 .. Len(past) /\ l = past[k]
      BY <3>0, WhoseLines
    <3>2. Buffers!Copies(l) = 1 + IF redirected THEN Cardinality(ForksAfter(k)) ELSE 0
      BY <3>0, <3>1 DEF LinesOfParent
    <3>3. Cardinality(ForksAfter(k)') = Cardinality(ForksAfter(k)) + 0
      BY <1>1, <1>5, <2>1, <3>1, ForksCount, WhoseLines
    <3>4. Cardinality(ForksAfter(k)) \in Nat
      BY FiniteForks, FS_CardinalityType
    <3> QED
      BY <1>1, <1>2, <3>2, <3>3, <3>4
  <2>2. CASE p # 0
    <3>1. past' = past /\ \A k : ForksAfter(k)' = ForksAfter(k)
      BY <1>6, <2>2 DEF ForksAfter
    <3> QED
      BY <1>1, <1>2, <3>1 DEF LinesOfParent
  <2> QED
    BY <2>1, <2>2
<1> QED
  BY <1>7, <1>8, <1>9, <1>10, <1>11, <1>12

LEMMA BuffersStep == ASSUME BuffersInv, [Buffers!Next]_buffersVars PROVE BuffersInv'
<1>1. CASE UNCHANGED buffersVars
  <2>1. UNCHANGED <<text, redirected, todo, past, unwritten, written>>
    BY <1>1 DEF buffersVars
  <2>2. BuffersTypes' /\ ToDoAndDone' /\ LastStepsLast'
    BY <2>1 DEF BuffersInv, BuffersTypes, KnownProgram, ToDoAndDone, LastStepsLast
  <2>3. WhatIsSeen' /\ LinesOfChildren'
    BY <2>1 DEF BuffersInv, WhatIsSeen, Seen, LinesOfChildren
  <2>4. LinesOfParent'
    BY <2>1 DEF BuffersInv, LinesOfParent, ForksAfter, Buffers!Copies
  <2> QED
    BY <2>2, <2>3, <2>4 DEF BuffersInv
<1> QED
  BY <1>1, PrintLineStep, ForkStep, ForkFailsStep, ProcessExitsStep DEF Buffers!Next

(* No more forks than loops: each has its number.                          *)
LEMMA ForksAtMost ==
  ASSUME BuffersInv, NEW F, F \subseteq DOMAIN past, \A k \in F : Buffers!IsFork(past[k])
  PROVE  Cardinality(F) \in 0 .. Loops
<1> DEFINE number == [k \in F |-> past[k][2]]
<1>1. \A k \in F : k \in 1 .. Len(past) /\ past[k] \in Steps /\ OfParent(past[k])
  BY LenProperties, ElementOfSeq DEF BuffersInv, BuffersTypes, ToDoAndDone, Elements
<1>2. \A k \in F : number[k] \in 1 .. Loops /\ past[k] = Buffers!fork(number[k])
  BY <1>1, WhoseLines
<1>3. \A k, m \in F : number[k] = number[m] => k = m
  BY <1>1, <1>2 DEF BuffersInv, ToDoAndDone, Distinct
<1>4. number \in Injection(F, 1 .. Loops)
  BY <1>2, <1>3 DEF Injection, IsInjective
<1>5. IsFiniteSet(1 .. Loops) /\ Cardinality(1 .. Loops) = Loops
  BY FS_Interval, ProcessIds
<1> QED
  BY <1>4, <1>5, FS_Injection, FS_CardinalityType

LEMMA BuffersInvSuffices == BuffersInv => Buffers!TypeOK /\ Buffers!CopiesOfLines
<1> SUFFICES ASSUME BuffersInv PROVE Buffers!TypeOK /\ Buffers!CopiesOfLines
  OBVIOUS
<1> USE DEF BuffersInv
<1>0. DOMAIN past = 1 .. Len(past) /\ Buffers!ToSet(past) = Elements(past)
  BY LenProperties DEF BuffersTypes, Buffers!ToSet, Elements
<1>1. \A k : Cardinality(ForksAfter(k)) \in 0 .. Loops
  BY ForksAtMost DEF ForksAfter
<1>2. ASSUME NEW l \in DOMAIN written
      PROVE  /\ Buffers!Copies(l) \in 1 .. Loops + 1
             /\ l \notin Elements(past) => Buffers!Copies(l) = 1
  <2>1. Seen(l) /\ l \in Steps
    BY DEF Seen, BuffersTypes
  <2>2. CASE l \in Elements(past)
    <3>1. PICK k \in 1 .. Len(past) : l = past[k]
      BY <2>2 DEF Elements
    <3>2. Buffers!Copies(l) = 1 + IF redirected THEN Cardinality(ForksAfter(k)) ELSE 0
      BY <1>0, <2>1, <3>1 DEF LinesOfParent, WhatIsSeen
    <3> QED
      BY <1>1, <2>2, <3>2, ProcessIds
  <2>3. CASE l \notin Elements(past)
    <3>1. PICK c \in 1 .. Loops : LineOfChild(c, l)
      BY <2>1, <2>3 DEF WhatIsSeen
    <3>2. Times(l) = 1 /\ Holders(l) = {}
      BY <2>1, <3>1 DEF LinesOfChildren, Times, Holders
    <3>3. Buffers!Copies(l) = 1
      BY <3>2, CopiesAre, FS_EmptySet
    <3> QED
      BY <3>3, ProcessIds
  <2> QED
    BY <2>2, <2>3
<1>3. Buffers!CopiesOfLines
  <2>1. ASSUME NEW k \in DOMAIN past, Buffers!IsLine(past[k])
        PROVE  Buffers!Copies(past[k]) =
                 1 + IF redirected
                       THEN Buffers!Cardinality({m \in DOMAIN past :
                              m > k /\ Buffers!IsFork(past[m])}) ELSE 0
    BY <2>1, SameCardinality DEF LinesOfParent, ForksAfter
  <2> QED
    BY <1>0, <1>2, <2>1 DEF Buffers!CopiesOfLines
<1>4. Buffers!TypeOK
  <2>1. Cardinality({k \in DOMAIN past : Buffers!IsFork(past[k])}) \in 0 .. Loops
    BY ForksAtMost
  <2>2. ASSUME NEW l \in DOMAIN written PROVE written[l] \in 1 .. Loops + 1
    <3>1. written[l] + Cardinality(Holders(l)) \in 1 .. Loops + 1
      BY <1>2, CopiesAre DEF Times
    <3>2. Cardinality(Holders(l)) \in Nat /\ written[l] \in Nat \ {0}
      BY FiniteHolders, FS_CardinalityType DEF BuffersTypes
    <3> QED
      BY <3>1, <3>2, ProcessIds
  <2> QED
    BY <2>1, <2>2, SameCardinality DEF Buffers!TypeOK, BuffersTypes, KnownProgram
<1> QED
  BY <1>3, <1>4

-----------------------------------------------------------------------------
(* All of them, one at a time: a program that has ended stays as it is.    *)
StatusRun == StatusInv \/ StatusesEnded

ChildrenInv == StatusRun /\ PrintfInv /\ BuffersInv /\ ElapsedInv

LEMMA StatusRunStep == ASSUME StatusRun, [Next]_vars PROVE StatusRun'
<1>1. CASE StatusInv
  BY <1>1, StatusStep DEF StatusRun
<1>2. CASE StatusesEnded
  BY <1>2 DEF StatusRun, StatusesEnded, vars, Next, main, Fork, Sleep, Waitpid, Return,
              ChildExits, ChildKilled, Children
<1> QED
  BY <1>1, <1>2 DEF StatusRun

LEMMA StatusRunTypes == StatusRun => TypeOK
<1>1. StatusesEnded => TypeOK
  BY StatusAssumption, EmptySeq DEF StatusesEnded, TypeOK, Children
<1> QED
  BY <1>1 DEF StatusRun, StatusInv

LEMMA ElapsedEndedInv == ElapsedEnded => ElapsedInv
<1> SUFFICES ASSUME ElapsedEnded PROVE ElapsedInv
  OBVIOUS
<1>1. 0 \in 0 .. Seconds(clock) /\ taken - total = Second * 0
  BY ChildrenAssumption, Wraps DEF ElapsedEnded
<1> QED
  BY <1>1 DEF ElapsedEnded, ElapsedInv

LEMMA ChildrenInit == MCInit => ChildrenInv
  BY StatusInit, PrintfInit, BuffersInit, ElapsedInit, ElapsedEndedInv
     DEF MCInit, ChildrenInv, StatusRun

LEMMA ChildrenStep == ASSUME ChildrenInv, [MCNext]_all PROVE ChildrenInv'
<1>1. /\ [Next]_vars
      /\ [Printf!Next]_printfVars
      /\ [Buffers!Next]_buffersVars
      /\ [Elapsed!Next]_elapsedVars
  BY DEF MCNext, all
<1> QED
  BY <1>1, StatusRunStep, PrintfStep, BuffersStep, ElapsedStep DEF ChildrenInv

(* What is printed is right, of every program and in every interleaving of *)
(* its processes: fork_printf_buffering.c writes bottom up and each number *)
(* once, a line of execution_time.c and of the programs like it is written *)
(* as often as it was copied, for any number of loops, and its times are   *)
(* off by whole seconds.                                                   *)
THEOREM AllOutputIsRight == MCSpec => []OutputIsRight
<1>1. MCInit => ChildrenInv
  BY ChildrenInit
<1>2. ChildrenInv /\ [MCNext]_all => ChildrenInv'
  BY ChildrenStep
<1>3. ChildrenInv => OutputIsRight
  BY PrintfInvSuffices, BuffersInvSuffices, ElapsedInvSuffices DEF ChildrenInv, OutputIsRight
<1> QED
  BY <1>1, <1>2, <1>3, PTL DEF MCSpec

(* The types of their variables: no line is written more than Loops + 1    *)
(* times.                                                                  *)
THEOREM AllTypesCorrect == MCSpec => []TypesOK
<1>1. MCInit => ChildrenInv
  BY ChildrenInit
<1>2. ChildrenInv /\ [MCNext]_all => ChildrenInv'
  BY ChildrenStep
<1>3. ChildrenInv => TypesOK
  BY StatusRunTypes, BuffersInvSuffices DEF ChildrenInv, PrintfInv, TypesOK
<1> QED
  BY <1>1, <1>2, <1>3, PTL DEF MCSpec
=============================================================================

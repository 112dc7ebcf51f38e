--------------------------- MODULE MCSignals_proofs --------------------------
(***************************************************************************)
(* What holds of sigchld_wait_sync.c, sigchld_block_wait.c,                *)
(* sighup_sigcont.c and child_pending_signals_and_mask.c whichever calls   *)
(* fail, however often the children are stopped and continued, and         *)
(* whenever the signals come.                                              *)
(***************************************************************************)
EXTENDS MCSignals, FiniteSetTheorems, SequenceTheorems, TLAPS

-----------------------------------------------------------------------------
(* The process that waits for its child.  NoChild says that nothing has    *)
(* happened before the fork, OneSuccess that the call that reaped the      *)
(* child is the only one to have succeeded, Quiet that behind the mask no  *)
(* handler has taken it away from main.                                    *)
NoChild ==
  /\ child = "none" => handler = "idle" /\ ~pending /\ results = {}
  /\ pc \in {"sigprocmask", "fork"} => child = "none"
  /\ pc \in {"sleep", "wait", "waiting"} => child # "none"
  /\ pc = "collected" => child = "reaped"
  /\ pc = "exited" => child \in {"none", "reaped"}

OneSuccess ==
  /\ child = "reaped" => <<"main", "ok">> \in results \/ <<"handler", "ok">> \in results
  /\ child # "reaped" =>
       <<"main", "ok">> \notin results /\ <<"handler", "ok">> \notin results
  /\ <<"main", "ok">> \notin results \/ <<"handler", "ok">> \notin results

Quiet ==
  masked =>
    /\ handler = "idle"
    /\ <<"handler", "ok">> \notin results
    /\ child \in {"zombie", "reaped"} => pending

WaitInv == TypeOK /\ NoChild /\ OneSuccess /\ Quiet

LEMMA WaitInit == Init \/ WaitEnded => WaitInv
  BY DEF Init, WaitEnded, WaitInv, TypeOK, NoChild, OneSuccess, Quiet

LEMMA WaitStep == ASSUME WaitInv, [Next]_vars PROVE WaitInv'
<1> USE DEF WaitInv, TypeOK, NoChild, OneSuccess, Quiet, Goto
<1>1. CASE Sigprocmask
  BY <1>1, SigchldAssumption DEF Sigprocmask
<1>2. CASE Fork
  BY <1>2 DEF Fork
<1>3. CASE Sleep
  BY <1>3 DEF Sleep
<1>4. CASE EnterWait
  BY <1>4 DEF EnterWait
<1>5. CASE Wait
  BY <1>5 DEF Wait, Collect
<1>6. CASE Return
  BY <1>6 DEF Return
<1>7. CASE Deliver
  BY <1>7 DEF Deliver
<1>8. CASE HandlerWait
  BY <1>8 DEF HandlerWait, Collect
<1>9. CASE sig_chld_returns
  BY <1>9 DEF sig_chld_returns
<1>10. CASE ChildExits
  BY <1>10 DEF ChildExits
<1>11. CASE ChildStops
  BY <1>11 DEF ChildStops
<1>12. CASE ChildContinues
  BY <1>12 DEF ChildContinues
<1>13. CASE UNCHANGED vars
  BY <1>13 DEF vars
<1> QED
  BY <1>1, <1>2, <1>3, <1>4, <1>5, <1>6, <1>7, <1>8, <1>9, <1>10, <1>11, <1>12,
     <1>13 DEF Next, main, sig_chld

LEMMA WaitInvSuffices == WaitInv => OneWaitSucceeds /\ BlockedIsNotHandled
<1> SUFFICES ASSUME WaitInv PROVE OneWaitSucceeds /\ BlockedIsNotHandled
  OBVIOUS
<1> USE DEF WaitInv, TypeOK, NoChild, OneSuccess, Quiet
<1>1. CASE child # "reaped"
  <2>1. Successes = {}
    BY <1>1 DEF Successes
  <2> QED
    BY <1>1, <2>1, FS_EmptySet DEF OneWaitSucceeds, BlockedIsNotHandled
<1>2. CASE child = "reaped"
  <2>1. Successes = {<<"main", "ok">>} \/ Successes = {<<"handler", "ok">>}
    BY <1>2 DEF Successes
  <2>2. Cardinality(Successes) = 1
    BY <2>1, FS_Singleton
  <2> QED
    BY <1>2, <2>2 DEF OneWaitSucceeds, BlockedIsNotHandled
<1> QED
  BY <1>1, <1>2

-----------------------------------------------------------------------------
(* The child whose group is orphaned.  The signals that are pending, on    *)
(* the stack and printed are in step with each other: nothing has happened *)
(* until the child goes on, and then each of the two signals goes the same *)
(* way, from pending to the stack to the output, one of them after or on   *)
(* top of the other.                                                       *)
Hangup == {"SIGHUP", "SIGCONT"}

Untouched == signals = {} /\ frames = << >> /\ printed = <<"child">>

(* s is the handler that prints first. *)
Halfway(s, o) ==
  \/ signals = {o} /\ frames = <<s>> /\ printed = <<"child">>
  \/ signals = {o} /\ frames = << >> /\ printed = <<"child", s>>
  \/ signals = {} /\ frames = <<o, s>> /\ printed = <<"child">>
  \/ signals = {} /\ frames = <<o>> /\ printed = <<"child", s>>
  \/ signals = {} /\ frames = << >> /\ printed = <<"child", s, o>>

Stages ==
  /\ parent = "fork" => offspring = "unborn"
  /\ offspring = "unborn" => signals = {} /\ frames = << >>
  /\ offspring \in {"SIGHUP", "SIGCONT", "kill", "stopped", "failed"} => Untouched
  /\ offspring = "continued" =>
       \/ Untouched
       \/ signals = Hangup /\ frames = << >> /\ printed = <<"child">>
       \/ Halfway("SIGHUP", "SIGCONT")
       \/ Halfway("SIGCONT", "SIGHUP")
  /\ offspring = "done" =>
       /\ signals = {}
       /\ frames = << >>
       /\ printed \in {<<"child", "child">>,
                       <<"child", "SIGHUP", "SIGCONT", "child">>,
                       <<"child", "SIGCONT", "SIGHUP", "child">>}

(* The handlers are there before the child can be stopped. *)
Installed ==
  /\ offspring # "killed"
  /\ offspring = "SIGCONT" => "SIGHUP" \in installed
  /\ offspring \in {"kill", "stopped", "continued", "done"} => installed = Hangup

OrphanInv == Orphan!TypeOK /\ Stages /\ Installed

(* What the operators on sequences make of short ones. *)
LEMMA Singles ==
  ASSUME NEW a
  PROVE  /\ Append(<< >>, a) = <<a>> /\ <<a>> # << >>
         /\ Orphan!Front(<<a>>) = << >> /\ Orphan!Last(<<a>>) = a
<1>1. Append(<< >>, a) = <<a>> /\ <<a>> # << >>
  OBVIOUS
<1>2. Orphan!Front(<<a>>) = << >> /\ Orphan!Last(<<a>>) = a
  BY SubSeqEmpty DEF Orphan!Front, Orphan!Last
<1> QED
  BY <1>1, <1>2

LEMMA Pairs ==
  ASSUME NEW a, NEW b
  PROVE  /\ Append(<<a>>, b) = <<a, b>> /\ <<a, b>> # << >>
         /\ Orphan!Front(<<a, b>>) = <<a>> /\ Orphan!Last(<<a, b>>) = b
<1> DEFINE S == {a, b}
           push == Append(<<a>>, b)
           front == SubSeq(<<a, b>>, 1, 1)
<1>1. /\ <<a>> \in Seq(S) /\ Len(<<a>>) = 1
      /\ <<a, b>> \in Seq(S) /\ Len(<<a, b>>) = 2
  OBVIOUS
<1>2. push \in Seq(S) /\ Len(push) = 2 /\ push[1] = a /\ push[2] = b
  BY <1>1, AppendProperties
<1>3. front \in Seq(S) /\ Len(front) = 1 /\ front[1] = a
  BY <1>1, SubSeqProperties
<1> HIDE DEF S, push, front
<1>4. push = <<a, b>> /\ front = <<a>>
  BY <1>1, <1>2, <1>3, SeqEqual
<1> QED
  BY <1>1, <1>4 DEF push, front, Orphan!Front, Orphan!Last

LEMMA Triples ==
  ASSUME NEW a, NEW b, NEW c
  PROVE  Append(<<a, b>>, c) = <<a, b, c>>
<1> DEFINE S == {a, b, c}
           push == Append(<<a, b>>, c)
<1>1. /\ <<a, b>> \in Seq(S) /\ Len(<<a, b>>) = 2
      /\ <<a, b, c>> \in Seq(S) /\ Len(<<a, b, c>>) = 3
  OBVIOUS
<1>2. push \in Seq(S) /\ Len(push) = 3 /\ push[1] = a /\ push[2] = b /\ push[3] = c
  BY <1>1, AppendProperties
<1> HIDE DEF S, push
<1>3. push = <<a, b, c>>
  BY <1>1, <1>2, SeqEqual
<1> QED
  BY <1>3 DEF push

LEMMA Quadruples ==
  ASSUME NEW a, NEW b, NEW c, NEW d
  PROVE  Append(<<a, b, c>>, d) = <<a, b, c, d>>
<1> DEFINE S == {a, b, c, d}
           push == Append(<<a, b, c>>, d)
<1>1. /\ <<a, b, c>> \in Seq(S) /\ Len(<<a, b, c>>) = 3
      /\ <<a, b, c, d>> \in Seq(S) /\ Len(<<a, b, c, d>>) = 4
  OBVIOUS
<1>2. /\ push \in Seq(S) /\ Len(push) = 4
      /\ push[1] = a /\ push[2] = b /\ push[3] = c /\ push[4] = d
  BY <1>1, AppendProperties
<1> HIDE DEF S, push
<1>3. push = <<a, b, c, d>>
  BY <1>1, <1>2, SeqEqual
<1> QED
  BY <1>3 DEF push

LEMMA OrphanInit == Orphan!Init \/ OrphanEnded => OrphanInv
  BY EmptySeq DEF Orphan!Init, OrphanEnded, OrphanInv, Orphan!TypeOK, Stages,
     Installed

LEMMA HalfwayStep ==
  ASSUME NEW s, NEW o, s # o, Hangup = {s, o}, installed = Hangup, Halfway(s, o),
         Orphan!Handler \/ \E r \in signals : Orphan!Deliver(r)
  PROVE  UNCHANGED offspring /\ (Halfway(s, o)' \/ Halfway(o, s)')
<1> USE DEF Halfway
<1>1. /\ Append(<< >>, o) = <<o>> /\ Append(<<s>>, o) = <<s, o>>
      /\ Append(<<"child">>, s) = <<"child", s>>
      /\ Append(<<"child", s>>, o) = <<"child", s, o>>
  <2>1. Append(<<"child", s>>, o) = <<"child", s, o>>
    BY Triples
  <2>2. Append(<<s>>, o) = <<s, o>> /\ Append(<<"child">>, s) = <<"child", s>>
    BY Pairs
  <2> QED
    BY <2>1, <2>2, Singles
<1>2. /\ <<s>> # << >> /\ <<o>> # << >> /\ <<o, s>> # << >>
      /\ Orphan!Front(<<s>>) = << >> /\ Orphan!Last(<<s>>) = s
      /\ Orphan!Front(<<o>>) = << >> /\ Orphan!Last(<<o>>) = o
      /\ Orphan!Front(<<o, s>>) = <<o>> /\ Orphan!Last(<<o, s>>) = s
  BY Singles, Pairs
<1>3. CASE signals = {o} /\ frames = <<s>> /\ printed = <<"child">>
  <2>1. CASE Orphan!Handler
    BY <1>1, <1>2, <1>3, <2>1 DEF Orphan!Handler
  <2>2. ASSUME NEW r \in signals, Orphan!Deliver(r)
        PROVE  UNCHANGED offspring /\ Halfway(o, s)'
    BY <1>1, <1>2, <1>3, <2>2 DEF Orphan!Deliver
  <2> QED
    BY <2>1, <2>2
<1>4. CASE signals = {o} /\ frames = << >> /\ printed = <<"child", s>>
  BY <1>1, <1>2, <1>4 DEF Orphan!Deliver, Orphan!Handler
<1>5. CASE signals = {} /\ frames = <<o, s>> /\ printed = <<"child">>
  BY <1>1, <1>2, <1>5 DEF Orphan!Handler
<1>6. CASE signals = {} /\ frames = <<o>> /\ printed = <<"child", s>>
  BY <1>1, <1>2, <1>6 DEF Orphan!Handler
<1>7. CASE signals = {} /\ frames = << >> /\ printed = <<"child", s, o>>
  BY <1>7 DEF Orphan!Handler
<1> QED
  BY <1>3, <1>4, <1>5, <1>6, <1>7

LEMMA OrphanStep == ASSUME OrphanInv, [Orphan!Next]_orphanVars PROVE OrphanInv'
<1> USE DEF OrphanInv, Stages, Installed
<1>1. CASE Orphan!Fork
  BY <1>1 DEF Orphan!Fork, Orphan!TypeOK, Untouched
<1>2. CASE Orphan!ParentExits
  BY <1>2 DEF Orphan!ParentExits, Orphan!ParentEnds, Orphan!OrphanGroup,
     Orphan!TypeOK, Untouched, Halfway, Hangup
<1>3. CASE Orphan!ShellExits
  BY <1>3 DEF Orphan!ShellExits, Orphan!OrphanGroup, Orphan!TypeOK, Untouched,
     Halfway, Hangup
<1>4. CASE Orphan!Signal("SIGHUP", "SIGCONT") \/ Orphan!Signal("SIGCONT", "kill")
  BY <1>4 DEF Orphan!Signal, Orphan!Goto, Orphan!Handled, Orphan!TypeOK,
     Untouched, Hangup
<1>5. CASE Orphan!Kill
  BY <1>5 DEF Orphan!Kill, Orphan!Goto, Orphan!TypeOK, Untouched
<1>6. CASE Orphan!ChildFails
  BY <1>6 DEF Orphan!ChildFails, Orphan!TypeOK, Untouched
<1>7. CASE Orphan!Handler \/ \E s \in signals : Orphan!Deliver(s)
  <2>1. /\ offspring = "continued" /\ ~Untouched /\ installed = Hangup
        /\ UNCHANGED <<anchor, parent, installed>>
    BY <1>7 DEF Orphan!Handler, Orphan!Deliver, Orphan!TypeOK, Untouched
  <2>2. Hangup = {"SIGHUP", "SIGCONT"} /\ "SIGHUP" # "SIGCONT"
    BY DEF Hangup
  <2>3. /\ UNCHANGED offspring
        /\ Halfway("SIGHUP", "SIGCONT")' \/ Halfway("SIGCONT", "SIGHUP")'
    <3>1. CASE signals = Hangup /\ frames = << >> /\ printed = <<"child">>
      BY <1>7, <2>1, <2>2, <3>1, Singles DEF Orphan!Handler, Orphan!Deliver,
         Halfway
    <3>2. CASE Halfway("SIGHUP", "SIGCONT")
      BY <1>7, <2>1, <2>2, <3>2, HalfwayStep
    <3>3. CASE Halfway("SIGCONT", "SIGHUP")
      BY <1>7, <2>1, <2>2, <3>3, HalfwayStep
    <3> QED
      BY <2>1, <3>1, <3>2, <3>3
  <2>4. /\ signals' \subseteq Hangup
        /\ frames' \in Seq(Hangup)
        /\ printed' \in Seq({"child", "SIGHUP", "SIGCONT"})
    <3> DEFINE Names == {"child", "SIGHUP", "SIGCONT"}
    <3>1. ASSUME NEW s \in Hangup, NEW o \in Hangup, Halfway(s, o)'
          PROVE  /\ signals' \subseteq Hangup
                 /\ frames' \in Seq(Hangup)
                 /\ printed' \in Seq(Names)
      <4>1. /\ << >> \in Seq(Hangup) /\ <<s>> \in Seq(Hangup)
            /\ <<o>> \in Seq(Hangup) /\ <<o, s>> \in Seq(Hangup)
        OBVIOUS
      <4>2. s \in Names /\ o \in Names /\ "child" \in Names
        BY DEF Hangup
      <4> HIDE DEF Names
      <4>3. <<"child">> \in Seq(Names) /\ <<"child", s>> \in Seq(Names)
        BY <4>2
      <4>4. <<"child", s, o>> \in Seq(Names)
        BY <4>2
      <4> QED
        BY <3>1, <4>1, <4>3, <4>4 DEF Halfway
    <3> QED
      BY <2>2, <2>3, <3>1
  <2> QED
    BY <2>1, <2>3, <2>4 DEF Orphan!TypeOK, Hangup
<1>8. CASE Orphan!PrintAgain
  <2>1. /\ offspring = "continued" /\ signals = {} /\ frames = << >>
        /\ offspring' = "done" /\ printed' = Append(printed, "child")
        /\ UNCHANGED <<anchor, parent, installed, signals, frames>>
    BY <1>8 DEF Orphan!PrintAgain, Orphan!Goto
  <2>2. \/ printed = <<"child">>
        \/ printed = <<"child", "SIGHUP", "SIGCONT">>
        \/ printed = <<"child", "SIGCONT", "SIGHUP">>
    BY <2>1, Singles, Pairs DEF Untouched, Halfway, Hangup
  <2>3. printed' \in {<<"child", "child">>,
                     <<"child", "SIGHUP", "SIGCONT", "child">>,
                     <<"child", "SIGCONT", "SIGHUP", "child">>}
    <3>1. Append(<<"child">>, "child") = <<"child", "child">>
      BY Pairs
    <3>2. /\ Append(<<"child", "SIGHUP", "SIGCONT">>, "child")
               = <<"child", "SIGHUP", "SIGCONT", "child">>
          /\ Append(<<"child", "SIGCONT", "SIGHUP">>, "child")
               = <<"child", "SIGCONT", "SIGHUP", "child">>
      BY Quadruples
    <3> QED
      BY <2>1, <2>2, <3>1, <3>2
  <2>4. printed' \in Seq({"child", "SIGHUP", "SIGCONT"})
    BY <2>1, AppendProperties DEF Orphan!TypeOK
  <2> QED
    BY <2>1, <2>3, <2>4 DEF Orphan!TypeOK
<1>9. CASE UNCHANGED orphanVars
  BY <1>9 DEF orphanVars, Orphan!TypeOK, Untouched, Halfway
<1> QED
  BY <1>1, <1>2, <1>3, <1>4, <1>5, <1>6, <1>7, <1>8, <1>9 DEF Orphan!Next,
     Orphan!childSteps

LEMMA OrphanInvSuffices == OrphanInv => Orphan!HangupIsHandled
  BY DEF OrphanInv, Stages, Installed, Untouched, Orphan!HangupIsHandled

-----------------------------------------------------------------------------
(* Pending signals and mask of a child.  Where the parent is says how many *)
(* of its two signals it has sent itself, each of them pending or handled. *)
NoneSent == taken["parent"] = << >> /\ waiting["parent"] = {}

OneSent ==
  \/ taken["parent"] = << >> /\ waiting["parent"] = {"SIGUSR1"}
  \/ taken["parent"] = <<"SIGUSR1">> /\ waiting["parent"] = {}

BothSent ==
  \/ taken["parent"] = << >> /\ waiting["parent"] = {"SIGUSR1", "SIGUSR2"}
  \/ taken["parent"] = <<"SIGUSR1">> /\ waiting["parent"] = {"SIGUSR2"}
  \/ taken["parent"] = <<"SIGUSR1", "SIGUSR2">> /\ waiting["parent"] = {}

Silent == {"sigprocmask_all", "signal"}
Sending == {"kill_usr1", "kill_usr2", "sigpending_before"}
Blocking == {"sigdelset_usr1", "sigprocmask_usr2"}
Unblocked == {"sigpending_after", "fork", "done"}

Sent ==
  /\ step["parent"] \in
       Silent \union Sending \union Blocking \union Unblocked \union {"failed"}
  /\ step["parent"] \in Silent \union {"kill_usr1"} => NoneSent
  /\ step["parent"] = "kill_usr2" => OneSent
  /\ step["parent"] \in {"sigpending_before"} \union Blocking \union Unblocked => BothSent
  /\ NoneSent \/ OneSent \/ BothSent
  /\ BothSent \/ told["parent"] \in {<< >>, <<Mask!Signals>>}
  /\ step["parent"] \in Silent => told["parent"] = << >>
  /\ step["parent"] \in Sending => told["parent"] = <<Mask!Signals>>

(* What is blocked: everything or nothing, if the call has failed, while   *)
(* the signals are sent.                                                   *)
Masked ==
  /\ waiting["parent"] \subseteq mask["parent"]
  /\ step["parent"] \in Silent \union Sending => mask["parent"] \in {{}, Mask!Signals}
  /\ step["parent"] \in Silent \union Sending \union {"sigdelset_usr1"} =>
       sigset["parent"] = Mask!Signals
  /\ step["parent"] \in {"sigprocmask_usr2"} \union Unblocked =>
       sigset["parent"] = {"SIGUSR2"}

Told(a, b, c) == {<< >>, <<a>>, <<a, b>>, <<a, b, c>>}

(* What the parent has seen and told if all its calls of sigprocmask have  *)
(* succeeded.                                                              *)
Reliable ==
  ~unreliable["parent"] =>
    /\ step["parent"] \in {"signal"} \union Sending \union Blocking =>
         mask["parent"] = Mask!Signals /\ taken["parent"] = << >>
    /\ step["parent"] \in Unblocked =>
         mask["parent"] = {"SIGUSR2"} /\ waiting["parent"] = {"SIGUSR2"}
    /\ step["parent"] \in Blocking \union {"sigpending_after"} =>
         told["parent"] = <<Mask!Signals, Mask!Signals>>
    /\ step["parent"] \in {"fork", "done"} =>
         told["parent"] = <<Mask!Signals, Mask!Signals, {"SIGUSR2"}>>
    /\ told["parent"] \in Told(Mask!Signals, Mask!Signals, {"SIGUSR2"})

(* The child has no signals, and tells of SIGUSR2 and then of none.        *)
Child ==
  /\ taken["child"] = << >> /\ waiting["child"] = {}
  /\ step["child"] \in {"unborn", "sigpending_first", "sigdelset_usr2",
                        "sigprocmask_none", "sigpending_last", "done", "failed"}
  /\ step["child"] = "unborn" => told["child"] = << >>
  /\ step["child"] = "sigpending_first" => told["child"] = <<{"SIGUSR2"}>>
  /\ step["child"] \in {"sigdelset_usr2", "sigprocmask_none", "sigpending_last"} =>
       told["child"] = <<{"SIGUSR2"}, {}>>
  /\ told["child"] \in Told({"SIGUSR2"}, {}, {})
  /\ /\ ~unreliable["child"]
     /\ step["child"] \in {"sigpending_first", "sigpending_last", "done"}
     => mask["child"] = sigset["child"]

MaskInv == Mask!TypeOK /\ Sent /\ Masked /\ Reliable /\ Child

(* The order in which the signals of a small set are handled. *)
LEMMA HandleNone == Mask!SetToSeq({}) = << >>
<1> DEFINE Numbers(f) == f \in [1 .. 0 -> {}] /\ Mask!IsInjective(f)
<1>1. Mask!Cardinality({}) = 0
  BY FS_EmptySet DEF Mask!Cardinality, Cardinality
<1>2. Numbers(<< >>)
  BY DEF Mask!IsInjective
<1>3. ASSUME NEW f, Numbers(f) PROVE f = << >>
  BY <1>3
<1>4. Mask!SetToSeq({}) = CHOOSE f : Numbers(f)
  BY <1>1 DEF Mask!SetToSeq
<1> QED
  BY <1>2, <1>3, <1>4

LEMMA HandleOne == ASSUME NEW s PROVE Mask!SetToSeq({s}) = <<s>>
<1> DEFINE Numbers(f) == f \in [1 .. 1 -> {s}] /\ Mask!IsInjective(f)
<1>1. Mask!Cardinality({s}) = 1
  BY FS_Singleton DEF Mask!Cardinality, Cardinality
<1>2. Numbers(<<s>>)
  BY DEF Mask!IsInjective
<1>3. ASSUME NEW f, Numbers(f) PROVE f = <<s>>
  BY <1>3
<1>4. Mask!SetToSeq({s}) = CHOOSE f : Numbers(f)
  BY <1>1 DEF Mask!SetToSeq
<1> HIDE DEF Numbers
<1> QED
  BY <1>2, <1>3, <1>4

LEMMA PrefixesOfThree ==
  ASSUME NEW a, NEW b, NEW c, NEW t \in Told(a, b, c)
  PROVE  Mask!IsPrefix(t, <<a, b, c>>)
<1> DEFINE S == {a, b, c}
           u == <<a, b, c>>
<1>1. t \in Seq(S) /\ Len(t) \in 0 .. 3 /\ \A i \in 1 .. Len(t) : t[i] = u[i]
  <2>1. CASE t = << >>
    BY <2>1
  <2>2. CASE t = <<a>>
    BY <2>2
  <2>3. CASE t = <<a, b>>
    BY <2>3
  <2>4. CASE t = <<a, b, c>>
    BY <2>4
  <2> QED
    BY <2>1, <2>2, <2>3, <2>4 DEF Told
<1>2. u \in Seq(S) /\ Len(u) = 3
  OBVIOUS
<1> HIDE DEF S, u
<1>3. SubSeq(t, 1, Len(t)) = t
  BY <1>1, SubSeqFull
<1>4. /\ SubSeq(u, 1, Len(t)) \in Seq(S)
      /\ Len(SubSeq(u, 1, Len(t))) = Len(t)
      /\ \A i \in 1 .. Len(t) : SubSeq(u, 1, Len(t))[i] = u[i]
  BY <1>1, <1>2, SubSeqProperties
<1>5. SubSeq(u, 1, Len(t)) = t
  BY <1>1, <1>4, SeqEqual
<1>6. Mask!IsPrefix(t, u)
  BY <1>1, <1>2, <1>3, <1>5 DEF Mask!IsPrefix
<1> QED
  BY <1>6 DEF u

LEMMA MaskInit == Mask!Init \/ MaskEnded => MaskInv
<1> USE DEF MaskInv, Mask!TypeOK, Sent, Masked, Reliable, Child, NoneSent, Told,
   Silent, Sending, Blocking, Unblocked, Mask!Procs, Mask!Signals
<1>1. ASSUME Mask!Init PROVE MaskInv
  BY <1>1 DEF Mask!Init
<1>2. ASSUME MaskEnded PROVE MaskInv
  BY <1>2 DEF MaskEnded, NoSignals, NoLines
<1> QED
  BY <1>1, <1>2

(* A step of the parent leaves the child alone. *)
ParentOnly ==
  /\ step'["child"] = step["child"] /\ sigset'["child"] = sigset["child"]
  /\ mask'["child"] = mask["child"] /\ waiting'["child"] = waiting["child"]
  /\ taken'["child"] = taken["child"] /\ told'["child"] = told["child"]
  /\ unreliable'["child"] = unreliable["child"]

(* What has been said of the parent depends on nothing else. *)
ChildOnly ==
  /\ step'["parent"] = step["parent"] /\ sigset'["parent"] = sigset["parent"]
  /\ mask'["parent"] = mask["parent"] /\ waiting'["parent"] = waiting["parent"]
  /\ taken'["parent"] = taken["parent"] /\ told'["parent"] = told["parent"]
  /\ unreliable'["parent"] = unreliable["parent"]

ParentInv == Sent /\ Masked /\ Reliable

LEMMA ChildFrame == ASSUME Child, ParentOnly PROVE Child'
  BY DEF Child, ParentOnly

LEMMA ParentFrame == ASSUME ParentInv, ChildOnly PROVE ParentInv'
  BY DEF ParentInv, Sent, Masked, Reliable, NoneSent, OneSent, BothSent,
     ChildOnly

(* What Signal does, given the order t of the handlers that have run.      *)
LEMMA SignalsParent ==
  ASSUME Mask!TypeOK, NEW S \in SUBSET Mask!Signals, NEW m \in SUBSET Mask!Signals,
         NEW t \in Seq(Mask!Signals), NEW w,
         (waiting["parent"] \union S) \intersect m = w,
         taken["parent"] \o Mask!SetToSeq((waiting["parent"] \union S) \ m) = t,
         Mask!Signal("parent", S, m)
  PROVE  /\ mask' \in [Mask!Procs -> SUBSET Mask!Signals]
         /\ waiting' \in [Mask!Procs -> SUBSET Mask!Signals]
         /\ taken' \in [Mask!Procs -> Seq(Mask!Signals)]
         /\ mask'["parent"] = m /\ mask'["child"] = mask["child"]
         /\ waiting'["parent"] = w /\ waiting'["child"] = waiting["child"]
         /\ taken'["parent"] = t /\ taken'["child"] = taken["child"]
<1> USE DEF Mask!TypeOK, Mask!Procs
<1>1. taken' = [taken EXCEPT !["parent"] = t]
  BY DEF Mask!Signal
<1>2. waiting' = [waiting EXCEPT !["parent"] = w]
  BY DEF Mask!Signal
<1>3. mask' = [mask EXCEPT !["parent"] = m]
  BY DEF Mask!Signal
<1>4. w \in SUBSET Mask!Signals
  OBVIOUS
<1> QED
  BY <1>1, <1>2, <1>3, <1>4

(* The parent goes on to its next call.                                    *)
LEMMA GotoParent ==
  ASSUME Mask!TypeOK, NEW from, NEW to, Mask!Goto("parent", from, to),
         to \in Silent \union Sending \union Blocking \union Unblocked \union {"failed"}
  PROVE  /\ step["parent"] = from /\ step'["parent"] = to
         /\ step'["child"] = step["child"]
         /\ (Mask!TypeOK!1)'
  BY DEF Mask!TypeOK, Mask!Goto, Mask!Procs, Silent, Sending, Blocking,
     Unblocked

LEMMA BlockAll ==
  ASSUME MaskInv, Mask!Sigprocmask("parent", "sigprocmask_all", "signal")
  PROVE  Mask!TypeOK' /\ ParentInv' /\ ParentOnly
<1> USE DEF MaskInv
<1>1. /\ step["parent"] = "sigprocmask_all" /\ step'["parent"] = "signal"
      /\ step'["child"] = step["child"] /\ (Mask!TypeOK!1)'
      /\ UNCHANGED <<sigset, told>>
  BY GotoParent DEF Mask!Sigprocmask, Silent
<1>2. /\ NoneSent /\ sigset["parent"] = Mask!Signals /\ told["parent"] = << >>
      /\ mask["parent"] \in {{}, Mask!Signals}
  BY <1>1 DEF Sent, Masked, Silent, Sending
<1>3. CASE Mask!Signal("parent", {}, Mask!NewMask("parent")) /\ UNCHANGED unreliable
  <2>1. /\ taken["parent"]
             \o Mask!SetToSeq((waiting["parent"] \union {}) \ Mask!Signals) = << >>
        /\ << >> \in Seq(Mask!Signals)
    <3>1. (waiting["parent"] \union {}) \ Mask!Signals = {} /\ << >> \o << >> = << >>
      BY <1>2 DEF NoneSent
    <3> QED
      BY <1>2, <3>1, HandleNone DEF NoneSent
  <2>2. Mask!Signal("parent", {}, Mask!Signals)
    BY <1>2, <1>3 DEF Mask!NewMask
  <2>3. /\ mask' \in [Mask!Procs -> SUBSET Mask!Signals]
        /\ waiting' \in [Mask!Procs -> SUBSET Mask!Signals]
        /\ taken' \in [Mask!Procs -> Seq(Mask!Signals)]
        /\ mask'["parent"] = Mask!Signals /\ mask'["child"] = mask["child"]
        /\ waiting'["parent"] = {} /\ waiting'["child"] = waiting["child"]
        /\ taken'["parent"] = << >> /\ taken'["child"] = taken["child"]
    <3>1. (waiting["parent"] \union {}) \intersect Mask!Signals = {}
      BY <1>2 DEF NoneSent
    <3>2. {} \in SUBSET Mask!Signals /\ Mask!Signals \in SUBSET Mask!Signals
      OBVIOUS
    <3> QED
      BY <2>1, <2>2, <3>1, <3>2, SignalsParent
  <2> QED
    BY <1>1, <1>2, <1>3, <2>3 DEF ParentInv, Sent, Masked, Reliable, ParentOnly,
       Silent, Sending, Blocking, Unblocked, NoneSent, Told, Mask!TypeOK
<1>4. CASE unreliable' = [unreliable EXCEPT !["parent"] = TRUE]
           /\ UNCHANGED <<mask, waiting, taken>>
  BY <1>1, <1>2, <1>4 DEF ParentInv, Sent, Masked, Reliable, ParentOnly, Silent,
     Sending, Blocking, Unblocked, NoneSent, Told, Mask!TypeOK, Mask!Procs
<1> QED
  BY <1>3, <1>4 DEF Mask!Sigprocmask

(* A signal that is sent is handled at once, or kept behind the mask.      *)
LEMMA SendsSignal ==
  ASSUME Mask!TypeOK, Masked, mask["parent"] \in {{}, Mask!Signals},
         NEW s \in Mask!Signals, Mask!Signal("parent", {s}, mask["parent"])
  PROVE  /\ mask' \in [Mask!Procs -> SUBSET Mask!Signals]
         /\ waiting' \in [Mask!Procs -> SUBSET Mask!Signals]
         /\ taken' \in [Mask!Procs -> Seq(Mask!Signals)]
         /\ mask'["parent"] = mask["parent"] /\ mask'["child"] = mask["child"]
         /\ waiting'["child"] = waiting["child"] /\ taken'["child"] = taken["child"]
         /\ \/ /\ mask["parent"] = {} /\ waiting["parent"] = {} /\ waiting'["parent"] = {}
               /\ taken'["parent"] = taken["parent"] \o <<s>>
            \/ /\ mask["parent"] = Mask!Signals /\ taken'["parent"] = taken["parent"]
               /\ waiting'["parent"] = waiting["parent"] \union {s}
<1>1. /\ taken["parent"] \in Seq(Mask!Signals) /\ waiting["parent"] \in SUBSET Mask!Signals
      /\ {s} \in SUBSET Mask!Signals /\ mask["parent"] \in SUBSET Mask!Signals
  BY DEF Mask!TypeOK, Mask!Procs
<1>2. CASE mask["parent"] = {}
  <2>1. /\ waiting["parent"] = {}
        /\ (waiting["parent"] \union {s}) \intersect mask["parent"] = {}
        /\ (waiting["parent"] \union {s}) \ mask["parent"] = {s}
    BY <1>2 DEF Masked
  <2>2. taken["parent"] \o <<s>> \in Seq(Mask!Signals)
    BY <1>1, ConcatProperties
  <2>3. taken["parent"] \o Mask!SetToSeq((waiting["parent"] \union {s}) \ mask["parent"])
            = taken["parent"] \o <<s>>
    BY <2>1, HandleOne
  <2>4. /\ mask' \in [Mask!Procs -> SUBSET Mask!Signals]
        /\ waiting' \in [Mask!Procs -> SUBSET Mask!Signals]
        /\ taken' \in [Mask!Procs -> Seq(Mask!Signals)]
        /\ mask'["parent"] = mask["parent"] /\ mask'["child"] = mask["child"]
        /\ waiting'["parent"] = {} /\ waiting'["child"] = waiting["child"]
        /\ taken'["parent"] = taken["parent"] \o <<s>> /\ taken'["child"] = taken["child"]
    BY ONLY <1>1, <2>1, <2>2, <2>3, SignalsParent, Mask!TypeOK,
            Mask!Signal("parent", {s}, mask["parent"])
  <2> QED
    BY <1>2, <2>1, <2>4
<1>3. CASE mask["parent"] = Mask!Signals
  <2>1. /\ (waiting["parent"] \union {s}) \intersect mask["parent"]
             = waiting["parent"] \union {s}
        /\ (waiting["parent"] \union {s}) \ mask["parent"] = {}
    BY <1>1, <1>3
  <2>2. taken["parent"] \o Mask!SetToSeq((waiting["parent"] \union {s}) \ mask["parent"])
            = taken["parent"]
    BY <1>1, <2>1, HandleNone, ConcatEmptySeq
  <2>3. /\ mask' \in [Mask!Procs -> SUBSET Mask!Signals]
        /\ waiting' \in [Mask!Procs -> SUBSET Mask!Signals]
        /\ taken' \in [Mask!Procs -> Seq(Mask!Signals)]
        /\ mask'["parent"] = mask["parent"] /\ mask'["child"] = mask["child"]
        /\ waiting'["parent"] = waiting["parent"] \union {s}
        /\ waiting'["child"] = waiting["child"]
        /\ taken'["parent"] = taken["parent"] /\ taken'["child"] = taken["child"]
    BY ONLY <1>1, <2>1, <2>2, SignalsParent, Mask!TypeOK,
            Mask!Signal("parent", {s}, mask["parent"])
  <2> QED
    BY <1>3, <2>3
<1> QED
  BY <1>2, <1>3

LEMMA SendsFirst ==
  ASSUME MaskInv, Mask!Kill("SIGUSR1", "kill_usr1", "kill_usr2")
  PROVE  Mask!TypeOK' /\ ParentInv' /\ ParentOnly
<1> USE DEF MaskInv
<1>1. /\ step["parent"] = "kill_usr1" /\ step'["parent"] = "kill_usr2"
      /\ step'["child"] = step["child"] /\ (Mask!TypeOK!1)'
      /\ UNCHANGED <<sigset, told, unreliable>>
  BY GotoParent DEF Mask!Kill, Sending
<1>2. /\ NoneSent /\ sigset["parent"] = Mask!Signals /\ told["parent"] = <<Mask!Signals>>
      /\ mask["parent"] \in {{}, Mask!Signals} /\ "SIGUSR1" \in Mask!Signals
  BY <1>1 DEF Sent, Masked, Silent, Sending, Mask!Signals
<1>3. << >> \o <<"SIGUSR1">> = <<"SIGUSR1">>
  OBVIOUS
<1>4. /\ mask' \in [Mask!Procs -> SUBSET Mask!Signals]
      /\ waiting' \in [Mask!Procs -> SUBSET Mask!Signals]
      /\ taken' \in [Mask!Procs -> Seq(Mask!Signals)]
      /\ mask'["parent"] = mask["parent"] /\ mask'["child"] = mask["child"]
      /\ waiting'["child"] = waiting["child"] /\ taken'["child"] = taken["child"]
      /\ \/ /\ mask["parent"] = {} /\ waiting["parent"] = {} /\ waiting'["parent"] = {}
            /\ taken'["parent"] = taken["parent"] \o <<"SIGUSR1">>
         \/ /\ mask["parent"] = Mask!Signals /\ taken'["parent"] = taken["parent"]
            /\ waiting'["parent"] = waiting["parent"] \union {"SIGUSR1"}
  BY <1>2, SendsSignal DEF Mask!Kill
<1>5. OneSent' /\ waiting'["parent"] \subseteq mask["parent"]
  BY <1>2, <1>3, <1>4 DEF NoneSent, OneSent
<1>6. Reliable'
  BY <1>1, <1>2, <1>4 DEF Reliable, Silent, Sending, Blocking, Unblocked, Told,
     Mask!Signals
<1> QED
  BY <1>1, <1>2, <1>4, <1>5, <1>6 DEF ParentInv, Sent, Masked, ParentOnly,
     Silent, Sending, Blocking, Unblocked, Mask!TypeOK

LEMMA SendsSecond ==
  ASSUME MaskInv, Mask!Kill("SIGUSR2", "kill_usr2", "sigpending_before")
  PROVE  Mask!TypeOK' /\ ParentInv' /\ ParentOnly
<1> USE DEF MaskInv
<1>1. /\ step["parent"] = "kill_usr2" /\ step'["parent"] = "sigpending_before"
      /\ step'["child"] = step["child"] /\ (Mask!TypeOK!1)'
      /\ UNCHANGED <<sigset, told, unreliable>>
  BY GotoParent DEF Mask!Kill, Sending
<1>2. /\ OneSent /\ sigset["parent"] = Mask!Signals /\ told["parent"] = <<Mask!Signals>>
      /\ mask["parent"] \in {{}, Mask!Signals} /\ "SIGUSR2" \in Mask!Signals
  BY <1>1 DEF Sent, Masked, Silent, Sending, Mask!Signals
<1>3. <<"SIGUSR1">> \o <<"SIGUSR2">> = <<"SIGUSR1", "SIGUSR2">>
  <2>1. <<"SIGUSR1">> \in Seq(Mask!Signals)
    BY DEF Mask!Signals
  <2> QED
    BY <1>2, <2>1, AppendIsConcat, Pairs
<1>4. /\ mask' \in [Mask!Procs -> SUBSET Mask!Signals]
      /\ waiting' \in [Mask!Procs -> SUBSET Mask!Signals]
      /\ taken' \in [Mask!Procs -> Seq(Mask!Signals)]
      /\ mask'["parent"] = mask["parent"] /\ mask'["child"] = mask["child"]
      /\ waiting'["child"] = waiting["child"] /\ taken'["child"] = taken["child"]
      /\ \/ /\ mask["parent"] = {} /\ waiting["parent"] = {} /\ waiting'["parent"] = {}
            /\ taken'["parent"] = taken["parent"] \o <<"SIGUSR2">>
         \/ /\ mask["parent"] = Mask!Signals /\ taken'["parent"] = taken["parent"]
            /\ waiting'["parent"] = waiting["parent"] \union {"SIGUSR2"}
  BY <1>2, SendsSignal DEF Mask!Kill
<1>5. BothSent'
  BY <1>2, <1>3, <1>4 DEF OneSent, BothSent
<1>6. waiting'["parent"] \subseteq mask["parent"]
  BY <1>2, <1>4 DEF Masked
<1>7. Reliable'
  BY <1>1, <1>2, <1>4 DEF Reliable, Silent, Sending, Blocking, Unblocked, Told,
     Mask!Signals
<1> QED
  BY <1>1, <1>2, <1>4, <1>5, <1>6, <1>7 DEF ParentInv, Sent, Masked, ParentOnly,
     Silent, Sending, Blocking, Unblocked, Mask!TypeOK

LEMMA UnblocksFirst ==
  ASSUME MaskInv, Mask!Sigprocmask("parent", "sigprocmask_usr2", "sigpending_after")
  PROVE  Mask!TypeOK' /\ ParentInv' /\ ParentOnly
<1> USE DEF MaskInv
<1>1. /\ step["parent"] = "sigprocmask_usr2" /\ step'["parent"] = "sigpending_after"
      /\ step'["child"] = step["child"] /\ (Mask!TypeOK!1)'
      /\ UNCHANGED <<sigset, told>>
  BY GotoParent DEF Mask!Sigprocmask, Unblocked
<1>2. /\ BothSent /\ sigset["parent"] = {"SIGUSR2"}
      /\ ~unreliable["parent"] =>
           taken["parent"] = << >> /\ told["parent"] = <<Mask!Signals, Mask!Signals>>
  BY <1>1 DEF Sent, Masked, Reliable, Blocking
<1>3. CASE Mask!Signal("parent", {}, Mask!NewMask("parent")) /\ UNCHANGED unreliable
  <2> DEFINE w == waiting["parent"] \intersect {"SIGUSR2"}
             t == taken["parent"]
                    \o Mask!SetToSeq((waiting["parent"] \union {}) \ {"SIGUSR2"})
  <2>1. \/ taken["parent"] = << >> /\ w = {"SIGUSR2"} /\ t = <<"SIGUSR1">>
        \/ taken["parent"] = <<"SIGUSR1">> /\ w = {"SIGUSR2"} /\ t = <<"SIGUSR1">>
        \/ /\ taken["parent"] = <<"SIGUSR1", "SIGUSR2">>
           /\ w = {} /\ t = <<"SIGUSR1", "SIGUSR2">>
    <3>1. CASE taken["parent"] = << >> /\ waiting["parent"] = {"SIGUSR1", "SIGUSR2"}
      <4>1. (waiting["parent"] \union {}) \ {"SIGUSR2"} = {"SIGUSR1"} /\ w = {"SIGUSR2"}
        BY <3>1
      <4>2. << >> \o <<"SIGUSR1">> = <<"SIGUSR1">>
        OBVIOUS
      <4> QED
        BY <3>1, <4>1, <4>2, HandleOne
    <3>2. CASE taken["parent"] = <<"SIGUSR1">> /\ waiting["parent"] = {"SIGUSR2"}
      <4>1. (waiting["parent"] \union {}) \ {"SIGUSR2"} = {} /\ w = {"SIGUSR2"}
        BY <3>2
      <4>2. <<"SIGUSR1">> \o << >> = <<"SIGUSR1">>
        OBVIOUS
      <4> QED
        BY <3>2, <4>1, <4>2, HandleNone
    <3>3. CASE taken["parent"] = <<"SIGUSR1", "SIGUSR2">> /\ waiting["parent"] = {}
      <4>1. (waiting["parent"] \union {}) \ {"SIGUSR2"} = {} /\ w = {}
        BY <3>3
      <4>2. <<"SIGUSR1", "SIGUSR2">> \o << >> = <<"SIGUSR1", "SIGUSR2">>
        OBVIOUS
      <4> QED
        BY <3>3, <4>1, <4>2, HandleNone
    <3> QED
      BY <1>2, <3>1, <3>2, <3>3 DEF BothSent
  <2>2. t \in Seq(Mask!Signals)
    <3>1. <<"SIGUSR1">> \in Seq(Mask!Signals) /\ <<"SIGUSR1", "SIGUSR2">> \in Seq(Mask!Signals)
      BY DEF Mask!Signals
    <3> QED
      BY <2>1, <3>1
  <2>3. /\ Mask!Signal("parent", {}, {"SIGUSR2"})
        /\ {} \in SUBSET Mask!Signals /\ {"SIGUSR2"} \in SUBSET Mask!Signals
        /\ (waiting["parent"] \union {}) \intersect {"SIGUSR2"} = w
    BY <1>2, <1>3 DEF Mask!NewMask, Mask!Signals
  <2> HIDE DEF w, t
  <2>4. /\ mask' \in [Mask!Procs -> SUBSET Mask!Signals]
        /\ waiting' \in [Mask!Procs -> SUBSET Mask!Signals]
        /\ taken' \in [Mask!Procs -> Seq(Mask!Signals)]
        /\ mask'["parent"] = {"SIGUSR2"} /\ mask'["child"] = mask["child"]
        /\ waiting'["parent"] = w /\ waiting'["child"] = waiting["child"]
        /\ taken'["parent"] = t /\ taken'["child"] = taken["child"]
    BY ONLY <2>2, <2>3, SignalsParent, Mask!TypeOK DEF t
  <2>5. BothSent' /\ waiting'["parent"] \subseteq mask'["parent"]
    BY <2>1, <2>4 DEF BothSent
  <2>6. ~unreliable["parent"] => waiting'["parent"] = {"SIGUSR2"}
    <3>1. << >> # <<"SIGUSR1">> /\ << >> # <<"SIGUSR1", "SIGUSR2">>
      OBVIOUS
    <3> QED
      BY <1>2, <2>1, <2>4, <3>1
  <2> QED
    BY <1>1, <1>2, <1>3, <2>4, <2>5, <2>6 DEF ParentInv, Sent, Masked, Reliable,
       ParentOnly, Silent, Sending, Blocking, Unblocked, Told, Mask!TypeOK
<1>4. CASE unreliable' = [unreliable EXCEPT !["parent"] = TRUE]
           /\ UNCHANGED <<mask, waiting, taken>>
  <2>1. BothSent'
    BY <1>2, <1>4 DEF BothSent
  <2> QED
    BY <1>1, <1>2, <1>4, <2>1 DEF ParentInv, Sent, Masked, Reliable, ParentOnly,
       Silent, Sending, Blocking, Unblocked, Told, Mask!TypeOK, Mask!Procs
<1> QED
  BY <1>3, <1>4 DEF Mask!Sigprocmask

(* The parent reports, or changes its sigset.                              *)
LEMMA Reports ==
  ASSUME MaskInv,
         \/ Mask!Handlers
         \/ Mask!Sigpending("parent", "sigpending_before", "sigdelset_usr1")
         \/ Mask!Sigpending("parent", "sigpending_after", "fork")
         \/ Mask!Sigdelset("parent", "SIGUSR1", "sigdelset_usr1", "sigprocmask_usr2")
  PROVE  Mask!TypeOK' /\ ParentInv' /\ ParentOnly
<1> USE DEF MaskInv
<1>1. /\ UNCHANGED <<mask, waiting, taken, unreliable>>
      /\ (NoneSent => NoneSent') /\ (OneSent => OneSent') /\ (BothSent => BothSent')
  BY DEF Mask!Handlers, Mask!Sigpending, Mask!Sigdelset, NoneSent, OneSent,
     BothSent
<1>2. ASSUME NEW line \in SUBSET Mask!Signals,
             told' = [told EXCEPT !["parent"] = Append(@, line)]
      PROVE  /\ told' \in [Mask!Procs -> Seq(SUBSET Mask!Signals)]
             /\ told'["parent"] = Append(told["parent"], line)
             /\ told'["child"] = told["child"]
  <2>1. told["parent"] \in Seq(SUBSET Mask!Signals)
    BY DEF Mask!TypeOK, Mask!Procs
  <2>2. Append(told["parent"], line) \in Seq(SUBSET Mask!Signals)
    BY <2>1, AppendProperties
  <2> QED
    BY <1>2, <2>2 DEF Mask!TypeOK, Mask!Procs
<1>3. CASE Mask!Handlers
  <2>1. /\ step["parent"] = "signal" /\ step'["parent"] = "kill_usr1"
        /\ step'["child"] = step["child"] /\ (Mask!TypeOK!1)'
        /\ UNCHANGED sigset
    BY <1>3, GotoParent DEF Mask!Handlers, Sending
  <2>2. NoneSent /\ sigset["parent"] = Mask!Signals /\ told["parent"] = << >>
    BY <2>1 DEF Sent, Masked, Silent
  <2>3. told' = [told EXCEPT !["parent"] = Append(@, Mask!Signals)]
    BY <1>3, <2>2 DEF Mask!Handlers, Mask!Tell
  <2>4. /\ told' \in [Mask!Procs -> Seq(SUBSET Mask!Signals)]
        /\ told'["parent"] = <<Mask!Signals>> /\ told'["child"] = told["child"]
    BY <1>2, <2>2, <2>3, Singles
  <2> QED
    BY <1>1, <2>1, <2>2, <2>4 DEF ParentInv, Sent, Masked, Reliable, ParentOnly,
       Silent, Sending, Blocking, Unblocked, Told, Mask!TypeOK
<1>4. CASE Mask!Sigpending("parent", "sigpending_before", "sigdelset_usr1")
  <2>1. /\ step["parent"] = "sigpending_before" /\ step'["parent"] = "sigdelset_usr1"
        /\ step'["child"] = step["child"] /\ (Mask!TypeOK!1)'
        /\ UNCHANGED sigset
    BY <1>4, GotoParent DEF Mask!Sigpending, Blocking
  <2>2. /\ BothSent /\ sigset["parent"] = Mask!Signals /\ told["parent"] = <<Mask!Signals>>
        /\ ~unreliable["parent"] => taken["parent"] = << >> /\ mask["parent"] = Mask!Signals
        /\ waiting["parent"] \in SUBSET Mask!Signals
    BY <2>1 DEF Sent, Masked, Reliable, Silent, Sending, Mask!TypeOK, Mask!Procs
  <2>3. ~unreliable["parent"] => waiting["parent"] = Mask!Signals
    <3>1. << >> # <<"SIGUSR1">> /\ << >> # <<"SIGUSR1", "SIGUSR2">>
      OBVIOUS
    <3> QED
      BY <2>2, <3>1 DEF BothSent, Mask!Signals
  <2>4. told' = [told EXCEPT !["parent"] = Append(@, waiting["parent"])]
    BY <1>4 DEF Mask!Sigpending, Mask!Tell
  <2>5. /\ told' \in [Mask!Procs -> Seq(SUBSET Mask!Signals)]
        /\ told'["parent"] = <<Mask!Signals, waiting["parent"]>> /\ told'["child"] = told["child"]
    BY <1>2, <2>2, <2>4, Pairs
  <2> QED
    BY <1>1, <2>1, <2>2, <2>3, <2>5 DEF ParentInv, Sent, Masked, Reliable,
       ParentOnly, Silent, Sending, Blocking, Unblocked, Told, Mask!TypeOK
<1>5. CASE Mask!Sigpending("parent", "sigpending_after", "fork")
  <2>1. /\ step["parent"] = "sigpending_after" /\ step'["parent"] = "fork"
        /\ step'["child"] = step["child"] /\ (Mask!TypeOK!1)'
        /\ UNCHANGED sigset
    BY <1>5, GotoParent DEF Mask!Sigpending, Unblocked
  <2>2. /\ BothSent /\ sigset["parent"] = {"SIGUSR2"}
        /\ ~unreliable["parent"] =>
             /\ mask["parent"] = {"SIGUSR2"} /\ waiting["parent"] = {"SIGUSR2"}
             /\ told["parent"] = <<Mask!Signals, Mask!Signals>>
        /\ waiting["parent"] \in SUBSET Mask!Signals
    BY <2>1 DEF Sent, Masked, Reliable, Unblocked, Mask!TypeOK, Mask!Procs
  <2>3. told' = [told EXCEPT !["parent"] = Append(@, waiting["parent"])]
    BY <1>5 DEF Mask!Sigpending, Mask!Tell
  <2>4. /\ told' \in [Mask!Procs -> Seq(SUBSET Mask!Signals)]
        /\ told'["parent"] = Append(told["parent"], waiting["parent"])
        /\ told'["child"] = told["child"]
    BY <1>2, <2>2, <2>3
  <2>5. ~unreliable["parent"] =>
          told'["parent"] = <<Mask!Signals, Mask!Signals, {"SIGUSR2"}>>
    BY <2>2, <2>4, Triples
  <2> QED
    BY <1>1, <2>1, <2>2, <2>4, <2>5 DEF ParentInv, Sent, Masked, Reliable,
       ParentOnly, Silent, Sending, Blocking, Unblocked, Told, Mask!TypeOK
<1>6. CASE Mask!Sigdelset("parent", "SIGUSR1", "sigdelset_usr1", "sigprocmask_usr2")
  <2>1. /\ step["parent"] = "sigdelset_usr1" /\ step'["parent"] = "sigprocmask_usr2"
        /\ step'["child"] = step["child"] /\ (Mask!TypeOK!1)'
        /\ UNCHANGED told
    BY <1>6, GotoParent DEF Mask!Sigdelset, Blocking
  <2>2. BothSent /\ sigset["parent"] = Mask!Signals
    BY <2>1 DEF Sent, Masked, Blocking
  <2>3. /\ sigset' \in [Mask!Procs -> SUBSET Mask!Signals]
        /\ sigset'["parent"] = {"SIGUSR2"} /\ sigset'["child"] = sigset["child"]
    BY <1>6, <2>2 DEF Mask!Sigdelset, Mask!TypeOK, Mask!Procs, Mask!Signals
  <2> QED
    BY <1>1, <2>1, <2>2, <2>3 DEF ParentInv, Sent, Masked, Reliable, ParentOnly,
       Silent, Sending, Blocking, Unblocked, Told, Mask!TypeOK
<1> QED
  BY <1>3, <1>4, <1>5, <1>6

LEMMA Forks == ASSUME MaskInv, Mask!Fork PROVE MaskInv'
<1> USE DEF MaskInv, Mask!Procs
<1>1. /\ step["parent"] = "fork" /\ step'["parent"] = "done"
      /\ step'["child"] = "sigpending_first" /\ (Mask!TypeOK!1)'
  BY DEF Mask!Fork, Mask!TypeOK
<1>2. /\ BothSent /\ sigset["parent"] = {"SIGUSR2"}
      /\ ~unreliable["parent"] => mask["parent"] = {"SIGUSR2"}
  BY <1>1 DEF Sent, Masked, Reliable, Unblocked
<1>3. /\ sigset' \in [Mask!Procs -> SUBSET Mask!Signals]
      /\ mask' \in [Mask!Procs -> SUBSET Mask!Signals]
      /\ unreliable' \in [Mask!Procs -> BOOLEAN]
      /\ sigset'["child"] = {"SIGUSR2"} /\ mask'["child"] = mask["parent"]
      /\ unreliable'["child"] = unreliable["parent"]
      /\ sigset'["parent"] = sigset["parent"] /\ mask'["parent"] = mask["parent"]
      /\ unreliable'["parent"] = unreliable["parent"]
  BY <1>2 DEF Mask!Fork, Mask!TypeOK
<1>4. /\ waiting' \in [Mask!Procs -> SUBSET Mask!Signals]
      /\ waiting'["child"] = {} /\ waiting'["parent"] = waiting["parent"]
  BY DEF Mask!Fork, Mask!TypeOK, Mask!Inherited
<1>5. /\ told' \in [Mask!Procs -> Seq(SUBSET Mask!Signals)]
      /\ told'["child"] = <<{"SIGUSR2"}>> /\ told'["parent"] = told["parent"]
  <2>1. {"SIGUSR2"} \in SUBSET Mask!Signals
    BY DEF Mask!Signals
  <2>2. <<{"SIGUSR2"}>> \in Seq(SUBSET Mask!Signals)
    BY <2>1
  <2> QED
    BY <1>2, <2>2 DEF Mask!Fork, Mask!TypeOK
<1>6. UNCHANGED taken /\ BothSent'
  BY <1>2, <1>4 DEF Mask!Fork, BothSent
<1>7. Child'
  BY <1>1, <1>2, <1>3, <1>4, <1>5, <1>6 DEF Child, Told
<1>8. Sent' /\ Masked' /\ Reliable'
  BY <1>1, <1>2, <1>3, <1>4, <1>5, <1>6
     DEF Sent, Masked, Reliable, Silent, Sending, Blocking, Unblocked
<1> QED
  BY <1>1, <1>3, <1>4, <1>5, <1>6, <1>7, <1>8 DEF Mask!TypeOK

LEMMA ChildSteps ==
  ASSUME MaskInv,
         \/ Mask!Sigpending("child", "sigpending_first", "sigdelset_usr2")
         \/ Mask!Sigdelset("child", "SIGUSR2", "sigdelset_usr2", "sigprocmask_none")
         \/ Mask!Sigprocmask("child", "sigprocmask_none", "sigpending_last")
         \/ Mask!Sigpending("child", "sigpending_last", "done")
  PROVE  Mask!TypeOK' /\ Child' /\ ChildOnly
<1> USE DEF MaskInv, Mask!Procs
<1>1. taken["child"] = << >> /\ waiting["child"] = {}
  BY DEF Child
<1>2. ASSUME NEW from, NEW to, Mask!Sigpending("child", from, to),
             from \in {"sigpending_first", "sigpending_last"},
             to \in {"sigdelset_usr2", "done"}
      PROVE  /\ step["child"] = from /\ step'["child"] = to /\ (Mask!TypeOK)' /\ ChildOnly
             /\ told'["child"] = Append(told["child"], {})
             /\ UNCHANGED <<sigset, mask, waiting, taken, unreliable>>
  <2>1. /\ step["child"] = from /\ step'["child"] = to /\ (Mask!TypeOK!1)'
        /\ step'["parent"] = step["parent"]
    BY <1>2 DEF Mask!Sigpending, Mask!Goto, Mask!TypeOK
  <2>2. told' = [told EXCEPT !["child"] = Append(@, {})]
    BY <1>1, <1>2 DEF Mask!Sigpending, Mask!Tell
  <2>3. Append(told["child"], {}) \in Seq(SUBSET Mask!Signals)
    <3>1. told["child"] \in Seq(SUBSET Mask!Signals) /\ {} \in SUBSET Mask!Signals
      BY DEF Mask!TypeOK
    <3> QED
      BY <3>1, AppendProperties
  <2>4. /\ told' \in [Mask!Procs -> Seq(SUBSET Mask!Signals)]
        /\ told'["child"] = Append(told["child"], {})
        /\ told'["parent"] = told["parent"]
    BY <2>2, <2>3 DEF Mask!TypeOK
  <2> QED
    BY <1>2, <2>1, <2>4 DEF Mask!Sigpending, Mask!TypeOK, ChildOnly
<1>3. CASE Mask!Sigpending("child", "sigpending_first", "sigdelset_usr2")
  <2>1. /\ step["child"] = "sigpending_first" /\ step'["child"] = "sigdelset_usr2"
        /\ told'["child"] = Append(told["child"], {}) /\ Mask!TypeOK' /\ ChildOnly
        /\ UNCHANGED <<sigset, mask, waiting, taken, unreliable>>
    BY <1>2, <1>3
  <2>2. told'["child"] = <<{"SIGUSR2"}, {}>>
    BY <2>1, Pairs DEF Child
  <2> QED
    BY <2>1, <2>2 DEF Child, Told
<1>4. CASE Mask!Sigpending("child", "sigpending_last", "done")
  <2>1. /\ step["child"] = "sigpending_last" /\ step'["child"] = "done"
        /\ told'["child"] = Append(told["child"], {}) /\ Mask!TypeOK' /\ ChildOnly
        /\ UNCHANGED <<sigset, mask, waiting, taken, unreliable>>
    BY <1>2, <1>4
  <2>2. told'["child"] = <<{"SIGUSR2"}, {}, {}>>
    <3>1. Append(<<{"SIGUSR2"}, {}>>, {}) = <<{"SIGUSR2"}, {}, {}>>
      BY Triples
    <3> QED
      BY <2>1, <3>1 DEF Child
  <2> QED
    BY <2>1, <2>2 DEF Child, Told
<1>5. CASE Mask!Sigdelset("child", "SIGUSR2", "sigdelset_usr2", "sigprocmask_none")
  <2>1. /\ step["child"] = "sigdelset_usr2" /\ step'["child"] = "sigprocmask_none"
        /\ step'["parent"] = step["parent"] /\ (Mask!TypeOK!1)'
        /\ UNCHANGED <<mask, waiting, taken, told, unreliable>>
    BY <1>5 DEF Mask!Sigdelset, Mask!Goto, Mask!TypeOK
  <2>2. /\ sigset' \in [Mask!Procs -> SUBSET Mask!Signals]
        /\ sigset'["parent"] = sigset["parent"]
    BY <1>5 DEF Mask!Sigdelset, Mask!TypeOK
  <2> QED
    BY <2>1, <2>2 DEF Mask!TypeOK, Child, ChildOnly
<1>6. CASE Mask!Sigprocmask("child", "sigprocmask_none", "sigpending_last")
  <2>1. /\ step["child"] = "sigprocmask_none" /\ step'["child"] = "sigpending_last"
        /\ step'["parent"] = step["parent"] /\ (Mask!TypeOK!1)'
        /\ UNCHANGED <<sigset, told>>
    BY <1>6 DEF Mask!Sigprocmask, Mask!Goto, Mask!TypeOK
  <2>2. CASE Mask!Signal("child", {}, Mask!NewMask("child")) /\ UNCHANGED unreliable
    <3>1. /\ << >> \o Mask!SetToSeq({}) = << >> /\ << >> \in Seq(Mask!Signals)
          /\ (waiting["child"] \union {}) \ sigset["child"] = {}
          /\ (waiting["child"] \union {}) \intersect sigset["child"] = {}
      BY <1>1, HandleNone
    <3>2. /\ taken' = [taken EXCEPT !["child"] = << >>]
          /\ waiting' = [waiting EXCEPT !["child"] = {}]
          /\ mask' = [mask EXCEPT !["child"] = sigset["child"]]
      BY <1>1, <2>2, <3>1 DEF Mask!Signal, Mask!NewMask
    <3>3. /\ taken' \in [Mask!Procs -> Seq(Mask!Signals)]
          /\ taken'["child"] = << >> /\ taken'["parent"] = taken["parent"]
      BY <3>1, <3>2 DEF Mask!TypeOK
    <3>4. /\ mask' \in [Mask!Procs -> SUBSET Mask!Signals]
          /\ mask'["child"] = sigset["child"] /\ mask'["parent"] = mask["parent"]
          /\ waiting' \in [Mask!Procs -> SUBSET Mask!Signals]
          /\ waiting'["child"] = {} /\ waiting'["parent"] = waiting["parent"]
      BY <3>2 DEF Mask!TypeOK
    <3> QED
      BY <2>1, <2>2, <3>3, <3>4 DEF Mask!TypeOK, Child, ChildOnly
  <2>3. CASE unreliable' = [unreliable EXCEPT !["child"] = TRUE]
             /\ UNCHANGED <<mask, waiting, taken>>
    BY <2>1, <2>3 DEF Mask!TypeOK, Child, ChildOnly
  <2> QED
    BY <1>6, <2>2, <2>3 DEF Mask!Sigprocmask
<1> QED
  BY <1>3, <1>4, <1>5, <1>6

LEMMA Fails == ASSUME MaskInv, NEW p \in Mask!Procs, Mask!CallFails(p) PROVE MaskInv'
<1> USE DEF MaskInv, Mask!Procs
<1>1. /\ UNCHANGED <<sigset, mask, waiting, taken, told, unreliable>>
      /\ step' = [step EXCEPT ![p] = "failed"]
  BY DEF Mask!CallFails
<1>2. Mask!TypeOK'
  BY <1>1 DEF Mask!TypeOK
<1>3. CASE p = "parent"
  <2>1. /\ step'["parent"] = "failed" /\ step'["child"] = step["child"]
    BY <1>1, <1>3 DEF Mask!TypeOK
  <2> QED
    BY <1>1, <1>2, <2>1 DEF Sent, Masked, Reliable, Child, NoneSent, OneSent,
       BothSent, Silent, Sending, Blocking, Unblocked
<1>4. CASE p = "child"
  <2>1. /\ step'["child"] = "failed" /\ step'["parent"] = step["parent"]
    BY <1>1, <1>4 DEF Mask!TypeOK
  <2> QED
    BY <1>1, <1>2, <2>1 DEF Sent, Masked, Reliable, Child, NoneSent, OneSent,
       BothSent
<1> QED
  BY <1>3, <1>4

LEMMA MaskStep == ASSUME MaskInv, [Mask!Next]_maskVars PROVE MaskInv'
<1>1. ASSUME Mask!TypeOK' /\ ParentInv' /\ ParentOnly PROVE MaskInv'
  BY <1>1, ChildFrame DEF MaskInv, ParentInv
<1>2. ASSUME Mask!TypeOK' /\ Child' /\ ChildOnly PROVE MaskInv'
  BY <1>2, ParentFrame DEF MaskInv, ParentInv
<1>3. CASE UNCHANGED maskVars
  BY <1>3 DEF maskVars, MaskInv, Mask!TypeOK, Sent, Masked, Reliable, Child,
     NoneSent, OneSent, BothSent
<1>4. CASE \E p \in Mask!Procs : Mask!CallFails(p)
  BY <1>4, Fails
<1> QED
  BY <1>1, <1>2, <1>3, <1>4, BlockAll, SendsFirst, SendsSecond, UnblocksFirst,
     Reports, Forks, ChildSteps DEF Mask!Next

LEMMA MaskInvSuffices == MaskInv => Mask!SignalsStayHome /\ Mask!ReportsHold
<1> SUFFICES ASSUME MaskInv PROVE Mask!SignalsStayHome /\ Mask!ReportsHold
  OBVIOUS
<1> USE DEF MaskInv
<1>1. /\ Mask!IsInjective(taken["parent"])
      /\ Mask!ToSet(taken["parent"]) \intersect waiting["parent"] = {}
      /\ BothSent => Mask!ToSet(taken["parent"]) \union waiting["parent"] = Mask!Signals
  <2>1. CASE taken["parent"] = << >>
    <3>1. Mask!IsInjective(taken["parent"]) /\ Mask!ToSet(taken["parent"]) = {}
      BY <2>1 DEF Mask!IsInjective, Mask!ToSet
    <3>2. << >> # <<"SIGUSR1">> /\ << >> # <<"SIGUSR1", "SIGUSR2">>
      OBVIOUS
    <3> QED
      BY <2>1, <3>1, <3>2 DEF BothSent, Mask!Signals
  <2>2. CASE taken["parent"] = <<"SIGUSR1">> /\ waiting["parent"] \in {{}, {"SIGUSR2"}}
    <3>1. Mask!IsInjective(taken["parent"]) /\ Mask!ToSet(taken["parent"]) = {"SIGUSR1"}
      BY <2>2 DEF Mask!IsInjective, Mask!ToSet
    <3>2. BothSent => waiting["parent"] = {"SIGUSR2"}
      <4>1. << >> # <<"SIGUSR1">> /\ <<"SIGUSR1">> # <<"SIGUSR1", "SIGUSR2">>
        OBVIOUS
      <4> QED
        BY <2>2, <4>1 DEF BothSent
    <3> QED
      BY <2>2, <3>1, <3>2 DEF Mask!Signals
  <2>3. CASE taken["parent"] = <<"SIGUSR1", "SIGUSR2">> /\ waiting["parent"] = {}
    <3>1. /\ Mask!IsInjective(taken["parent"])
          /\ Mask!ToSet(taken["parent"]) = {"SIGUSR1", "SIGUSR2"}
      BY <2>3 DEF Mask!IsInjective, Mask!ToSet
    <3> QED
      BY <2>3, <3>1 DEF Mask!Signals
  <2> QED
    BY <2>1, <2>2, <2>3 DEF Sent, NoneSent, OneSent, BothSent
<1>2. step["parent"] = "sigpending_before" \/ Len(told["parent"]) > 1 => BothSent
  <2>1. step["parent"] = "sigpending_before" => BothSent
    BY DEF Sent
  <2>2. BothSent \/ told["parent"] = << >> \/ told["parent"] = <<Mask!Signals>>
    BY DEF Sent
  <2>3. CASE told["parent"] = << >>
    BY <2>1, <2>3
  <2>4. CASE told["parent"] = <<Mask!Signals>>
    <3>1. Len(<<Mask!Signals>>) = 1
      OBVIOUS
    <3>2. Len(told["parent"]) = 1
      BY <2>4, <3>1
    <3> QED
      BY <2>1, <3>2
  <2> QED
    BY <2>2, <2>3, <2>4
<1>3. Mask!SignalsStayHome
  BY <1>1, <1>2 DEF Mask!SignalsStayHome, Child
<1>4. /\ ~unreliable["parent"] =>
           Mask!IsPrefix(told["parent"], <<Mask!Signals, Mask!Signals, {"SIGUSR2"}>>)
      /\ Mask!IsPrefix(told["child"], <<{"SIGUSR2"}, {}, {}>>)
  BY PrefixesOfThree DEF Reliable, Child
<1>5. ASSUME NEW p \in Mask!Procs, ~unreliable[p],
             step[p] \in {"signal", "fork", "sigpending_first", "done"}
      PROVE  mask[p] = sigset[p]
  <2>1. CASE p = "parent"
    BY <1>5, <2>1 DEF Sent, Masked, Reliable, Silent, Sending, Blocking,
       Unblocked
  <2>2. CASE p = "child"
    BY <1>5, <2>2 DEF Child
  <2> QED
    BY <2>1, <2>2 DEF Mask!Procs
<1> QED
  BY <1>3, <1>4, <1>5 DEF Mask!ReportsHold

-----------------------------------------------------------------------------
(* One of the programs runs, the others keep what is theirs.               *)
SignalsInv == WaitInv /\ OrphanInv /\ MaskInv

LEMMA Invariance == MCSpec => []SignalsInv
<1>1. MCInit => SignalsInv
  BY WaitInit, OrphanInit, MaskInit DEF MCInit, SignalsInv
<1>2. ASSUME SignalsInv, [MCNext]_<<vars, orphanVars, maskVars>> PROVE SignalsInv'
  <2>1. [Next]_vars /\ [Orphan!Next]_orphanVars /\ [Mask!Next]_maskVars
    BY <1>2 DEF MCNext, vars, orphanVars, maskVars
  <2> QED
    BY <1>2, <2>1, WaitStep, OrphanStep, MaskStep DEF SignalsInv
<1> QED
  BY <1>1, <1>2, PTL DEF MCSpec

(* The types of all that the programs keep.                                *)
THEOREM TypeCorrect == MCSpec => []TypesOK
<1>1. SignalsInv => TypesOK
  BY DEF SignalsInv, WaitInv, OrphanInv, MaskInv, TypesOK
<1> QED
  BY <1>1, Invariance, PTL

(* sigchld_wait_sync.c: whatever the handler and main do to each other,    *)
(* exactly one of their waits gets the child's status, once it has ended.  *)
THEOREM OneWaitGetsTheChild == MCSpec => []OneWaitSucceeds
<1>1. SignalsInv => OneWaitSucceeds
  BY WaitInvSuffices DEF SignalsInv
<1> QED
  BY <1>1, Invariance, PTL

(* sigchld_block_wait.c: behind the mask it is main's.                     *)
THEOREM MainGetsTheChild == MCSpec => []BlockedIsNotHandled
<1>1. SignalsInv => BlockedIsNotHandled
  BY WaitInvSuffices DEF SignalsInv
<1> QED
  BY <1>1, Invariance, PTL

(* sighup_sigcont.c: SIGHUP finds its handler, whoever is faster and       *)
(* whichever signal is delivered first.                                    *)
THEOREM HandlersAreThere == MCSpec => []HangupIsHandled
<1>1. SignalsInv => HangupIsHandled
  BY OrphanInvSuffices DEF SignalsInv, HangupIsHandled
<1> QED
  BY <1>1, Invariance, PTL

(* child_pending_signals_and_mask.c: no signal crosses the fork or is      *)
(* lost, and the reports of pending and blocked signals are true unless a  *)
(* call of sigprocmask has failed.                                         *)
THEOREM NoSignalCrossesTheFork == MCSpec => []SignalsStayHome
<1>1. SignalsInv => SignalsStayHome
  BY MaskInvSuffices DEF SignalsInv, SignalsStayHome
<1> QED
  BY <1>1, Invariance, PTL
=============================================================================

--------------------------- MODULE MCFiles_proofs ---------------------------
(***************************************************************************)
(* What holds of the client and the server of a FIFO for input of any      *)
(* length, whichever calls fail; of the programs that move about in a      *)
(* file, whatever the file holds and whichever write fails; of a process   *)
(* that redirects its standard input and output, whichever descriptors it  *)
(* starts with; of a set-user-id game, however many play it and whoever    *)
(* owns the files; and of paths resolved in a directory of any links.      *)
(***************************************************************************)
EXTENDS MCFiles, SequenceTheorems, FiniteSetTheorems, TLAPS

-----------------------------------------------------------------------------
(* What the client writes.                                                 *)
LEMMA TextAppend ==
  ASSUME NEW s \in Seq(1 .. Lines), NEW n \in Nat, NEW l \in 1 .. Lines,
         l = n + 1, l \notin empty, IsText(s, n)
  PROVE  IsText(Append(s, l), l)
<1> DEFINE t == Append(s, l)
<1>1. /\ t \in Seq(1 .. Lines)
      /\ Len(t) = Len(s) + 1
      /\ \A k \in 1 .. Len(s) : t[k] = s[k]
      /\ t[Len(s) + 1] = l
  BY AppendProperties
<1>2. /\ Len(s) \in Nat
      /\ DOMAIN s = 1 .. Len(s) /\ \A k \in 1 .. Len(s) : s[k] \in 1 .. Lines
      /\ DOMAIN t = 1 .. Len(s) + 1
  BY <1>1, LenProperties
<1>3. \A k \in 1 .. Len(s) : s[k] \in (1 .. n) \ empty
  BY <1>2 DEF IsText, ToSet
<1> HIDE DEF t
<1>4. \A j, k \in DOMAIN t : j < k => t[j] < t[k]
  <2> SUFFICES ASSUME NEW j \in 1 .. Len(s) + 1, NEW k \in 1 .. Len(s) + 1, j < k
               PROVE  t[j] < t[k]
    BY <1>2
  <2>1. CASE k \in 1 .. Len(s)
    <3>1. j \in 1 .. Len(s)
      BY <1>2, <2>1
    <3>2. s[j] < s[k]
      BY <1>2, <2>1, <3>1 DEF IsText
    <3> QED
      BY <1>1, <2>1, <3>1, <3>2
  <2>2. CASE k = Len(s) + 1
    <3>1. j \in 1 .. Len(s)
      BY <1>2, <2>2
    <3> QED
      BY <1>1, <1>3, <2>2, <3>1
  <2> QED
    BY <1>2, <2>1, <2>2
<1>5. ToSet(t) = (1 .. l) \ empty
  <2>1. ASSUME NEW x \in ToSet(t) PROVE x \in (1 .. l) \ empty
    <3>1. PICK k \in 1 .. Len(s) + 1 : x = t[k]
      BY <1>2, <2>1 DEF ToSet
    <3>2. CASE k \in 1 .. Len(s)
      BY <1>1, <1>3, <3>1, <3>2
    <3>3. CASE k = Len(s) + 1
      BY <1>1, <3>1, <3>3
    <3> QED
      BY <1>2, <3>1, <3>2, <3>3
  <2>2. ASSUME NEW x \in (1 .. l) \ empty PROVE x \in ToSet(t)
    <3>1. CASE x = l
      <4>1. Len(s) + 1 \in DOMAIN t /\ t[Len(s) + 1] = x
        BY <1>1, <1>2, <3>1
      <4> QED
        BY <4>1 DEF ToSet
    <3>2. CASE x # l
      <4>1. x \in ToSet(s)
        BY <2>2, <3>2 DEF IsText
      <4>2. PICK k \in 1 .. Len(s) : x = s[k]
        BY <1>2, <4>1 DEF ToSet
      <4>3. k \in DOMAIN t /\ t[k] = x
        BY <1>1, <1>2, <4>2
      <4> QED
        BY <4>3 DEF ToSet
    <3> QED
      BY <3>1, <3>2
  <2> QED
    BY <2>1, <2>2
<1> QED
  BY <1>4, <1>5 DEF IsText, t

LEMMA TextSkip ==
  ASSUME NEW s, NEW n \in Nat, NEW l \in Nat, l = n + 1, l \in empty, IsText(s, n)
  PROVE  IsText(s, l)
<1>1. (1 .. n) \ empty = (1 .. l) \ empty
  OBVIOUS
<1> QED
  BY <1>1 DEF IsText

(* Writing puts the line behind all that has been sent, reading takes it   *)
(* from the pipe and leaves what has been sent the same.                   *)
LEMMA SentGrows ==
  ASSUME TypeOK, NEW l \in 1 .. Lines
  PROVE  received \o Append(pipe, l) = Append(received \o pipe, l)
<1>1. /\ received \in Seq(1 .. Lines) /\ pipe \in Seq(1 .. Lines)
      /\ <<l>> \in Seq(1 .. Lines)
  BY DEF TypeOK
<1>2. Append(pipe, l) = pipe \o <<l>>
  BY <1>1, AppendIsConcat
<1>3. received \o pipe \in Seq(1 .. Lines)
  BY <1>1, ConcatProperties
<1>4. Append(received \o pipe, l) = (received \o pipe) \o <<l>>
  BY <1>3, AppendIsConcat
<1>5. (received \o pipe) \o <<l>> = received \o (pipe \o <<l>>)
  BY <1>1, ConcatAssociative
<1> QED
  BY <1>2, <1>4, <1>5

(* The lines that have been sent are those the client has dealt with: up   *)
(* to the one gotten last, or up to the one before while that is still to  *)
(* be written or when its write was not made.  The server leaves its loop  *)
(* when the client has ended, and what has ended sends nothing more.       *)
Handled == IF pc["client"] \in {"stat_before", "write"} THEN gotten - 1 ELSE gotten

ClientInv ==
  /\ pc["client"] \notin {"read", "stat", "last_stat"}
  /\ gotten <= LinesRead
  /\ pc["client"] \in {"mkfifo", "open", "open_blocked"} => gotten = 0
  /\ pc["client"] \in {"stat_before", "write"} => gotten >= 1
  /\ pc["client"] \in {"close", "done"} => gotten = LinesRead

SentInv ==
  \/ IsText(received \o pipe, Handled)
  \/ pc["client"] = "failed" /\ gotten >= 1 /\ IsText(received \o pipe, gotten - 1)

ServerInv ==
  /\ pc["server"] \notin {"mkfifo", "gets", "write", "stat_before", "stat_after"}
  /\ pc["server"] \in {"last_stat", "close", "done"} => Ended("client") /\ pipe = << >>

CopyInv == TypeOK /\ ClientInv /\ SentInv /\ ServerInv

LEMMA CopyInit == Init => CopyInv
<1> SUFFICES ASSUME Init PROVE CopyInv
  OBVIOUS
<1>1. << >> \in Seq(1 .. Lines) /\ << >> \o << >> = << >>
  BY EmptySeq, ConcatEmptySeq
<1>2. unterminated \in BOOLEAN /\ (unterminated => Lines > 0)
  BY DEF Init
<1>3. LinesRead \in 0 .. Lines
  BY <1>2, FifoAssumption DEF LinesRead
<1>4. TypeOK
  <2>1. gotten \in 0 .. Lines /\ pipe \in Seq(1 .. Lines) /\ received \in Seq(1 .. Lines)
    BY <1>1, FifoAssumption DEF Init
  <2>2. fifo \in BOOLEAN /\ met \in BOOLEAN /\ empty \subseteq 1 .. Lines
    BY ZenonT(20) DEF Init
  <2>3. pc = [client |-> "mkfifo", server |-> "open"]
    BY DEF Init
  <2> QED
    BY <1>2, <2>1, <2>2, <2>3 DEF TypeOK
<1>5. ClientInv /\ ServerInv
  BY <1>3 DEF Init, ClientInv, ServerInv
<1>6. IsText(<< >>, 0)
  BY DEF IsText, ToSet
<1>7. received \o pipe = << >> /\ Handled = 0
  BY <1>1 DEF Init, Handled
<1> QED
  BY <1>4, <1>5, <1>6, <1>7 DEF CopyInv, SentInv

(* A step that sends nothing and leaves the input alone: the client goes   *)
(* on, and what it has dealt with stays the same.                          *)
Quiet == UNCHANGED <<empty, unterminated, gotten>> /\ received' \o pipe' = received \o pipe

LEMMA SentStays ==
  ASSUME SentInv, Quiet, Handled' = Handled \/ pc'["client"] = "failed", TypeOK, ClientInv,
         pc["client"] = "failed" => pc'["client"] = "failed"
  PROVE  SentInv'
<1>1. /\ \A n : IsText(received \o pipe, n) <=> IsText(received \o pipe, n)'
      /\ gotten' = gotten
  BY DEF Quiet, IsText
<1>2. CASE IsText(received \o pipe, Handled)
  <2>1. CASE Handled' = Handled
    BY <1>1, <1>2, <2>1 DEF SentInv
  <2>2. CASE pc'["client"] = "failed" /\ pc["client"] \in {"stat_before", "write"}
    BY <1>1, <1>2, <2>2 DEF SentInv, Handled, ClientInv
  <2>3. CASE pc'["client"] = "failed" /\ pc["client"] \notin {"stat_before", "write"}
    BY <1>1, <1>2, <2>3 DEF SentInv, Handled
  <2> QED
    BY <2>1, <2>2, <2>3
<1>3. CASE pc["client"] = "failed" /\ gotten >= 1 /\ IsText(received \o pipe, gotten - 1)
  BY <1>1, <1>3 DEF SentInv
<1> QED
  BY <1>2, <1>3 DEF SentInv

LEMMA ClientStep == ASSUME CopyInv, client PROVE CopyInv'
<1> USE DEF CopyInv
<1>1. gotten \in Nat /\ LinesRead \in Int /\ LinesRead <= Lines
  BY FifoAssumption DEF TypeOK, LinesRead
<1>2. CASE Mkfifo
  <2>1. TypeOK' /\ ClientInv' /\ ServerInv'
    BY <1>2 DEF Mkfifo, Goto, TypeOK, ClientInv, ServerInv, LinesRead, Ended
  <2>2. SentInv'
    BY <1>2, SentStays DEF Mkfifo, Goto, TypeOK, Quiet, Handled
  <2> QED
    BY <2>1, <2>2
<1>3. CASE Open("client")
  <2>1. TypeOK' /\ ClientInv' /\ ServerInv'
    BY <1>3 DEF Open, Goto, TypeOK, ClientInv, ServerInv, LinesRead, Ended,
       Other
  <2>2. SentInv'
    BY <1>3, SentStays DEF Open, Goto, TypeOK, Quiet, Handled
  <2> QED
    BY <2>1, <2>2
<1>4. CASE Opened("client")
  <2>1. TypeOK' /\ ClientInv' /\ ServerInv'
    BY <1>4 DEF Opened, Goto, TypeOK, ClientInv, ServerInv, LinesRead, Ended
  <2>2. SentInv'
    BY <1>4, SentStays DEF Opened, Goto, TypeOK, Quiet, Handled
  <2> QED
    BY <2>1, <2>2
<1>5. CASE Gets
  <2>1. TypeOK' /\ ClientInv' /\ ServerInv'
    <3>1. CASE gotten < LinesRead
      <4>1. gotten' = gotten + 1 /\ pc' = [pc EXCEPT !["client"] = "stat_before"]
        BY <1>5, <3>1 DEF Gets, Goto
      <4>2. gotten + 1 \in 0 .. Lines /\ gotten + 1 <= LinesRead
        BY <1>1, <3>1, FifoAssumption
      <4> QED
        BY <1>1, <1>5, <4>1, <4>2
           DEF Gets, Goto, TypeOK, ClientInv, ServerInv, LinesRead, Ended
    <3>2. CASE ~ gotten < LinesRead
      <4>1. gotten' = gotten /\ pc' = [pc EXCEPT !["client"] = "close"]
        BY <1>5, <3>2 DEF Gets, Goto
      <4>2. gotten = LinesRead
        BY <1>1, <3>2 DEF ClientInv
      <4> QED
        BY <1>1, <1>5, <4>1, <4>2
           DEF Gets, Goto, TypeOK, ClientInv, ServerInv, LinesRead, Ended
    <3> QED
      BY <3>1, <3>2
  <2>2. Handled' = Handled /\ UNCHANGED <<empty, received, pipe>>
    BY <1>1, <1>5 DEF Gets, Goto, TypeOK, Handled
  <2>3. SentInv /\ pc["client"] # "failed"
    BY <1>5 DEF Gets, Goto
  <2> QED
    BY <2>1, <2>2, <2>3 DEF SentInv, IsText
<1>6. CASE Stat("client", "stat_before", "write")
  <2>1. TypeOK' /\ ClientInv' /\ ServerInv'
    BY <1>6 DEF Stat, Goto, TypeOK, ClientInv, ServerInv, LinesRead, Ended
  <2>2. SentInv'
    BY <1>6, SentStays DEF Stat, Goto, TypeOK, Quiet, Handled
  <2> QED
    BY <2>1, <2>2
<1>7. CASE Write
  <2>1. pc["client"] = "write" /\ UNCHANGED <<empty, unterminated, fifo, met, gotten, received>>
    BY <1>7 DEF Write, Goto
  <2>2. gotten \in 1 .. Lines /\ gotten - 1 \in Nat /\ gotten = (gotten - 1) + 1
    BY <1>1, <2>1 DEF ClientInv, TypeOK
  <2>3. IsText(received \o pipe, gotten - 1)
    BY <2>1 DEF SentInv, Handled
  <2>4. received \o pipe \in Seq(1 .. Lines)
    BY ConcatProperties DEF TypeOK
  <2>5. CASE gotten \in empty
    <3>1. IsText(received \o pipe, gotten)
      BY <2>2, <2>3, <2>5, TextSkip
    <3>2. pc' = [pc EXCEPT !["client"] = "stat_after"] /\ pipe' = pipe
      BY <1>7, <2>5 DEF Write, Goto
    <3>3. TypeOK' /\ ClientInv' /\ ServerInv'
      BY <2>1, <3>2 DEF TypeOK, ClientInv, ServerInv, LinesRead, Ended
    <3>4. SentInv'
      BY <2>1, <3>1, <3>2 DEF SentInv, Handled, IsText, TypeOK
    <3> QED
      BY <3>3, <3>4
  <2>6. CASE gotten \notin empty /\ Ended("server")
    <3>1. pc' = [pc EXCEPT !["client"] = "failed"] /\ pipe' = pipe
      BY <1>7, <2>6 DEF Write, Goto
    <3>2. TypeOK' /\ ClientInv' /\ ServerInv'
      BY <2>1, <3>1 DEF TypeOK, ClientInv, ServerInv, LinesRead, Ended
    <3>3. SentInv'
      BY <2>1, <2>2, <2>3, <3>1 DEF SentInv, IsText, TypeOK
    <3> QED
      BY <3>2, <3>3
  <2>7. CASE gotten \notin empty /\ ~ Ended("server")
    <3>1. pc' = [pc EXCEPT !["client"] = "stat_after"] /\ pipe' = Append(pipe, gotten)
      BY <1>7, <2>7 DEF Write, Goto
    <3>2. pipe' \in Seq(1 .. Lines)
      BY <2>2, <3>1, AppendProperties DEF TypeOK
    <3>3. TypeOK' /\ ClientInv'
      BY <2>1, <3>1, <3>2 DEF TypeOK, ClientInv, LinesRead
    <3>4. ServerInv'
      BY <2>1, <3>1 DEF TypeOK, ServerInv, Ended
    <3>5. IsText(Append(received \o pipe, gotten), gotten)
      BY <2>2, <2>3, <2>4, <2>7, TextAppend
    <3>6. received' \o pipe' = Append(received \o pipe, gotten)
      BY <2>1, <2>2, <3>1, SentGrows
    <3>7. IsText(received \o pipe, Handled)'
      BY <2>1, <3>1, <3>5, <3>6 DEF IsText, Handled, TypeOK
    <3> QED
      BY <3>3, <3>4, <3>7 DEF SentInv
  <2> QED
    BY <2>5, <2>6, <2>7
<1>8. CASE Stat("client", "stat_after", "gets")
  <2>1. TypeOK' /\ ClientInv' /\ ServerInv'
    BY <1>8 DEF Stat, Goto, TypeOK, ClientInv, ServerInv, LinesRead, Ended
  <2>2. SentInv'
    BY <1>8, SentStays DEF Stat, Goto, TypeOK, Quiet, Handled
  <2> QED
    BY <2>1, <2>2
<1>9. CASE Close("client")
  <2>1. TypeOK' /\ ClientInv' /\ ServerInv'
    BY <1>9 DEF Close, Goto, TypeOK, ClientInv, ServerInv, LinesRead, Ended
  <2>2. SentInv'
    BY <1>9, SentStays DEF Close, Goto, TypeOK, Quiet, Handled
  <2> QED
    BY <2>1, <2>2
<1>10. CASE CallFails("client")
  <2>1. pc["client"] \notin {"done", "failed"}
    BY <1>10, FifoAssumption DEF CallFails, CallAt, Calls
  <2>2. TypeOK' /\ ClientInv' /\ ServerInv'
    BY <1>10, <2>1 DEF CallFails, Goto, TypeOK, ClientInv, ServerInv, LinesRead,
       Ended
  <2>3. SentInv'
    BY <1>10, <2>1, SentStays DEF CallFails, Goto, TypeOK, Quiet
  <2> QED
    BY <2>2, <2>3
<1> QED
  BY <1>2, <1>3, <1>4, <1>5, <1>6, <1>7, <1>8, <1>9, <1>10 DEF client

LEMMA ServerStep == ASSUME CopyInv, server PROVE CopyInv'
<1> USE DEF CopyInv
<1>1. /\ UNCHANGED <<empty, unterminated, gotten>>
      /\ pc'["client"] = pc["client"]
  BY DEF server, Open, Opened, Read, Stat, Close, CallFails, Goto, TypeOK
<1>2. ASSUME UNCHANGED <<received, pipe>>, ServerInv', TypeOK' PROVE CopyInv'
  <2>1. ClientInv'
    BY <1>1 DEF ClientInv, LinesRead
  <2>2. SentInv'
    BY <1>1, <1>2 DEF SentInv, IsText, Handled
  <2> QED
    BY <1>2, <2>1, <2>2
<1>3. CASE Open("server")
  BY <1>2, <1>3 DEF Open, Goto, TypeOK, ServerInv, Ended, Other
<1>4. CASE Opened("server")
  BY <1>2, <1>4 DEF Opened, Goto, TypeOK, ServerInv, Ended
<1>5. CASE Read
  <2>1. received' = received \o pipe /\ pipe' = << >>
    BY <1>5 DEF Read, TakeAll
  <2>2. received' \in Seq(1 .. Lines) /\ pipe' \in Seq(1 .. Lines)
    BY <2>1, ConcatProperties, EmptySeq DEF TypeOK
  <2>3. TypeOK'
    BY <1>5, <2>2 DEF Read, Goto, TypeOK
  <2>4. ServerInv'
    BY <1>1, <1>5, <2>1 DEF Read, Goto, TypeOK, ServerInv, Ended
  <2>5. ClientInv'
    BY <1>1 DEF ClientInv, LinesRead
  <2>6. received' \o pipe' = received \o pipe
    BY <2>1, <2>2, ConcatEmptySeq
  <2>7. SentInv'
    BY <1>1, <2>6 DEF SentInv, IsText, Handled
  <2> QED
    BY <2>3, <2>4, <2>5, <2>7
<1>6. CASE Stat("server", "stat", "read")
  BY <1>2, <1>6 DEF Stat, Goto, TypeOK, ServerInv, Ended
<1>7. CASE Stat("server", "last_stat", "close")
  BY <1>2, <1>7 DEF Stat, Goto, TypeOK, ServerInv, Ended
<1>8. CASE Close("server")
  BY <1>2, <1>8 DEF Close, Goto, TypeOK, ServerInv, Ended
<1>9. CASE CallFails("server")
  BY <1>2, <1>9 DEF CallFails, Goto, TypeOK, ServerInv, Ended
<1> QED
  BY <1>3, <1>4, <1>5, <1>6, <1>7, <1>8, <1>9 DEF server

LEMMA CopyStep == CopyInv /\ [Next]_vars => CopyInv'
<1>1. ASSUME CopyInv, UNCHANGED vars PROVE CopyInv'
  BY <1>1 DEF CopyInv, vars, TypeOK, ClientInv, SentInv, ServerInv, LinesRead,
              Handled, IsText, Ended
<1> QED
  BY <1>1, ClientStep, ServerStep DEF Next

LEMMA CopyInvSuffices == CopyInv => CopyIsFaithful
<1> SUFFICES ASSUME CopyInv PROVE CopyIsFaithful
  OBVIOUS
<1>1. gotten \in Nat /\ gotten <= LinesRead /\ LinesRead \in Nat
  BY FifoAssumption DEF CopyInv, TypeOK, ClientInv, LinesRead
<1>2. \E n \in 0 .. LinesRead : IsText(received \o pipe, n)
  BY <1>1 DEF CopyInv, SentInv, ClientInv, Handled
<1>3. pc["client"] = "done" /\ pc["server"] = "done" => IsText(received, LinesRead)
  <2> SUFFICES ASSUME pc["client"] = "done", pc["server"] = "done"
               PROVE  IsText(received, LinesRead)
    OBVIOUS
  <2>1. IsText(received \o pipe, gotten) /\ gotten = LinesRead /\ pipe = << >>
    BY DEF CopyInv, SentInv, ClientInv, ServerInv, Handled
  <2>2. received \o << >> = received
    BY ConcatEmptySeq DEF CopyInv, TypeOK
  <2> QED
    BY <2>1, <2>2
<1> QED
  BY <1>2, <1>3 DEF CopyIsFaithful, CopyInv, ServerInv

(* client.c and server.c: whatever the input and whichever calls fail, the *)
(* server prints the beginning of it, and all of it when both return 0.    *)
THEOREM CopiesFaithfully == Spec => []CopyIsFaithful
<1>1. Init => CopyInv
  BY CopyInit
<1>2. CopyInv /\ [Next]_vars => CopyInv'
  BY CopyStep
<1>3. CopyInv => CopyIsFaithful
  BY CopyInvSuffices
<1> QED
  BY <1>1, <1>2, <1>3, PTL DEF Spec

(* The types of their variables.                                           *)
THEOREM TypeCorrect == Spec => []TypeOK
<1>1. Init => CopyInv
  BY CopyInit
<1>2. CopyInv /\ [Next]_vars => CopyInv'
  BY CopyStep
<1>3. CopyInv => TypeOK
  BY DEF CopyInv
<1> QED
  BY <1>1, <1>2, <1>3, PTL DEF Spec

-----------------------------------------------------------------------------
(* Files.  What write() does to one: it grows to hold the bytes, which are *)
(* where they were written, what was elsewhere stays, a gap is zeros.      *)
Bytes == 0 .. 255

LEMMA SequenceOf ==
  ASSUME NEW S, NEW n \in Nat, NEW f \in [1 .. n -> S]
  PROVE  f \in Seq(S) /\ Len(f) = n
OBVIOUS

LEMMA WrittenIs ==
  ASSUME NEW c \in Seq(Bytes), NEW p \in Nat, NEW b \in Seq(Bytes)
  PROVE  /\ Moves!Written(c, p, b) \in Seq(Bytes)
         /\ Len(Moves!Written(c, p, b)) =
              IF Len(c) > p + Len(b) THEN Len(c) ELSE p + Len(b)
         /\ \A k \in 1 .. Len(c) :
              k \notin p + 1 .. p + Len(b) => Moves!Written(c, p, b)[k] = c[k]
         /\ \A k \in p + 1 .. p + Len(b) : Moves!Written(c, p, b)[k] = b[k - p]
         /\ \A k \in Len(c) + 1 .. p : Moves!Written(c, p, b)[k] = 0
<1> DEFINE n == IF Len(c) > p + Len(b) THEN Len(c) ELSE p + Len(b)
           w == [k \in 1 .. n |-> IF k \in p + 1 .. p + Len(b) THEN b[k - p]
                                  ELSE IF k <= Len(c) THEN c[k] ELSE 0]
<1>1. Moves!Written(c, p, b) = w
  BY DEF Moves!Written, Moves!Longer
<1>2. /\ Len(c) \in Nat /\ Len(b) \in Nat /\ n \in Nat /\ n >= Len(c) /\ n >= p + Len(b)
      /\ \A k \in 1 .. Len(c) : c[k] \in Bytes
      /\ \A k \in 1 .. Len(b) : b[k] \in Bytes
  BY LenProperties
<1>3. \A k \in p + 1 .. p + Len(b) : k - p \in 1 .. Len(b)
  BY <1>2
<1>4. w \in [1 .. n -> Bytes]
  <2> SUFFICES ASSUME NEW k \in 1 .. n PROVE w[k] \in Bytes
    OBVIOUS
  <2>1. CASE k \in p + 1 .. p + Len(b)
    <3>1. w[k] = b[k - p] /\ k - p \in 1 .. Len(b)
      BY <1>3, <2>1
    <3> QED
      BY <1>2, <3>1
  <2>2. CASE k \notin p + 1 .. p + Len(b) /\ k <= Len(c)
    <3>1. w[k] = c[k] /\ k \in 1 .. Len(c)
      BY <1>2, <2>2
    <3> QED
      BY <1>2, <3>1
  <2>3. CASE k \notin p + 1 .. p + Len(b) /\ ~(k <= Len(c))
    <3>1. w[k] = 0
      BY <2>3
    <3> QED
      BY <3>1 DEF Bytes
  <2> QED
    BY <2>1, <2>2, <2>3
<1>5. w \in Seq(Bytes) /\ Len(w) = n
  BY <1>2, <1>4, SequenceOf
<1>6. /\ \A k \in 1 .. Len(c) : k \notin p + 1 .. p + Len(b) => w[k] = c[k]
      /\ \A k \in p + 1 .. p + Len(b) : w[k] = b[k - p]
      /\ \A k \in Len(c) + 1 .. p : w[k] = 0
  BY <1>2
<1> QED
  BY <1>1, <1>5, <1>6

LEMMA WrittenAtEnd ==
  ASSUME NEW c \in Seq(Bytes), NEW b \in Seq(Bytes)
  PROVE  Moves!Written(c, Len(c), b) = c \o b
<1> DEFINE w == Moves!Written(c, Len(c), b)
<1>1. Len(c) \in Nat /\ Len(b) \in Nat
  BY LenProperties
<1>2. /\ w \in Seq(Bytes) /\ Len(w) = Len(c) + Len(b)
      /\ \A k \in 1 .. Len(c) : w[k] = c[k]
      /\ \A k \in Len(c) + 1 .. Len(c) + Len(b) : w[k] = b[k - Len(c)]
  <2>1. /\ w \in Seq(Bytes)
        /\ Len(w) = IF Len(c) > Len(c) + Len(b) THEN Len(c) ELSE Len(c) + Len(b)
        /\ \A k \in 1 .. Len(c) :
             k \notin Len(c) + 1 .. Len(c) + Len(b) => w[k] = c[k]
        /\ \A k \in Len(c) + 1 .. Len(c) + Len(b) : w[k] = b[k - Len(c)]
    BY <1>1, WrittenIs
  <2> HIDE DEF w
  <2> QED
    BY <1>1, <2>1
<1> DEFINE d == c \o b
<1>3. /\ d \in Seq(Bytes) /\ Len(d) = Len(c) + Len(b)
      /\ \A k \in 1 .. Len(c) + Len(b) :
           d[k] = IF k <= Len(c) THEN c[k] ELSE b[k - Len(c)]
  BY ConcatProperties
<1> HIDE DEF w, d
<1>4. \A k \in 1 .. Len(w) : w[k] = d[k]
  <2> SUFFICES ASSUME NEW k \in 1 .. Len(c) + Len(b) PROVE w[k] = d[k]
    BY <1>2
  <2>1. CASE k <= Len(c)
    BY <1>1, <1>2, <1>3, <2>1
  <2>2. CASE ~(k <= Len(c))
    <3>1. k \in Len(c) + 1 .. Len(c) + Len(b)
      BY <1>1, <2>2
    <3> QED
      BY <1>2, <1>3, <2>2, <3>1
  <2> QED
    BY <2>1, <2>2
<1>5. w = d
  BY <1>2, <1>3, <1>4, SeqEqual
<1> QED
  BY <1>5 DEF w, d

LEMMA TextIs ==
  ASSUME NEW first \in 0 .. 200, NEW n \in 0 .. 10
  PROVE  Moves!Text(first, n) \in Seq(Bytes) /\ Len(Moves!Text(first, n)) = n
<1>1. Moves!Text(first, n) \in [1 .. n -> Bytes] /\ n \in Nat
  BY DEF Moves!Text, Bytes
<1> QED
  BY <1>1, SequenceOf

LEMMA HashesAre == Moves!Hashes \in Seq(Bytes) /\ Len(Moves!Hashes) = 10
<1>1. Moves!Hashes \in [1 .. 10 -> Bytes] /\ 10 \in Nat
  BY DEF Moves!Hashes, Bytes
<1> QED
  BY <1>1, SequenceOf

(* The beginning of a string, which is what a short write writes.          *)
LEMMA BeginningOf ==
  ASSUME NEW b \in Seq(Bytes), NEW n \in 0 .. Len(b) - 1
  PROVE  SubSeq(b, 1, n) \in Seq(Bytes) /\ Len(SubSeq(b, 1, n)) = n
<1>1. Len(b) \in Nat /\ n \in Int /\ 1 \in Int /\ \A i \in 1 .. n : b[i] \in Bytes
  BY LenProperties
<1>2. /\ SubSeq(b, 1, n) \in Seq(Bytes)
      /\ Len(SubSeq(b, 1, n)) = IF 1 <= n THEN n - 1 + 1 ELSE 0
  BY <1>1, SubSeqProperties
<1> QED
  BY <1>1, <1>2

-----------------------------------------------------------------------------
(* What is in the file while a program runs.                               *)
Programs == {"append", "truncate", "rdwr", "hole_in_file", "child_file_handle"}

MovesTypes ==
  /\ main \in Programs
  /\ start \in Seq(Bytes) /\ data \in Seq(Bytes) /\ copy \in Seq(Bytes)
  /\ offset \in Int /\ pos \in Nat /\ count \in Nat
  /\ odd \in BOOLEAN

Begun == Moves!Written(start, 0, Moves!Text(96, 5))

AppendInv ==
  main = "append" =>
    /\ at \in {"append", "reopen", "lseek", "write", "done", "failed"}
    /\ at = "append" => data = start /\ pos = 0 /\ ~o_append
    /\ at \in {"reopen", "lseek", "write"} => data = Begun
    /\ at \in {"lseek", "write"} => o_append
    /\ at = "done" => data = Begun \o Moves!Text(48, 5)

(* The zeros begin at first, the last of them is one past the longer of    *)
(* the file and the offset.                                                *)
first == IF Len(start) < offset THEN Len(start) + 1 ELSE offset
longer == IF Len(start) > offset THEN Len(start) ELSE offset
shorter == IF Len(start) < offset THEN Len(start) ELSE offset

TruncateInv ==
  main = "truncate" =>
    /\ at \in {"truncate", "zero", "done", "failed"} /\ ~o_append
    /\ at = "truncate" => data = start /\ pos = 0
    /\ at = "zero" =>
         /\ offset >= 0 /\ offset # Len(start)
         /\ pos >= first /\ pos + count = longer + 1
         /\ Len(data) = IF pos > first /\ pos > Len(start) THEN pos ELSE Len(start)
         /\ \A k \in 1 .. Len(data) :
              k > shorter /\ (k > Len(start) \/ k <= pos) => data[k] = 0
    /\ at = "done" =>
         \/ offset = Len(start) /\ data = start
         \/ /\ offset # Len(start)
            /\ Len(data) = longer + 1
            /\ \A k \in 1 .. Len(data) : k > shorter => data[k] = 0

(* What rdwr.c writes. *)
Hello == Moves!Text(104, 5)

RdwrInv ==
  main = "rdwr" =>
    /\ at \in {"rdwr", "drain", "hello", "done", "failed"} /\ ~o_append
    /\ at \in {"rdwr", "drain", "hello"} => data = start
    /\ at = "drain" => pos \in 10 .. Len(start) /\ \A q \in Moves!Ends : pos <= q
    /\ at = "hello" => Moves!FirstEnd(pos)
    /\ at = "done" =>
         \E p \in Moves!Ends : Moves!FirstEnd(p) /\ data = Moves!Written(start, p, Hello)

CopiedSoFar ==
  /\ pos <= Len(data)
  /\ count = Moves!Place(pos) /\ count <= Len(copy)
  /\ \A k \in 1 .. pos : data[k] # 0 => copy[Moves!Place(k)] = data[k]

HoleInv ==
  main = "hole_in_file" =>
    /\ at \in {"hole_in_file", "first", "seek", "second", "rewind", "copy", "done",
               "failed"}
    /\ ~o_append
    /\ at \notin {"copy", "done", "failed"} => count = 0
    /\ at = "first" => pos = 10
    /\ at = "second" => pos = 30
    /\ at \in {"copy", "done"} => CopiedSoFar
    /\ at = "done" => pos = Len(data) \/ (odd /\ Moves!EOF \in ToSet(data))

ChildInv ==
  main = "child_file_handle" =>
    /\ at \in {"child_file_handle", "done", "failed"} /\ o_append
    /\ at = "child_file_handle" => data = start
    /\ at = "done" => data = start \o Moves!Text(99, 4)

MovesInv ==
  /\ MovesTypes /\ Moves!OnlyOverwrites
  /\ AppendInv /\ TruncateInv /\ RdwrInv /\ HoleInv /\ ChildInv

LEMMA MovesInit == Moves!Init => MovesInv
<1> SUFFICES ASSUME Moves!Init PROVE MovesInv
  OBVIOUS
<1>1. /\ main \in Programs /\ start \in Contents /\ at = main /\ data = start /\ pos = 0
      /\ count = 0 /\ o_append = (main = "child_file_handle")
  BY DEF Moves!Init, Programs
<1>2. start \in Seq(Bytes)
  BY <1>1, FilesAssumption DEF Bytes
<1>3. offset \in Int
  BY FilesAssumption DEF Moves!Init
<1>4. odd \in BOOLEAN
  BY DEF Moves!Init
<1>5. copy \in Seq(Bytes)
  <2>1. copy \in Contents \/ copy = << >>
    BY DEF Moves!Init
  <2> QED
    BY <2>1, FilesAssumption, EmptySeq DEF Bytes
<1>6. MovesTypes
  BY <1>1, <1>2, <1>3, <1>4, <1>5 DEF MovesTypes
<1>7. Moves!OnlyOverwrites
  BY <1>1, <1>2, LenProperties DEF Moves!OnlyOverwrites
<1>8. AppendInv /\ TruncateInv /\ RdwrInv /\ HoleInv /\ ChildInv
  BY <1>1 DEF AppendInv, TruncateInv, RdwrInv, HoleInv, ChildInv, Programs
<1> QED
  BY <1>6, <1>7, <1>8 DEF MovesInv

(* A write, whole or short, leaves alone what is not where it writes.      *)
Where == IF o_append THEN Len(data) ELSE pos

LEMMA WriteIs ==
  ASSUME MovesTypes, NEW b \in Seq(Bytes), NEW from, NEW to, to # "failed",
         Moves!Write(from, b, to)
  PROVE  /\ at = from /\ at' \in {to, "failed"}
         /\ UNCHANGED <<main, start, offset, odd, o_append, count, copy>>
         /\ data' \in Seq(Bytes) /\ pos' \in Nat
         /\ Len(data') >= Len(data)
         /\ \A k \in 1 .. Len(data) :
              k \notin Where + 1 .. Where + Len(b) => data'[k] = data[k]
         /\ at' = to => data' = Moves!Written(data, Where, b)
<1>1. /\ at = from
      /\ UNCHANGED <<main, start, offset, odd, o_append, count, copy>>
  BY DEF Moves!Write, Moves!Goto
<1>2. Where \in Nat /\ Len(data) \in Nat /\ Len(b) \in Nat
  BY LenProperties DEF Where, MovesTypes
<1>3. CASE /\ at' = to
           /\ data' = Moves!Written(data, Where, b) /\ pos' = Where + Len(b)
  <2>1. /\ data' \in Seq(Bytes)
        /\ Len(data') = IF Len(data) > Where + Len(b) THEN Len(data) ELSE Where + Len(b)
        /\ \A k \in 1 .. Len(data) :
             k \notin Where + 1 .. Where + Len(b) => data'[k] = data[k]
    BY <1>2, <1>3, WrittenIs DEF MovesTypes
  <2> QED
    BY <1>1, <1>2, <1>3, <2>1
<1>4. ASSUME at' = "failed", NEW n \in 0 .. Len(b) - 1,
             data' = Moves!Written(data, Where, SubSeq(b, 1, n)),
             pos' = Where + Len(SubSeq(b, 1, n))
      PROVE  /\ data' \in Seq(Bytes) /\ pos' \in Nat
             /\ Len(data') >= Len(data)
             /\ \A k \in 1 .. Len(data) :
                  k \notin Where + 1 .. Where + Len(b) => data'[k] = data[k]
  <2> DEFINE c == SubSeq(b, 1, n)
  <2>1. c \in Seq(Bytes) /\ Len(c) = n
    BY BeginningOf
  <2> HIDE DEF c
  <2>2. /\ Moves!Written(data, Where, c) \in Seq(Bytes)
        /\ Len(Moves!Written(data, Where, c)) =
             IF Len(data) > Where + Len(c) THEN Len(data) ELSE Where + Len(c)
        /\ \A k \in 1 .. Len(data) : k \notin Where + 1 .. Where + Len(c) =>
             Moves!Written(data, Where, c)[k] = data[k]
    BY <1>2, <2>1, WrittenIs DEF MovesTypes
  <2>3. data' = Moves!Written(data, Where, c) /\ pos' = Where + Len(c)
    BY <1>4 DEF c
  <2> QED
    BY <1>2, <2>1, <2>2, <2>3
<1>5. \/ at' = to /\ data' = Moves!Written(data, Where, b) /\ pos' = Where + Len(b)
      \/ /\ at' = "failed"
         /\ \E n \in 0 .. Len(b) - 1 :
              /\ data' = Moves!Written(data, Where, SubSeq(b, 1, n))
              /\ pos' = Where + Len(SubSeq(b, 1, n))
  BY DEF Moves!Write, Moves!Goto, Moves!Put, Where
<1> QED
  BY <1>1, <1>3, <1>4, <1>5

LEMMA OverwritesOnly ==
  ASSUME MovesTypes, Moves!OnlyOverwrites, UNCHANGED <<main, start, offset, odd>>,
         data' \in Seq(Bytes), Len(data') >= Len(data),
         \A k \in 1 .. Len(start) : k \notin Moves!Overwrites /\ k <= Len(data) =>
           data'[k] = data[k]
  PROVE  Moves!OnlyOverwrites'
<1>1. /\ Len(start) \in Nat /\ Len(data) \in Nat /\ Len(data') \in Nat
      /\ DOMAIN start = 1 .. Len(start)
  BY LenProperties DEF MovesTypes
<1>2. Moves!Overwrites' = Moves!Overwrites
  BY DEF Moves!Overwrites, Moves!Ends, Moves!FirstEnd
<1> QED
  BY <1>1, <1>2 DEF Moves!OnlyOverwrites

LEMMA OverwritesAre ==
  /\ main = "append" => Moves!Overwrites = 1 .. 5
  /\ main = "truncate" => Moves!Overwrites = offset + 1 .. Len(start)
  /\ main = "rdwr" =>
       Moves!Overwrites = UNION {p + 1 .. p + 5 : p \in {q \in Moves!Ends : Moves!FirstEnd(q)}}
  /\ main = "hole_in_file" => Moves!Overwrites = (11 .. 20) \union (31 .. 40)
<1>1. ASSUME main = "append" PROVE Moves!Overwrites = 1 .. 5
  BY <1>1 DEF Moves!Overwrites
<1>2. ASSUME main = "truncate" PROVE Moves!Overwrites = offset + 1 .. Len(start)
  BY <1>2 DEF Moves!Overwrites
<1>3. ASSUME main = "rdwr"
      PROVE  Moves!Overwrites =
               UNION {p + 1 .. p + 5 : p \in {q \in Moves!Ends : Moves!FirstEnd(q)}}
  BY <1>3, ZenonT(30) DEF Moves!Overwrites
<1>4. ASSUME main = "hole_in_file"
      PROVE  Moves!Overwrites = (11 .. 20) \union (31 .. 40)
  BY <1>4 DEF Moves!Overwrites
<1> QED
  BY <1>1, <1>2, <1>3, <1>4

(* The place tells the program.                                            *)
LEMMA ProgramAt ==
  ASSUME MovesInv
  PROVE  /\ at \in {"append", "reopen", "lseek", "write"} => main = "append"
         /\ at \in {"truncate", "zero"} => main = "truncate"
         /\ at \in {"rdwr", "drain", "hello"} => main = "rdwr"
         /\ at \in {"hole_in_file", "first", "seek", "second", "rewind", "copy"} =>
              main = "hole_in_file"
         /\ at = "child_file_handle" => main = "child_file_handle"
  BY DEF MovesInv, MovesTypes, AppendInv, TruncateInv, RdwrInv, HoleInv,
     ChildInv, Programs

LEMMA OthersStay ==
  ASSUME main' = main
  PROVE  /\ main # "append" => AppendInv'
         /\ main # "truncate" => TruncateInv'
         /\ main # "rdwr" => RdwrInv'
         /\ main # "hole_in_file" => HoleInv'
         /\ main # "child_file_handle" => ChildInv'
  BY DEF AppendInv, TruncateInv, RdwrInv, HoleInv, ChildInv

LEMMA AppendStep == ASSUME MovesInv, Moves!append PROVE MovesInv'
<1> USE DEF MovesInv
<1>1. /\ Moves!Text(96, 5) \in Seq(Bytes) /\ Len(Moves!Text(96, 5)) = 5
      /\ Moves!Text(48, 5) \in Seq(Bytes) /\ Len(Moves!Text(48, 5)) = 5
  BY TextIs
<1>2. Len(data) \in Nat /\ Len(start) \in Nat
  BY LenProperties DEF MovesTypes
<1>3. CASE Moves!Write("append", Moves!Text(96, 5), "reopen")
  <2>1. /\ at = "append" /\ at' \in {"reopen", "failed"}
        /\ UNCHANGED <<main, start, offset, odd, o_append, count, copy>>
        /\ data' \in Seq(Bytes) /\ pos' \in Nat
        /\ Len(data') >= Len(data)
        /\ \A k \in 1 .. Len(data) : k \notin Where + 1 .. Where + 5 => data'[k] = data[k]
        /\ at' = "reopen" => data' = Moves!Written(data, Where, Moves!Text(96, 5))
    BY <1>1, <1>3, WriteIs
  <2>2. main = "append" /\ data = start /\ Where = 0
    BY <2>1, ProgramAt DEF AppendInv, Where
  <2>3. MovesTypes'
    BY <2>1 DEF MovesTypes
  <2>4. Moves!OnlyOverwrites'
    BY <1>2, <2>1, <2>2, OverwritesAre, OverwritesOnly
  <2>5. AppendInv'
    BY <2>1, <2>2 DEF AppendInv, Begun
  <2> QED
    BY <2>1, <2>2, <2>3, <2>4, <2>5, OthersStay
<1>4. CASE Moves!Reopen
  <2>1. /\ at = "reopen" /\ at' = "lseek" /\ o_append' /\ pos' = 0
        /\ UNCHANGED <<main, start, offset, odd, data, count, copy>>
    BY <1>4 DEF Moves!Reopen, Moves!Goto, Moves!Flags
  <2>2. main = "append" /\ data = Begun
    BY <2>1, ProgramAt DEF AppendInv
  <2>3. MovesTypes' /\ Moves!OnlyOverwrites' /\ AppendInv'
    BY <2>1, <2>2, OverwritesOnly, <1>2 DEF MovesTypes, AppendInv, Begun
  <2> QED
    BY <2>1, <2>2, <2>3, OthersStay
<1>5. CASE Moves!Lseek("lseek", 0, "write")
  <2>1. /\ at = "lseek" /\ at' = "write" /\ pos' = 0
        /\ UNCHANGED <<main, start, offset, odd, data, o_append, count, copy>>
    BY <1>5 DEF Moves!Lseek, Moves!Goto
  <2>2. main = "append" /\ data = Begun /\ o_append
    BY <2>1, ProgramAt DEF AppendInv
  <2>3. MovesTypes' /\ Moves!OnlyOverwrites' /\ AppendInv'
    BY <2>1, <2>2, OverwritesOnly, <1>2 DEF MovesTypes, AppendInv, Begun
  <2> QED
    BY <2>1, <2>2, <2>3, OthersStay
<1>6. CASE Moves!Write("write", Moves!Text(48, 5), "done")
  <2>1. /\ at = "write" /\ at' \in {"done", "failed"}
        /\ UNCHANGED <<main, start, offset, odd, o_append, count, copy>>
        /\ data' \in Seq(Bytes) /\ pos' \in Nat
        /\ Len(data') >= Len(data)
        /\ \A k \in 1 .. Len(data) : k \notin Where + 1 .. Where + 5 => data'[k] = data[k]
        /\ at' = "done" => data' = Moves!Written(data, Where, Moves!Text(48, 5))
    BY <1>1, <1>6, WriteIs
  <2>2. main = "append" /\ data = Begun /\ Where = Len(data)
    BY <2>1, ProgramAt DEF AppendInv, Where
  <2>3. MovesTypes'
    BY <2>1 DEF MovesTypes
  <2>4. Len(data) >= Len(start)
    <3>1. Len(Begun) = IF Len(start) > 0 + 5 THEN Len(start) ELSE 0 + 5
      <4> DEFINE b == Moves!Text(96, 5)
      <4>1. start \in Seq(Bytes) /\ b \in Seq(Bytes) /\ Len(b) = 5 /\ 0 \in Nat
        BY <1>1 DEF MovesTypes
      <4> HIDE DEF b
      <4>2. Len(Moves!Written(start, 0, b)) =
              IF Len(start) > 0 + Len(b) THEN Len(start) ELSE 0 + Len(b)
        BY <4>1, WrittenIs
      <4> QED
        BY <4>1, <4>2 DEF b, Begun
    <3> QED
      BY <1>2, <2>2, <3>1
  <2>5. \A k \in 1 .. Len(data) : data'[k] = data[k]
    BY <1>2, <2>1, <2>2
  <2>6. Moves!OnlyOverwrites'
    BY <1>2, <2>1, <2>5, OverwritesOnly
  <2>7. Moves!Written(data, Len(data), Moves!Text(48, 5)) = data \o Moves!Text(48, 5)
    BY <1>1, WrittenAtEnd DEF MovesTypes
  <2>8. AppendInv'
    BY <2>1, <2>2, <2>7 DEF AppendInv, Begun
  <2> QED
    BY <2>1, <2>2, <2>3, <2>6, <2>8, OthersStay
<1> QED
  BY <1>3, <1>4, <1>5, <1>6 DEF Moves!append

LEMMA ChildStep == ASSUME MovesInv, Moves!child_file_handle PROVE MovesInv'
<1> USE DEF MovesInv
<1>1. Moves!Text(99, 4) \in Seq(Bytes) /\ Len(Moves!Text(99, 4)) = 4
  BY TextIs
<1>2. Len(data) \in Nat /\ Len(start) \in Nat
  BY LenProperties DEF MovesTypes
<1>3. /\ at = "child_file_handle" /\ at' \in {"done", "failed"}
      /\ UNCHANGED <<main, start, offset, odd, o_append, count, copy>>
      /\ data' \in Seq(Bytes) /\ pos' \in Nat
      /\ Len(data') >= Len(data)
      /\ \A k \in 1 .. Len(data) : k \notin Where + 1 .. Where + 4 => data'[k] = data[k]
      /\ at' = "done" => data' = Moves!Written(data, Where, Moves!Text(99, 4))
  BY <1>1, WriteIs DEF Moves!child_file_handle
<1>4. main = "child_file_handle" /\ data = start /\ Where = Len(data) /\ o_append
  BY <1>3, ProgramAt DEF ChildInv, Where
<1>5. MovesTypes'
  BY <1>3 DEF MovesTypes
<1>6. \A k \in 1 .. Len(data) : data'[k] = data[k]
  BY <1>2, <1>3, <1>4
<1>7. Moves!OnlyOverwrites'
  BY <1>2, <1>3, <1>6, OverwritesOnly
<1>8. Moves!Written(data, Len(data), Moves!Text(99, 4)) = data \o Moves!Text(99, 4)
  BY <1>1, WrittenAtEnd DEF MovesTypes
<1>9. ChildInv'
  BY <1>3, <1>4, <1>8 DEF ChildInv
<1> QED
  BY <1>3, <1>4, <1>5, <1>7, <1>9, OthersStay

LEMMA TruncateStep == ASSUME MovesInv, Moves!mytruncate PROVE MovesInv'
<1> USE DEF MovesInv
<1>1. /\ Len(data) \in Nat /\ Len(start) \in Nat
      /\ offset \in Int /\ pos \in Nat /\ count \in Nat
  BY LenProperties DEF MovesTypes
<1>2. CASE Moves!Measure
  <2>1. /\ at = "truncate" /\ UNCHANGED <<main, start, offset, odd, data, o_append, copy>>
    BY <1>2 DEF Moves!Measure, Moves!Goto
  <2>2. main = "truncate" /\ data = start /\ ~o_append /\ pos = 0
    BY <2>1, ProgramAt DEF TruncateInv
  <2>3. Moves!OnlyOverwrites'
    BY <1>1, <2>1, <2>2, OverwritesOnly DEF MovesTypes
  <2>4. CASE Len(start) = offset
    <3>1. at' = "done" /\ UNCHANGED <<pos, count>>
      BY <1>2, <2>2, <2>4 DEF Moves!Measure, Moves!Goto
    <3>2. MovesTypes' /\ TruncateInv'
      BY <2>1, <2>2, <2>4, <3>1 DEF MovesTypes, TruncateInv
    <3> QED
      BY <2>1, <2>2, <2>3, <3>2, OthersStay
  <2>5. CASE Len(start) # offset /\ offset < 0
    <3>1. at' = "failed" /\ UNCHANGED <<pos, count>>
      BY <1>2, <2>2, <2>5 DEF Moves!Measure, Moves!Goto
    <3>2. MovesTypes' /\ TruncateInv'
      BY <2>1, <2>2, <3>1 DEF MovesTypes, TruncateInv
    <3> QED
      BY <2>1, <2>2, <2>3, <3>2, OthersStay
  <2>6. CASE Len(start) # offset /\ ~(offset < 0)
    <3>1. /\ at' = "zero" /\ pos' = first
          /\ count' = IF Len(start) < offset THEN offset - Len(start)
                                             ELSE Len(start) - offset + 1
      BY <1>2, <2>2, <2>6
         DEF Moves!Measure, Moves!Goto, Moves!FirstZero, Moves!Zeros, first
    <3>2. /\ pos' \in Nat /\ count' \in Nat
          /\ pos' + count' = longer + 1
          /\ offset >= 0
      BY <1>1, <2>6, <3>1 DEF first, longer
    <3>3. MovesTypes'
      BY <2>1, <3>2 DEF MovesTypes
    <3>4. \A k \in 1 .. Len(start) :
            ~ (k > shorter /\ (k > Len(start) \/ k <= first))
      BY <1>1, <2>6 DEF shorter, first
    <3>5. TruncateInv'
      BY <1>1, <2>1, <2>2, <2>6, <3>1, <3>2, <3>4
         DEF TruncateInv, first, longer, shorter
    <3> QED
      BY <2>1, <2>2, <2>3, <3>3, <3>5, OthersStay
  <2> QED
    BY <2>4, <2>5, <2>6
<1>3. CASE Moves!WriteZero
  <2>1. at = "zero" /\ UNCHANGED <<main, start, offset, odd, o_append, copy>>
    BY <1>3 DEF Moves!WriteZero, Moves!Goto
  <2>2. /\ main = "truncate" /\ ~o_append
        /\ offset >= 0 /\ offset # Len(start)
        /\ pos >= first /\ pos + count = longer + 1
        /\ Len(data) = IF pos > first /\ pos > Len(start) THEN pos ELSE Len(start)
        /\ \A k \in 1 .. Len(data) :
             k > shorter /\ (k > Len(start) \/ k <= pos) => data[k] = 0
    BY <2>1, ProgramAt DEF TruncateInv
  <2>3. CASE at' # "zero" /\ UNCHANGED <<data, pos, count>>
    <3>1. MovesTypes' /\ Moves!OnlyOverwrites'
      BY <1>1, <2>1, <2>3, OverwritesOnly DEF MovesTypes
    <3>2. at' = "failed" \/ (at' = "done" /\ count = 0)
      BY <1>3, <2>3 DEF Moves!WriteZero, Moves!Goto
    <3>3. CASE at' = "failed"
      <4>1. TruncateInv'
        BY <2>1, <2>2, <3>3 DEF TruncateInv
      <4> QED
        BY <2>1, <2>2, <3>1, <4>1, OthersStay
    <3>4. CASE at' = "done" /\ count = 0
      <4>1. pos = longer + 1 /\ pos > first /\ pos > Len(start)
        BY <1>1, <2>2, <3>4 DEF longer, first
      <4>2. /\ Len(data) = longer + 1
            /\ \A k \in 1 .. Len(data) : k > shorter => data[k] = 0
        BY <1>1, <2>2, <4>1
      <4>3. TruncateInv'
        BY <2>1, <2>2, <2>3, <3>4, <4>2 DEF TruncateInv, longer, shorter
      <4> QED
        BY <2>1, <2>2, <3>1, <4>3, OthersStay
    <3> QED
      BY <3>2, <3>3, <3>4
  <2>4. CASE /\ at' = "zero" /\ count # 0 /\ count' = count - 1
             /\ data' = Moves!Written(data, pos, <<0>>) /\ pos' = pos + 1
    <3>1. <<0>> \in Seq(Bytes) /\ Len(<<0>>) = 1 /\ <<0>>[1] = 0
      BY DEF Bytes
    <3>2. /\ data' \in Seq(Bytes)
          /\ Len(data') = IF Len(data) > pos + 1 THEN Len(data) ELSE pos + 1
          /\ \A k \in 1 .. Len(data) : k \notin pos + 1 .. pos + 1 => data'[k] = data[k]
          /\ \A k \in pos + 1 .. pos + 1 : data'[k] = <<0>>[k - pos]
          /\ \A k \in Len(data) + 1 .. pos : data'[k] = 0
      <4> DEFINE z == <<0>>
      <4>1. z \in Seq(Bytes) /\ Len(z) = 1 /\ data \in Seq(Bytes) /\ pos \in Nat
        BY <1>1, <3>1 DEF MovesTypes
      <4> HIDE DEF z
      <4>2. LET w == Moves!Written(data, pos, z)
            IN  /\ w \in Seq(Bytes)
                /\ Len(w) = IF Len(data) > pos + Len(z) THEN Len(data) ELSE pos + Len(z)
                /\ \A k \in 1 .. Len(data) : k \notin pos + 1 .. pos + Len(z) => w[k] = data[k]
                /\ \A k \in pos + 1 .. pos + Len(z) : w[k] = z[k - pos]
                /\ \A k \in Len(data) + 1 .. pos : w[k] = 0
        BY <4>1, WrittenIs
      <4>3. data' = Moves!Written(data, pos, z)
        BY <2>4 DEF z
      <4> QED
        BY <4>1, <4>2, <4>3 DEF z
    <3>3. data'[pos + 1] = 0
      BY <1>1, <3>1, <3>2
    <3>4. MovesTypes'
      BY <1>1, <2>1, <2>4, <3>2 DEF MovesTypes
    <3>5. Moves!OnlyOverwrites'
      <4>1. \A k \in 1 .. Len(start) : k \notin offset + 1 .. Len(start) => k # pos + 1
        BY <1>1, <2>2 DEF first
      <4> QED
        BY <1>1, <2>1, <2>2, <3>2, <4>1, OverwritesAre, OverwritesOnly
    <3>6. /\ pos' >= first /\ pos' + count' = longer + 1
          /\ Len(data') = IF pos' > first /\ pos' > Len(start) THEN pos' ELSE Len(start)
      BY <1>1, <2>2, <2>4, <3>2 DEF first, longer
    <3>7. ASSUME NEW k \in 1 .. Len(data'), k > shorter, k > Len(start) \/ k <= pos'
          PROVE  data'[k] = 0
      <4>1. CASE k = pos + 1
        BY <3>3, <4>1
      <4>2. CASE k # pos + 1 /\ k <= Len(data)
        <5>1. k \in 1 .. Len(data) /\ data'[k] = data[k]
          BY <1>1, <3>2, <4>2
        <5>2. k > Len(start) \/ k <= pos
          BY <1>1, <2>4, <3>7, <4>2
        <5> QED
          BY <2>2, <3>7, <5>1, <5>2
      <4>3. CASE k # pos + 1 /\ ~(k <= Len(data))
        <5>1. k \in Len(data) + 1 .. pos
          BY <1>1, <3>2, <4>3
        <5> QED
          BY <3>2, <5>1
      <4> QED
        BY <4>1, <4>2, <4>3
    <3>8. TruncateInv'
      BY <2>1, <2>2, <2>4, <3>6, <3>7 DEF TruncateInv, first, longer, shorter
    <3> QED
      BY <2>1, <2>2, <3>4, <3>5, <3>8, OthersStay
  <2>5. \/ at' # "zero" /\ UNCHANGED <<data, pos, count>>
        \/ /\ at' = "zero" /\ count # 0 /\ count' = count - 1
           /\ data' = Moves!Written(data, pos, <<0>>) /\ pos' = pos + Len(<<0>>)
    BY <1>3, <2>2 DEF Moves!WriteZero, Moves!Goto, Moves!Put
  <2> QED
    BY <2>3, <2>4, <2>5
<1> QED
  BY <1>2, <1>3 DEF Moves!mytruncate

LEMMA RdwrStep == ASSUME MovesInv, Moves!rdwr PROVE MovesInv'
<1> USE DEF MovesInv
<1>1. Len(data) \in Nat /\ Len(start) \in Nat /\ pos \in Nat /\ DOMAIN start = 1 .. Len(start)
  BY LenProperties DEF MovesTypes
<1>2. CASE Moves!ReadTen
  <2>1. /\ at = "rdwr" /\ UNCHANGED <<main, start, offset, odd, data, o_append, count, copy>>
        /\ at' = IF Len(data) < 10 THEN "failed" ELSE "drain"
        /\ pos' = IF Len(data) < 10 THEN Len(data) ELSE 10
    BY <1>2 DEF Moves!ReadTen, Moves!Goto
  <2>2. main = "rdwr" /\ data = start /\ ~o_append
    BY <2>1, ProgramAt DEF RdwrInv
  <2>3. MovesTypes' /\ Moves!OnlyOverwrites'
    BY <1>1, <2>1, OverwritesOnly DEF MovesTypes
  <2>4. Moves!Ends' = Moves!Ends /\ \A q \in Moves!Ends : 10 <= q
    BY <2>1 DEF Moves!Ends
  <2>5. Len(data) >= 10 => pos' \in 10 .. Len(start) /\ at' = "drain"
    BY <1>1, <2>1, <2>2
  <2>6. Len(data) < 10 => at' = "failed"
    BY <2>1
  <2>7. RdwrInv'
    BY <1>1, <2>1, <2>2, <2>4, <2>5, <2>6 DEF RdwrInv
  <2> QED
    BY <2>1, <2>2, <2>3, <2>7, OthersStay
<1>3. CASE Moves!ReadOne
  <2>1. /\ at = "drain" /\ UNCHANGED <<main, start, offset, odd, data, o_append, count, copy>>
        /\ \/ Moves!Drained(pos) /\ at' = "hello" /\ pos' = pos
           \/ ~Moves!Drained(pos) /\ at' = "drain" /\ pos' = pos + 1
    BY <1>3 DEF Moves!ReadOne, Moves!Goto
  <2>2. /\ main = "rdwr" /\ data = start /\ ~o_append
        /\ pos \in 10 .. Len(start) /\ \A q \in Moves!Ends : pos <= q
    BY <2>1, ProgramAt DEF RdwrInv
  <2>6. /\ Moves!Ends' = Moves!Ends
        /\ \A p : Moves!FirstEnd(p) => Moves!FirstEnd(p)'
    BY <2>1 DEF Moves!Ends, Moves!FirstEnd
  <2>7. Moves!Drained(pos) <=> pos \in Moves!Ends
    <3>1. pos >= Len(data) <=> pos = Len(start)
      <4>1. Len(data) = Len(start) /\ pos <= Len(start) /\ pos \in Nat /\ Len(start) \in Nat
        BY <1>1, <2>2
      <4> QED
        BY ONLY <4>1
    <3>2. Moves!Drained(pos) <=>
            pos = Len(start) \/ (odd /\ pos > 10 /\ start[pos] = Moves!EOF)
      BY <2>2, <3>1, Zenon DEF Moves!Drained
    <3> QED
      BY <2>2, <3>2, Zenon DEF Moves!Ends
  <2>3. MovesTypes' /\ Moves!OnlyOverwrites'
    BY <1>1, <2>1, OverwritesOnly DEF MovesTypes
  <2>4. CASE Moves!Drained(pos) /\ at' = "hello" /\ pos' = pos
    <3>1. Moves!FirstEnd(pos)
      BY <2>2, <2>4, <2>7 DEF Moves!FirstEnd
    <3>2. (Moves!FirstEnd(pos))'
      BY <2>4, <2>6, <3>1 DEF Moves!FirstEnd
    <3>3. RdwrInv'
      BY <2>1, <2>2, <2>4, <3>2 DEF RdwrInv
    <3> QED
      BY <2>1, <2>2, <2>3, <3>3, OthersStay
  <2>5. CASE ~Moves!Drained(pos) /\ at' = "drain" /\ pos' = pos + 1
    <3>1. pos + 1 <= Len(start)
      BY <1>1, <2>2, <2>5 DEF Moves!Drained
    <3>2. \A q \in Moves!Ends : q \in Int /\ q # pos
      BY <2>5, <2>7 DEF Moves!Ends
    <3>3. pos' \in 10 .. Len(start) /\ \A q \in Moves!Ends : pos' <= q
      BY <1>1, <2>2, <2>5, <3>1, <3>2
    <3>4. RdwrInv'
      BY <2>1, <2>2, <2>5, <2>6, <3>3 DEF RdwrInv
    <3> QED
      BY <2>1, <2>2, <2>3, <3>4, OthersStay
  <2> QED
    BY <2>1, <2>4, <2>5
<1>4. CASE Moves!Write("hello", Moves!Text(104, 5), "done")
  <2>1. Moves!Text(104, 5) \in Seq(Bytes) /\ Len(Moves!Text(104, 5)) = 5
    BY TextIs
  <2>2. /\ at = "hello" /\ at' \in {"done", "failed"}
        /\ UNCHANGED <<main, start, offset, odd, o_append, count, copy>>
        /\ data' \in Seq(Bytes) /\ pos' \in Nat
        /\ Len(data') >= Len(data)
        /\ \A k \in 1 .. Len(data) : k \notin Where + 1 .. Where + 5 => data'[k] = data[k]
        /\ at' = "done" => data' = Moves!Written(data, Where, Moves!Text(104, 5))
    BY <1>4, <2>1, WriteIs
  <2>3. /\ main = "rdwr" /\ data = start /\ Where = pos /\ ~o_append
        /\ Moves!FirstEnd(pos)
    BY <2>2, ProgramAt DEF RdwrInv, Where
  <2>4. MovesTypes'
    BY <2>2 DEF MovesTypes
  <2>5. pos + 1 .. pos + 5 \subseteq Moves!Overwrites
    BY <2>3, OverwritesAre DEF Moves!FirstEnd
  <2>6. Moves!OnlyOverwrites'
    BY <1>1, <2>2, <2>3, <2>5, OverwritesOnly
  <2>7. /\ Moves!Ends' = Moves!Ends /\ pos \in Moves!Ends
        /\ \A p : Moves!FirstEnd(p) => Moves!FirstEnd(p)'
    BY <2>2, <2>3 DEF Moves!Ends, Moves!FirstEnd
  <2>8. at' = "done" => data' = Moves!Written(start, pos, Hello)
    BY <2>2, <2>3 DEF Hello
  <2>9. ASSUME at' = "done"
        PROVE  (\E p \in Moves!Ends :
                   Moves!FirstEnd(p) /\ data = Moves!Written(start, p, Hello))'
    BY <2>2, <2>3, <2>7, <2>8, <2>9 DEF Moves!FirstEnd, Moves!Ends, Moves!Written, Hello
  <2>10. RdwrInv'
    BY <2>2, <2>3, <2>9 DEF RdwrInv
  <2> QED
    BY <2>2, <2>3, <2>4, <2>6, <2>10, OthersStay
<1> QED
  BY <1>2, <1>3, <1>4 DEF Moves!rdwr

(* The place of a byte in the copy.                                        *)
LEMMA PlaceIs ==
  ASSUME MovesTypes, NEW k \in Nat
  PROVE  /\ Moves!Place(k) \in 0 .. k
         /\ Moves!Place(0) = 0
         /\ Moves!Place(k + 1) =
              IF data[k + 1] = 0 THEN Moves!Place(k) ELSE Moves!Place(k) + 1
<1> DEFINE S(n) == {j \in 1 .. n : data[j] # 0}
<1>1. \A n : Moves!Place(n) = Cardinality(S(n))
  BY DEF Moves!Place, Moves!Cardinality, Cardinality
<1>2. \A n \in Nat : IsFiniteSet(S(n)) /\ Cardinality(S(n)) \in 0 .. n
  <2> SUFFICES ASSUME NEW n \in Nat
               PROVE  IsFiniteSet(S(n)) /\ Cardinality(S(n)) \in 0 .. n
    OBVIOUS
  <2>1. IsFiniteSet(1 .. n) /\ Cardinality(1 .. n) = n
    BY FS_Interval
  <2>2. S(n) \subseteq 1 .. n
    OBVIOUS
  <2>3. IsFiniteSet(S(n)) /\ Cardinality(S(n)) <= n /\ Cardinality(S(n)) \in Nat
    BY <2>1, <2>2, FS_Subset, FS_CardinalityType
  <2> QED
    BY <2>3
<1>3. Cardinality(S(0)) = 0
  BY <1>2
<1>4. S(k + 1) = IF data[k + 1] = 0 THEN S(k) ELSE S(k) \union {k + 1}
  OBVIOUS
<1>5. k + 1 \notin S(k)
  OBVIOUS
<1> HIDE DEF S
<1>6. Cardinality(S(k) \union {k + 1}) = Cardinality(S(k)) + 1
  BY <1>2, <1>5, FS_AddElement
<1> QED
  BY <1>1, <1>2, <1>3, <1>4, <1>6

LEMMA PlacesAreInOrder ==
  ASSUME MovesTypes, NEW n \in Nat, NEW k \in 0 .. n
  PROVE  /\ Moves!Place(k) <= Moves!Place(n)
         /\ k >= 1 /\ data[k] # 0 => Moves!Place(k) >= 1
<1> DEFINE S(m) == {j \in 1 .. m : data[j] # 0}
<1>1. \A m : Moves!Place(m) = Cardinality(S(m))
  BY DEF Moves!Place, Moves!Cardinality, Cardinality
<1>2. Moves!Place(k) <= Moves!Place(n)
  <2>1. IsFiniteSet(1 .. n)
    BY FS_Interval
  <2>2. S(n) \subseteq 1 .. n /\ S(k) \subseteq S(n)
    OBVIOUS
  <2> HIDE DEF S
  <2>3. IsFiniteSet(S(n))
    BY <2>1, <2>2, FS_Subset
  <2>4. Cardinality(S(k)) <= Cardinality(S(n))
    BY <2>2, <2>3, FS_Subset
  <2> QED
    BY <1>1, <2>4
<1>3. ASSUME k >= 1, data[k] # 0 PROVE Moves!Place(k) >= 1
  <2>1. k - 1 \in Nat /\ (k - 1) + 1 = k
    BY <1>3
  <2>2. /\ Moves!Place(k - 1) \in 0 .. k - 1
        /\ Moves!Place((k - 1) + 1) =
             IF data[(k - 1) + 1] = 0 THEN Moves!Place(k - 1) ELSE Moves!Place(k - 1) + 1
    BY <2>1, PlaceIs
  <2> QED
    BY <1>3, <2>1, <2>2
<1> QED
  BY <1>2, <1>3

LEMMA CopyOneStep == ASSUME MovesInv, Moves!CopyOne PROVE MovesInv'
<1> USE DEF MovesInv
<1>1. /\ at = "copy" /\ UNCHANGED <<main, start, offset, odd, data, o_append>>
  BY DEF Moves!CopyOne, Moves!Goto
<1>2. main = "hole_in_file" /\ ~o_append /\ CopiedSoFar
  BY <1>1, ProgramAt DEF HoleInv
<1>3. /\ Len(data) \in Nat /\ Len(start) \in Nat /\ Len(copy) \in Nat
      /\ pos \in Nat /\ count \in Nat
      /\ \A k \in 1 .. Len(data) : data[k] \in Bytes
  BY LenProperties DEF MovesTypes
<1>4. Moves!OnlyOverwrites'
  BY <1>1, <1>3, OverwritesOnly DEF MovesTypes
<1>5. \A k : Moves!Place(k)' = Moves!Place(k)
  BY <1>1 DEF Moves!Place, Moves!Cardinality
<1> DEFINE ends == pos = Len(data) \/ (odd /\ data[pos + 1] = Moves!EOF)
           byte == data[pos + 1]
<1>6. CASE ends
  <2>1. at' = "done" /\ UNCHANGED <<pos, count, copy>>
    BY <1>6 DEF Moves!CopyOne, Moves!Goto
  <2>2. MovesTypes'
    BY <1>1, <2>1 DEF MovesTypes
  <2>3. CopiedSoFar'
    BY <1>1, <1>2, <1>5, <2>1 DEF CopiedSoFar
  <2>4. pos = Len(data) \/ (odd /\ Moves!EOF \in ToSet(data))
    <3>1. CASE pos = Len(data)
      BY <3>1
    <3>2. CASE pos # Len(data) /\ odd /\ data[pos + 1] = Moves!EOF
      <4>1. pos + 1 \in DOMAIN data
        BY <1>2, <1>3, <3>2, LenProperties DEF CopiedSoFar, MovesTypes
      <4> QED
        BY <3>2, <4>1 DEF ToSet
    <3> QED
      BY <1>6, <3>1, <3>2
  <2>5. HoleInv'
    BY <1>1, <1>2, <2>1, <2>3, <2>4 DEF HoleInv
  <2> QED
    BY <1>1, <1>2, <1>4, <2>2, <2>5, OthersStay
<1>7. CASE ~ends
  <2>1. pos + 1 \in 1 .. Len(data) /\ byte \in Bytes
    BY <1>2, <1>3, <1>7 DEF CopiedSoFar
  <2>2. CASE at' = "failed" /\ UNCHANGED <<count, copy>> /\ pos' = pos + 1
    <3>1. MovesTypes'
      BY <1>1, <1>3, <2>2 DEF MovesTypes
    <3>2. HoleInv'
      BY <1>1, <1>2, <2>2 DEF HoleInv
    <3> QED
      BY <1>1, <1>2, <1>4, <3>1, <3>2, OthersStay
  <2>3. CASE /\ at' = "copy" /\ pos' = pos + 1
             /\ copy' = Moves!Written(copy, count, Moves!Copied(byte))
             /\ count' = count + Len(Moves!Copied(byte))
    <3> DEFINE b == Moves!Copied(byte)
    <3>1. /\ b \in Seq(Bytes)
          /\ byte = 0 => Len(b) = 0
          /\ byte # 0 => Len(b) = 1 /\ b[1] = byte
      BY <2>1, EmptySeq DEF Moves!Copied
    <3> HIDE DEF b
    <3>2. copy \in Seq(Bytes) /\ count \in Nat /\ Len(b) \in Nat
      BY <1>3, <3>1 DEF MovesTypes
    <3>3. LET w == Moves!Written(copy, count, b)
          IN  /\ w \in Seq(Bytes)
              /\ Len(w) = IF Len(copy) > count + Len(b) THEN Len(copy) ELSE count + Len(b)
              /\ \A k \in 1 .. Len(copy) : k \notin count + 1 .. count + Len(b) => w[k] = copy[k]
              /\ \A k \in count + 1 .. count + Len(b) : w[k] = b[k - count]
      BY <3>1, <3>2, WrittenIs
    <3>4. copy' = Moves!Written(copy, count, b) /\ count' = count + Len(b)
      BY <2>3 DEF b
    <3>5. MovesTypes'
      BY <1>1, <1>3, <2>3, <3>2, <3>3, <3>4 DEF MovesTypes
    <3>6. /\ count = Moves!Place(pos)
          /\ Moves!Place(pos + 1) = IF byte = 0 THEN count ELSE count + 1
      BY <1>2, <1>3, PlaceIs DEF CopiedSoFar
    <3>7. count' = Moves!Place(pos') /\ count' <= Len(copy')
      <4>1. pos' = pos + 1 /\ count' = count + Len(b)
        BY <2>3, <3>4
      <4>2. Moves!Place(pos + 1) = count + Len(b)
        <5>1. CASE byte = 0
          BY <1>3, <3>1, <3>6, <5>1
        <5>2. CASE byte # 0
          BY <1>3, <3>1, <3>6, <5>2
        <5> QED
          BY <5>1, <5>2
      <4>3. Len(copy') = IF Len(copy) > count + Len(b) THEN Len(copy) ELSE count + Len(b)
        BY <3>3, <3>4
      <4>4. count + Len(b) <= Len(copy')
        BY <1>3, <3>2, <4>3
      <4> QED
        BY <4>1, <4>2, <4>4
    <3>8. ASSUME NEW k \in 1 .. pos', data[k] # 0
          PROVE  copy'[Moves!Place(k)] = data[k]
      <4>1. CASE k = pos + 1
        <5>1. count + 1 \in count + 1 .. count + Len(b) /\ (count + 1) - count = 1
          BY <1>3, <3>1, <3>8, <4>1
        <5>2. copy'[count + 1] = b[1]
          BY <3>3, <3>4, <5>1
        <5> QED
          BY <3>1, <3>6, <3>8, <4>1, <5>2
      <4>2. CASE k # pos + 1
        <5>1. k \in 1 .. pos /\ k \in 0 .. pos
          BY <1>3, <2>3, <4>2
        <5>2. Moves!Place(k) <= count /\ Moves!Place(k) >= 1 /\ Moves!Place(k) \in Int
          <6>1. k \in Nat
            BY <1>3, <5>1
          <6>2. Moves!Place(k) \in 0 .. k
            BY <6>1, PlaceIs
          <6>3. Moves!Place(k) <= Moves!Place(pos) /\ (k >= 1 /\ data[k] # 0 => Moves!Place(k) >= 1)
            BY <1>3, <5>1, PlacesAreInOrder
          <6> QED
            BY <3>6, <3>8, <5>1, <6>1, <6>2, <6>3
        <5>3. /\ Moves!Place(k) \in 1 .. Len(copy)
              /\ Moves!Place(k) \notin count + 1 .. count + Len(b)
          BY <1>2, <1>3, <5>2 DEF CopiedSoFar
        <5>4. copy'[Moves!Place(k)] = copy[Moves!Place(k)]
          BY <3>3, <3>4, <5>3
        <5> QED
          BY <1>2, <3>8, <5>1, <5>4 DEF CopiedSoFar
      <4> QED
        BY <4>1, <4>2
    <3>9. CopiedSoFar'
      BY <1>1, <1>3, <1>5, <2>1, <2>3, <3>7, <3>8 DEF CopiedSoFar
    <3>10. HoleInv'
      BY <1>1, <1>2, <2>3, <3>9 DEF HoleInv
    <3> QED
      BY <1>1, <1>2, <1>4, <3>5, <3>10, OthersStay
  <2> QED
    BY <1>7, <2>2, <2>3 DEF Moves!CopyOne, Moves!Goto
<1> QED
  BY <1>6, <1>7

LEMMA HoleSeeks ==
  ASSUME MovesInv, NEW from, NEW p \in Nat, NEW to,
         <<from, p, to>> \in {<<"hole_in_file", 10, "first">>, <<"seek", 30, "second">>,
                              <<"rewind", 0, "copy">>},
         Moves!Lseek(from, p, to)
  PROVE  MovesInv'
<1> USE DEF MovesInv
<1>1. /\ at = from /\ at' = to /\ pos' = p
      /\ UNCHANGED <<main, start, offset, odd, data, o_append, count, copy>>
  BY DEF Moves!Lseek, Moves!Goto
<1>2. /\ main = "hole_in_file" /\ ~o_append /\ count = 0
  BY <1>1, ProgramAt DEF HoleInv
<1>3. Len(data) \in Nat /\ Len(start) \in Nat /\ Len(copy) \in Nat
  BY LenProperties DEF MovesTypes
<1>4. MovesTypes' /\ Moves!OnlyOverwrites'
  BY <1>1, <1>3, OverwritesOnly DEF MovesTypes
<1>5. CASE to = "first" /\ p = 10
  <2>1. HoleInv'
    BY <1>1, <1>2, <1>5 DEF HoleInv
  <2> QED
    BY <1>1, <1>2, <1>4, <2>1, OthersStay
<1>6. CASE to = "second" /\ p = 30
  <2>1. HoleInv'
    BY <1>1, <1>2, <1>6 DEF HoleInv
  <2> QED
    BY <1>1, <1>2, <1>4, <2>1, OthersStay
<1>7. CASE to = "copy" /\ p = 0
  <2>1. Moves!Place(0)' = 0
    <3>1. Moves!Place(0) = 0
      BY PlaceIs
    <3> QED
      BY <1>1, <3>1 DEF Moves!Place, Moves!Cardinality
  <2>2. CopiedSoFar'
    BY <1>1, <1>2, <1>3, <1>7, <2>1 DEF CopiedSoFar
  <2>3. HoleInv'
    BY <1>1, <1>2, <1>7, <2>2 DEF HoleInv
  <2> QED
    BY <1>1, <1>2, <1>4, <2>3, OthersStay
<1> QED
  BY <1>5, <1>6, <1>7

LEMMA HoleWrites ==
  ASSUME MovesInv, NEW from, NEW to,
         <<from, to>> \in {<<"first", "seek">>, <<"second", "rewind">>},
         Moves!Write(from, Moves!Hashes, to)
  PROVE  MovesInv'
<1> USE DEF MovesInv
<1>1. /\ at = from /\ at' \in {to, "failed"}
      /\ UNCHANGED <<main, start, offset, odd, o_append, count, copy>>
      /\ data' \in Seq(Bytes) /\ pos' \in Nat
      /\ Len(data') >= Len(data)
      /\ \A k \in 1 .. Len(data) : k \notin Where + 1 .. Where + 10 => data'[k] = data[k]
  <2>1. Moves!Hashes \in Seq(Bytes) /\ Len(Moves!Hashes) = 10 /\ to # "failed"
    BY HashesAre
  <2> QED
    BY <2>1, WriteIs
<1>2. main = "hole_in_file" /\ ~o_append /\ count = 0 /\ Where \in {10, 30}
  BY <1>1, ProgramAt DEF HoleInv, Where
<1>3. Len(data) \in Nat /\ Len(start) \in Nat
  BY LenProperties DEF MovesTypes
<1>4. MovesTypes'
  BY <1>1 DEF MovesTypes
<1>5. Moves!OnlyOverwrites'
  <2>1. \A k \in 1 .. Len(start) : k \notin Moves!Overwrites /\ k <= Len(data) =>
          data'[k] = data[k]
    <3>1. Moves!Overwrites = (11 .. 20) \union (31 .. 40)
      BY <1>2, OverwritesAre
    <3>2. \A k \in 1 .. Len(data) :
            k \notin (11 .. 20) \union (31 .. 40) => k \notin Where + 1 .. Where + 10
      BY <1>2, <1>3
    <3>3. \A k \in 1 .. Len(start) : k <= Len(data) => k \in 1 .. Len(data)
      BY <1>3
    <3> QED
      BY <1>1, <3>1, <3>2, <3>3
  <2> QED
    BY <1>1, <2>1, OverwritesOnly
<1>6. HoleInv'
  BY <1>1, <1>2 DEF HoleInv
<1> QED
  BY <1>1, <1>2, <1>4, <1>5, <1>6, OthersStay

LEMMA MovesStep == MovesInv /\ [Moves!Next]_movesVars => MovesInv'
<1> SUFFICES ASSUME MovesInv, [Moves!Next]_movesVars PROVE MovesInv'
  OBVIOUS
<1>1. CASE Moves!hole_in_file
  <2>1. CASE Moves!Lseek("hole_in_file", 10, "first")
    BY <2>1, HoleSeeks
  <2>2. CASE Moves!Write("first", Moves!Hashes, "seek")
    BY <2>2, HoleWrites
  <2>3. CASE Moves!Lseek("seek", 30, "second")
    BY <2>3, HoleSeeks
  <2>4. CASE Moves!Write("second", Moves!Hashes, "rewind")
    BY <2>4, HoleWrites
  <2>5. CASE Moves!Lseek("rewind", 0, "copy")
    BY <2>5, HoleSeeks
  <2> QED
    BY <1>1, <2>1, <2>2, <2>3, <2>4, <2>5, CopyOneStep DEF Moves!hole_in_file
<1>2. CASE UNCHANGED movesVars
  <2>1. MovesTypes' /\ Moves!OnlyOverwrites'
    BY <1>2, LenProperties, OverwritesOnly DEF movesVars, MovesInv, MovesTypes,
       Moves!OnlyOverwrites
  <2>2. AppendInv' /\ ChildInv'
    BY <1>2 DEF movesVars, MovesInv, AppendInv, ChildInv, Begun
  <2>5. RdwrInv'
    <3>1. /\ UNCHANGED <<main, start, odd, at, data, pos, o_append>>
          /\ Moves!Ends' = Moves!Ends
          /\ \A p : Moves!FirstEnd(p)' <=> Moves!FirstEnd(p)
      BY <1>2 DEF movesVars, Moves!FirstEnd, Moves!Ends
    <3>2. \A p : Moves!Written(start, p, Hello)' = Moves!Written(start, p, Hello)
      BY <3>1 DEF Moves!Written, Hello
    <3> QED
      BY <3>1, <3>2 DEF MovesInv, RdwrInv
  <2>3. TruncateInv'
    BY <1>2 DEF movesVars, MovesInv, TruncateInv, first, longer, shorter
  <2>4. HoleInv'
    <3>1. \A k : Moves!Place(k)' = Moves!Place(k)
      BY <1>2 DEF movesVars, Moves!Place, Moves!Cardinality
    <3> QED
      BY <1>2, <3>1 DEF movesVars, MovesInv, HoleInv, CopiedSoFar
  <2> QED
    BY <2>1, <2>2, <2>3, <2>4, <2>5 DEF MovesInv
<1> QED
  BY <1>1, <1>2, AppendStep, TruncateStep, RdwrStep, ChildStep DEF Moves!Next

LEMMA MovesInvSuffices == MovesInv => FilesAreRight
<1> SUFFICES ASSUME MovesInv PROVE FilesAreRight
  OBVIOUS
<1> USE DEF MovesInv
<1>1. Len(data) \in Nat /\ Len(start) \in Nat /\ DOMAIN data = 1 .. Len(data)
  BY LenProperties DEF MovesTypes
<1>2. /\ Moves!ToSet(data) = ToSet(data) /\ Moves!ToSet(start) = ToSet(start)
  BY DEF Moves!ToSet, ToSet
<1>3. ASSUME at = "done" PROVE Moves!ResultIsRight
  <2>1. CASE main = "append"
    <3>1. data = Moves!Written(start, 0, Moves!Text(96, 5)) \o Moves!Text(48, 5)
      BY <1>3, <2>1 DEF AppendInv, Begun
    <3> QED
      BY <2>1, <3>1 DEF Moves!ResultIsRight
  <2>2. CASE main = "child_file_handle"
    <3>1. data = start \o Moves!Text(99, 4)
      BY <1>3, <2>2 DEF ChildInv
    <3> QED
      BY <2>2, <3>1 DEF Moves!ResultIsRight
  <2>3. CASE main = "rdwr"
    <3>1. \E p \in Moves!Ends :
            Moves!FirstEnd(p) /\ data = Moves!Written(start, p, Moves!Text(104, 5))
      BY <1>3, <2>3 DEF RdwrInv, Hello
    <3> QED
      BY <2>3, <3>1 DEF Moves!ResultIsRight
  <2>4. CASE main = "truncate"
    <3>1. /\ Len(start) = offset => data = start
          /\ Len(start) # offset =>
               /\ Len(data) = Moves!Longer(Len(start), offset) + 1
               /\ \A k \in DOMAIN data :
                    k > (IF Len(start) < offset THEN Len(start) ELSE offset) => data[k] = 0
      BY <1>1, <1>3, <2>4 DEF TruncateInv, longer, shorter, Moves!Longer
    <3> QED
      BY <2>4, <3>1 DEF Moves!ResultIsRight
  <2>5. CASE main = "hole_in_file"
    <3>1. /\ count = Moves!Place(pos)
          /\ \A k \in 1 .. pos : data[k] # 0 => copy[Moves!Place(k)] = data[k]
          /\ pos = Len(data) \/ (odd /\ Moves!EOF \in Moves!ToSet(data))
      BY <1>2, <1>3, <2>5 DEF HoleInv, CopiedSoFar
    <3> QED
      BY <2>5, <3>1 DEF Moves!ResultIsRight
  <2> QED
    BY <2>1, <2>2, <2>3, <2>4, <2>5 DEF MovesTypes, Programs
<1> QED
  BY <1>3 DEF FilesAreRight, Moves!ResultIsRight

(* append.c, truncate.c, rdwr.c, hole_in_file.c, child_file_handle.c:      *)
(* whatever a file holds before, whatever truncate is called with and      *)
(* whichever write fails or is short, what they overwrite and what they    *)
(* have added when they end is right.                                      *)
THEOREM FilesStayRight == Moves!Spec => []FilesAreRight
<1>1. Moves!Init => MovesInv
  BY MovesInit
<1>2. MovesInv /\ [Moves!Next]_Moves!vars => MovesInv'
  BY MovesStep DEF movesVars, Moves!vars
<1>3. MovesInv => FilesAreRight
  BY MovesInvSuffices
<1> QED
  BY <1>1, <1>2, <1>3, PTL DEF Moves!Spec

-----------------------------------------------------------------------------
(* Redirection.  What open and dup give out.                               *)
Closed(d) == fd[d] = "closed"

LEMMA LowestIs ==
  ASSUME \E d \in Dups!Descriptors : Closed(d)
  PROVE  /\ Dups!Lowest \in Dups!Descriptors /\ Closed(Dups!Lowest)
         /\ \A e \in 0 .. Dups!Lowest - 1 : ~Closed(e)
<1>1. \E d \in Dups!Descriptors : Closed(d) /\ \A e \in 0 .. d - 1 : ~Closed(e)
  <2>1. CASE Closed(0)
    BY <2>1 DEF Dups!Descriptors
  <2>2. CASE ~Closed(0) /\ Closed(1)
    BY <2>2 DEF Dups!Descriptors
  <2>3. CASE ~Closed(0) /\ ~Closed(1) /\ Closed(2)
    BY <2>3 DEF Dups!Descriptors
  <2>4. CASE ~Closed(0) /\ ~Closed(1) /\ ~Closed(2) /\ Closed(3)
    BY <2>4 DEF Dups!Descriptors
  <2>5. CASE ~Closed(0) /\ ~Closed(1) /\ ~Closed(2) /\ ~Closed(3) /\ Closed(4)
    BY <2>5 DEF Dups!Descriptors
  <2> QED
    BY <2>1, <2>2, <2>3, <2>4, <2>5 DEF Dups!Descriptors
<1> QED
  BY <1>1 DEF Dups!Lowest, Closed

(* Descriptors 0 and 1 become the files one after the other; all others,   *)
(* but the one a file was opened as, stay what they were.  A file is opened*)
(* as 0 or 1 only if that descriptor was closed from the beginning.        *)
Others(S) == \A d \in Dups!Descriptors \ S : fd[d] = inherited[d]

Missing(d) == inherited[d] = "closed"

(* Where main is between one open and the next close, and what it knows.   *)
StdinInv ==
  /\ place = "open_stdin" => Others({}) /\ Closed(3) /\ Closed(4)
  /\ place \in {"close_0", "dup_fd1", "close_fd1"} =>
       fd1 \in 0 .. 3 /\ Missing(fd1) /\ Closed(4) /\ Missing(4)
  /\ place \in {"close_0", "dup_fd1"} => (fd1 = 0 <=> Missing(0))
  /\ place = "close_0" => Others({fd1}) /\ fd[fd1] = "stdin" /\ ~Closed(0)
  /\ place = "dup_fd1" =>
       Others({0, fd1}) /\ Closed(0) /\ (fd1 # 0 => fd[fd1] = "stdin")
  /\ place = "close_fd1" =>
       fd1 # 0 /\ Others({0, fd1}) /\ fd[0] = "stdin" /\ fd[fd1] = "stdin"
  /\ place = "open_stdout" => fd[0] = "stdin" /\ Closed(4) /\ Others({0})

StdoutInv ==
  /\ place \in {"scanf", "close_1", "dup_fd2", "close_fd2"} =>
       fd2 \in 1 .. 4 /\ fd[0] = "stdin" /\ Missing(fd2)
  /\ place \in {"scanf", "close_1", "dup_fd2"} => (fd2 = 1 <=> Missing(1))
  /\ place \in {"scanf", "close_1"} =>
       Others({0, fd2}) /\ fd[fd2] = "stdout" /\ ~Closed(1)
  /\ place = "dup_fd2" =>
       Others({0, 1, fd2}) /\ Closed(1) /\ (fd2 # 1 => fd[fd2] = "stdout")
  /\ place = "close_fd2" =>
       fd2 # 1 /\ Others({0, 1, fd2}) /\ fd[1] = "stdout" /\ fd[fd2] = "stdout"
  /\ place \in {"printf", "done"} =>
       fd[0] = "stdin" /\ fd[1] = "stdout" /\ Others({0, 1})
  /\ place \in {"close_1", "dup_fd2", "close_fd2", "printf", "done"} => string = "stdin"
  /\ place = "done" => printed = "stdout"

(* What the program has got past was there, and what it failed for was not.*)
ReachedInv ==
  /\ place \notin {"open_stdin", "failed"} => "stdin" \in existing
  /\ place \notin {"open_stdin", "close_0", "dup_fd1", "failed"} => ~Missing(0)
  /\ place \in {"scanf", "close_1", "dup_fd2", "close_fd2", "printf", "done"} =>
       "stdout" \in existing
  /\ place \in {"close_fd2", "printf", "done"} => ~Missing(1)
  /\ place = "failed" => ~Dups!MayRedirect

RedirectInv ==
  /\ existing \subseteq {"stdin", "stdout"}
  /\ place \in {"open_stdin", "close_0", "dup_fd1", "close_fd1", "open_stdout", "scanf",
                "close_1", "dup_fd2", "close_fd2", "printf", "done", "failed"}
  /\ Dups!TypeOK
  /\ StdinInv /\ StdoutInv /\ ReachedInv

LEMMA RedirectInit == Dups!Init => RedirectInv
  BY DEF Dups!Init, RedirectInv, StdinInv, StdoutInv, ReachedInv, Dups!TypeOK,
     Others, Closed, Missing, Dups!Descriptors

LEMMA RedirectStep == ASSUME RedirectInv, [Dups!main]_dupsVars PROVE RedirectInv'
<1> USE DEF RedirectInv, Dups!TypeOK, Dups!Descriptors, Missing, Dups!MayRedirect
<1>1. CASE Dups!OpenStdin
  <2>1. CASE "stdin" \in existing
    <3>1. place = "open_stdin" /\ Others({}) /\ Closed(3) /\ Closed(4)
      BY <1>1 DEF Dups!OpenStdin, Dups!Open, StdinInv
    <3>2. /\ Dups!Lowest \in 0 .. 3 /\ (Dups!Lowest # 0 => ~Closed(0))
          /\ Closed(Dups!Lowest)
      BY <3>1, LowestIs
    <3>3. /\ place' = "close_0" /\ fd' = [fd EXCEPT ![Dups!Lowest] = "stdin"]
          /\ fd1' = Dups!Lowest /\ UNCHANGED <<existing, inherited, fd2, string, printed>>
      BY <1>1, <2>1 DEF Dups!OpenStdin, Dups!Open
    <3>4. Missing(Dups!Lowest) /\ Missing(4) /\ (Dups!Lowest = 0 <=> Missing(0))
      BY <3>1, <3>2 DEF Others, Closed
    <3>5. Others({fd1})' /\ ~Closed(0)' /\ Closed(4)' /\ fd'[fd1'] = "stdin"
      BY <3>1, <3>2, <3>3 DEF Others, Closed
    <3>6. StdinInv'
      BY <3>2, <3>3, <3>4, <3>5 DEF StdinInv
    <3>7. StdoutInv' /\ ReachedInv'
      BY <2>1, <3>3 DEF StdoutInv, ReachedInv
    <3> QED
      BY <3>2, <3>3, <3>6, <3>7
  <2>2. CASE "stdin" \notin existing
    BY <1>1, <2>2 DEF Dups!OpenStdin, Dups!Open, StdinInv, StdoutInv, ReachedInv
  <2> QED
    BY <2>1, <2>2
<1>2. CASE Dups!Close(0, "close_0", "dup_fd1")
  BY <1>2 DEF Dups!Close, StdinInv, StdoutInv, ReachedInv, Others, Closed
<1>3. CASE Dups!Dup(fd1, "dup_fd1", "close_fd1")
  <2>1. CASE Closed(fd1)
    BY <1>3, <2>1 DEF Dups!Dup, StdinInv, StdoutInv, ReachedInv, Closed
  <2>2. CASE ~Closed(fd1)
    <3>1. place = "dup_fd1" /\ Closed(0) /\ fd1 \in 1 .. 3 /\ Others({0, fd1}) /\ Closed(4)
      BY <1>3, <2>2 DEF Dups!Dup, StdinInv
    <3>2. Dups!Lowest = 0
      BY <3>1, LowestIs
    <3>3. /\ place' = "close_fd1" /\ fd' = [fd EXCEPT ![0] = "stdin"]
          /\ UNCHANGED <<existing, inherited, fd1, fd2, string, printed>>
      BY <1>3, <2>2, <3>1, <3>2 DEF Dups!Dup, Closed, StdinInv
    <3> QED
      BY <3>1, <3>3, <2>2 DEF StdinInv, StdoutInv, ReachedInv, Others, Closed
  <2> QED
    BY <2>1, <2>2
<1>4. CASE Dups!Close(fd1, "close_fd1", "open_stdout")
  BY <1>4 DEF Dups!Close, StdinInv, StdoutInv, ReachedInv, Others, Closed
<1>5. CASE Dups!OpenStdout
  <2>1. CASE "stdout" \in existing
    <3>1. place = "open_stdout" /\ fd[0] = "stdin" /\ Others({0}) /\ Closed(4)
      BY <1>5 DEF Dups!OpenStdout, Dups!Open, StdinInv
    <3>2. Dups!Lowest \in 1 .. 4 /\ (Dups!Lowest # 1 => ~Closed(1)) /\ Closed(Dups!Lowest)
      BY <3>1, LowestIs DEF Closed
    <3>3. /\ place' = "scanf" /\ fd' = [fd EXCEPT ![Dups!Lowest] = "stdout"]
          /\ fd2' = Dups!Lowest /\ UNCHANGED <<existing, inherited, fd1, string, printed>>
      BY <1>5, <2>1 DEF Dups!OpenStdout, Dups!Open
    <3>4. Missing(Dups!Lowest) /\ (Dups!Lowest = 1 <=> Missing(1))
      BY <3>1, <3>2 DEF Others, Closed
    <3>5. /\ Others({0, fd2})' /\ ~Closed(1)' /\ fd'[fd2'] = "stdout" /\ fd'[0] = "stdin"
      BY <3>1, <3>2, <3>3 DEF Others, Closed
    <3>6. StdoutInv'
      BY <3>2, <3>3, <3>4, <3>5 DEF StdoutInv
    <3>7. StdinInv' /\ ReachedInv'
      BY <2>1, <3>1, <3>3 DEF StdinInv, ReachedInv
    <3> QED
      BY <3>2, <3>3, <3>6, <3>7
  <2>2. CASE "stdout" \notin existing
    BY <1>5, <2>2 DEF Dups!OpenStdout, Dups!Open, StdinInv, StdoutInv, ReachedInv
  <2> QED
    BY <2>1, <2>2
<1>6. CASE Dups!Scanf
  BY <1>6 DEF Dups!Scanf, StdinInv, StdoutInv, ReachedInv, Others, Closed
<1>7. CASE Dups!Close(1, "close_1", "dup_fd2")
  BY <1>7 DEF Dups!Close, StdinInv, StdoutInv, ReachedInv, Others, Closed
<1>8. CASE Dups!Dup(fd2, "dup_fd2", "close_fd2")
  <2>1. CASE Closed(fd2)
    BY <1>8, <2>1 DEF Dups!Dup, StdinInv, StdoutInv, ReachedInv, Closed
  <2>2. CASE ~Closed(fd2)
    <3>1. /\ place = "dup_fd2" /\ Closed(1) /\ fd2 \in 2 .. 4 /\ Others({0, 1, fd2})
          /\ fd[0] = "stdin" /\ string = "stdin"
      BY <1>8, <2>2 DEF Dups!Dup, StdoutInv
    <3>2. Dups!Lowest = 1
      BY <3>1, LowestIs DEF Closed
    <3>3. /\ place' = "close_fd2" /\ fd' = [fd EXCEPT ![1] = "stdout"]
          /\ UNCHANGED <<existing, inherited, fd1, fd2, string, printed>>
      BY <1>8, <2>2, <3>1, <3>2 DEF Dups!Dup, Closed, StdoutInv
    <3> QED
      BY <3>1, <3>3, <2>2 DEF StdinInv, StdoutInv, ReachedInv, Others, Closed
  <2> QED
    BY <2>1, <2>2
<1>9. CASE Dups!Close(fd2, "close_fd2", "printf")
  BY <1>9 DEF Dups!Close, StdinInv, StdoutInv, ReachedInv, Others, Closed
<1>10. CASE Dups!PrintAndReturn
  BY <1>10 DEF Dups!PrintAndReturn, StdinInv, StdoutInv, ReachedInv, Others,
     Closed
<1>11. CASE UNCHANGED dupsVars
  BY <1>11 DEF dupsVars, StdinInv, StdoutInv, ReachedInv, Others, Closed
<1> QED
  BY <1>1, <1>2, <1>3, <1>4, <1>5, <1>6, <1>7, <1>8, <1>9, <1>10, <1>11 DEF
     Dups!main

LEMMA RedirectSuffices == RedirectInv => RedirectsOrFails
<1> SUFFICES ASSUME RedirectInv PROVE RedirectsOrFails
  OBVIOUS
<1>1. ASSUME place = "done"
      PROVE  /\ Dups!MayRedirect /\ string = "stdin" /\ printed = "stdout"
             /\ fd = [inherited EXCEPT ![0] = "stdin", ![1] = "stdout"]
  <2>1. existing = {"stdin", "stdout"} /\ ~Missing(0) /\ ~Missing(1)
    BY <1>1 DEF RedirectInv, ReachedInv
  <2>2. fd[0] = "stdin" /\ fd[1] = "stdout" /\ Others({0, 1})
    BY <1>1 DEF RedirectInv, StdoutInv
  <2>3. fd = [inherited EXCEPT ![0] = "stdin", ![1] = "stdout"]
    BY <2>2 DEF RedirectInv, Dups!TypeOK, Others
  <2> QED
    BY <1>1, <2>1, <2>3 DEF RedirectInv, StdoutInv, Dups!MayRedirect, Missing
<1> QED
  BY <1>1 DEF RedirectInv, ReachedInv, RedirectsOrFails, Dups!RedirectsOrFails

(* redirect.c, whichever of the standard descriptors and of the files      *)
(* there are: if there are both files, and descriptors 0 and 1 were open,  *)
(* it can end only by reading from the one and writing to the other and    *)
(* leaving every other descriptor as it was; otherwise only by failing.    *)
THEOREM RedirectsBoth == Dups!Spec => []RedirectsOrFails
<1>1. Dups!Init => RedirectInv
  BY RedirectInit
<1>2. RedirectInv /\ [Dups!main]_Dups!vars => RedirectInv'
  BY RedirectStep DEF dupsVars, Dups!vars
<1>3. RedirectInv => RedirectsOrFails
  BY RedirectSuffices
<1> QED
  BY <1>1, <1>2, <1>3, PTL DEF Dups!Spec

-----------------------------------------------------------------------------
(* game.c.                                                                 *)
Users == Players \union {Owner}
Places == {"own", "scores", "switch", "write", "done"}
Pieces == [by : Players, round : 1 .. 4, part : 1 .. 3,
           info : {"temp", "niramay"}]
Turns == (1 .. 4) \X (1 .. 3)

(* The user a file must belong to for p to write its turns to it.          *)
HomeOwner(p, f) == IF f = "own" THEN p ELSE Play!euid(p)

(* The turns of everybody in f so far. *)
Past(f) == [p \in Players |-> Play!SoFar(p, f)]

(* The pieces of r are of turns that s holds for the player, the last ones *)
(* and in order.                                                           *)
InTurn(r, s) ==
  \A k \in DOMAIN r.pieces :
    /\ \E x \in s[r.pieces[k].by] : Play!IsTurn(r.pieces[k], r.pieces[k].by, x)
    /\ \A x \in s[r.pieces[k].by] :
         Play!Before(<<r.pieces[k].round, r.pieces[k].part>>, x) =>
           \E l \in DOMAIN r.pieces : Play!IsTurn(r.pieces[l], r.pieces[k].by, x)
    /\ \A l \in DOMAIN r.pieces : k < l /\ r.pieces[k].by = r.pieces[l].by =>
         Play!Before(<<r.pieces[k].round, r.pieces[k].part>>,
                     <<r.pieces[l].round, r.pieces[l].part>>)

(* Everything p has written is in the file. *)
HoldsAll(r, s, p) ==
  \A x \in s[p] : \E k \in DOMAIN r.pieces : Play!IsTurn(r.pieces[k], p, x)

PlayTypes ==
  /\ setuid \in BOOLEAN
  /\ saved_ids \in BOOLEAN
  /\ creators \in {{}, Users}
  /\ turn \in [Players -> Places]
  /\ round \in [Players -> 1 .. 5]
  /\ written \in [Players -> 0 .. 6]
  /\ fds \in [Players -> SUBSET Play!Files]
  /\ file \in [Play!Files -> [owner : Users \union {Play!Nobody}, pieces : Seq(Pieces)]]

(* The effective user of a process is the player or the program's owner,   *)
(* and it may become the other.                                            *)
RightIds(id, p) ==
  IF saved_ids
    THEN /\ id = [real |-> p, eff |-> id.eff, saved |-> Play!euid(p)]
         /\ id.eff \in {p, Play!euid(p)}
    ELSE \/ id = [real |-> p, eff |-> Play!euid(p), saved |-> Play!euid(p)]
         \/ id = [real |-> Play!euid(p), eff |-> p, saved |-> p]

IdsAreRight ==
  DOMAIN ids = Players /\ \A p \in Players : RightIds(ids[p], p)

OwnersAreRight ==
  /\ file["own"].owner # Owner
  /\ setuid => file["scores"].owner \in {Owner, Play!Nobody}

(* A file that does not exist once a player has tried to make it will not. *)
NeverMade(f) == file[f].owner = Play!Nobody => creators = {}

ProgressIsRight ==
  \A p \in Players :
    /\ turn[p] \in {"own", "scores"} => round[p] = 1
    /\ turn[p] # "write" => written[p] = 0
    /\ turn[p] \in {"switch", "write"} => round[p] <= 4
    /\ turn[p] # "own" => NeverMade("own")
    /\ turn[p] \notin {"own", "scores"} => NeverMade("scores")

(* A player that writes has opened the files of its effective user, who is *)
(* the one whose turn it is.                                               *)
WritesAreRight ==
  \A p \in Players :
    turn[p] = "write" =>
      /\ ids[p].eff = (IF round[p] % 2 = 1 THEN p ELSE Play!euid(p))
      /\ fds[p] = {f \in Play!Files : file[f].owner = ids[p].eff}
      /\ "own" \notin fds[p] => written[p] \notin {1, 2}
      /\ "scores" \notin fds[p] => written[p] \notin {4, 5}

(* A file has the pieces of those who write it as its owner, and what they *)
(* say there.                                                              *)
PiecesAreHome ==
  \A f \in Play!Files :
    \A k \in DOMAIN file[f].pieces :
      /\ file[f].owner = HomeOwner(file[f].pieces[k].by, f)
      /\ file[f].pieces[k].info = IF setuid /\ f = "own" THEN "niramay" ELSE "temp"

AllInTurn == \A f \in Play!Files : InTurn(file[f], Past(f))

Kept ==
  \A p \in Players, f \in Play!Files :
    (\A q \in Players \ {p} : turn[q] = "own") /\ file[f].owner = HomeOwner(p, f)
    => HoldsAll(file[f], Past(f), p)

PlayInv ==
  /\ PlayTypes /\ IdsAreRight /\ OwnersAreRight /\ ProgressIsRight
  /\ WritesAreRight /\ PiecesAreHome /\ AllInTurn /\ Kept

-----------------------------------------------------------------------------
(* Which turns are past, in terms of the round and the writes of a player. *)
Done(s, r, w, f, x) ==
  /\ x[1] % 2 = (IF f = "own" THEN 1 ELSE 0) \/ ~s
  /\ \/ x[1] < r
     \/ x[1] = r /\ x[2] <= w - (IF f = "own" THEN 0 ELSE 3)

LEMMA PastIs ==
  \A p \in Players, f \in Play!Files :
    Past(f)[p] = {x \in Turns : Done(setuid, round[p], written[p], f, x)}
BY DEF Past, Play!SoFar, Turns, Done, Play!Rounds

LEMMA PastStays ==
  ASSUME UNCHANGED setuid, NEW p \in Players,
         round[p] = round'[p], written[p] = written'[p]
  PROVE  \A f \in Play!Files : Past(f)'[p] = Past(f)[p]
BY DEF Past, Play!SoFar

(* The turn of a write is after every turn past. *)
LEMMA TurnIsNext ==
  ASSUME NEW s \in BOOLEAN, NEW r \in 1 .. 4, NEW w \in 0 .. 5, NEW f \in Play!Files,
         f = IF w < 3 THEN "own" ELSE "scores",
         NEW y \in Turns, y = <<r, (w % 3) + 1>>,
         r % 2 = (IF f = "own" THEN 1 ELSE 0) \/ ~s
  PROVE  /\ \A x \in Turns : Done(s, r, w + 1, f, x) <=> Done(s, r, w, f, x) \/ x = y
         /\ \A x \in Turns : Done(s, r, w, f, x) => Play!Before(x, y)
<1>1. w \in 0 .. 5 /\ w \in Int /\ r \in Int
  OBVIOUS
<1>2. (w % 3) + 1 = w - (IF f = "own" THEN 0 ELSE 3) + 1
  <2>1. 0 % 3 = 0 /\ 1 % 3 = 1 /\ 2 % 3 = 2 /\ 3 % 3 = 0 /\ 4 % 3 = 1 /\ 5 % 3 = 2
    OBVIOUS
  <2>2. w = 0 \/ w = 1 \/ w = 2 \/ w = 3 \/ w = 4 \/ w = 5
    OBVIOUS
  <2> QED
    BY <2>1, <2>2
<1> SUFFICES ASSUME NEW x \in Turns
             PROVE  /\ Done(s, r, w + 1, f, x) <=> Done(s, r, w, f, x) \/ x = y
                    /\ Done(s, r, w, f, x) => Play!Before(x, y)
  OBVIOUS
<1>3. PICK a \in 1 .. 4, b \in 1 .. 3 : x = <<a, b>>
  BY DEF Turns
<1>4. x = y <=> a = r /\ b = (w % 3) + 1
  BY <1>3
<1>5. x[1] = a /\ x[2] = b /\ y[1] = r /\ y[2] = (w % 3) + 1
  BY <1>3
<1> QED
  BY <1>1, <1>2, <1>4, <1>5 DEF Done, Play!Before

(* What a write adds to the turns of the other file, or of the same file   *)
(* when it is not the player's turn there: nothing.                        *)
LEMMA NothingPassed ==
  ASSUME NEW s \in BOOLEAN, NEW r \in 1 .. 4, NEW w \in 0 .. 5, NEW f \in Play!Files,
         NEW v \in 0 .. 6,
         \/ f # (IF w < 3 THEN "own" ELSE "scores") /\ v = w + 1
         \/ f # (IF w < 3 THEN "own" ELSE "scores") /\ w \in {0, 3} /\ v = w + 3
         \/ ~(r % 2 = (IF f = "own" THEN 1 ELSE 0) \/ ~s)
  PROVE  \A x \in Turns : Done(s, r, v, f, x) <=> Done(s, r, w, f, x)
<1> SUFFICES ASSUME NEW x \in Turns
             PROVE  Done(s, r, v, f, x) <=> Done(s, r, w, f, x)
  OBVIOUS
<1>1. PICK a \in 1 .. 4, b \in 1 .. 3 : x = <<a, b>>
  BY DEF Turns
<1>2. x[1] = a /\ x[2] = b
  BY <1>1
<1>3. f \in {"own", "scores"}
  BY DEF Play!Files
<1> QED
  BY <1>2, <1>3 DEF Done

LEMMA RoundPassed ==
  ASSUME NEW s \in BOOLEAN, NEW r \in 1 .. 4, NEW f \in Play!Files
  PROVE  \A x \in Turns : Done(s, r + 1, 0, f, x) <=> Done(s, r, 6, f, x)
<1> SUFFICES ASSUME NEW x \in Turns
             PROVE  Done(s, r + 1, 0, f, x) <=> Done(s, r, 6, f, x)
  OBVIOUS
<1>1. PICK a \in 1 .. 4, b \in 1 .. 3 : x = <<a, b>>
  BY DEF Turns
<1>2. x[1] = a /\ x[2] = b
  BY <1>1
<1> QED
  BY <1>2 DEF Done

LEMMA NothingYet ==
  \A s \in BOOLEAN, f \in Play!Files, x \in Turns : ~Done(s, 1, 0, f, x)
<1> SUFFICES ASSUME NEW s \in BOOLEAN, NEW f \in Play!Files, NEW x \in Turns
             PROVE  ~Done(s, 1, 0, f, x)
  OBVIOUS
<1>1. PICK a \in 1 .. 4, b \in 1 .. 3 : x = <<a, b>>
  BY DEF Turns
<1>2. x[1] = a /\ x[2] = b
  BY <1>1
<1> QED
  BY <1>2 DEF Done

-----------------------------------------------------------------------------
(* The file q is r with one more piece, of the turn y of p, which is past  *)
(* in t and after all those past in s.                                     *)
OneMore(r, s, q, t, p, piece, y) ==
  /\ p \in Players /\ piece \in Pieces /\ r.pieces \in Seq(Pieces)
  /\ q.pieces = Append(r.pieces, piece) /\ piece.by = p
  /\ y \in Turns /\ y = <<piece.round, piece.part>>
  /\ \A z \in Players : z # p => t[z] = s[z]
  /\ t[p] = s[p] \union {y}
  /\ \A x \in s[p] : x \in Turns /\ Play!Before(x, y)

LEMMA AppendInTurn ==
  ASSUME NEW r, NEW q, NEW s, NEW t, NEW p, NEW piece, NEW y,
         OneMore(r, s, q, t, p, piece, y), InTurn(r, s)
  PROVE  InTurn(q, t)
<1> USE DEF OneMore
<1> DEFINE n == Len(r.pieces) + 1
<1>1. /\ DOMAIN q.pieces = 1 .. n
      /\ q.pieces[n] = piece
      /\ \A k \in 1 .. n : k # n => q.pieces[k] = r.pieces[k] /\ k \in DOMAIN r.pieces
      /\ n \in Nat /\ n > 0
      /\ \A k \in DOMAIN r.pieces : k \in 1 .. n /\ k # n
      /\ \A k \in DOMAIN r.pieces : r.pieces[k] \in Pieces
  BY AppendProperties, LenProperties
<1> HIDE DEF n
<1>2. y[1] = piece.round /\ y[2] = piece.part /\ y[1] \in Int /\ y[2] \in Int
  BY DEF Pieces, Turns
<1>3. ~Play!Before(y, y)
  BY <1>2 DEF Play!Before
<1>4. \A x \in s[p] : ~Play!Before(y, x)
  <2> SUFFICES ASSUME NEW x \in s[p] PROVE ~Play!Before(y, x)
    OBVIOUS
  <2>1. x \in Turns /\ Play!Before(x, y)
    OBVIOUS
  <2>2. x[1] \in Int /\ x[2] \in Int
    BY <2>1 DEF Turns
  <2> QED
    BY <1>2, <2>1, <2>2 DEF Play!Before
<1> SUFFICES ASSUME NEW k \in 1 .. n
             PROVE  /\ \E x \in t[q.pieces[k].by] :
                         Play!IsTurn(q.pieces[k], q.pieces[k].by, x)
                    /\ \A x \in t[q.pieces[k].by] :
                         Play!Before(<<q.pieces[k].round, q.pieces[k].part>>, x) =>
                           \E l \in DOMAIN q.pieces :
                             Play!IsTurn(q.pieces[l], q.pieces[k].by, x)
                    /\ \A l \in DOMAIN q.pieces :
                         k < l /\ q.pieces[k].by = q.pieces[l].by =>
                           Play!Before(<<q.pieces[k].round, q.pieces[k].part>>,
                                       <<q.pieces[l].round, q.pieces[l].part>>)
  BY <1>1 DEF InTurn
<1>5. CASE k = n
  <2>1. Play!IsTurn(piece, p, y)
    BY <1>2 DEF Play!IsTurn
  <2>2. \A x \in t[p] : ~Play!Before(y, x)
    BY <1>3, <1>4
  <2>3. \A l \in DOMAIN q.pieces : ~(k < l)
    BY <1>1, <1>5
  <2> QED
    BY <1>1, <1>5, <2>1, <2>2, <2>3
<1>6. CASE k # n
  <2>1. q.pieces[k] = r.pieces[k] /\ k \in DOMAIN r.pieces /\ r.pieces[k] \in Pieces
    BY <1>1, <1>6
  <2>2. r.pieces[k].by \in Players
    BY <2>1 DEF Pieces
  <2>3. PICK x \in s[r.pieces[k].by] : Play!IsTurn(r.pieces[k], r.pieces[k].by, x)
    BY <2>1 DEF InTurn
  <2>4. x \in t[r.pieces[k].by]
    BY <2>2, <2>3
  <2>6. ASSUME NEW z \in t[r.pieces[k].by],
               Play!Before(<<r.pieces[k].round, r.pieces[k].part>>, z)
        PROVE  \E l \in DOMAIN q.pieces : Play!IsTurn(q.pieces[l], r.pieces[k].by, z)
    <3>1. CASE z \in s[r.pieces[k].by]
      <4>1. PICK l \in DOMAIN r.pieces : Play!IsTurn(r.pieces[l], r.pieces[k].by, z)
        BY <2>1, <2>6, <3>1 DEF InTurn
      <4>2. l \in DOMAIN q.pieces /\ q.pieces[l] = r.pieces[l]
        BY <1>1
      <4> QED
        BY <4>1, <4>2
    <3>2. CASE z \notin s[r.pieces[k].by]
      <4>1. z = y /\ r.pieces[k].by = p
        BY <2>2, <2>6, <3>2
      <4>2. Play!IsTurn(piece, p, y)
        BY <1>2 DEF Play!IsTurn
      <4> QED
        BY <1>1, <4>1, <4>2
    <3> QED
      BY <3>1, <3>2
  <2>7. ASSUME NEW l \in 1 .. n, k < l, r.pieces[k].by = q.pieces[l].by
        PROVE  Play!Before(<<r.pieces[k].round, r.pieces[k].part>>,
                           <<q.pieces[l].round, q.pieces[l].part>>)
    <3>1. CASE l = n
      <4>1. q.pieces[l] = piece /\ r.pieces[k].by = p
        BY <1>1, <2>7, <3>1
      <4>2. x \in Turns /\ Play!Before(x, y)
        BY <2>3, <4>1
      <4>3. x[1] = r.pieces[k].round /\ x[2] = r.pieces[k].part
        BY <2>3 DEF Play!IsTurn
      <4> QED
        BY <1>2, <4>1, <4>2, <4>3 DEF Play!Before
    <3>2. CASE l # n
      <4>1. q.pieces[l] = r.pieces[l] /\ l \in DOMAIN r.pieces
        BY <1>1, <3>2
      <4> QED
        BY <2>1, <2>7, <4>1 DEF InTurn
    <3> QED
      BY <3>1, <3>2
  <2> QED
    BY <1>1, <2>1, <2>3, <2>4, <2>6, <2>7
<1> QED
  BY <1>5, <1>6

(* Turns that pass do not disturb a file with nothing of the player in it. *)
LEMMA PassInTurn ==
  ASSUME NEW r, NEW s, NEW t, r.pieces \in Seq(Pieces), InTurn(r, s),
         \A k \in DOMAIN r.pieces : t[r.pieces[k].by] = s[r.pieces[k].by]
  PROVE  InTurn(r, t)
BY DEF InTurn
-----------------------------------------------------------------------------
LEMMA UsersAre ==
  /\ \A p \in Players : p # Owner /\ p # Play!Nobody /\ Play!euid(p) \in Users
  /\ Owner # Play!Nobody
  /\ \A u \in Users : u # Play!Nobody
  /\ \A p \in Players, f \in Play!Files : HomeOwner(p, f) \in Users
BY FilesAssumption DEF Play!GameAssumption, Users, HomeOwner, Play!euid

LEMMA PlayerAgain ==
  ASSUME NEW p \in Players, RightIds(ids[p], p)
  PROVE  RightIds(Play!undo_setuid(p), p) /\ Play!undo_setuid(p).eff = p
BY DEF RightIds, Play!undo_setuid, Play!seteuid, Play!setreuid, Play!ruid

LEMMA OwnerAgain ==
  ASSUME NEW p \in Players, RightIds(ids[p], p)
  PROVE  RightIds(Play!do_setuid(p), p) /\ Play!do_setuid(p).eff = Play!euid(p)
BY DEF RightIds, Play!do_setuid, Play!seteuid, Play!setreuid, Play!ruid

(* What opening a file with O_CREAT and O_TRUNC may do to it.              *)
LEMMA TruncatedIs ==
  ASSUME PlayTypes, NEW f \in Play!Files, NEW id, id.eff \in Users,
         NEW new, new = Play!Truncated(f, id)
  PROVE  /\ new \in [Play!Files -> [owner : Users \union {Play!Nobody}, pieces : Seq(Pieces)]]
         /\ \A g \in Play!Files : g # f => new[g] = file[g]
         /\ \/ new[f] = file[f]
            \/ new[f] = [owner |-> file[f].owner, pieces |-> << >>]
            \/ /\ new[f] = [owner |-> id.eff, pieces |-> << >>]
               /\ file[f].owner = Play!Nobody /\ creators # {}
         /\ new[f].owner = Play!Nobody => creators = {}
<1> DEFINE R == [owner : Users \union {Play!Nobody}, pieces : Seq(Pieces)]
<1>1. /\ file \in [Play!Files -> R]
      /\ file[f] = [owner |-> file[f].owner, pieces |-> file[f].pieces]
      /\ file[f].owner \in Users \union {Play!Nobody}
      /\ creators \in {{}, Users}
  BY DEF PlayTypes
<1>2. << >> \in Seq(Pieces)
  BY EmptySeq
<1>3. CASE file[f].owner = id.eff
  <2>2. id.eff # Play!Nobody
    BY UsersAre
  <2>1. new = [file EXCEPT ![f].pieces = << >>]
    BY <1>3, <2>2 DEF Play!Truncated
  <2>3. new[f] = [owner |-> file[f].owner, pieces |-> << >>]
    BY <1>1, <2>1
  <2> QED
    BY <1>1, <1>2, <1>3, <2>1, <2>2, <2>3
<1>4. CASE file[f].owner # id.eff /\ file[f].owner = Play!Nobody /\ id.eff \in creators
  <2>1. new = [file EXCEPT ![f] = [owner |-> id.eff, pieces |-> << >>]]
    BY <1>4 DEF Play!Truncated
  <2>2. new[f] = [owner |-> id.eff, pieces |-> << >>] /\ id.eff # Play!Nobody
    BY <1>1, <2>1, UsersAre
  <2> QED
    BY <1>1, <1>2, <1>4, <2>1, <2>2
<1>5. CASE file[f].owner # id.eff /\ ~(file[f].owner = Play!Nobody /\ id.eff \in creators)
  <2>1. new = file
    BY <1>5 DEF Play!Truncated
  <2>2. creators = {} \/ file[f].owner # Play!Nobody
    BY <1>1, <1>5
  <2> QED
    BY <1>1, <2>1, <2>2
<1> QED
  BY <1>3, <1>4, <1>5

LEMMA PlayStarts == Play!Init \/ PlayEnded => PlayInv
<1> SUFFICES ASSUME Play!Init \/ PlayEnded PROVE PlayInv
  OBVIOUS
<1>1. /\ file \in [Play!Files -> [owner : Users \union {Play!Nobody}, pieces : Seq(Pieces)]]
      /\ \A f \in Play!Files : file[f].pieces = << >>
      /\ file["own"].owner \in Players \union {Play!Nobody}
      /\ file["scores"].owner \in {Owner, Play!Nobody}
  <2> DEFINE R == [owner : Users \union {Play!Nobody}, pieces : Seq(Pieces)]
  <2>1. << >> \in Seq(Pieces)
    BY EmptySeq
  <2>2. CASE Play!Init
    <3>1. PICK own \in Players \union {Play!Nobody}, scores \in {Owner, Play!Nobody} :
            file = [own |-> [owner |-> own, pieces |-> << >>],
                    scores |-> [owner |-> scores, pieces |-> << >>]]
      BY <2>2 DEF Play!Init
    <3>2. /\ file["own"] = [owner |-> own, pieces |-> << >>]
          /\ file["scores"] = [owner |-> scores, pieces |-> << >>]
          /\ file = [f \in {"own", "scores"} |-> file[f]]
      BY <3>1
    <3>3. file["own"] \in R /\ file["scores"] \in R
      BY <2>1, <3>2 DEF Users
    <3>4. file["own"].pieces = << >> /\ file["scores"].pieces = << >>
      BY <3>2
    <3>5. file \in [{"own", "scores"} -> R]
      <4> HIDE DEF R
      <4> QED
        BY <3>2, <3>3
    <3> QED
      BY <3>2, <3>4, <3>5 DEF Play!Files
  <2>3. CASE PlayEnded
    BY <2>1, <2>3 DEF PlayEnded, Play!Files
  <2> QED
    BY <2>2, <2>3
<1>2. PlayTypes
  <2>1. /\ setuid \in BOOLEAN /\ saved_ids \in BOOLEAN /\ creators \in {{}, Users}
        /\ turn \in [Players -> Places]
    BY DEF Play!Init, PlayEnded, Users, Places
  <2>2. /\ round \in [Players -> 1 .. 5]
        /\ written \in [Players -> 0 .. 6]
        /\ fds \in [Players -> SUBSET Play!Files]
    BY DEF Play!Init, PlayEnded, Play!Rounds
  <2> QED
    BY <1>1, <2>1, <2>2 DEF PlayTypes
<1>3. IdsAreRight
  BY DEF Play!Init, PlayEnded, IdsAreRight, RightIds, Play!euid
<1>4. OwnersAreRight
  BY <1>1, UsersAre DEF OwnersAreRight
<1>5. ProgressIsRight /\ WritesAreRight
  BY DEF Play!Init, PlayEnded, ProgressIsRight, WritesAreRight, NeverMade
<1>6. PiecesAreHome /\ AllInTurn
  BY <1>1 DEF PiecesAreHome, AllInTurn, InTurn
<1>7. Kept
  <2>1. CASE Play!Init
    <3>1. \A p \in Players : round[p] = 1 /\ written[p] = 0
      BY <2>1 DEF Play!Init
    <3>2. \A p \in Players, f \in Play!Files : Past(f)[p] = {}
      BY <1>2, <3>1, PastIs, NothingYet DEF PlayTypes
    <3> QED
      BY <3>2 DEF Kept, HoldsAll
  <2>2. CASE PlayEnded
    <3>1. \A f \in Play!Files : file[f].owner = Play!Nobody
      BY <2>2 DEF PlayEnded
    <3> QED
      BY <3>1, UsersAre DEF Kept
  <2> QED
    BY <2>1, <2>2
<1> QED
  BY <1>2, <1>3, <1>4, <1>5, <1>6, <1>7 DEF PlayInv

(* Making a file, or emptying it.                                          *)
LEMMA MakeStep ==
  ASSUME PlayInv, NEW p \in Players, NEW f \in Play!Files, NEW id,
         RightIds(id, p), id.eff = HomeOwner(p, f), turn[p] = f,
         turn' = [turn EXCEPT ![p] = IF f = "own" THEN "scores" ELSE "switch"],
         ids' = [ids EXCEPT ![p] = id], file' = Play!Truncated(f, id),
         UNCHANGED <<setuid, saved_ids, creators, round, written, fds>>
  PROVE  PlayInv'
<1> USE DEF PlayInv
<1>0. /\ Play!Files = {"own", "scores"}
      /\ \A g : turn[g] = turn[g]
  BY DEF Play!Files
<1>1. /\ file' \in [Play!Files -> [owner : Users \union {Play!Nobody}, pieces : Seq(Pieces)]]
      /\ \A g \in Play!Files : g # f => file'[g] = file[g]
      /\ \/ file'[f] = file[f]
         \/ file'[f] = [owner |-> file[f].owner, pieces |-> << >>]
         \/ /\ file'[f] = [owner |-> id.eff, pieces |-> << >>]
            /\ file[f].owner = Play!Nobody /\ creators # {}
      /\ file'[f].owner = Play!Nobody => creators = {}
  <2>1. id.eff \in Users
    BY UsersAre
  <2> QED
    BY <2>1, TruncatedIs
<1>2. \A g \in Play!Files :
        \/ file'[g] = file[g]
        \/ file'[g].pieces = << >>
  BY <1>1
<1>3. \A g \in Play!Files :
        \/ file'[g].owner = file[g].owner
        \/ file[g].owner = Play!Nobody /\ creators # {}
  BY <1>1
<1>4. /\ turn' \in [Players -> Places] /\ turn \in [Players -> Places]
      /\ \A q \in Players : q # p => turn'[q] = turn[q] /\ ids'[q] = ids[q]
      /\ turn'[p] = (IF f = "own" THEN "scores" ELSE "switch")
      /\ ids'[p] = id /\ DOMAIN ids' = Players
  BY DEF PlayTypes, Places, IdsAreRight
<1>5. PlayTypes'
  BY <1>1, <1>4 DEF PlayTypes
<1>6. IdsAreRight'
  BY <1>4 DEF IdsAreRight, RightIds, Play!euid
<1>7. OwnersAreRight'
  BY <1>0, <1>1, UsersAre DEF OwnersAreRight, HomeOwner, Play!euid
<1>8. /\ \A g \in Play!Files : NeverMade(g) => NeverMade(g)'
      /\ NeverMade(f)'
  BY <1>1, <1>3 DEF NeverMade
<1>9. ProgressIsRight'
  <2> SUFFICES ASSUME NEW q \in Players
               PROVE  /\ turn'[q] \in {"own", "scores"} => round'[q] = 1
                      /\ turn'[q] # "write" => written'[q] = 0
                      /\ turn'[q] \in {"switch", "write"} => round'[q] <= 4
                      /\ turn'[q] # "own" => NeverMade("own")'
                      /\ turn'[q] \notin {"own", "scores"} => NeverMade("scores")'
    BY DEF ProgressIsRight
  <2>1. CASE q = p
    <3>1. round[p] = 1 /\ written[p] = 0 /\ (f = "scores" => NeverMade("own"))
      BY <1>0 DEF ProgressIsRight
    <3> QED
      BY <1>0, <1>4, <1>8, <2>1, <3>1
  <2>2. CASE q # p
    BY <1>0, <1>4, <1>8, <2>2 DEF ProgressIsRight
  <2> QED
    BY <2>1, <2>2
<1>10. WritesAreRight'
  <2> SUFFICES ASSUME NEW q \in Players, turn'[q] = "write"
               PROVE  /\ ids'[q].eff = (IF round'[q] % 2 = 1 THEN q ELSE Play!euid(q)')
                      /\ fds'[q] = {g \in Play!Files : file'[g].owner = ids'[q].eff}
                      /\ "own" \notin fds'[q] => written'[q] \notin {1, 2}
                      /\ "scores" \notin fds'[q] => written'[q] \notin {4, 5}
    BY DEF WritesAreRight
  <2>1. q # p /\ turn[q] = "write"
    BY <1>4
  <2>2. \A g \in Play!Files : file'[g].owner = file[g].owner
    BY <1>0, <1>3, <2>1 DEF ProgressIsRight, NeverMade
  <2>3. Play!euid(q)' = Play!euid(q)
    BY DEF Play!euid
  <2> QED
    BY <1>4, <2>1, <2>2, <2>3 DEF WritesAreRight
<1>11. PiecesAreHome'
  BY <1>2 DEF PiecesAreHome, HomeOwner, Play!euid
<1>12. \A g \in Play!Files : Past(g)' = Past(g)
  BY DEF Past, Play!SoFar
<1>13. AllInTurn'
  <2> SUFFICES ASSUME NEW g \in Play!Files PROVE InTurn(file'[g], Past(g)')
    BY DEF AllInTurn
  <2>1. CASE file'[g] = file[g]
    BY <1>12, <2>1 DEF AllInTurn
  <2>2. CASE file'[g].pieces = << >>
    BY <2>2 DEF InTurn
  <2> QED
    BY <1>2, <2>1, <2>2
<1>14. Kept'
  <2>1. \A g \in Play!Files : Past(g)'[p] = {}
    <3>1. round[p] = 1 /\ written[p] = 0
      BY <1>0 DEF ProgressIsRight
    <3> QED
      BY <1>12, <3>1, PastIs, NothingYet DEF PlayTypes
  <2>2. turn'[p] # "own"
    BY <1>4
  <2> SUFFICES ASSUME NEW q \in Players, NEW g \in Play!Files,
                      \A r \in Players \ {q} : turn'[r] = "own"
               PROVE  HoldsAll(file'[g], Past(g)', q)
    BY DEF Kept
  <2>3. q = p
    BY <2>2
  <2> QED
    BY <2>1, <2>3 DEF HoldsAll
<1> QED
  BY <1>5, <1>6, <1>7, <1>9, <1>10, <1>11, <1>13, <1>14

LEMMA SwitchStep ==
  ASSUME PlayInv, NEW p \in Players, Play!Switch(p)
  PROVE  PlayInv'
<1> USE DEF PlayInv
<1>1. PICK id : /\ ids' = [ids EXCEPT ![p] = id]
                /\ RightIds(id, p)
                /\ id.eff = IF round[p] % 2 = 1 THEN p ELSE Play!euid(p)
                /\ fds' = [fds EXCEPT ![p] = {f \in Play!Files : file[f].owner = id.eff}]
  <2>1. RightIds(ids[p], p)
    BY DEF IdsAreRight
  <2> QED
    BY <2>1, PlayerAgain, OwnerAgain DEF Play!Switch, Play!OddRound
<1>2. /\ turn[p] = "switch" /\ turn' = [turn EXCEPT ![p] = "write"]
      /\ UNCHANGED <<setuid, saved_ids, creators, round, written, file>>
  BY DEF Play!Switch
<1>3. /\ turn' \in [Players -> Places] /\ turn \in [Players -> Places]
      /\ fds' \in [Players -> SUBSET Play!Files]
      /\ \A q \in Players : q # p => turn'[q] = turn[q] /\ ids'[q] = ids[q] /\ fds'[q] = fds[q]
      /\ turn'[p] = "write" /\ fds'[p] = {f \in Play!Files : file[f].owner = id.eff}
      /\ ids'[p] = id /\ DOMAIN ids' = Players
  BY <1>1, <1>2 DEF PlayTypes, Places, IdsAreRight
<1>4. PlayTypes'
  BY <1>2, <1>3 DEF PlayTypes
<1>5. IdsAreRight'
  BY <1>1, <1>2, <1>3 DEF IdsAreRight, RightIds, Play!euid
<1>6. OwnersAreRight' /\ PiecesAreHome'
  BY <1>2 DEF OwnersAreRight, PiecesAreHome, HomeOwner, Play!euid
<1>7. ProgressIsRight'
  <2>1. round[p] <= 4 /\ NeverMade("own") /\ NeverMade("scores")
    BY <1>2 DEF ProgressIsRight
  <2>2. \A f : NeverMade(f)' = NeverMade(f)
    BY <1>2 DEF NeverMade
  <2> QED
    BY <1>2, <1>3, <2>1, <2>2 DEF ProgressIsRight
<1>8. WritesAreRight'
  <2> SUFFICES ASSUME NEW q \in Players, turn'[q] = "write"
               PROVE  /\ ids'[q].eff = (IF round'[q] % 2 = 1 THEN q ELSE Play!euid(q)')
                      /\ fds'[q] = {g \in Play!Files : file'[g].owner = ids'[q].eff}
                      /\ "own" \notin fds'[q] => written'[q] \notin {1, 2}
                      /\ "scores" \notin fds'[q] => written'[q] \notin {4, 5}
    BY DEF WritesAreRight
  <2>1. Play!euid(q)' = Play!euid(q)
    BY <1>2 DEF Play!euid
  <2>2. CASE q = p
    <3>1. written[p] = 0
      BY <1>2 DEF ProgressIsRight
    <3> QED
      BY <1>1, <1>2, <1>3, <2>1, <2>2, <3>1
  <2>3. CASE q # p
    BY <1>2, <1>3, <2>1, <2>3 DEF WritesAreRight
  <2> QED
    BY <2>2, <2>3
<1>9. \A g \in Play!Files : Past(g)' = Past(g)
  BY <1>2 DEF Past, Play!SoFar
<1>10. AllInTurn'
  BY <1>2, <1>9 DEF AllInTurn
<1>11. Kept'
  <2> SUFFICES ASSUME NEW q \in Players, NEW g \in Play!Files,
                      \A r \in Players \ {q} : turn'[r] = "own",
                      file'[g].owner = HomeOwner(q, g)'
               PROVE  HoldsAll(file'[g], Past(g)', q)
    BY DEF Kept
  <2>1. q = p
    BY <1>3
  <2>2. \A r \in Players \ {q} : turn[r] = "own"
    BY <1>3, <2>1
  <2>3. file[g].owner = HomeOwner(q, g)
    BY <1>2 DEF HomeOwner, Play!euid
  <2> QED
    BY <1>2, <1>9, <2>2, <2>3 DEF Kept
<1> QED
  BY <1>4, <1>5, <1>6, <1>7, <1>8, <1>10, <1>11
(* A write to a file that is open.                                         *)
LEMMA WriteOpenStep ==
  ASSUME PlayInv, NEW p \in Players, Play!Write(p),
         NEW f \in Play!Files, f = IF written[p] < 3 THEN "own" ELSE "scores",
         f \in fds[p]
  PROVE  PlayInv'
<1> USE DEF PlayInv
<1>1. /\ turn[p] = "write" /\ written[p] < 6
      /\ written' = [written EXCEPT ![p] = @ + 1]
      /\ UNCHANGED <<setuid, saved_ids, creators, turn, ids, round, fds>>
  BY DEF Play!Write
<1>2. /\ round[p] \in 1 .. 4 /\ written[p] \in 0 .. 5
      /\ ids[p].eff = (IF round[p] % 2 = 1 THEN p ELSE Play!euid(p))
      /\ file[f].owner = ids[p].eff
  BY <1>1 DEF PlayTypes, ProgressIsRight, WritesAreRight
<1>3. (written[p] % 3) + 1 \in 1 .. 3
  BY <1>2
<1>4. PICK piece \in Pieces :
        /\ file' = [file EXCEPT ![f].pieces = Append(@, piece)]
        /\ piece = [by |-> p, round |-> round[p], part |-> (written[p] % 3) + 1,
                    info |-> Play!info(p)]
  <2> DEFINE piece == [by |-> p, round |-> round[p], part |-> (written[p] % 3) + 1,
                       info |-> Play!info(p)]
  <2>1. file' = [file EXCEPT ![f].pieces = Append(@, piece)]
    BY DEF Play!Write
  <2>2. Play!info(p) \in {"temp", "niramay"}
    BY DEF Play!info
  <2> QED
    BY <1>2, <1>3, <2>1, <2>2 DEF Pieces
<1>5. /\ file[f].pieces \in Seq(Pieces)
      /\ file[f] = [owner |-> file[f].owner, pieces |-> file[f].pieces]
      /\ file[f].owner \in Users \union {Play!Nobody}
  BY DEF PlayTypes
<1>6. /\ file'[f] = [owner |-> file[f].owner, pieces |-> Append(file[f].pieces, piece)]
      /\ \A g \in Play!Files : g # f => file'[g] = file[g]
      /\ DOMAIN file' = Play!Files
      /\ file' = [g \in Play!Files |-> file'[g]]
      /\ Append(file[f].pieces, piece) \in Seq(Pieces)
  BY <1>4, <1>5, AppendProperties DEF PlayTypes
<1>7. \A g \in Play!Files : file'[g].owner = file[g].owner
  BY <1>6
<1>8. /\ piece.by = p /\ piece.info = Play!info(p)
      /\ piece.round = round[p] /\ piece.part = (written[p] % 3) + 1
  BY <1>4
<1>9. /\ written'[p] = written[p] + 1
      /\ \A q \in Players : q # p => written'[q] = written[q]
      /\ written' \in [Players -> 0 .. 6]
  BY <1>1, <1>2 DEF PlayTypes
<1>10. PlayTypes'
  <2> DEFINE R == [owner : Users \union {Play!Nobody}, pieces : Seq(Pieces)]
  <2>1. file'[f] \in R
    BY <1>5, <1>6
  <2>2. \A g \in Play!Files : g # f => file'[g] \in R
    BY <1>6 DEF PlayTypes
  <2>3. file' \in [Play!Files -> R]
    BY <1>6, <2>1, <2>2
  <2> QED
    BY <1>1, <1>9, <2>3 DEF PlayTypes
<1>11. \A q : Play!euid(q)' = Play!euid(q)
  BY <1>1 DEF Play!euid
<1>12. IdsAreRight' /\ OwnersAreRight'
  BY <1>1, <1>7 DEF IdsAreRight, RightIds, OwnersAreRight, Play!euid, Play!Files
<1>13. ProgressIsRight'
  <2>1. \A g \in Play!Files : NeverMade(g)' = NeverMade(g)
    BY <1>1, <1>7 DEF NeverMade
  <2> QED
    BY <1>1, <1>9, <2>1 DEF ProgressIsRight, Play!Files
<1>14. WritesAreRight'
  <2> SUFFICES ASSUME NEW q \in Players, turn'[q] = "write"
               PROVE  /\ ids'[q].eff = (IF round'[q] % 2 = 1 THEN q ELSE Play!euid(q)')
                      /\ fds'[q] = {g \in Play!Files : file'[g].owner = ids'[q].eff}
                      /\ "own" \notin fds'[q] => written'[q] \notin {1, 2}
                      /\ "scores" \notin fds'[q] => written'[q] \notin {4, 5}
    BY DEF WritesAreRight
  <2>1. turn[q] = "write"
    BY <1>1
  <2>2. /\ ids'[q].eff = (IF round'[q] % 2 = 1 THEN q ELSE Play!euid(q)')
        /\ fds'[q] = {g \in Play!Files : file'[g].owner = ids'[q].eff}
    BY <1>1, <1>7, <1>11, <2>1 DEF WritesAreRight
  <2>3. CASE q = p
    <3>1. /\ "own" \notin fds[p] => written[p] \notin {1, 2} /\ written[p] >= 3
          /\ "scores" \notin fds[p] => written[p] \notin {4, 5} /\ written[p] < 3
      BY <1>1, <1>2 DEF WritesAreRight
    <3> QED
      BY <1>1, <1>2, <1>9, <2>2, <2>3, <3>1
  <2>4. CASE q # p
    BY <1>1, <1>9, <2>1, <2>2, <2>4 DEF WritesAreRight
  <2> QED
    BY <2>3, <2>4
(* It is the player's turn in the file. *)
<1>15. /\ file[f].owner = HomeOwner(p, f)
       /\ round[p] % 2 = (IF f = "own" THEN 1 ELSE 0) \/ ~setuid
       /\ Play!info(p) = IF setuid /\ f = "own" THEN "niramay" ELSE "temp"
  <2>1. CASE ~setuid
    BY <1>2, <2>1 DEF HomeOwner, Play!euid, Play!info
  <2>2. CASE setuid /\ round[p] % 2 = 1
    <3>1. f = "own"
      BY <1>2, <2>2, UsersAre DEF OwnersAreRight, Play!Files
    <3> QED
      BY <1>2, <2>2, <3>1, UsersAre DEF HomeOwner, Play!info, Play!euid
  <2>3. CASE setuid /\ round[p] % 2 # 1
    <3>1. f = "scores"
      BY <1>2, <2>3 DEF OwnersAreRight, Play!euid, Play!Files
    <3>2. round[p] % 2 = 0
      BY <1>2, <2>3
    <3> QED
      BY <1>2, <2>3, <3>1, <3>2 DEF HomeOwner, Play!info
  <2> QED
    BY <2>1, <2>2, <2>3 DEF PlayTypes
<1>16. PiecesAreHome'
  <2> SUFFICES ASSUME NEW g \in Play!Files, NEW k \in DOMAIN file'[g].pieces
               PROVE  /\ file'[g].owner = HomeOwner(file'[g].pieces[k].by, g)
                      /\ file'[g].pieces[k].info =
                           IF setuid /\ g = "own" THEN "niramay" ELSE "temp"
    BY <1>1 DEF PiecesAreHome, HomeOwner, Play!euid
  <2>2. CASE g # f
    BY <1>6, <2>2 DEF PiecesAreHome
  <2>3. CASE g = f
    <3>1. \/ k \in DOMAIN file[f].pieces /\ file'[f].pieces[k] = file[f].pieces[k]
          \/ file'[f].pieces[k] = piece
      BY <1>5, <1>6, <2>3, AppendProperties, LenProperties
    <3>2. CASE k \in DOMAIN file[f].pieces /\ file'[f].pieces[k] = file[f].pieces[k]
      <4>1. /\ file[f].owner = HomeOwner(file[f].pieces[k].by, f)
            /\ file[f].pieces[k].info = IF setuid /\ f = "own" THEN "niramay" ELSE "temp"
        BY <3>2 DEF PiecesAreHome
      <4> QED
        BY <1>7, <2>3, <3>2, <4>1
    <3>3. CASE file'[f].pieces[k] = piece
      BY <1>7, <1>8, <1>15, <2>3, <3>3
    <3> QED
      BY <3>1, <3>2, <3>3
  <2> QED
    BY <2>2, <2>3
<1> DEFINE y == <<round[p], (written[p] % 3) + 1>>
<1>17. /\ y \in Turns
       /\ \A g \in Play!Files, q \in Players :
            g # f \/ q # p => Past(g)'[q] = Past(g)[q]
       /\ Past(f)'[p] = Past(f)[p] \union {y}
       /\ \A x \in Past(f)[p] : x \in Turns /\ Play!Before(x, y)
  <2>1. y \in Turns
    BY <1>2, <1>3 DEF Turns
  <2>2. /\ \A x \in Turns : Done(setuid, round[p], written[p] + 1, f, x)
                             <=> Done(setuid, round[p], written[p], f, x) \/ x = y
        /\ \A x \in Turns : Done(setuid, round[p], written[p], f, x) => Play!Before(x, y)
    <3> HIDE DEF y
    <3>1. y = <<round[p], (written[p] % 3) + 1>> /\ setuid \in BOOLEAN
      BY DEF y, PlayTypes
    <3> QED
      BY <1>2, <1>15, <2>1, <3>1, TurnIsNext
  <2>3. ASSUME NEW g \in Play!Files, g # f
        PROVE  \A x \in Turns : Done(setuid, round[p], written[p] + 1, g, x)
                                 <=> Done(setuid, round[p], written[p], g, x)
    <3>1. setuid \in BOOLEAN /\ written[p] + 1 \in 0 .. 6
      BY <1>2 DEF PlayTypes
    <3> QED
      BY <1>2, <2>3, <3>1, NothingPassed
  <2>4. \A g \in Play!Files, q \in Players :
          Past(g)'[q] = {x \in Turns : Done(setuid, round[q], written'[q], g, x)}
    BY <1>1 DEF Past, Play!SoFar, Turns, Done, Play!Rounds
  <2> HIDE DEF y
  <2>7. \A g \in Play!Files, q \in Players : \A x :
          /\ x \in Past(g)'[q] <=> x \in Turns /\ Done(setuid, round[q], written'[q], g, x)
          /\ x \in Past(g)[q] <=> x \in Turns /\ Done(setuid, round[q], written[q], g, x)
    BY <2>4, PastIs
  <2>5. \A g \in Play!Files, q \in Players :
          g # f \/ q # p => Past(g)'[q] = Past(g)[q]
    <3> SUFFICES ASSUME NEW g \in Play!Files, NEW q \in Players, g # f \/ q # p
                 PROVE  Past(g)'[q] = Past(g)[q]
      OBVIOUS
    <3>1. CASE q # p
      <4>1. written'[q] = written[q]
        BY <1>9, <3>1
      <4>2. \A x : x \in Past(g)'[q] <=> x \in Past(g)[q]
        BY <2>7, <4>1
      <4> QED
        BY <4>2
    <3>2. CASE q = p
      <4>1. \A x : x \in Past(g)'[p] <=> x \in Past(g)[p]
        BY <1>9, <2>3, <2>7, <3>2
      <4> QED
        BY <3>2, <4>1
    <3> QED
      BY <3>1, <3>2
  <2>6. /\ Past(f)'[p] = Past(f)[p] \union {y}
        /\ \A x \in Past(f)[p] : x \in Turns /\ Play!Before(x, y)
    BY <1>9, <2>1, <2>2, <2>4, PastIs
  <2> QED
    BY <2>1, <2>5, <2>6
<1> HIDE DEF y
<1>18. y = <<piece.round, piece.part>> /\ Play!IsTurn(piece, p, y)
  BY <1>8 DEF y, Play!IsTurn
<1>19. AllInTurn'
  <2> SUFFICES ASSUME NEW g \in Play!Files PROVE InTurn(file'[g], Past(g)')
    BY DEF AllInTurn
  <2>1. InTurn(file[g], Past(g))
    BY DEF AllInTurn
  <2>2. CASE g = f
    <3> DEFINE s == Past(f)
               t == Past(f)'
               r == file[f]
               n == file'[f]
    <3>1. /\ \A z \in Players : z # p => t[z] = s[z]
          /\ t[p] = s[p] \union {y}
          /\ \A x \in s[p] : x \in Turns /\ Play!Before(x, y)
          /\ y \in Turns
      BY <1>17
    <3>4. InTurn(r, s)
      BY <2>1, <2>2
    <3>2. /\ r.pieces \in Seq(Pieces) /\ n.pieces = Append(r.pieces, piece)
          /\ piece.by = p
          /\ y = <<piece.round, piece.part>> /\ piece \in Pieces
      BY <1>4, <1>5, <1>6, <1>8, <1>18
    <3> HIDE DEF s, t, r, n
    <3>5. OneMore(r, s, n, t, p, piece, y)
      BY <3>1, <3>2 DEF OneMore
    <3>3. InTurn(n, t)
      BY <3>4, <3>5, AppendInTurn
    <3> QED
      BY <2>2, <3>3 DEF n, t
  <2>3. CASE g # f
    <3>2. file[g].pieces \in Seq(Pieces)
      BY DEF PlayTypes
    <3>1. \A k \in DOMAIN file[g].pieces : file[g].pieces[k].by \in Players
      <4>1. \A k \in DOMAIN file[g].pieces : file[g].pieces[k] \in Pieces
        BY <3>2, LenProperties
      <4> QED
        BY <4>1 DEF Pieces
    <3>3. \A k \in DOMAIN file[g].pieces :
            Past(g)'[file[g].pieces[k].by] = Past(g)[file[g].pieces[k].by]
      BY <1>17, <2>3, <3>1
    <3>4. InTurn(file[g], Past(g)')
      BY <2>1, <3>2, <3>3, PassInTurn
    <3> QED
      BY <1>6, <2>3, <3>4
  <2> QED
    BY <2>2, <2>3
<1>20. Kept'
  <2> SUFFICES ASSUME NEW q \in Players, NEW g \in Play!Files,
                      \A r \in Players \ {q} : turn'[r] = "own",
                      file'[g].owner = HomeOwner(q, g)'
               PROVE  HoldsAll(file'[g], Past(g)', q)
    BY DEF Kept
  <2>1. q = p
    BY <1>1
  <2>2. HoldsAll(file[g], Past(g), p)
    <3>1. file[g].owner = HomeOwner(p, g)
      BY <1>1, <1>7, <2>1 DEF HomeOwner, Play!euid
    <3> QED
      BY <1>1, <2>1, <3>1 DEF Kept
  <2>3. CASE g # f
    BY <1>6, <1>17, <2>1, <2>2, <2>3 DEF HoldsAll
  <2>4. CASE g = f
    <3>1. /\ DOMAIN file'[f].pieces = 1 .. Len(file[f].pieces) + 1
          /\ file'[f].pieces[Len(file[f].pieces) + 1] = piece
          /\ Len(file[f].pieces) + 1 \in 1 .. Len(file[f].pieces) + 1
          /\ \A k \in DOMAIN file[f].pieces :
               k \in DOMAIN file'[f].pieces /\ file'[f].pieces[k] = file[f].pieces[k]
      BY <1>5, <1>6, AppendProperties, LenProperties
    <3>2. \A x \in Past(f)[p] :
            \E k \in DOMAIN file'[f].pieces : Play!IsTurn(file'[f].pieces[k], p, x)
      BY <2>2, <2>4, <3>1 DEF HoldsAll
    <3>3. \E k \in DOMAIN file'[f].pieces : Play!IsTurn(file'[f].pieces[k], p, y)
      BY <1>18, <3>1
    <3> QED
      BY <1>17, <2>1, <2>4, <3>2, <3>3 DEF HoldsAll
  <2> QED
    BY <2>3, <2>4
<1> QED
  BY <1>10, <1>12, <1>13, <1>14, <1>16, <1>19, <1>20
(* A write to a file that could not be opened: the three of the line fail, *)
(* and the player has nothing in that file.                                *)
LEMMA WriteShutStep ==
  ASSUME PlayInv, NEW p \in Players, Play!Write(p),
         NEW f \in Play!Files, f = IF written[p] < 3 THEN "own" ELSE "scores",
         f \notin fds[p]
  PROVE  PlayInv'
<1> USE DEF PlayInv
<1>1. /\ turn[p] = "write" /\ written[p] < 6
      /\ written' = [written EXCEPT ![p] = @ + 3]
      /\ UNCHANGED <<setuid, saved_ids, creators, turn, ids, round, fds, file>>
  BY DEF Play!Write
<1>2. /\ round[p] \in 1 .. 4 /\ written[p] \in {0, 3}
      /\ ids[p].eff = (IF round[p] % 2 = 1 THEN p ELSE Play!euid(p))
      /\ file[f].owner # ids[p].eff
  BY <1>1 DEF PlayTypes, ProgressIsRight, WritesAreRight
<1>3. /\ written'[p] = written[p] + 3
      /\ \A q \in Players : q # p => written'[q] = written[q]
      /\ written' \in [Players -> 0 .. 6]
  BY <1>1, <1>2 DEF PlayTypes
<1>4. PlayTypes'
  BY <1>1, <1>3 DEF PlayTypes
<1>5. IdsAreRight' /\ OwnersAreRight' /\ PiecesAreHome'
  BY <1>1 DEF IdsAreRight, RightIds, OwnersAreRight, PiecesAreHome, HomeOwner, Play!euid
<1>6. ProgressIsRight'
  BY <1>1, <1>3 DEF ProgressIsRight, NeverMade
<1>7. WritesAreRight'
  <2> SUFFICES ASSUME NEW q \in Players, turn'[q] = "write"
               PROVE  /\ ids'[q].eff = (IF round'[q] % 2 = 1 THEN q ELSE Play!euid(q)')
                      /\ fds'[q] = {g \in Play!Files : file'[g].owner = ids'[q].eff}
                      /\ "own" \notin fds'[q] => written'[q] \notin {1, 2}
                      /\ "scores" \notin fds'[q] => written'[q] \notin {4, 5}
    BY DEF WritesAreRight
  <2>1. turn[q] = "write" /\ Play!euid(q)' = Play!euid(q)
    BY <1>1 DEF Play!euid
  <2>2. CASE q = p
    BY <1>1, <1>2, <1>3, <2>1, <2>2 DEF WritesAreRight
  <2>3. CASE q # p
    BY <1>1, <1>3, <2>1, <2>3 DEF WritesAreRight
  <2> QED
    BY <2>2, <2>3
<1>8. \A g \in Play!Files, q \in Players : \A x :
        /\ x \in Past(g)'[q] <=> x \in Turns /\ Done(setuid, round[q], written'[q], g, x)
        /\ x \in Past(g)[q] <=> x \in Turns /\ Done(setuid, round[q], written[q], g, x)
  <2>1. \A g \in Play!Files, q \in Players :
          Past(g)'[q] = {x \in Turns : Done(setuid, round[q], written'[q], g, x)}
    BY <1>1 DEF Past, Play!SoFar, Turns, Done, Play!Rounds
  <2> QED
    BY <2>1, PastIs
(* More is past only where it is the player's turn. *)
<1>9. /\ \A g \in Play!Files, q \in Players :
           g # f \/ q # p => Past(g)'[q] = Past(g)[q]
      /\ file[f].owner = HomeOwner(p, f) => Past(f)'[p] = Past(f)[p]
  <2>1. setuid \in BOOLEAN /\ written[p] \in 0 .. 5 /\ written'[p] \in 0 .. 6
    BY <1>2, <1>3 DEF PlayTypes
  <2>2. ASSUME NEW g \in Play!Files, NEW q \in Players, g # f \/ q # p
        PROVE  Past(g)'[q] = Past(g)[q]
    <3>1. CASE q # p
      <4>1. written'[q] = written[q]
        BY <1>3, <3>1
      <4>2. \A x : x \in Past(g)'[q] <=> x \in Past(g)[q]
        BY <1>8, <4>1
      <4> QED
        BY <4>2
    <3>2. CASE q = p
      <4>1. \A x \in Turns : Done(setuid, round[p], written'[p], g, x)
                              <=> Done(setuid, round[p], written[p], g, x)
        BY <1>2, <1>3, <2>1, <2>2, <3>2, NothingPassed
      <4>2. \A x : x \in Past(g)'[p] <=> x \in Past(g)[p]
        BY <1>8, <4>1
      <4> QED
        BY <3>2, <4>2
    <3> QED
      BY <3>1, <3>2
  <2>3. ASSUME file[f].owner = HomeOwner(p, f)
        PROVE  Past(f)'[p] = Past(f)[p]
    <3>1. ~(round[p] % 2 = (IF f = "own" THEN 1 ELSE 0) \/ ~setuid)
      BY <1>2, <2>3 DEF HomeOwner, Play!euid
    <3>2. \A x \in Turns : Done(setuid, round[p], written'[p], f, x)
                            <=> Done(setuid, round[p], written[p], f, x)
      BY <1>2, <2>1, <3>1, NothingPassed
    <3>3. \A x : x \in Past(f)'[p] <=> x \in Past(f)[p]
      BY <1>8, <3>2
    <3> QED
      BY <3>3
  <2> QED
    BY <2>2, <2>3
<1>10. AllInTurn'
  <2> SUFFICES ASSUME NEW g \in Play!Files PROVE InTurn(file[g], Past(g)')
    BY <1>1 DEF AllInTurn
  <2>1. InTurn(file[g], Past(g)) /\ file[g].pieces \in Seq(Pieces)
    BY DEF AllInTurn, PlayTypes
  <2>2. \A k \in DOMAIN file[g].pieces :
          file[g].pieces[k].by \in Players /\ file[g].owner = HomeOwner(file[g].pieces[k].by, g)
    <3>1. \A k \in DOMAIN file[g].pieces : file[g].pieces[k] \in Pieces
      BY <2>1, LenProperties
    <3> QED
      BY <3>1 DEF Pieces, PiecesAreHome
  <2>3. \A k \in DOMAIN file[g].pieces :
          Past(g)'[file[g].pieces[k].by] = Past(g)[file[g].pieces[k].by]
    BY <1>9, <2>2
  <2> QED
    BY <2>1, <2>3, PassInTurn
<1>11. Kept'
  <2> SUFFICES ASSUME NEW q \in Players, NEW g \in Play!Files,
                      \A r \in Players \ {q} : turn'[r] = "own",
                      file'[g].owner = HomeOwner(q, g)'
               PROVE  HoldsAll(file'[g], Past(g)', q)
    BY DEF Kept
  <2>1. q = p
    BY <1>1
  <2>2. file[g].owner = HomeOwner(p, g)
    BY <1>1, <2>1 DEF HomeOwner, Play!euid
  <2>3. HoldsAll(file[g], Past(g), p)
    BY <1>1, <2>1, <2>2 DEF Kept
  <2>4. Past(g)'[p] = Past(g)[p]
    BY <1>9, <2>2
  <2> QED
    BY <1>1, <2>1, <2>3, <2>4 DEF HoldsAll
<1> QED
  BY <1>4, <1>5, <1>6, <1>7, <1>10, <1>11

LEMMA CloseStep ==
  ASSUME PlayInv, NEW p \in Players, Play!CloseBoth(p)
  PROVE  PlayInv'
<1> USE DEF PlayInv
<1>1. /\ turn[p] = "write" /\ written[p] = 6
      /\ turn' = [turn EXCEPT ![p] = IF round[p] = 4 THEN "done" ELSE "switch"]
      /\ round' = [round EXCEPT ![p] = @ + 1]
      /\ written' = [written EXCEPT ![p] = 0]
      /\ fds' = [fds EXCEPT ![p] = {}]
      /\ UNCHANGED <<setuid, saved_ids, creators, ids, file>>
  BY DEF Play!CloseBoth, Play!Rounds
<1>2. round[p] \in 1 .. 4
  BY <1>1 DEF PlayTypes, ProgressIsRight
<1>3. /\ turn' \in [Players -> Places] /\ round' \in [Players -> 1 .. 5]
      /\ written' \in [Players -> 0 .. 6] /\ fds' \in [Players -> SUBSET Play!Files]
      /\ turn'[p] = (IF round[p] = 4 THEN "done" ELSE "switch")
      /\ round'[p] = round[p] + 1 /\ written'[p] = 0
      /\ \A q \in Players : q # p => /\ turn'[q] = turn[q] /\ round'[q] = round[q]
                                    /\ written'[q] = written[q] /\ fds'[q] = fds[q]
  BY <1>1, <1>2 DEF PlayTypes, Places
<1>4. PlayTypes'
  BY <1>1, <1>3 DEF PlayTypes
<1>5. IdsAreRight' /\ OwnersAreRight' /\ PiecesAreHome'
  BY <1>1 DEF IdsAreRight, RightIds, OwnersAreRight, PiecesAreHome, HomeOwner, Play!euid
<1>6. ProgressIsRight'
  <2>1. \A g : NeverMade(g)' = NeverMade(g)
    BY <1>1 DEF NeverMade
  <2>2. NeverMade("own") /\ NeverMade("scores")
    BY <1>1 DEF ProgressIsRight
  <2> QED
    BY <1>2, <1>3, <2>1, <2>2 DEF ProgressIsRight
<1>7. WritesAreRight'
  <2> SUFFICES ASSUME NEW q \in Players, turn'[q] = "write"
               PROVE  /\ ids'[q].eff = (IF round'[q] % 2 = 1 THEN q ELSE Play!euid(q)')
                      /\ fds'[q] = {g \in Play!Files : file'[g].owner = ids'[q].eff}
                      /\ "own" \notin fds'[q] => written'[q] \notin {1, 2}
                      /\ "scores" \notin fds'[q] => written'[q] \notin {4, 5}
    BY DEF WritesAreRight
  <2>1. q # p /\ turn[q] = "write" /\ Play!euid(q)' = Play!euid(q)
    BY <1>1, <1>3 DEF Play!euid
  <2> QED
    BY <1>1, <1>3, <2>1 DEF WritesAreRight
<1>8. \A g \in Play!Files, q \in Players : Past(g)'[q] = Past(g)[q]
  <2> SUFFICES ASSUME NEW g \in Play!Files, NEW q \in Players
               PROVE  Past(g)'[q] = Past(g)[q]
    OBVIOUS
  <2>1. \A x : x \in Past(g)[q] <=> x \in Turns /\ Done(setuid, round[q], written[q], g, x)
    BY PastIs
  <2>2. \A x : x \in Past(g)'[q] <=> x \in Turns /\ Done(setuid, round'[q], written'[q], g, x)
    BY <1>1 DEF Past, Play!SoFar, Turns, Done, Play!Rounds
  <2>3. \A x \in Turns : Done(setuid, round'[q], written'[q], g, x)
                          <=> Done(setuid, round[q], written[q], g, x)
    <3>1. setuid \in BOOLEAN
      BY DEF PlayTypes
    <3>2. CASE q = p
      BY <1>1, <1>2, <1>3, <3>1, <3>2, RoundPassed
    <3>3. CASE q # p
      BY <1>3, <3>3
    <3> QED
      BY <3>2, <3>3
  <2>4. \A x : x \in Past(g)'[q] <=> x \in Past(g)[q]
    BY <2>1, <2>2, <2>3
  <2> QED
    BY <2>4
<1>9. AllInTurn'
  <2> SUFFICES ASSUME NEW g \in Play!Files PROVE InTurn(file[g], Past(g)')
    BY <1>1 DEF AllInTurn
  <2>1. InTurn(file[g], Past(g)) /\ file[g].pieces \in Seq(Pieces)
    BY DEF AllInTurn, PlayTypes
  <2>2. \A k \in DOMAIN file[g].pieces : file[g].pieces[k].by \in Players
    <3>1. \A k \in DOMAIN file[g].pieces : file[g].pieces[k] \in Pieces
      BY <2>1, LenProperties
    <3> QED
      BY <3>1 DEF Pieces
  <2>3. \A k \in DOMAIN file[g].pieces :
          Past(g)'[file[g].pieces[k].by] = Past(g)[file[g].pieces[k].by]
    BY <1>8, <2>2
  <2> QED
    BY <2>1, <2>3, PassInTurn
<1>10. Kept'
  <2> SUFFICES ASSUME NEW q \in Players, NEW g \in Play!Files,
                      \A r \in Players \ {q} : turn'[r] = "own",
                      file'[g].owner = HomeOwner(q, g)'
               PROVE  HoldsAll(file'[g], Past(g)', q)
    BY DEF Kept
  <2>1. q = p
    BY <1>3
  <2>2. \A r \in Players \ {q} : turn[r] = "own"
    BY <1>3, <2>1
  <2>3. file[g].owner = HomeOwner(q, g)
    BY <1>1 DEF HomeOwner, Play!euid
  <2>4. HoldsAll(file[g], Past(g), q)
    BY <2>2, <2>3 DEF Kept
  <2> QED
    BY <1>1, <1>8, <2>4 DEF HoldsAll
<1> QED
  BY <1>4, <1>5, <1>6, <1>7, <1>9, <1>10

LEMMA PlayStep == PlayInv /\ [Play!Next]_playVars => PlayInv'
<1> SUFFICES ASSUME PlayInv, [Play!Next]_playVars PROVE PlayInv'
  OBVIOUS
<1>1. ASSUME NEW p \in Players, Play!MakeOwn(p) PROVE PlayInv'
  <2>1. RightIds(Play!undo_setuid(p), p) /\ Play!undo_setuid(p).eff = HomeOwner(p, "own")
    BY PlayerAgain DEF PlayInv, IdsAreRight, HomeOwner
  <2>2. /\ turn[p] = "own" /\ turn' = [turn EXCEPT ![p] = "scores"]
        /\ ids' = [ids EXCEPT ![p] = Play!undo_setuid(p)]
        /\ file' = Play!Truncated("own", Play!undo_setuid(p))
        /\ UNCHANGED <<setuid, saved_ids, creators, round, written, fds>>
    BY <1>1 DEF Play!MakeOwn
  <2>3. PICK f \in Play!Files : f = "own"
    BY DEF Play!Files
  <2> QED
    BY <2>1, <2>2, <2>3, MakeStep
<1>2. ASSUME NEW p \in Players, Play!MakeScores(p) PROVE PlayInv'
  <2>1. RightIds(Play!do_setuid(p), p) /\ Play!do_setuid(p).eff = HomeOwner(p, "scores")
    BY OwnerAgain DEF PlayInv, IdsAreRight, HomeOwner
  <2>2. /\ turn[p] = "scores" /\ turn' = [turn EXCEPT ![p] = "switch"]
        /\ ids' = [ids EXCEPT ![p] = Play!do_setuid(p)]
        /\ file' = Play!Truncated("scores", Play!do_setuid(p))
        /\ UNCHANGED <<setuid, saved_ids, creators, round, written, fds>>
    BY <1>2 DEF Play!MakeScores
  <2>3. PICK f \in Play!Files : f = "scores"
    BY DEF Play!Files
  <2> QED
    BY <2>1, <2>2, <2>3, MakeStep
<1>3. ASSUME NEW p \in Players, Play!Write(p) PROVE PlayInv'
  <2>1. PICK f \in Play!Files : f = IF written[p] < 3 THEN "own" ELSE "scores"
    BY DEF Play!Files
  <2> QED
    BY <1>3, <2>1, WriteOpenStep, WriteShutStep
<1>4. ASSUME UNCHANGED playVars PROVE PlayInv'
  <2> USE <1>4 DEF playVars, PlayInv
  <2>1. PlayTypes' /\ IdsAreRight' /\ OwnersAreRight' /\ PiecesAreHome'
    BY DEF PlayTypes, IdsAreRight, RightIds, OwnersAreRight, PiecesAreHome, HomeOwner,
      Play!euid
  <2>2. ProgressIsRight' /\ WritesAreRight'
    BY DEF ProgressIsRight, NeverMade, WritesAreRight, Play!euid
  <2>3. \A f : Past(f)' = Past(f)
    BY DEF Past, Play!SoFar
  <2>4. AllInTurn'
    BY <2>3 DEF AllInTurn
  <2>5. Kept'
    BY <2>3 DEF Kept, HoldsAll, HomeOwner, Play!euid
  <2> QED
    BY <2>1, <2>2, <2>4, <2>5
<1> QED
  BY <1>1, <1>2, <1>3, <1>4, SwitchStep, CloseStep DEF Play!Next

LEMMA PlayInvSuffices == PlayInv => PlayersTakeTurns /\ Play!TypeOK
<1> SUFFICES ASSUME PlayInv PROVE PlayersTakeTurns /\ Play!TypeOK
  OBVIOUS
<1>1. Play!PlayersTakeTurns
  <2> SUFFICES ASSUME NEW f \in Play!Files, NEW k \in DOMAIN file[f].pieces
               PROVE  LET pieces == file[f].pieces
                      IN  /\ file[f].owner = IF f = "own" THEN pieces[k].by
                                                          ELSE Play!euid(pieces[k].by)
                          /\ pieces[k].info =
                               IF setuid /\ f = "own" THEN "niramay" ELSE "temp"
                          /\ \E x \in Play!SoFar(pieces[k].by, f) :
                               Play!IsTurn(pieces[k], pieces[k].by, x)
                          /\ \A x \in Play!SoFar(pieces[k].by, f) :
                               Play!Before(<<pieces[k].round, pieces[k].part>>, x) =>
                                 \E l \in DOMAIN pieces :
                                   Play!IsTurn(pieces[l], pieces[k].by, x)
                          /\ \A l \in DOMAIN pieces :
                               k < l /\ pieces[k].by = pieces[l].by =>
                                 Play!Before(<<pieces[k].round, pieces[k].part>>,
                                             <<pieces[l].round, pieces[l].part>>)
    BY DEF Play!PlayersTakeTurns
  <2>1. InTurn(file[f], Past(f)) /\ file[f].pieces \in Seq(Pieces)
    BY DEF PlayInv, AllInTurn, PlayTypes
  <2>2. file[f].pieces[k] \in Pieces
    BY <2>1, LenProperties
  <2>3. file[f].pieces[k].by \in Players
    BY <2>2 DEF Pieces
  <2>4. Past(f)[file[f].pieces[k].by] = Play!SoFar(file[f].pieces[k].by, f)
    BY <2>3 DEF Past
  <2>5. /\ file[f].owner = HomeOwner(file[f].pieces[k].by, f)
        /\ file[f].pieces[k].info = IF setuid /\ f = "own" THEN "niramay" ELSE "temp"
    BY DEF PlayInv, PiecesAreHome
  <2> QED
    BY <2>1, <2>4, <2>5 DEF InTurn, HomeOwner
<1>2. Play!NothingIsLost
  BY DEF PlayInv, Kept, HoldsAll, Past, HomeOwner, Play!NothingIsLost
<1>3. Play!TypeOK
  BY DEF PlayInv, PlayTypes, Users, Places, Play!TypeOK, Play!Rounds
<1> QED
  BY <1>1, <1>2, <1>3 DEF PlayersTakeTurns

(* game.c: whoever plays, and whoever the files belong to at first, the    *)
(* players' lines are in turn, whole and in the right file, and a player   *)
(* that plays alone loses nothing.                                         *)
THEOREM TurnsAreTaken == MCSpec => []PlayersTakeTurns
<1>1. MCInit => PlayInv
  BY PlayStarts DEF MCInit, PlayInit
<1>2. PlayInv /\ [MCNext]_all => PlayInv'
  <2> SUFFICES ASSUME PlayInv, [MCNext]_all PROVE PlayInv'
    OBVIOUS
  <2>1. [Play!Next]_playVars
    BY DEF MCNext, all
  <2> QED
    BY <2>1, PlayStep
<1>3. PlayInv => PlayersTakeTurns
  BY PlayInvSuffices
<1> QED
  BY <1>1, <1>2, <1>3, PTL DEF MCSpec

-----------------------------------------------------------------------------
(* realpath.c. *)
PathNames == Names \union {"?"}
Components == Names \union {"dir", ".", "..", "?"}

(* The entries of the directory are resolved one after the other; each is  *)
(* still to come, being followed, listed, or no link.                      *)
ListingIsRight ==
  /\ stage = "follow" =>
       path \in Paths!Entries /\ path \notin todo /\ \A k \in DOMAIN strs : strs[k].of # path
  /\ \A j, k \in DOMAIN strs : strs[j].of = strs[k].of => j = k
  /\ \A k \in DOMAIN strs :
       strs[k].of \notin todo /\ (arg = << >> => Paths!IsLink(strs[k].of))
  /\ \A l \in Paths!Entries :
       \/ l \in todo
       \/ stage = "follow" /\ l = path
       \/ \E k \in DOMAIN strs : strs[k].of = l
       \/ arg = << >> /\ ~Paths!IsLink(l)
  /\ stage = "printed" => todo = {}

(* buf2 is what the links have come to so far.                             *)
FollowingIsRight ==
  stage = "follow" =>
    IF flag
      THEN /\ buf2 = buf1 /\ Paths!IsLink(path)
           /\ Paths!OneDirectory(path) => buf2 \in Paths!Reached(path)
      ELSE buf2 = path

NamesAreRight ==
  \A k \in DOMAIN strs :
    Paths!IsLink(strs[k].of) /\ Paths!OneDirectory(strs[k].of) =>
      \E e \in Paths!Reached(strs[k].of) :
        ~Paths!IsLink(e) /\ strs[k].name = Paths!Last(e)

PathsTypes ==
  /\ fs \in [Paths!Locations -> Targets \union {Paths!File}]
  /\ dotted \in BOOLEAN
  /\ arg \in Arguments
  /\ stage \in {"next", "follow", "printed"}
  /\ flag \in BOOLEAN
  /\ todo \subseteq Paths!Entries
  /\ Paths!Last(buf1) \in PathNames
  /\ buf2 \in Seq(Components)
  /\ path \in Seq(Components)
  /\ strs \in Seq([of : Paths!Entries, name : PathNames])

PathsInv == PathsTypes /\ ListingIsRight /\ FollowingIsRight /\ NamesAreRight

-----------------------------------------------------------------------------
(* Paths of one or two components.                                         *)
LEMMA PairIs ==
  ASSUME NEW S, NEW s \in Seq(S), Len(s) = 2 PROVE s = <<s[1], s[2]>>
<1>1. s[1] \in S /\ s[2] \in S
  BY LenProperties
<1>2. \A a, b \in S : <<a, b>> \in Seq(S) /\ Len(<<a, b>>) = 2
                       /\ <<a, b>>[1] = a /\ <<a, b>>[2] = b
  OBVIOUS
<1>3. \A i \in 1 .. 2 : s[i] = <<s[1], s[2]>>[i]
  OBVIOUS
<1> DEFINE t == <<s[1], s[2]>>
<1>4. t \in Seq(S) /\ Len(t) = 2 /\ \A i \in 1 .. 2 : s[i] = t[i]
  BY <1>1, <1>2, <1>3
<1> HIDE DEF t
<1>5. s = t
  BY <1>4, SeqEqual
<1> QED
  BY <1>5 DEF t
LEMMA PairsAre ==
  /\ \A c, d : Append(<<c>>, d) = <<c, d>> /\ <<c>> \o <<d>> = <<c, d>>
  /\ \A c, d : SubSeq(<<c, d>>, 1, 1) = <<c>> /\ SubSeq(<<c>>, 1, 0) = << >>
<1>1. ASSUME NEW c, NEW d PROVE Append(<<c>>, d) = <<c, d>> /\ <<c>> \o <<d>> = <<c, d>>
  <2>1. /\ <<c>> \in Seq({c, d}) /\ <<d>> \in Seq({c, d}) /\ Len(<<c>>) = 1
        /\ Len(<<d>>) = 1 /\ <<c>>[1] = c /\ <<d>>[1] = d
    OBVIOUS
  <2>2. /\ Append(<<c>>, d) \in Seq({c, d}) /\ Len(Append(<<c>>, d)) = 2
        /\ Append(<<c>>, d)[1] = c /\ Append(<<c>>, d)[2] = d
    BY <2>1, AppendProperties
  <2>3. /\ <<c>> \o <<d>> \in Seq({c, d}) /\ Len(<<c>> \o <<d>>) = 2
        /\ (<<c>> \o <<d>>)[1] = c /\ (<<c>> \o <<d>>)[2] = d
    BY <2>1, ConcatProperties
  <2> QED
    BY <2>2, <2>3, PairIs
<1>2. ASSUME NEW c, NEW d PROVE SubSeq(<<c, d>>, 1, 1) = <<c>>
  <2> DEFINE s == SubSeq(<<c, d>>, 1, 1)
  <2>1. s \in Seq({c}) /\ Len(s) = 1 /\ s[1] = c
    <3>1. \A i \in 1 .. 1 : <<c, d>>[i] = c
      OBVIOUS
    <3> HIDE DEF s
    <3>2. /\ SubSeq(<<c, d>>, 1, 1) \in Seq({c})
          /\ Len(SubSeq(<<c, d>>, 1, 1)) = IF 1 <= 1 THEN 1 - 1 + 1 ELSE 0
          /\ \A i \in 1 .. 1 - 1 + 1 : SubSeq(<<c, d>>, 1, 1)[i] = <<c, d>>[1 + i - 1]
      BY <3>1, SubSeqProperties
    <3> QED
      BY <3>1, <3>2 DEF s
  <2> HIDE DEF s
  <2>2. s = <<s[1]>>
    BY <2>1
  <2> QED
    BY <2>1, <2>2 DEF s
<1> QED
  BY <1>1, <1>2

LEMMA WalkOne ==
  ASSUME NEW from, NEW c, c # ".."
  PROVE  Paths!Walk(from, <<c>>) = Append(from, c)
<1> DEFINE p == <<c>>
           F(a) == [n \in 0 .. Len(p) |->
                       IF n = 0 THEN from
                       ELSE IF p[n] = ".." /\ a[n - 1] # << >> THEN Paths!Front(a[n - 1])
                       ELSE Append(a[n - 1], p[n])]
           w == CHOOSE a : a = F(a)
           g == [n \in 0 .. 1 |-> IF n = 0 THEN from ELSE Append(from, c)]
<1>1. Len(p) = 1 /\ p[1] = c
  OBVIOUS
<1>2. g = F(g)
  <2>1. g[0] = from /\ g[1] = Append(from, c)
    OBVIOUS
  <2>2. F(g) = [n \in 0 .. 1 |-> IF n = 0 THEN from ELSE Append(from, c)]
    BY <1>1, <2>1
  <2> QED
    BY <2>2
<1>3. w = F(w)
  <2> HIDE DEF F, g
  <2> QED
    BY <1>2
<1>4. w[0] = from /\ w[1] = Append(from, c)
  <2> HIDE DEF w
  <2> QED
    BY <1>1, <1>3
<1>5. Paths!Walk(from, p) = w[Len(p)]
  BY DEF Paths!Walk
<1> QED
  BY <1>1, <1>4, <1>5

LEMMA WalkTwo ==
  ASSUME NEW from, NEW b, NEW c, b # "..", c # ".."
  PROVE  Paths!Walk(from, <<b, c>>) = Append(Append(from, b), c)
<1> DEFINE p == <<b, c>>
           F(a) == [n \in 0 .. Len(p) |->
                       IF n = 0 THEN from
                       ELSE IF p[n] = ".." /\ a[n - 1] # << >> THEN Paths!Front(a[n - 1])
                       ELSE Append(a[n - 1], p[n])]
           w == CHOOSE a : a = F(a)
           g == [n \in 0 .. 2 |-> IF n = 0 THEN from ELSE IF n = 1 THEN Append(from, b)
                                  ELSE Append(Append(from, b), c)]
<1>1. Len(p) = 2 /\ p[1] = b /\ p[2] = c
  OBVIOUS
<1>2. g = F(g)
  <2>1. g[0] = from /\ g[1] = Append(from, b) /\ g[2] = Append(Append(from, b), c)
    OBVIOUS
  <2>2. F(g) = [n \in 0 .. 2 |-> IF n = 0 THEN from ELSE IF n = 1 THEN Append(from, b)
                                 ELSE Append(Append(from, b), c)]
    BY <1>1, <2>1
  <2> QED
    BY <2>2
<1>3. w = F(w)
  <2> HIDE DEF F, g
  <2> QED
    BY <1>2
<1>4. w[2] = Append(Append(from, b), c)
  <2>1. w[0] = from /\ w[1] = Append(from, b)
    <3> HIDE DEF w
    <3> QED
      BY <1>1, <1>3
  <2> HIDE DEF w
  <2> QED
    BY <1>1, <1>3, <2>1
<1>5. Paths!Walk(from, p) = w[Len(p)]
  BY DEF Paths!Walk
<1> QED
  BY <1>1, <1>4, <1>5

(* Where an entry is, and what is beside it.                               *)
LEMMA LocationsAre ==
  /\ "dir" \notin Names /\ "." \notin Names /\ ".." \notin Names
  /\ \A n \in Names : Paths!Walk(<< >>, <<n>>) = <<n>>
  /\ \A n \in Names : Paths!Walk(<< >>, <<"dir", n>>) = <<"dir", n>>
  /\ \A n \in Names : Paths!Walk(<<"dir">>, <<n>>) = <<"dir", n>>
  /\ Paths!Walk(<< >>, <<"dir">>) = <<"dir">>
<1>1. "dir" \notin Names /\ "." \notin Names /\ ".." \notin Names
  BY FilesAssumption DEF Paths!PathsAssumption, Paths!Dir
<1>2. "dir" # ".."
  OBVIOUS
<1>3. \A n \in Names : n # ".."
  BY <1>1
<1>4. /\ \A c : Append(<< >>, c) = <<c>>
      /\ \A c : Append(<<"dir">>, c) = <<"dir", c>>
      /\ \A c : Append(Append(<< >>, "dir"), c) = <<"dir", c>>
  <2>1. \A c : Append(<< >>, c) = <<c>>
    OBVIOUS
  <2> QED
    BY <2>1, PairsAre
<1>5. \A n \in Names : Paths!Walk(<< >>, <<n>>) = <<n>>
  BY <1>3, <1>4, WalkOne
<1>6. \A n \in Names : Paths!Walk(<< >>, <<"dir", n>>) = <<"dir", n>>
  <2> SUFFICES ASSUME NEW n \in Names PROVE Paths!Walk(<< >>, <<"dir", n>>) = <<"dir", n>>
    OBVIOUS
  <2>1. Paths!Walk(<< >>, <<"dir", n>>) = Append(Append(<< >>, "dir"), n)
    BY <1>2, <1>3, WalkTwo
  <2> QED
    BY <1>4, <2>1
<1>7. \A n \in Names : Paths!Walk(<<"dir">>, <<n>>) = <<"dir", n>>
  BY <1>3, <1>4, WalkOne
<1>8. Paths!Walk(<< >>, <<"dir">>) = <<"dir">>
  BY <1>2, <1>4, WalkOne
<1> QED
  BY <1>1, <1>5, <1>6, <1>7, <1>8

LEMMA FrontsAre ==
  /\ \A c : Paths!Front(<<c>>) = << >> /\ Paths!Last(<<c>>) = c
  /\ \A c : Paths!Front(<<"dir", c>>) = <<"dir">> /\ Paths!Last(<<"dir", c>>) = c
<1>1. \A c : /\ Len(<<c>>) = 1 /\ <<c>>[1] = c
             /\ Len(<<"dir", c>>) = 2 /\ <<"dir", c>>[2] = c
  OBVIOUS
<1> QED
  BY <1>1, PairsAre DEF Paths!Front, Paths!Last

LEMMA EntriesAre ==
  ASSUME arg \in Arguments, NEW l \in Paths!Entries
  PROVE  /\ Paths!Walk(<< >>, l) = l
         /\ l \in Paths!Locations \/ l = <<"dir">>
<1>1. l \in Paths!Locations \/ l = <<"dir">>
  BY FilesAssumption DEF Paths!Entries, Paths!Locations, Paths!PathsAssumption, Paths!Dir
<1> QED
  BY <1>1, LocationsAre DEF Paths!Locations, Paths!Dir

LEMMA ReachedIs ==
  ASSUME NEW l
  PROVE  /\ l \in Paths!Reached(l)
         /\ Paths!Reached(l) \subseteq Paths!Beside(l)
         /\ \A x \in Paths!Reached(l) :
              Paths!Target(x) \in Paths!Beside(l) => Paths!Target(x) \in Paths!Reached(l)
BY DEF Paths!Reached, Paths!Beside

(* A target of one component, relative to the path or to where the link is.*)
LEMMA OneStep ==
  ASSUME PathsTypes, Paths!OneDirectory(path), path \in Paths!Locations,
         NEW x \in Paths!Reached(path), Paths!IsLink(x)
  PROVE  /\ Paths!Relative(fs[x]) = Paths!Target(x)
         /\ Paths!Target(x) \in Paths!Reached(path)
<1>1. x \in Paths!Locations /\ fs[x] \in Targets
  BY DEF Paths!IsLink, PathsTypes
<1>2. PICK n \in Names : fs[x] = <<n>>
  <2>1. Len(fs[x]) = 1
    BY DEF Paths!OneDirectory
  <2>2. fs[x] \in Seq(Names \union {Paths!Dir, ".."}) /\ Paths!Last(fs[x]) \in Names
    BY <1>1, FilesAssumption DEF Paths!PathsAssumption
  <2>3. fs[x] = <<fs[x][1]>>
    BY <2>1, <2>2
  <2>4. fs[x][1] \in Names
    BY <2>1, <2>2 DEF Paths!Last
  <2> QED
    BY <2>3, <2>4
<1>3. Paths!Front(x) = Paths!Front(path)
  BY ReachedIs DEF Paths!Beside
<1>4. ~Paths!HasDotDot(<<n>>)
  BY LocationsAre DEF Paths!HasDotDot, Paths!ToSet
<1>5. Paths!Relative(fs[x]) =
        IF Paths!HasDot(Paths!dirname(path)) THEN <<n>> ELSE Paths!dirname(path) \o <<n>>
  BY <1>2, <1>4 DEF Paths!Relative
<1>6. Paths!Target(x) = Paths!Walk(Paths!Front(path), <<n>>)
  BY <1>2, <1>3 DEF Paths!Target
<1>7. CASE \E m \in Names : path = <<m>>
  <2>1. Paths!dirname(path) = <<".">> /\ Paths!HasDot(<<".">>)
    BY <1>7 DEF Paths!dirname, Paths!HasDot, Paths!ToSet
  <2>2. Paths!Target(x) = <<n>>
    BY <1>6, <1>7, LocationsAre, FrontsAre
  <2>3. <<n>> \in Paths!Beside(path)
    BY <1>7, FrontsAre DEF Paths!Beside, Paths!Locations
  <2> QED
    BY <1>5, <2>1, <2>2, <2>3, ReachedIs
<1>8. CASE \E m \in Names : path = <<"dir", m>>
  <2>1. ~dotted
    BY <1>8 DEF Paths!OneDirectory
  <2>2. Paths!dirname(path) = <<"dir">>
    BY <1>8, FrontsAre DEF Paths!dirname
  <2>3. ~Paths!HasDot(<<"dir">>)
    BY <2>1 DEF Paths!HasDot, Paths!ToSet
  <2>4. <<"dir">> \o <<n>> = <<"dir", n>>
    BY PairsAre
  <2>5. Paths!Target(x) = <<"dir", n>>
    BY <1>6, <1>8, LocationsAre, FrontsAre
  <2>6. <<"dir", n>> \in Paths!Beside(path)
    BY <1>8, FrontsAre DEF Paths!Beside, Paths!Locations, Paths!Dir
  <2> QED
    BY <1>5, <2>2, <2>3, <2>4, <2>5, <2>6, ReachedIs
<1> QED
  BY <1>7, <1>8 DEF Paths!Locations, Paths!Dir

(* The last component of a target stays the last.                          *)
LEMMA RelativeEnds ==
  ASSUME buf2 \in Seq(Components), path \in Seq(Components), NEW t \in Targets
  PROVE  /\ Paths!Relative(t) \in Seq(Components)
         /\ Paths!Last(Paths!Relative(t)) \in Names
<1>1. t \in Seq(Components) /\ t # << >> /\ Paths!Last(t) \in Names
  <2>1. /\ t \in Seq(Names \union {Paths!Dir, ".."}) /\ t # << >>
        /\ Paths!Last(t) \in Names
    BY FilesAssumption DEF Paths!PathsAssumption
  <2>2. Names \union {Paths!Dir, ".."} \subseteq Components
    BY DEF Components, Paths!Dir
  <2> QED
    BY <2>1, <2>2, SeqMonotonic
<1>2. PICK p \in Seq(Components) :
        Paths!Relative(t) = IF Paths!HasDot(Paths!dirname(p)) THEN t
                            ELSE Paths!dirname(p) \o t
  BY DEF Paths!Relative
<1>3. CASE Paths!HasDot(Paths!dirname(p))
  BY <1>1, <1>2, <1>3
<1>4. CASE ~Paths!HasDot(Paths!dirname(p))
  <2>1. Paths!dirname(p) = Paths!Front(p)
    BY <1>4 DEF Paths!dirname, Paths!HasDot, Paths!ToSet
  <2>2. Paths!Front(p) \in Seq(Components)
    <3>1. Len(p) - 1 \in Int /\ \A i \in 1 .. Len(p) - 1 : p[i] \in Components
      BY <1>2, LenProperties
    <3> QED
      BY <3>1, SubSeqProperties DEF Paths!Front
  <2>3. Paths!Relative(t) = Paths!Front(p) \o t
    BY <1>2, <1>4, <2>1
  <2>4. Len(t) \in Nat /\ Len(t) > 0
    BY <1>1, LenProperties, EmptySeq
  <2> DEFINE f == Paths!Front(p)
             r == f \o t
  <2>5. /\ r \in Seq(Components) /\ Len(r) = Len(f) + Len(t) /\ Len(f) \in Nat
        /\ \A i \in 1 .. Len(f) + Len(t) : r[i] = IF i <= Len(f) THEN f[i] ELSE t[i - Len(f)]
    BY <1>1, <2>2, ConcatProperties, LenProperties
  <2> HIDE DEF f, r
  <2>6. r[Len(r)] = t[Len(t)]
    <3>1. /\ Len(f) + Len(t) \in 1 .. Len(f) + Len(t) /\ ~(Len(f) + Len(t) <= Len(f))
          /\ Len(f) + Len(t) - Len(f) = Len(t)
      BY <2>4, <2>5
    <3> QED
      BY <2>5, <3>1
  <2> QED
    BY <1>1, <2>3, <2>5, <2>6 DEF Paths!Last, f, r
<1> QED
  BY <1>3, <1>4

(* What is a link, and where it leads, does not change.                    *)
LEMMA LinksStay ==
  ASSUME UNCHANGED <<fs, dotted, arg>>
  PROVE  /\ \A l : Paths!IsLink(l)' = Paths!IsLink(l)
         /\ \A l : Paths!Reached(l)' = Paths!Reached(l)
         /\ \A l : Paths!OneDirectory(l)' = Paths!OneDirectory(l)
         /\ Paths!Entries' = Paths!Entries
<1>1. \A l : Paths!IsLink(l)' = Paths!IsLink(l)
  BY DEF Paths!IsLink
<1>2. \A l : Paths!Target(l)' = Paths!Target(l)
  BY <1>1 DEF Paths!Target
<1>3. \A l : Paths!Reached(l)' = Paths!Reached(l)
  BY <1>2 DEF Paths!Reached
<1>4. \A l : Paths!OneDirectory(l)' = Paths!OneDirectory(l)
  BY <1>1, <1>3 DEF Paths!OneDirectory
<1>5. Paths!Entries' = Paths!Entries
  BY DEF Paths!Entries
<1> QED
  BY <1>1, <1>3, <1>4, <1>5

LEMMA PathsStart == Paths!Init \/ PathsEnded => PathsInv
<1> SUFFICES ASSUME Paths!Init \/ PathsEnded PROVE PathsInv
  OBVIOUS
<1>1. strs = << >> /\ path = << >> /\ buf1 = <<"?">> /\ buf2 = <<"?">>
  BY DEF Paths!Init, PathsEnded, Paths!Uninitialised
<1>2. PathsTypes
  <2>1. << >> \in Seq(Components) /\ <<"?">> \in Seq(Components)
    BY DEF Components
  <2>2. << >> \in Seq([of : Paths!Entries, name : PathNames])
    BY EmptySeq
  <2>3. Paths!Last(<<"?">>) \in PathNames
    BY FrontsAre DEF PathNames
  <2>4. /\ fs \in [Paths!Locations -> Targets \union {Paths!File}] /\ dotted \in BOOLEAN
        /\ arg \in Arguments /\ stage \in {"next", "follow", "printed"} /\ flag \in BOOLEAN
        /\ todo \subseteq Paths!Entries
    BY FilesAssumption DEF Paths!Init, PathsEnded
  <2> QED
    BY <1>1, <2>1, <2>2, <2>3, <2>4 DEF PathsTypes
<1>3. ListingIsRight
  <2>1. DOMAIN strs = {} /\ stage # "follow"
    BY <1>1 DEF Paths!Init, PathsEnded
  <2>2. CASE Paths!Init
    BY <2>1, <2>2 DEF ListingIsRight, Paths!Init
  <2>3. CASE PathsEnded
    BY <2>1, <2>3 DEF ListingIsRight, PathsEnded, Paths!IsLink
  <2> QED
    BY <2>2, <2>3
<1>4. FollowingIsRight
  BY DEF FollowingIsRight, Paths!Init, PathsEnded
<1>5. NamesAreRight
  BY <1>1 DEF NamesAreRight
<1> QED
  BY <1>2, <1>3, <1>4, <1>5 DEF PathsInv

LEMMA NextEntryStep ==
  ASSUME PathsInv, NEW entry \in todo, Paths!NextEntry(entry)
  PROVE  PathsInv'
<1> USE DEF PathsInv
<1>1. /\ stage = "next" /\ stage' = "follow" /\ todo' = todo \ {entry}
      /\ path' = entry /\ buf2' = entry /\ flag' = FALSE
      /\ UNCHANGED <<fs, dotted, arg, buf1, strs>>
  BY DEF Paths!NextEntry
<1>2. /\ \A l : Paths!IsLink(l)' = Paths!IsLink(l)
      /\ \A l : Paths!Reached(l)' = Paths!Reached(l)
      /\ \A l : Paths!OneDirectory(l)' = Paths!OneDirectory(l)
      /\ Paths!Entries' = Paths!Entries
  BY <1>1, LinksStay
<1>3. entry \in Paths!Entries
  BY DEF PathsTypes
<1>4. entry \in Seq(Components)
  <2>1. entry \in Paths!Locations \/ entry = <<"dir">>
    BY <1>3, EntriesAre DEF PathsTypes
  <2>2. \A n \in Names : n \in Components
    BY DEF Components
  <2>3. "dir" \in Components
    BY DEF Components
  <2>4. \A c, d \in Components : <<c>> \in Seq(Components) /\ <<c, d>> \in Seq(Components)
    OBVIOUS
  <2> QED
    BY <2>1, <2>2, <2>3, <2>4 DEF Paths!Locations, Paths!Dir
<1>5. PathsTypes'
  BY <1>1, <1>2, <1>4 DEF PathsTypes
<1>6. ListingIsRight'
  <2>1. \A k \in DOMAIN strs : strs[k].of # entry
    BY DEF ListingIsRight
  <2> QED
    BY <1>1, <1>2, <1>3, <2>1 DEF ListingIsRight
<1>7. FollowingIsRight'
  BY <1>1 DEF FollowingIsRight
<1>8. NamesAreRight'
  BY <1>1, <1>2 DEF NamesAreRight
<1> QED
  BY <1>5, <1>6, <1>7, <1>8

LEMMA FollowLinkStep ==
  ASSUME PathsInv, Paths!FollowLink
  PROVE  PathsInv'
<1> USE DEF PathsInv
<1> DEFINE here == Paths!Walk(<< >>, buf2)
<1>1. /\ stage = "follow" /\ Paths!IsLink(here)
      /\ buf1' = Paths!Relative(fs[here]) /\ buf2' = buf1' /\ flag' = TRUE
      /\ UNCHANGED <<fs, dotted, arg, todo, path, strs, stage>>
  BY DEF Paths!FollowLink
<1>2. /\ \A l : Paths!IsLink(l)' = Paths!IsLink(l)
      /\ \A l : Paths!Reached(l)' = Paths!Reached(l)
      /\ \A l : Paths!OneDirectory(l)' = Paths!OneDirectory(l)
      /\ Paths!Entries' = Paths!Entries
  BY <1>1, LinksStay
<1>3. here \in Paths!Locations /\ fs[here] \in Targets
  BY <1>1 DEF Paths!IsLink, PathsTypes
<1>4. PathsTypes'
  <2>1. buf1' \in Seq(Components) /\ Paths!Last(buf1') \in Names
    BY <1>1, <1>3, RelativeEnds DEF PathsTypes
  <2> QED
    BY <1>1, <1>2, <2>1 DEF PathsTypes, PathNames
<1>5. ListingIsRight'
  BY <1>1, <1>2 DEF ListingIsRight
<1>6. path \in Paths!Entries /\ Paths!Walk(<< >>, path) = path
  BY <1>1, EntriesAre DEF ListingIsRight, PathsTypes
<1>7. Paths!IsLink(path)
  BY <1>1, <1>6 DEF FollowingIsRight
<1>8. ASSUME Paths!OneDirectory(path) PROVE buf1' \in Paths!Reached(path)
  <2>1. path \in Paths!Locations
    BY <1>7 DEF Paths!IsLink
  <2>2. buf2 \in Paths!Reached(path)
    BY <1>1, <1>8, ReachedIs DEF FollowingIsRight
  <2>3. buf2 \in Paths!Locations
    BY <2>1, <2>2, ReachedIs DEF Paths!Beside
  <2>4. here = buf2
    BY <2>3, LocationsAre DEF Paths!Locations, Paths!Dir
  <2> QED
    BY <1>1, <1>8, <2>1, <2>2, <2>4, OneStep
<1>9. FollowingIsRight'
  BY <1>1, <1>2, <1>7, <1>8 DEF FollowingIsRight
<1>10. NamesAreRight'
  BY <1>1, <1>2 DEF NamesAreRight
<1> QED
  BY <1>4, <1>5, <1>9, <1>10

LEMMA NoLinkStep ==
  ASSUME PathsInv, Paths!NoLink
  PROVE  PathsInv'
<1> USE DEF PathsInv
<1> DEFINE here == Paths!Walk(<< >>, buf2)
           r == [of |-> path, name |-> Paths!Last(buf1)]
           R == [of : Paths!Entries, name : PathNames]
<1>1. /\ stage = "follow" /\ ~Paths!IsLink(here) /\ stage' = "next"
      /\ strs' = IF flag \/ arg # << >> THEN Append(strs, r) ELSE strs
      /\ UNCHANGED <<fs, dotted, arg, todo, path, buf1, buf2, flag>>
  BY DEF Paths!NoLink, Paths!Listed
<1>2. /\ \A l : Paths!IsLink(l)' = Paths!IsLink(l)
      /\ \A l : Paths!Reached(l)' = Paths!Reached(l)
      /\ \A l : Paths!OneDirectory(l)' = Paths!OneDirectory(l)
      /\ Paths!Entries' = Paths!Entries
  BY <1>1, LinksStay
<1>3. path \in Paths!Entries /\ Paths!Walk(<< >>, path) = path
  BY <1>1, EntriesAre DEF ListingIsRight, PathsTypes
<1>4. CASE flag \/ arg # << >>
  <2>1. r \in R /\ r.of = path /\ r.name = Paths!Last(buf1)
    BY <1>3 DEF PathsTypes
  <2>2. strs' = Append(strs, r) /\ strs \in Seq(R)
    BY <1>1, <1>4 DEF PathsTypes
  <2> HIDE DEF r, R
  <2>3. /\ strs' \in Seq(R) /\ DOMAIN strs' = DOMAIN strs \union {Len(strs) + 1}
        /\ strs'[Len(strs) + 1] = r /\ Len(strs) + 1 \notin DOMAIN strs
        /\ \A k \in DOMAIN strs : strs'[k] = strs[k]
    <3>1. /\ strs' \in Seq(R) /\ Len(strs') = Len(strs) + 1 /\ Len(strs) \in Nat
          /\ strs'[Len(strs) + 1] = r /\ \A k \in 1 .. Len(strs) : strs'[k] = strs[k]
      BY <2>1, <2>2, AppendProperties, LenProperties
    <3>2. DOMAIN strs = 1 .. Len(strs) /\ DOMAIN strs' = 1 .. Len(strs')
      BY <2>2, <3>1, LenProperties
    <3> QED
      BY <3>1, <3>2
  <2>4. PathsTypes'
    BY <1>1, <1>2, <2>3 DEF PathsTypes, R
  <2>5. ListingIsRight'
    <3>1. arg = << >> => Paths!IsLink(path)
      BY <1>1, <1>4 DEF FollowingIsRight
    <3>2. path \notin todo /\ \A k \in DOMAIN strs : strs[k].of # path
      BY <1>1 DEF ListingIsRight
    <3>3. \A j, k \in DOMAIN strs' : strs'[j].of = strs'[k].of => j = k
      BY <2>1, <2>3, <3>2 DEF ListingIsRight
    <3>4. \A k \in DOMAIN strs' :
            strs'[k].of \notin todo' /\ (arg' = << >> => Paths!IsLink(strs'[k].of))
      BY <1>1, <2>1, <2>3, <3>1, <3>2 DEF ListingIsRight
    <3>5. \A l \in Paths!Entries :
            \/ l \in todo'
            \/ \E k \in DOMAIN strs' : strs'[k].of = l
            \/ arg' = << >> /\ ~Paths!IsLink(l)
      BY <1>1, <2>1, <2>3 DEF ListingIsRight
    <3> QED
      BY <1>1, <1>2, <3>3, <3>4, <3>5 DEF ListingIsRight
  <2>6. FollowingIsRight'
    BY <1>1 DEF FollowingIsRight
  <2>7. ASSUME Paths!IsLink(path), Paths!OneDirectory(path)
        PROVE  \E e \in Paths!Reached(path) : ~Paths!IsLink(e) /\ r.name = Paths!Last(e)
    <3>1. flag
      BY <1>1, <1>3, <2>7 DEF FollowingIsRight
    <3>2. buf2 = buf1 /\ buf2 \in Paths!Reached(path)
      BY <1>1, <2>7, <3>1 DEF FollowingIsRight
    <3>3. buf2 \in Paths!Locations
      BY <2>7, <3>2, ReachedIs DEF Paths!Beside, Paths!IsLink
    <3>4. here = buf2
      BY <3>3, LocationsAre DEF Paths!Locations, Paths!Dir
    <3> QED
      BY <1>1, <2>1, <3>2, <3>4
  <2>8. NamesAreRight'
    BY <1>2, <2>1, <2>3, <2>7 DEF NamesAreRight
  <2> QED
    BY <2>4, <2>5, <2>6, <2>8
<1>5. CASE ~(flag \/ arg # << >>)
  <2>1. strs' = strs /\ arg = << >> /\ ~Paths!IsLink(path)
    BY <1>1, <1>3, <1>5 DEF FollowingIsRight, PathsTypes
  <2>2. PathsTypes'
    BY <1>1, <1>2, <2>1 DEF PathsTypes
  <2>3. ListingIsRight'
    BY <1>1, <1>2, <2>1 DEF ListingIsRight
  <2>4. FollowingIsRight' /\ NamesAreRight'
    BY <1>1, <1>2, <2>1 DEF FollowingIsRight, NamesAreRight
  <2> QED
    BY <2>2, <2>3, <2>4
<1> QED
  BY <1>4, <1>5

LEMMA PathsStep == PathsInv /\ [Paths!Next]_pathsVars => PathsInv'
<1> SUFFICES ASSUME PathsInv, [Paths!Next]_pathsVars PROVE PathsInv'
  OBVIOUS
<1>1. ASSUME UNCHANGED <<fs, dotted, arg, todo, path, buf1, buf2, flag, strs>>,
             stage' = "follow" <=> stage = "follow", stage' = "printed" => todo = {},
             stage' \in {"next", "follow", "printed"}
      PROVE  PathsInv'
  <2>1. /\ \A l : Paths!IsLink(l)' = Paths!IsLink(l)
        /\ \A l : Paths!Reached(l)' = Paths!Reached(l)
        /\ \A l : Paths!OneDirectory(l)' = Paths!OneDirectory(l)
        /\ Paths!Entries' = Paths!Entries
    BY <1>1, LinksStay
  <2>2. PathsTypes' /\ ListingIsRight'
    BY <1>1, <2>1 DEF PathsInv, PathsTypes, ListingIsRight
  <2>3. FollowingIsRight' /\ NamesAreRight'
    BY <1>1, <2>1 DEF PathsInv, FollowingIsRight, NamesAreRight
  <2> QED
    BY <2>2, <2>3 DEF PathsInv
<1>2. CASE Paths!PrintNames
  <2>1. /\ UNCHANGED <<fs, dotted, arg, todo, path, buf1, buf2, flag, strs>>
        /\ stage # "follow" /\ stage' = "printed" /\ todo = {}
    BY <1>2 DEF Paths!PrintNames
  <2> QED
    BY <1>1, <2>1
<1>3. CASE UNCHANGED pathsVars
  <2>1. /\ UNCHANGED <<fs, dotted, arg, todo, path, buf1, buf2, flag, strs>>
        /\ stage' = "follow" <=> stage = "follow"
        /\ stage' = "printed" => todo = {}
        /\ stage' \in {"next", "follow", "printed"}
    BY <1>3 DEF pathsVars, PathsInv, PathsTypes, ListingIsRight
  <2> QED
    BY <1>1, <2>1
<1> QED
  BY <1>2, <1>3, NextEntryStep, FollowLinkStep, NoLinkStep DEF Paths!Next

LEMMA PathsInvSuffices == PathsInv => ResolvesLinks /\ Paths!TypeOK
<1> SUFFICES ASSUME PathsInv PROVE ResolvesLinks /\ Paths!TypeOK
  OBVIOUS
<1> USE DEF PathsInv
<1>1. \A k \in DOMAIN strs : strs[k] \in [of : Paths!Entries, name : PathNames]
  <2> DEFINE R == [of : Paths!Entries, name : PathNames]
  <2>1. strs \in Seq(R)
    BY DEF PathsTypes
  <2> HIDE DEF R
  <2>2. \A k \in DOMAIN strs : strs[k] \in R
    BY <2>1, LenProperties
  <2> QED
    BY <2>2 DEF R
<1>2. Paths!IsInjective([k \in DOMAIN strs |-> strs[k].of])
  BY DEF ListingIsRight, Paths!IsInjective
<1>3. stage = "printed" =>
        {strs[k].of : k \in DOMAIN strs} =
          IF arg = << >> THEN {l \in Paths!Entries : Paths!IsLink(l)} ELSE {arg}
  <2> SUFFICES ASSUME stage = "printed"
               PROVE  {strs[k].of : k \in DOMAIN strs} =
                        IF arg = << >> THEN {l \in Paths!Entries : Paths!IsLink(l)} ELSE {arg}
    OBVIOUS
  <2>1. \A k \in DOMAIN strs : strs[k].of \in Paths!Entries
    BY <1>1
  <2>2. \A l \in Paths!Entries :
          (\E k \in DOMAIN strs : strs[k].of = l) \/ (arg = << >> /\ ~Paths!IsLink(l))
    BY DEF ListingIsRight
  <2>3. CASE arg = << >>
    BY <2>1, <2>2, <2>3 DEF ListingIsRight
  <2>4. CASE arg # << >>
    <3>1. Paths!Entries = {arg}
      BY <2>4 DEF Paths!Entries
    <3> QED
      BY <2>1, <2>2, <2>4, <3>1
  <2> QED
    BY <2>3, <2>4
<1>4. Paths!ResolvesLinks
  BY <1>2, <1>3 DEF NamesAreRight, Paths!ResolvesLinks
<1>5. Paths!TypeOK
  BY <1>1 DEF PathsTypes, PathNames, Paths!TypeOK, Paths!ToSet
<1> QED
  BY <1>4, <1>5 DEF ResolvesLinks

(* realpath.c: whatever the links are and in whatever order readdir returns*)
(* the entries, links that stay in their directory are resolved, and each  *)
(* link is listed once and nothing else.                                   *)
THEOREM LinksAreResolved == MCSpec => []ResolvesLinks
<1>1. MCInit => PathsInv
  BY PathsStart DEF MCInit
<1>2. PathsInv /\ [MCNext]_all => PathsInv'
  <2> SUFFICES ASSUME PathsInv, [MCNext]_all PROVE PathsInv'
    OBVIOUS
  <2>1. [Paths!Next]_pathsVars
    BY DEF MCNext, all
  <2> QED
    BY <2>1, PathsStep
<1>3. PathsInv => ResolvesLinks
  BY PathsInvSuffices
<1> QED
  BY <1>1, <1>2, <1>3, PTL DEF MCSpec

-----------------------------------------------------------------------------
(* The programs together. *)
FilesInv ==
  /\ CopyInv /\ MovesInv /\ RedirectInv /\ PlayInv /\ PathsInv
  /\ start \in Contents

LEMMA FilesInit == MCInit => FilesInv
<1> SUFFICES ASSUME MCInit PROVE FilesInv
  OBVIOUS
<1>1. ASSUME FifoEnded PROVE CopyInv
  <2>1. << >> \in Seq(1 .. Lines) /\ << >> \o << >> = << >>
    BY EmptySeq, ConcatEmptySeq
  <2>2. LinesRead \in 0 .. Lines
    BY <1>1, FifoAssumption DEF FifoEnded, LinesRead
  <2>3. TypeOK
    <3>1. /\ empty \subseteq 1 .. Lines /\ gotten \in 0 .. Lines
          /\ pipe \in Seq(1 .. Lines) /\ received \in Seq(1 .. Lines)
      BY <1>1, <2>1, FifoAssumption DEF FifoEnded
    <3>2. unterminated \in BOOLEAN /\ fifo \in BOOLEAN /\ met \in BOOLEAN
      BY <1>1 DEF FifoEnded
    <3>3. pc \in [{"client", "server"} ->
                   {"mkfifo", "open", "open_blocked", "gets", "stat_before", "write",
                    "stat_after", "read", "stat", "last_stat", "close", "done",
                    "failed"}]
      <4>1. pc = [client |-> "failed", server |-> "failed"]
        BY <1>1 DEF FifoEnded
      <4> QED
        BY <4>1
    <3> QED
      BY <3>1, <3>2, <3>3 DEF TypeOK
  <2>4. ClientInv /\ ServerInv
    BY <1>1, <2>2 DEF FifoEnded, ClientInv, ServerInv
  <2>5. IsText(<< >>, 0)
    BY DEF IsText, ToSet
  <2>6. SentInv
    BY <1>1, <2>1, <2>5 DEF FifoEnded, SentInv, Handled
  <2> QED
    BY <2>3, <2>4, <2>6 DEF CopyInv
<1>2. CopyInv
  BY <1>1, CopyInit DEF MCInit
<1>3. ASSUME MovesEnded PROVE MovesInv /\ start \in Contents
  <2>1. << >> \in Contents /\ << >> \in Seq(Bytes) /\ Len(<< >>) = 0
    BY FilesAssumption, EmptySeq
  <2>2. MovesTypes
    <3>1. /\ main = "append" /\ offset = 0 /\ pos = 0 /\ count = 0 /\ odd = FALSE
          /\ start = << >> /\ data = << >> /\ copy = << >>
      BY <1>3 DEF MovesEnded
    <3>2. offset \in Int /\ pos \in Nat /\ count \in Nat
      BY <3>1
    <3> QED
      BY <2>1, <3>1, <3>2 DEF MovesTypes, Programs
  <2>3. Moves!OnlyOverwrites
    BY <1>3, <2>1 DEF MovesEnded, Moves!OnlyOverwrites
  <2>4. AppendInv /\ TruncateInv /\ RdwrInv /\ HoleInv /\ ChildInv
    BY <1>3 DEF MovesEnded, AppendInv, TruncateInv, RdwrInv, HoleInv, ChildInv
  <2> QED
    BY <1>3, <2>1, <2>2, <2>3, <2>4 DEF MovesInv, MovesEnded
<1>4. MovesInv /\ start \in Contents
  <2>1. CASE Moves!Init
    BY <2>1, MovesInit DEF Moves!Init
  <2>2. CASE MovesEnded
    BY <1>3, <2>2
  <2> QED
    BY <2>1, <2>2 DEF MCInit
<1>5. ASSUME DupsEnded PROVE RedirectInv
  <2>1. fd \in [Dups!Descriptors -> {"closed"}] /\ 0 \in Dups!Descriptors
    BY <1>5 DEF DupsEnded, Dups!Descriptors
  <2>2. Dups!TypeOK
    BY <1>5, <2>1 DEF DupsEnded, Dups!TypeOK
  <2>3. StdinInv /\ StdoutInv /\ ReachedInv
    BY <1>5 DEF DupsEnded, StdinInv, StdoutInv, ReachedInv, Dups!MayRedirect
  <2> QED
    BY <1>5, <2>2, <2>3 DEF DupsEnded, RedirectInv
<1>6. RedirectInv
  BY <1>5, RedirectInit DEF MCInit
<1>7. PlayInv /\ PathsInv
  BY PlayStarts, PathsStart DEF MCInit, PlayInit
<1> QED
  BY <1>2, <1>4, <1>6, <1>7 DEF FilesInv

LEMMA StartStays == [Moves!Next]_movesVars => start' = start
<1> SUFFICES ASSUME [Moves!Next]_movesVars PROVE start' = start
  OBVIOUS
<1>1. \A from, to : Moves!Goto(from, to) => start' = start
  BY DEF Moves!Goto
<1>2. \A from, bytes, to : Moves!Write(from, bytes, to) => start' = start
  BY <1>1 DEF Moves!Write
<1>3. \A from, p, to : Moves!Lseek(from, p, to) => start' = start
  BY <1>1 DEF Moves!Lseek
<1>4. Moves!append => start' = start
  BY <1>1, <1>2, <1>3 DEF Moves!append, Moves!Reopen
<1>5. Moves!mytruncate => start' = start
  BY <1>1 DEF Moves!mytruncate, Moves!Measure, Moves!WriteZero
<1>6. Moves!rdwr => start' = start
  BY <1>1, <1>2 DEF Moves!rdwr, Moves!ReadTen, Moves!ReadOne
<1>7. Moves!hole_in_file => start' = start
  BY <1>1, <1>2, <1>3 DEF Moves!hole_in_file, Moves!CopyOne
<1>8. Moves!child_file_handle => start' = start
  BY <1>2 DEF Moves!child_file_handle
<1> QED
  BY <1>4, <1>5, <1>6, <1>7, <1>8 DEF Moves!Next, movesVars

LEMMA FilesStep == FilesInv /\ [MCNext]_all => FilesInv'
<1> SUFFICES ASSUME FilesInv, [MCNext]_all PROVE FilesInv'
  OBVIOUS
<1>1. CopyInv'
  <2>1. [Next]_vars
    BY DEF MCNext, all
  <2> QED
    BY <2>1, CopyStep DEF FilesInv
<1>2. MovesInv' /\ start' \in Contents
  <2>1. [Moves!Next]_movesVars
    BY DEF MCNext, all
  <2>2. start' = start
    BY <2>1, StartStays
  <2> QED
    BY <2>1, <2>2, MovesStep DEF FilesInv
<1>3. RedirectInv'
  <2>1. [Dups!main]_dupsVars
    BY DEF MCNext, all
  <2> QED
    BY <2>1, RedirectStep DEF FilesInv
<1>4. PlayInv' /\ PathsInv'
  <2>1. [Play!Next]_playVars /\ [Paths!Next]_pathsVars
    BY DEF MCNext, all
  <2> QED
    BY <2>1, PlayStep, PathsStep DEF FilesInv
<1> QED
  BY <1>1, <1>2, <1>3, <1>4 DEF FilesInv

LEMMA FilesInvSuffices ==
  FilesInv => /\ TypesOK /\ CopyIsFaithful /\ FilesAreRight /\ RedirectsOrFails
              /\ PlayersTakeTurns /\ ResolvesLinks
<1> SUFFICES ASSUME FilesInv
             PROVE  /\ TypesOK /\ CopyIsFaithful /\ FilesAreRight /\ RedirectsOrFails
                    /\ PlayersTakeTurns /\ ResolvesLinks
  OBVIOUS
<1>1. Moves!TypeOK
  <2>1. Bytes = 0 .. Moves!EOF
    BY DEF Bytes, Moves!EOF
  <2> QED
    BY <2>1 DEF FilesInv, MovesInv, MovesTypes, Programs, Moves!TypeOK
<1>2. TypesOK
  BY <1>1, PlayInvSuffices, PathsInvSuffices DEF FilesInv, CopyInv, RedirectInv, TypesOK
<1>3. RedirectsOrFails
  BY RedirectSuffices DEF FilesInv
<1> QED
  BY <1>2, <1>3, CopyInvSuffices, MovesInvSuffices, PlayInvSuffices, PathsInvSuffices
     DEF FilesInv

(* The programs about files, whichever of them is run: the types of their  *)
(* variables.                                                              *)
THEOREM AllTypesCorrect == MCSpec => []TypesOK
<1>1. MCInit => FilesInv
  BY FilesInit
<1>2. FilesInv /\ [MCNext]_all => FilesInv'
  BY FilesStep
<1>3. FilesInv => TypesOK
  BY FilesInvSuffices
<1> QED
  BY <1>1, <1>2, <1>3, PTL DEF MCSpec
=============================================================================

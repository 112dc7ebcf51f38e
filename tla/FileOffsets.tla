----------------------------- MODULE FileOffsets -----------------------------
(***************************************************************************)
(* Programs that move about in one open file: assignment_1/append.c,       *)
(* truncate.c, rdwr.c and hole_in_file.c, and assignment_6/                *)
(* child_file_handle.c, whose child writes through its parent's descriptor.*)
(* A byte is a number; what a string consists of does not matter.          *)
(***************************************************************************)
EXTENDS Integers, Sequences, FiniteSets, SequencesExt

CONSTANTS Contents,   \* what the files may hold before
          Offsets,    \* the offsets truncate is called with
          WriteMayFail

VARIABLES main,     \* which program runs
          start,    \* what its file held before
          offset,   \* the argument of truncate
          odd,      \* undefined or left to the build: rdwr's ch starts with 1s in
                    \* its upper bytes; hole_in_file's char is signed
          at,       \* where the program is
          data,     \* what its file holds now
          pos,      \* the offset of its open file
          o_append, \* whether the file is open with O_APPEND
          count,    \* the zeros mytruncate has to write; the bytes hole_in_file
                    \* has copied
          copy      \* the file it copies to

vars == <<main, start, offset, odd, at, data, pos, o_append, count, copy>>

EOF == 255   \* the byte that a signed char or an int of 1s takes for EOF
Text(first, n) == [k \in 1 .. n |-> first + k]
Hashes == [k \in 1 .. 10 |-> 35]

Init ==
  /\ main \in {"append", "truncate", "rdwr", "hole_in_file", "child_file_handle"}
  /\ start \in Contents
  /\ offset \in IF main = "truncate" THEN Offsets ELSE {0}
  /\ odd \in IF main \in {"rdwr", "hole_in_file"} THEN BOOLEAN ELSE {FALSE}
  /\ at = main
  /\ data = start
  /\ pos = 0
  /\ o_append = (main = "child_file_handle")
  /\ count = 0
  /\ copy \in IF main = "hole_in_file" THEN Contents ELSE {<< >>}

Goto(from, to) ==
  /\ at = from
  /\ at' = to
  /\ UNCHANGED <<main, start, offset, odd>>

Longer(m, n) == IF m > n THEN m ELSE n

(* c once bytes are written at offset p: a gap reads as zeros. *)
Written(c, p, bytes) ==
  [k \in 1 .. Longer(Len(c), p + Len(bytes)) |->
     IF k \in p + 1 .. p + Len(bytes) THEN bytes[k - p]
     ELSE IF k <= Len(c) THEN c[k] ELSE 0]

(* write(): with O_APPEND at the end, else at the offset. *)
Put(bytes) ==
  LET p == IF o_append THEN Len(data) ELSE pos
  IN  data' = Written(data, p, bytes) /\ pos' = p + Len(bytes)

(* A write that fails, or is short, ends the program. *)
Write(from, bytes, to) ==
  /\ \/ Goto(from, to) /\ Put(bytes)
     \/ /\ WriteMayFail
        /\ Goto(from, "failed")
        /\ \E n \in 0 .. Len(bytes) - 1 : Put(SubSeq(bytes, 1, n))
  /\ UNCHANGED <<o_append, count, copy>>

Lseek(from, p, to) ==
  /\ Goto(from, IF p < 0 THEN "failed" ELSE to)
  /\ pos' = IF p < 0 THEN pos ELSE p
  /\ UNCHANGED <<data, o_append, count, copy>>

-----------------------------------------------------------------------------
(* append.c writes, opens the file anew with O_APPEND, and calls lseek on  *)
(* the number of the descriptor it closed, which open has given out again. *)
(* Mutant of Flags: the file is opened anew without O_APPEND.              *)
NoFlags == FALSE

Flags == TRUE   \* O_APPEND

Reopen ==
  /\ Goto("reopen", "lseek")
  /\ pos' = 0
  /\ o_append' = Flags
  /\ UNCHANGED <<data, count, copy>>

append ==
  \/ Write("append", Text(96, 5), "reopen")
  \/ Reopen
  \/ Lseek("lseek", 0, "write")
  \/ Write("write", Text(48, 5), "done")

-----------------------------------------------------------------------------
(* Mutant of FirstZero: the byte at the offset is not overwritten. *)
FirstZeroLate(size) == IF size < offset THEN size + 1 ELSE offset + 1

(* mytruncate(): the offset it seeks to, and how many zeros it writes.     *)
FirstZero(size) == IF size < offset THEN size + 1 ELSE offset

Zeros(size) == IF size < offset THEN offset - size ELSE size - offset + 1

(* lseek to the size, and from there to where the zeros begin. *)
Measure ==
  LET size == Len(data)
  IN  /\ IF size = offset THEN Goto("truncate", "done") /\ UNCHANGED <<pos, count>>
         ELSE IF offset < 0 THEN Goto("truncate", "failed") /\ UNCHANGED <<pos, count>>
         ELSE /\ Goto("truncate", "zero")
              /\ pos' = FirstZero(size)
              /\ count' = Zeros(size)
      /\ UNCHANGED <<data, o_append, copy>>

WriteZero ==
  /\ IF count = 0
       THEN Goto("zero", "done") /\ UNCHANGED <<data, pos, count>>
       ELSE \/ Goto("zero", "zero") /\ Put(<<0>>) /\ count' = count - 1
            \/ WriteMayFail /\ Goto("zero", "failed") /\ UNCHANGED <<data, pos, count>>
  /\ UNCHANGED <<o_append, copy>>

mytruncate == Measure \/ WriteZero

-----------------------------------------------------------------------------
(* Mutant of Drained: the loop stops one byte early. *)
DrainedEarly(p) == p + 1 >= Len(data)

(* Where rdwr.c's loop over read(fd, &ch, 1) stops: at the end of file, or *)
(* after a byte that makes ch equal to EOF.                                *)
Drained(p) == p >= Len(data) \/ (odd /\ p > 10 /\ data[p] = EOF)

ReadTen ==
  /\ Goto("rdwr", IF Len(data) < 10 THEN "failed" ELSE "drain")
  /\ pos' = IF Len(data) < 10 THEN Len(data) ELSE 10
  /\ UNCHANGED <<data, o_append, count, copy>>

ReadOne ==
  /\ at = "drain"
  /\ IF Drained(pos) THEN Goto("drain", "hello") /\ UNCHANGED pos
                     ELSE Goto("drain", "drain") /\ pos' = pos + 1
  /\ UNCHANGED <<data, o_append, count, copy>>

rdwr == ReadTen \/ ReadOne \/ Write("hello", Text(104, 5), "done")

-----------------------------------------------------------------------------
(* Mutant of Copied: zeros are copied. *)
CopiedAll(byte) == <<byte>>

(* What hole_in_file.c writes of a byte it has read: no zeros, to a file   *)
(* that is not truncated.                                                  *)
Copied(byte) == IF byte = 0 THEN << >> ELSE <<byte>>

CopyOne ==
  /\ at = "copy"
  /\ IF pos = Len(data) \/ (odd /\ data[pos + 1] = EOF)
       THEN Goto("copy", "done") /\ UNCHANGED <<pos, count, copy>>
       ELSE LET bytes == Copied(data[pos + 1])
            IN  /\ pos' = pos + 1
                /\ \/ /\ Goto("copy", "copy")
                      /\ copy' = Written(copy, count, bytes)
                      /\ count' = count + Len(bytes)
                   \/ /\ WriteMayFail
                      /\ bytes # << >>
                      /\ Goto("copy", "failed")
                      /\ UNCHANGED <<count, copy>>
  /\ UNCHANGED <<data, o_append>>

hole_in_file ==
  \/ Lseek("hole_in_file", 10, "first")
  \/ Write("first", Hashes, "seek")
  \/ Lseek("seek", 30, "second")
  \/ Write("second", Hashes, "rewind")
  \/ Lseek("rewind", 0, "copy")
  \/ CopyOne

child_file_handle == Write("child_file_handle", Text(99, 4), "done")

Next == append \/ mytruncate \/ rdwr \/ hole_in_file \/ child_file_handle

Spec == Init /\ [][Next]_vars

-----------------------------------------------------------------------------
TypeOK ==
  /\ main \in {"append", "truncate", "rdwr", "hole_in_file", "child_file_handle"}
  /\ start \in Contents
  /\ data \in Seq(0 .. EOF)
  /\ pos \in Nat
  /\ count \in Nat
  /\ copy \in Seq(0 .. EOF)

(* Where the file, or what rdwr.c takes for its end, ends behind the first *)
(* ten bytes; "hello" belongs at the first such place.                     *)
Ends == {p \in 10 .. Len(start) : p = Len(start) \/ (odd /\ p > 10 /\ start[p] = EOF)}

FirstEnd(p) == p \in Ends /\ \A q \in Ends : p <= q

(* The bytes a program may overwrite. *)
Overwrites ==
  CASE main = "append" -> 1 .. 5
    [] main = "truncate" -> offset + 1 .. Len(start)
    [] main = "rdwr" -> UNION {p + 1 .. p + 5 : p \in {q \in Ends : FirstEnd(q)}}
    [] main = "hole_in_file" -> (11 .. 20) \union (31 .. 40)
    [] OTHER -> {}

(* All else stays in the file, however a write fails: lseek cannot have a  *)
(* file with O_APPEND overwritten (append.c:37), "hello" does not hit the  *)
(* data unless ch was 1s and met a byte of 1s (rdwr.c:33), and then only   *)
(* the five bytes behind the first such byte, the child's write goes       *)
(* behind its parent's data, and truncate cuts off nothing and leaves what *)
(* is before its offset.                                                   *)
OnlyOverwrites ==
  \A k \in DOMAIN start \ Overwrites : k <= Len(data) /\ data[k] = start[k]

(* How many of the first k bytes are not zeros. *)
Place(k) == Cardinality({j \in 1 .. k : data[j] # 0})

(* What a program has added when it ends without an error: the second text *)
(* of append or "coep" at the very end; "hello" at the end, or behind the  *)
(* first byte that rdwr.c takes for it; zeros from the offset truncate was *)
(* given to one past it or past the old end, whichever is longer; the copy *)
(* without zeros, which ends early at a byte a signed char takes for EOF,  *)
(* in front of what an older, longer copy held.                            *)
ResultIsRight ==
  at = "done" =>
    CASE main = "append" ->
           data = Written(start, 0, Text(96, 5)) \o Text(48, 5)
      [] main = "child_file_handle" -> data = start \o Text(99, 4)
      [] main = "rdwr" ->
           \E p \in Ends : FirstEnd(p) /\ data = Written(start, p, Text(104, 5))
      [] main = "truncate" ->
           LET size == Len(start)
           IN  IF size = offset THEN data = start
               ELSE /\ Len(data) = Longer(size, offset) + 1
                    /\ \A k \in DOMAIN data :
                         k > (IF size < offset THEN size ELSE offset) => data[k] = 0
      [] main = "hole_in_file" ->
           /\ count = Place(pos)
           /\ \A k \in 1 .. pos : data[k] # 0 => copy[Place(k)] = data[k]
           /\ pos = Len(data) \/ (odd /\ EOF \in ToSet(data))

(* truncate is to emulate truncate(path, len), which truncates a file to   *)
(* the length it is given (the question truncate.c answers, and its usage: *)
(* ./truncate <filename> <offset>).                                        *)
TruncatesToLength ==
  main = "truncate" /\ at = "done" => Len(data) = offset
=============================================================================

------------------------------ MODULE Redirect -------------------------------
(***************************************************************************)
(* assignment_3/redirect.c: a process that redirects its standard input    *)
(* and output to the files "stdin" and "stdout" by close and dup, relying  *)
(* on dup to give out the lowest descriptor that is free.                  *)
(***************************************************************************)
EXTENDS Integers

Descriptors == 0 .. 4

VARIABLES existing,  \* which of the two files there are
          inherited, \* what each descriptor referred to when main was called
          place,     \* where main is
          fd,        \* what each descriptor refers to
          fd1, fd2,
          string,    \* where the word main read came from
          printed    \* where it was written to

vars == <<existing, inherited, place, fd, fd1, fd2, string, printed>>

(* A shell may start a program with any of its standard descriptors closed.*)
Init ==
  /\ existing \in SUBSET {"stdin", "stdout"}
  /\ place = "open_stdin"
  /\ inherited \in [Descriptors -> {"terminal", "closed"}]
  /\ \A d \in 3 .. 4 : inherited[d] = "closed"
  /\ fd = inherited
  /\ fd1 = -1
  /\ fd2 = -1
  /\ string = "nowhere"
  /\ printed = "nowhere"

(* Mutant of Lowest: any free descriptor is given out, here the highest. *)
Highest == CHOOSE d \in Descriptors :
             fd[d] = "closed" /\ \A e \in d + 1 .. 4 : fd[e] # "closed"

(* The lowest free descriptor. *)
Lowest == CHOOSE d \in Descriptors :
            fd[d] = "closed" /\ \A e \in 0 .. d - 1 : fd[e] # "closed"

Open(file, from, to) ==
  /\ place = from
  /\ IF file \in existing
       THEN place' = to /\ fd' = [fd EXCEPT ![Lowest] = file]
       ELSE place' = "failed" /\ UNCHANGED fd

Close(d, from, to) ==
  /\ place = from
  /\ place' = IF fd[d] = "closed" THEN "failed" ELSE to
  /\ fd' = [fd EXCEPT ![d] = "closed"]
  /\ UNCHANGED <<existing, inherited, fd1, fd2, string, printed>>

Dup(d, from, to) ==
  /\ place = from
  /\ IF fd[d] = "closed"
       THEN place' = "failed" /\ UNCHANGED fd
       ELSE place' = to /\ fd' = [fd EXCEPT ![Lowest] = fd[d]]
  /\ UNCHANGED <<existing, inherited, fd1, fd2, string, printed>>

OpenStdin ==
  /\ Open("stdin", "open_stdin", "close_0")
  /\ fd1' = IF "stdin" \in existing THEN Lowest ELSE -1
  /\ UNCHANGED <<existing, inherited, fd2, string, printed>>

OpenStdout ==
  /\ Open("stdout", "open_stdout", "scanf")
  /\ fd2' = IF "stdout" \in existing THEN Lowest ELSE -1
  /\ UNCHANGED <<existing, inherited, fd1, string, printed>>

Scanf ==
  /\ place = "scanf"
  /\ place' = "close_1"
  /\ string' = fd[0]
  /\ UNCHANGED <<existing, inherited, fd, fd1, fd2, printed>>

(* printf leaves the word in the buffer; returning from main writes it to  *)
(* what descriptor 1 is then (which answers the comment of line 35).       *)
PrintAndReturn ==
  /\ place = "printf"
  /\ place' = "done"
  /\ printed' = fd[1]
  /\ UNCHANGED <<existing, inherited, fd, fd1, fd2, string>>

(* Mutant of main: fd1 and fd2 are closed before they are duplicated. *)
CloseThenDup ==
  \/ OpenStdin
  \/ Close(0, "close_0", "close_fd1")
  \/ Close(fd1, "close_fd1", "dup_fd1")
  \/ Dup(fd1, "dup_fd1", "open_stdout")
  \/ OpenStdout
  \/ Scanf
  \/ Close(1, "close_1", "close_fd2")
  \/ Close(fd2, "close_fd2", "dup_fd2")
  \/ Dup(fd2, "dup_fd2", "printf")
  \/ PrintAndReturn

main ==
  \/ OpenStdin
  \/ Close(0, "close_0", "dup_fd1")
  \/ Dup(fd1, "dup_fd1", "close_fd1")
  \/ Close(fd1, "close_fd1", "open_stdout")
  \/ OpenStdout
  \/ Scanf
  \/ Close(1, "close_1", "dup_fd2")
  \/ Dup(fd2, "dup_fd2", "close_fd2")
  \/ Close(fd2, "close_fd2", "printf")
  \/ PrintAndReturn

Spec == Init /\ [][main]_vars

-----------------------------------------------------------------------------
TypeOK ==
  /\ inherited \in [Descriptors -> {"terminal", "closed"}]
  /\ fd \in [Descriptors -> {"terminal", "closed", "stdin", "stdout"}]
  /\ fd1 \in {-1} \union Descriptors
  /\ fd2 \in {-1} \union Descriptors
  /\ string \in {"nowhere", "stdin"}
  /\ printed \in {"nowhere", "stdout"}

(* main gets to its end if, and only if, there are both files and 0 and 1  *)
(* were open when it was called: one that was closed is given out by open, *)
(* so that main closes the file before it duplicates it.  It has then read *)
(* from the one file and written to the other, and every other descriptor  *)
(* is what it was, so none of its own is left open.                        *)
MayRedirect == existing = {"stdin", "stdout"} /\ "closed" \notin {inherited[0], inherited[1]}

RedirectsOrFails ==
  /\ place = "done" =>
       /\ MayRedirect
       /\ string = "stdin" /\ printed = "stdout"
       /\ fd = [inherited EXCEPT ![0] = "stdin", ![1] = "stdout"]
  /\ place = "failed" => ~MayRedirect
=============================================================================

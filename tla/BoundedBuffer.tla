--------------------------- MODULE BoundedBuffer ----------------------------
(***************************************************************************)
(* What the two producer/consumer programs of test_pthreads promise: a     *)
(* bounded stack.  One producer puts Items items into at most MaxSize      *)
(* slots, one consumer takes each of them, the most recent first, and both *)
(* finish.  Items are numbered in the order they are put.                  *)
(***************************************************************************)
EXTENDS Integers, Sequences

CONSTANTS MaxSize,  \* the slots of the buffer (MAX_SIZE)
          Items     \* the iterations of each thread's loop

ASSUME BufferAssumption ==
  /\ MaxSize \in Nat \ {0}
  /\ Items \in Nat \ {0}

VARIABLES stack,    \* the items in the buffer, the most recent last
          next,     \* the number of items put so far
          taken     \* the items the consumer has taken

bbVars == <<stack, next, taken>>

BBInit ==
  /\ stack = << >>
  /\ next = 0
  /\ taken = {}

Put ==
  /\ next < Items
  /\ Len(stack) < MaxSize
  /\ stack' = Append(stack, next)
  /\ next' = next + 1
  /\ UNCHANGED taken

(* Mutant of Get: the item stays in its slot. *)
GetCopies ==
  /\ stack # << >>
  /\ taken' = taken \union {stack[Len(stack)]}
  /\ UNCHANGED <<stack, next>>

Get ==
  /\ stack # << >>
  /\ taken' = taken \union {stack[Len(stack)]}
  /\ stack' = [k \in 1 .. Len(stack) - 1 |-> stack[k]]
  /\ UNCHANGED next

BBNext == Put \/ Get

BBSafety == BBInit /\ [][BBNext]_bbVars

BBTypeOK ==
  /\ stack \in Seq(0 .. Items - 1)
  /\ Len(stack) <= MaxSize
  /\ next \in 0 .. Items
  /\ taken \subseteq 0 .. Items - 1

InStack(x) == \E k \in 1 .. Len(stack) : stack[k] = x

(* No item is in two slots, or in a slot after it was taken. *)
NoDuplicates ==
  /\ \A k, l \in 1 .. Len(stack) : stack[k] = stack[l] => k = l
  /\ \A k \in 1 .. Len(stack) : stack[k] \notin taken

(* Every item put so far is in the buffer or was taken: none is lost. *)
NothingLost == \A x \in 0 .. next - 1 : x \in taken \/ InStack(x)

(* Nothing is invented: what is stored or taken was put. *)
NothingInvented ==
  /\ taken \subseteq 0 .. next - 1
  /\ \A k \in 1 .. Len(stack) : stack[k] \in 0 .. next - 1

(* Every item the producer writes is printed once: the promise the two     *)
(* programs inherit by implementing this specification.                    *)
ExactlyOnce == NoDuplicates /\ NothingLost /\ NothingInvented
=============================================================================

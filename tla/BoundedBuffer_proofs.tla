------------------------- MODULE BoundedBuffer_proofs ------------------------
(***************************************************************************)
(* What every bounded stack keeps, whatever its size and however many      *)
(* items go through it.  ExactlyOnce is inductive together with BBTypeOK.  *)
(***************************************************************************)
EXTENDS BoundedBuffer, SequenceTheorems, TLAPS

Inv == BBTypeOK /\ ExactlyOnce

LEMMA BBInitInv == BBInit => Inv
<1> SUFFICES ASSUME BBInit PROVE Inv
  OBVIOUS
<1>1. stack = << >> /\ Len(stack) = 0 /\ stack \in Seq(0 .. Items - 1)
  BY EmptySeq DEF BBInit
<1> QED
  BY <1>1, BufferAssumption DEF BBInit, Inv, BBTypeOK, ExactlyOnce, NoDuplicates,
     NothingLost, NothingInvented, InStack

(* Putting item next: it is new, so it is nowhere else. *)
LEMMA PutInv == ASSUME Inv, Put PROVE Inv'
<1>1. /\ next \in 0 .. Items - 1 /\ next' = next + 1 /\ taken' = taken
      /\ stack' = Append(stack, next) /\ Len(stack) < MaxSize
      /\ stack \in Seq(0 .. Items - 1) /\ Len(stack) \in Nat
  BY BufferAssumption, LenProperties DEF Inv, BBTypeOK, Put
<1>2. /\ stack' \in Seq(0 .. Items - 1)
      /\ Len(stack') = Len(stack) + 1
      /\ \A k \in 1 .. Len(stack) : stack'[k] = stack[k]
      /\ stack'[Len(stack) + 1] = next
  BY <1>1
<1>3. BBTypeOK'
  BY <1>1, <1>2, BufferAssumption DEF Inv, BBTypeOK
<1>4. /\ \A k \in 1 .. Len(stack) : stack[k] \in 0 .. next - 1
      /\ taken \subseteq 0 .. next - 1
  BY DEF Inv, ExactlyOnce, NothingInvented
<1>5. NoDuplicates'
  BY <1>1, <1>2, <1>4 DEF Inv, ExactlyOnce, NoDuplicates
<1>6. NothingLost'
  <2> SUFFICES ASSUME NEW x \in 0 .. next PROVE x \in taken \/ InStack(x)'
    BY <1>1 DEF NothingLost
  <2>1. CASE x = next
    BY <2>1, <1>1, <1>2 DEF InStack
  <2>2. CASE x \in 0 .. next - 1
    <3>1. x \in taken \/ \E k \in 1 .. Len(stack) : stack[k] = x
      BY <2>2 DEF Inv, ExactlyOnce, NothingLost, InStack
    <3> QED
      BY <3>1, <1>1, <1>2 DEF InStack
  <2> QED
    BY <2>1, <2>2, <1>1
<1>7. NothingInvented'
  BY <1>1, <1>2, <1>4 DEF NothingInvented
<1> QED
  BY <1>3, <1>5, <1>6, <1>7 DEF Inv, ExactlyOnce

(* Taking the item on top: it leaves the stack as it joins taken. *)
LEMMA GetInv == ASSUME Inv, Get PROVE Inv'
<1> DEFINE n == Len(stack)
<1>1. /\ n \in Nat /\ n > 0 /\ stack \in Seq(0 .. Items - 1)
      /\ \A k \in 1 .. n : stack[k] \in 0 .. Items - 1
  <2>1. stack \in Seq(0 .. Items - 1) /\ stack # << >>
    BY DEF Inv, BBTypeOK, Get
  <2>2. n \in Nat \ {0}
    BY <2>1, EmptySeq
  <2>3. \A k \in 1 .. n : stack[k] \in 0 .. Items - 1
    BY <2>1, ElementOfSeq
  <2> QED
    BY <2>1, <2>2, <2>3
<1>2. /\ next' = next
      /\ taken' = taken \union {stack[n]}
      /\ stack' = [k \in 1 .. n - 1 |-> stack[k]]
  BY DEF Get
<1>3. /\ stack' \in Seq(0 .. Items - 1)
      /\ Len(stack') = n - 1
      /\ \A k \in 1 .. n - 1 : stack'[k] = stack[k]
  BY <1>1, <1>2
<1> HIDE DEF n
<1>4. BBTypeOK'
  <2>1. n <= MaxSize /\ taken \subseteq 0 .. Items - 1 /\ next \in 0 .. Items
    BY DEF Inv, BBTypeOK, n
  <2>2. Len(stack') <= MaxSize
    BY <1>1, <1>3, <2>1, BufferAssumption
  <2>3. taken' \subseteq 0 .. Items - 1
    <3>1. n \in 1 .. n /\ stack[n] \in 0 .. Items - 1
      BY <1>1
    <3> QED
      BY <1>2, <2>1, <3>1
  <2> QED
    BY <1>2, <1>3, <2>1, <2>2, <2>3 DEF BBTypeOK
<1>5. NoDuplicates'
  BY <1>1, <1>2, <1>3 DEF Inv, ExactlyOnce, NoDuplicates, n
<1>6. NothingLost'
  <2> SUFFICES ASSUME NEW x \in 0 .. next - 1 PROVE x \in taken' \/ InStack(x)'
    BY <1>2 DEF NothingLost
  <2>1. x \in taken \/ \E k \in 1 .. n : stack[k] = x
    BY DEF Inv, ExactlyOnce, NothingLost, InStack, n
  <2> QED
    BY <2>1, <1>1, <1>2, <1>3 DEF InStack
<1>7. NothingInvented'
  <2>1. /\ taken \subseteq 0 .. next - 1
        /\ \A k \in 1 .. n : stack[k] \in 0 .. next - 1
    BY DEF Inv, ExactlyOnce, NothingInvented, n
  <2>2. taken' \subseteq 0 .. next' - 1
    <3>1. n \in 1 .. n /\ stack[n] \in 0 .. next - 1
      BY <1>1, <2>1
    <3> QED
      BY <1>2, <2>1, <3>1
  <2>3. \A k \in 1 .. Len(stack') : stack'[k] \in 0 .. next' - 1
    BY <1>1, <1>2, <1>3, <2>1
  <2> QED
    BY <2>2, <2>3 DEF NothingInvented
<1> QED
  BY <1>4, <1>5, <1>6, <1>7 DEF Inv, ExactlyOnce

LEMMA BBInvariant == BBSafety => []Inv
<1>1. Inv /\ [BBNext]_bbVars => Inv'
  <2>1. Inv /\ UNCHANGED bbVars => Inv'
    BY DEF Inv, BBTypeOK, ExactlyOnce, NoDuplicates, NothingLost, NothingInvented,
       InStack, bbVars
  <2> QED
    BY <2>1, PutInv, GetInv DEF BBNext
<1> QED
  BY <1>1, BBInitInv, PTL DEF BBSafety

(* Type correctness of the bounded stack: it never exceeds MaxSize.        *)
THEOREM BBTypeCorrect == BBSafety => []BBTypeOK
  BY BBInvariant, PTL DEF Inv

(* Every item put is in one slot or was taken once, and nothing else is.   *)
THEOREM ItemsExactlyOnce == BBSafety => []ExactlyOnce
  BY BBInvariant, PTL DEF Inv

-----------------------------------------------------------------------------
(* A stack kept in an array, as the programs keep it: Stack(d, b) is the    *)
(* stack of the d lowest slots of b.                                       *)
Stack(d, b) == [k \in 1 .. d |-> b[k - 1]]

LEMMA StackIsSeq ==
  ASSUME NEW d \in Nat, NEW b, NEW S, \A k \in 1 .. d : b[k - 1] \in S
  PROVE  Stack(d, b) \in Seq(S) /\ Len(Stack(d, b)) = d
  BY DEF Stack

LEMMA EmptyStack == ASSUME NEW b PROVE Stack(0, b) = << >>
  BY StackIsSeq, EmptySeq DEF Stack

(* Writing the slot above the top pushes an item. *)
LEMMA StackPush ==
  ASSUME NEW d \in Nat, NEW b, NEW c, NEW S, \A k \in 1 .. d : b[k - 1] \in S,
         \A k \in 1 .. d : c[k - 1] = b[k - 1], c[d] \in S
  PROVE  Stack(d + 1, c) = Append(Stack(d, b), c[d])
<1>1. Stack(d, b) \in Seq(S) /\ Len(Stack(d, b)) = d
  BY StackIsSeq
<1>2. \A k \in 1 .. d + 1 : c[k - 1] \in S
  OBVIOUS
<1>3. Stack(d + 1, c) \in Seq(S) /\ Len(Stack(d + 1, c)) = d + 1
  BY <1>2, StackIsSeq
<1>4. /\ Append(Stack(d, b), c[d]) \in Seq(S)
      /\ Len(Append(Stack(d, b), c[d])) = d + 1
      /\ \A k \in 1 .. d : Append(Stack(d, b), c[d])[k] = Stack(d, b)[k]
      /\ Append(Stack(d, b), c[d])[d + 1] = c[d]
  BY <1>1
<1>5. \A k \in 1 .. d + 1 : Stack(d + 1, c)[k] = Append(Stack(d, b), c[d])[k]
  BY <1>4 DEF Stack
<1> QED
  BY <1>3, <1>4, <1>5, SeqEqual

(* Leaving out the top slot pops one. *)
LEMMA StackPop ==
  ASSUME NEW d \in Nat \ {0}, NEW b, NEW S, \A k \in 1 .. d : b[k - 1] \in S
  PROVE  /\ Stack(d, b) # << >>
         /\ Stack(d, b)[Len(Stack(d, b))] = b[d - 1]
         /\ Stack(d - 1, b) = [k \in 1 .. Len(Stack(d, b)) - 1 |-> Stack(d, b)[k]]
<1>1. Len(Stack(d, b)) = d /\ Stack(d, b) \in Seq(S)
  BY StackIsSeq
<1>2. Stack(d, b) # << >>
  BY <1>1
<1> QED
  BY <1>1, <1>2 DEF Stack

(* When the stack is kept in an array, a put writes one slot more, *)
LEMMA ArrayPut ==
  ASSUME NEW d \in Nat, NEW b, NEW c, d < MaxSize, next \in 0 .. Items - 1,
         \A k \in 1 .. d : b[k - 1] \in 0 .. Items - 1 /\ c[k - 1] = b[k - 1],
         c[d] = next, stack = Stack(d, b),
         stack' = Stack(d + 1, c), next' = next + 1, taken' = taken
  PROVE  Put
<1>1. Len(Stack(d, b)) = d
  BY StackIsSeq
<1>2. Stack(d + 1, c) = Append(Stack(d, b), next)
  BY StackPush
<1> QED
  BY <1>1, <1>2, BufferAssumption DEF Put

(* and a get takes the item of the highest slot. *)
LEMMA ArrayGet ==
  ASSUME NEW d \in Nat \ {0}, NEW b, \A k \in 1 .. d : b[k - 1] \in 0 .. Items - 1,
         stack = Stack(d, b), stack' = Stack(d - 1, b), next' = next,
         taken' = taken \union {b[d - 1]}
  PROVE  Get
  BY StackPop DEF Get
=============================================================================

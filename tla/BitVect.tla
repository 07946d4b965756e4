------------------------------- MODULE BitVect -------------------------------
(***************************************************************************)
(* BitVector (src/common/types/bitvect.cpp) and BitVectorEx (bitvectex.cpp,*)
(* the same but for intv): size bits packed in an array of bytes, bit idx  *)
(* in byte idx >> 3 at position idx & 7.  A byte is the set of the         *)
(* positions that hold a 1.                                                *)
(***************************************************************************)
EXTENDS Runs

CONSTANT Sizes   \* constructor arguments

ASSUME BitVectAssumption == Sizes \subseteq Nat \ {0}

VARIABLES size, data

vars == <<size, data>>

Bit(idx) == idx % 8 \in data[idx \div 8]                     \* operator[]

BadInit == /\ size \in Sizes                          \* rounds down
           /\ data = [b \in 0..(size \div 8 - 1) |-> {}]

Init == /\ size \in Sizes
        /\ data = [b \in 0..((size + 7) \div 8 - 1) |-> {}]

\* = instead of |=
BadSet(idx) == /\ data' = [data EXCEPT ![idx \div 8] = {idx % 8}]
               /\ UNCHANGED size

set(idx) == /\ data' = [data EXCEPT ![idx \div 8] = @ \cup {idx % 8}]
            /\ UNCHANGED size

unset(idx) == /\ data' = [data EXCEPT ![idx \div 8] = @ \ {idx % 8}]
              /\ UNCHANGED size

Next == \E idx \in 0..(size - 1) : set(idx) \/ unset(idx)

Spec == Init /\ [][Next]_vars

-----------------------------------------------------------------------------
BadSkipFrom0(v) == LET skip[x \in 0..(size - 1)] ==   \* stops one early
                         IF x # size - 1 /\ Bit(x) = v THEN skip[x + 1] ELSE x
                   IN  skip[0]

\* while (x != size && operator[](x) == v) ++x;
SkipFrom0(v) == LET skip[x \in 0..size] ==
                      IF x # size /\ Bit(x) = v THEN skip[x + 1] ELSE x
                IN  skip[0]

BadExtend(x, v) == LET extend[y \in 0..size] ==        \* y+1 not compared
                         IF y # size /\ Bit(y) = v THEN extend[y + 1] ELSE y
                   IN  extend[x]

\* while (y != size-1 && operator[](y+1) == v) ++y;
Extend(x, v) == LET extend[y \in 0..(size - 1)] ==
                      IF y # size - 1 /\ Bit(y + 1) = v THEN extend[y + 1]
                      ELSE y
                IN  extend[x]

\* first bit that is not skipped, and the end of its run of bits that are v
Interval(skipped, v) ==
    LET x == SkipFrom0(skipped)
    IN  [from |-> x, to |-> IF x = size THEN -1 ELSE Extend(x, v)]

intv1  == Interval(FALSE, TRUE)     \* both types
intvEx == Interval(TRUE, FALSE)     \* BitVectorEx::intv (BitVector::intv has
                                    \* no user and looks for 1s)

-----------------------------------------------------------------------------
Ones == {idx \in 0..(size - 1) : Bit(idx)}

(* The bytes beyond the last bit stay 0. *)
TypeOK == /\ size \in Sizes
          /\ data \in [0..((size + 7) \div 8 - 1) -> SUBSET (0..7)]
          /\ \A idx \in size..(8 * ((size + 7) \div 8) - 1) : ~ Bit(idx)

Set == INSTANCE BitSet WITH bits <- Ones, width <- size

(* The packed bytes are a set of block numbers: no operation touches a
   neighbour's bit, in the same byte or in another one. *)
ImplementsBitSet == Set!BitSetSpec

(* What the restore thread sends next is the first run of requested blocks,
   whole, also across byte borders and up to the last bit. *)
Intv1IsFirstRun == intv1 = FirstRun(Ones, size)

(* What the client asks for is the first run of missing blocks, whole. *)
IntvExIsFirstGap == intvEx = FirstGap(Ones, size)
=============================================================================

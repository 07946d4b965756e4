-------------------------------- MODULE BitSet --------------------------------
(***************************************************************************)
(* What a bit vector promises: it starts empty, set() and unset() change   *)
(* the bit they name and no other.                                         *)
(***************************************************************************)
EXTENDS Integers

VARIABLES bits,   \* indices of the bits that are 1
          width   \* number of bits, fixed by the constructor

Add(i)    == bits' = bits \cup {i} /\ UNCHANGED width
Remove(i) == bits' = bits \ {i} /\ UNCHANGED width

BitSetSpec == /\ bits = {}
              /\ [][\E i \in 0..(width - 1) :
                        Add(i) \/ Remove(i)]_<<bits, width>>
=============================================================================

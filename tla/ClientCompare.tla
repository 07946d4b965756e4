---------------------------- MODULE ClientCompare ----------------------------
(***************************************************************************)
(* The client before its loop (client/main.cpp): it measures the target    *)
(* file, extends it, measures it again and marks the blocks it need not    *)
(* ask for.                                                                *)
(***************************************************************************)
EXTENDS Compare

CONSTANTS Files,     \* <<image, target>>: what the two files may hold
          Hole, R    \* a unit of a hole; the unit written

VARIABLES image, target, ready, pc,
          failed    \* history: the target could not be extended

vars == <<image, target, ready, pc, failed>>

Init == /\ \E f \in Files : image = f[1] /\ target = f[2]
        /\ ready = {} /\ pc = "measure" /\ failed = FALSE

extend == /\ pc = "measure" /\ pc' = "compare"
          /\ target' \in Extensions(target, Len(image), Hole, R)
          /\ failed' = (target' # Extended(target, Len(image), Hole, R))
          /\ UNCHANGED <<image, ready>>

compare == /\ pc = "compare" /\ pc' = "loop"
           /\ \E lastEqual \in LastEqual(image, target) :
              \E stray \in SUBSET Unsummed(image, target) :
                 ready' = Marks(image, target, stray, lastEqual)
           /\ UNCHANGED <<image, target, failed>>

Next == extend \/ compare

Spec == Init /\ [][Next]_vars

-----------------------------------------------------------------------------
\* block i of the image, and what the target has there
InImage(file, i) ==
    SubSeq(file, i * B + 1,
           IF (i + 1) * B < Len(image) THEN (i + 1) * B ELSE Len(image))

(* From its extension on, if it was possible, the target has as many whole
   parts as the image, so that the comparison finds a sum for each of them. *)
TypeOK == /\ pc \in {"measure", "compare", "loop"} /\ failed \in BOOLEAN
          /\ pc # "measure" /\ ~ failed
                => Len(target) \div M >= Len(image) \div M
          /\ pc # "loop" => ready = {}

(* A block that the client will not ask for is a block of the image and is in
   the target already; but for the parts for which a target that could not be
   extended has no sum. *)
MarkedIsKept == \A i \in ready :
                   /\ i <= LastBlock(image)
                   /\ i \div K < PartCount(target)
                         => InImage(target, i) = InImage(image, i)

(* A part that is the same is not sent again, but for the last block of the
   image if it is a partial one: that block is never marked. *)
KeptIsMarked ==
    pc = "loop" =>
       \A i \in 0..(Len(image) \div B - 1) :
          Part(target, i \div K) = Part(image, i \div K) => i \in ready

(* What is marked is a block of the image (fejlesztoi.tex: the matching parts
   are marked in the BitVectorEx, which has a bit for a block).  If the image
   consists of whole parts, and if the target is larger, it is not. *)
MarksAreBlocks == ready \subseteq 0..LastBlock(image)
=============================================================================

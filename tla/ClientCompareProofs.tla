-------------------------- MODULE ClientCompareProofs --------------------------
(***************************************************************************)
(* Proofs about ClientCompare for blocks and parts of any size and files   *)
(* of any contents, of which the image does not end with a part and the    *)
(* target has no more parts than the image.  (For an image of whole parts  *)
(* the marks are wrong: ClientCompareWhole.cfg.)                           *)
(***************************************************************************)
EXTENDS ClientCompare, BlockProofs

\* what files consist of
FilesOver(U) == /\ Files \subseteq Seq(U) \X Seq(U)
                /\ Hole \in U /\ R \in U

\* the files that MarksAreBlocks is not about
EndWithin == \A f \in Files : /\ Len(f[1]) % M # 0
                              /\ Len(f[2]) \div M <= Len(f[1]) \div M

\* the target never has more parts than the image, and the marks are those of
\* the two files, and of sums that are not there
IInv(U) == /\ TypeOK
           /\ image \in Seq(U) /\ target \in Seq(U)
           /\ EndsWithin(image, target)
           /\ pc = "loop" =>
                 \E lastEqual \in LastEqual(image, target) :
                 \E stray \in SUBSET Unsummed(image, target) :
                    ready = Marks(image, target, stray, lastEqual)

(* The invariant holds initially and is kept by both steps. *)
LEMMA Inductive ==
  ASSUME NEW U, FilesOver(U), EndWithin
  PROVE  /\ Init => IInv(U)
         /\ IInv(U) /\ [Next]_vars => IInv(U)'
<1>1. Init => IInv(U)
  BY DEF Init, IInv, TypeOK, FilesOver, EndWithin, EndsWithin
<1>2. ASSUME IInv(U), extend PROVE IInv(U)'
  <2>. DEFINE g == Extended(target, Len(image), Hole, R)
  <2>1. Len(g) \div M = Len(image) \div M
    BY <1>2, ExtendedEnds DEF IInv, FilesOver, EndsWithin
  <2>2. /\ image' = image /\ pc' = "compare" /\ ready' = ready
        /\ pc = "measure" /\ failed' = (target' # g)
        /\ target' \in Extensions(target, Len(image), Hole, R)
    BY <1>2 DEF extend
  <2>4. target' \in Seq(U) /\ Len(target') \div M <= Len(image) \div M
    BY <1>2, <2>2, ExtensionsEnd DEF IInv, FilesOver, EndsWithin
  <2>3. Len(image) \div M \in Nat
    <3>1. Len(image) \in Nat /\ M \in Nat \ {0}
      BY <1>2, PartSize DEF IInv
    <3>. QED  BY <3>1, Division
  <2>. HIDE DEF g
  <2>. QED  BY <1>2, <2>1, <2>2, <2>3, <2>4 DEF IInv, TypeOK, EndsWithin
<1>3. ASSUME IInv(U), compare PROVE IInv(U)'
  BY <1>3 DEF compare, IInv, TypeOK, EndsWithin
<1>4. ASSUME IInv(U), UNCHANGED vars PROVE IInv(U)'
  BY <1>4 DEF vars, IInv, TypeOK, EndsWithin
<1>. QED  BY <1>1, <1>2, <1>3, <1>4 DEF Next

(* What is marked is there. *)
LEMMA KeptFromIInv ==
  ASSUME NEW U, IInv(U)
  PROVE  MarkedIsKept
<1>. SUFFICES ASSUME NEW i \in ready
              PROVE  /\ i <= LastBlock(image)
                     /\ i \div K < PartCount(target)
                           => InImage(target, i) = InImage(image, i)
  BY DEF MarkedIsKept
<1>1. PICK lastEqual \in LastEqual(image, target),
           stray \in SUBSET Unsummed(image, target) :
         ready = Marks(image, target, stray, lastEqual)
  BY DEF IInv, TypeOK
<1>2. /\ image \in Seq(U) /\ target \in Seq(U) /\ EndsWithin(image, target)
  BY DEF IInv, TypeOK
<1>3. /\ i \in Nat /\ (i + 1) * B <= Len(image)
      /\ i \div K \notin stray =>
            \A u \in (i * B + 1)..((i + 1) * B) :
               u <= Len(target) /\ target[u] = image[u]
  <2>1. i \in Marks(image, target, stray, lastEqual)
    BY <1>1
  <2>2. /\ stray \subseteq Unsummed(image, target)
        /\ lastEqual \in LastEqual(image, target)
    BY <1>1
  <2>3. i \in Nat /\ (i + 1) * B <= Len(image)
    BY <1>2, <2>1, <2>2, MarksAreKept
  <2>4. i \div K \notin stray =>
           \A u \in (i * B + 1)..((i + 1) * B) :
              u <= Len(target) /\ target[u] = image[u]
    BY <1>2, <2>1, <2>2, MarksAreKept
  <2>. QED  BY <2>3, <2>4
<1>4. B \in Nat \ {0} /\ Len(image) \in Nat
  BY <1>2, CompareAssumption
<1>5. i <= LastBlock(image)
  <2>. DEFINE n == Len(image) + B - 1
  <2>1. (i + 1) * B \in Nat /\ i + 1 \in Nat
    BY <1>3, <1>4
  <2>2. (i + 1) * B <= n /\ n \in Nat
    BY <1>3, <1>4, <2>1
  <2>3. LastBlock(image) = n \div B - 1
    BY DEF LastBlock
  <2>. HIDE DEF n
  <2>4. i + 1 <= n \div B
    BY <1>4, <2>1, <2>2, Quotient
  <2>5. n \div B \in Nat
    BY <1>4, <2>2, Division
  <2>. QED  BY <1>3, <2>3, <2>4, <2>5
<1>6. ASSUME i \div K < PartCount(target)
      PROVE  InImage(target, i) = InImage(image, i)
  <2>0. i \div K \notin stray
    <3>1. K \in Nat \ {0} /\ M \in Nat \ {0} /\ Len(target) \in Nat
      BY <1>2, CompareAssumption, PartSize
    <3>2. i \div K \in Nat
      BY <1>3, <3>1, Division
    <3>3. Len(target) \div M \in Nat
      BY <3>1, Division
    <3>. QED  BY <1>6, <3>2, <3>3 DEF Unsummed, PartCount
  <2>. DEFINE m == i * B + 1
              n == (i + 1) * B
  <2>1. m \in Nat \ {0} /\ n \in Nat
    BY <1>3, <1>4
  <2>2. \A file : InImage(file, i) = SubSeq(file, m, n)
    <3>1. (IF n < Len(image) THEN n ELSE Len(image)) = n
      BY <1>3, <1>4, <2>1
    <3>2. \A file : InImage(file, i) =
            SubSeq(file, m, IF n < Len(image) THEN n ELSE Len(image))
      BY DEF InImage
    <3>. QED  BY <3>1, <3>2
  <2>3. \A u \in m..n : image[u] \in U /\ target[u] = image[u]
    BY <1>2, <1>3, <2>0, <2>1
  <2>. HIDE DEF m, n
  <2>4. /\ SubSeq(image, m, n) \in Seq(U)
        /\ SubSeq(target, m, n) \in Seq(U)
        /\ Len(SubSeq(image, m, n)) = Len(SubSeq(target, m, n))
        /\ \A k \in 1..Len(SubSeq(image, m, n)) :
              SubSeq(image, m, n)[k] = SubSeq(target, m, n)[k]
    <3>1. /\ SubSeq(image, m, n) \in Seq(U)
          /\ Len(SubSeq(image, m, n)) = IF m <= n THEN n - m + 1 ELSE 0
          /\ \A k \in 1..(n - m + 1) : SubSeq(image, m, n)[k] = image[m + k - 1]
      BY <2>1, <2>3, SubSeqProperties
    <3>2. /\ SubSeq(target, m, n) \in Seq(U)
          /\ Len(SubSeq(target, m, n)) = IF m <= n THEN n - m + 1 ELSE 0
          /\ \A k \in 1..(n - m + 1) :
                SubSeq(target, m, n)[k] = target[m + k - 1]
      BY <2>1, <2>3, SubSeqProperties
    <3>. QED  BY <2>1, <2>3, <3>1, <3>2
  <2>. QED  BY <2>2, <2>4, SeqEqual
<1>. QED  BY <1>5, <1>6

(* And what is there is marked. *)
LEMMA MarkedFromIInv ==
  ASSUME NEW U, IInv(U)
  PROVE  KeptIsMarked
<1>. SUFFICES ASSUME pc = "loop", NEW i \in 0..(Len(image) \div B - 1),
                     Part(target, i \div K) = Part(image, i \div K)
              PROVE  i \in ready
  BY DEF KeptIsMarked
<1>1. PICK lastEqual \in LastEqual(image, target),
           stray \in SUBSET Unsummed(image, target) :
         ready = Marks(image, target, stray, lastEqual)
  BY DEF IInv
<1>2. /\ image \in Seq(U) /\ target \in Seq(U) /\ EndsWithin(image, target)
  BY DEF IInv
<1>3. B \in Nat \ {0} /\ Len(image) \in Nat
  BY <1>2, CompareAssumption
<1>4. i \in Nat /\ i < Len(image) \div B
  <2>1. Len(image) \div B \in Nat
    BY <1>3, Division
  <2>. QED  BY <2>1
<1>5. (i + 1) * B <= Len(image)
  BY <1>3, <1>4, Quotient
<1>. QED  BY <1>1, <1>2, <1>4, <1>5, MarksAreAll

(* The target has as many parts as the image before the two are compared, so
   that the last parts are compared with each other, unless it could not be
   extended. *)
THEOREM Extending ==
  ASSUME NEW U, FilesOver(U), EndWithin
  PROVE  Spec => []TypeOK
<1>1. IInv(U) => TypeOK
  BY DEF IInv
<1>. QED  BY <1>1, Inductive, PTL DEF Spec

(* A block that the client will not ask for is in its target already, whatever
   the files, the length of the last block, and the sizes of blocks and parts
   are; also if the target could not be extended, but for the parts for which
   it then has no sum. *)
THEOREM MarkedBlocksAreKept ==
  ASSUME NEW U, FilesOver(U), EndWithin
  PROVE  Spec => []MarkedIsKept
<1>. QED  BY KeptFromIInv, Inductive, PTL DEF Spec

(* And it does not ask for a whole block of a part that it has. *)
THEOREM KeptBlocksAreMarked ==
  ASSUME NEW U, FilesOver(U), EndWithin
  PROVE  Spec => []KeptIsMarked
<1>. QED  BY MarkedFromIInv, Inductive, PTL DEF Spec
=============================================================================

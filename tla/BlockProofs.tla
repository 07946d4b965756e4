----------------------------- MODULE BlockProofs -----------------------------
(***************************************************************************)
(* Lemmas about the operators on blocks that the models are built from:    *)
(* what FirstRun and FirstGap return for every set of block numbers, and   *)
(* what the marks of the comparison mean for blocks and parts of any size  *)
(* and files of any contents.  For the marks, an image that consists of    *)
(* whole parts is excepted, and a target with more parts than the image:   *)
(* for these the code marks what is not a block, see MarksAreBlocks.       *)
(***************************************************************************)
EXTENDS Runs, Compare, WellFoundedInduction, SequenceTheorems, TLAPS

(* Every set of natural numbers that is not empty has a least member. *)
LEMMA LeastNumber ==
  ASSUME NEW S \in SUBSET Nat, S # {}
  PROVE  \E x \in S : \A y \in S : x <= y
<1>. DEFINE R == OpToRel(<, Nat)
<1>1. IsWellFoundedOn(R, Nat)
  BY NatLessThanWellFounded
<1>2. \A x, y \in Nat : <<y, x>> \in R <=> y < x
  BY DEF OpToRel
<1>. HIDE DEF R
<1>3. PICK x \in S : \A y \in S : ~ (<<y, x>> \in R)
  BY <1>1, WFMin
<1>4. ASSUME NEW y \in S PROVE x <= y
  <2>1. ~ (y < x)
    BY <1>2, <1>3
  <2>. QED  BY <2>1
<1>. QED  BY <1>4

(* Min is that member. *)
LEMMA MinIsLeast ==
  ASSUME NEW S \in SUBSET Nat, S # {}
  PROVE  Min(S) \in S /\ \A y \in S : Min(S) <= y
  BY LeastNumber DEF Min

(* The run that starts at a member of S is contained in S and ends before a
   number that is not in S. *)
LEMMA RunEndIsEnd ==
  ASSUME NEW n \in Nat, NEW S \in SUBSET (0..(n - 1)), NEW x \in S
  PROVE  /\ RunEnd(S, x) \in S /\ x <= RunEnd(S, x)
         /\ x..RunEnd(S, x) \subseteq S
         /\ RunEnd(S, x) + 1 \notin S
<1>. DEFINE T == {y \in Nat : x <= y /\ y + 1 \notin S}
<1>1. n - 1 \in T
  OBVIOUS
<1>2. PICK e \in T : \A y \in T : e <= y
  BY <1>1, LeastNumber
<1>3. x..e \subseteq S
  <2>. SUFFICES ASSUME NEW z \in x..e PROVE z \in S
    OBVIOUS
  <2>1. CASE z = x
    BY <2>1
  <2>2. CASE z # x
    <3>1. z - 1 \in Nat /\ x <= z - 1 /\ ~ (e <= z - 1)
      BY <2>2
    <3>2. z - 1 \notin T
      BY <3>1, <1>2
    <3>. QED  BY <3>1, <3>2
  <2>. QED  BY <2>1, <2>2
<1>4. e \in S /\ x <= e /\ e + 1 \notin S
  BY <1>2, <1>3
<1>. QED  BY <1>3, <1>4 DEF RunEnd

(* FirstRun returns to = -1 exactly if the set is empty; otherwise the run is
   within the set, nothing of the set lies before it, and it is whole. *)
THEOREM FirstRunIsFirst ==
  ASSUME NEW n \in Nat, NEW S \in SUBSET (0..(n - 1))
  PROVE  LET run == FirstRun(S, n)
         IN  /\ run.from \in Nat
             /\ S = {} => run.to = -1
             /\ S # {} => /\ run.to \in Nat /\ run.from <= run.to
                          /\ run.to < n
                          /\ run.from..run.to \subseteq S
                          /\ \A y \in S : run.from <= y
                          /\ run.to + 1 \notin S
<1>1. CASE S = {}
  BY <1>1 DEF FirstRun
<1>2. CASE S # {}
  <2>1. Min(S) \in S /\ \A y \in S : Min(S) <= y
    BY <1>2, MinIsLeast
  <2>2. /\ RunEnd(S, Min(S)) \in S /\ Min(S) <= RunEnd(S, Min(S))
        /\ Min(S)..RunEnd(S, Min(S)) \subseteq S
        /\ RunEnd(S, Min(S)) + 1 \notin S
    BY <2>1, RunEndIsEnd
  <2>. DEFINE x == Min(S)
              y == RunEnd(S, Min(S))
  <2>3. x \in 0..(n - 1) /\ y \in 0..(n - 1)
    <3>1. x \in S /\ y \in S
      BY <2>1, <2>2
    <3>. QED  BY <3>1
  <2>4. FirstRun(S, n).from = x /\ FirstRun(S, n).to = y
    BY <1>2 DEF FirstRun
  <2>. HIDE DEF x, y
  <2>. QED  BY <1>2, <2>1, <2>2, <2>3, <2>4 DEF x, y
<1>. QED  BY <1>1, <1>2

(* FirstGap, in the same way, for the numbers below n that S leaves out: the
   client is not told that it is ready while a block is missing, and what it
   asks for it does not have. *)
THEOREM FirstGapIsFirst ==
  ASSUME NEW n \in Nat, NEW S
  PROVE  LET gap == FirstGap(S, n)
         IN  /\ gap.from \in Nat
             /\ gap.to = -1 <=> 0..(n - 1) \subseteq S
             /\ gap.to # -1 => /\ gap.to \in Nat /\ gap.from <= gap.to
                               /\ gap.to < n
                               /\ gap.from..gap.to \cap S = {}
                               /\ 0..(gap.from - 1) \subseteq S
<1>. DEFINE G == 0..(n - 1) \ S
<1>1. G \in SUBSET (0..(n - 1))
  OBVIOUS
<1>2. FirstGap(S, n) = FirstRun(G, n)
  BY DEF FirstGap
<1>3. G = {} <=> 0..(n - 1) \subseteq S
  OBVIOUS
<1>. HIDE DEF G
<1>4. /\ FirstRun(G, n).from \in Nat
      /\ G = {} => FirstRun(G, n).to = -1
      /\ G # {} => /\ FirstRun(G, n).to \in Nat
                   /\ FirstRun(G, n).from <= FirstRun(G, n).to
                   /\ FirstRun(G, n).to < n
                   /\ FirstRun(G, n).from..FirstRun(G, n).to \subseteq G
                   /\ \A y \in G : FirstRun(G, n).from <= y
  BY <1>1, FirstRunIsFirst
<1>. DEFINE f == FirstRun(G, n).from
            t == FirstRun(G, n).to
<1>5. ASSUME G # {} PROVE f..t \cap S = {} /\ 0..(f - 1) \subseteq S
  <2>1. f \in Nat /\ t \in Nat /\ f <= t /\ t < n /\ f..t \subseteq G
    BY <1>4, <1>5
  <2>2. \A y \in G : f <= y
    BY <1>4, <1>5
  <2>. HIDE DEF f, t
  <2>3. f..t \cap S = {}
    BY <2>1 DEF G
  <2>4. 0..(f - 1) \subseteq S
    BY <2>1, <2>2 DEF G
  <2>. QED  BY <2>3, <2>4
<1>. QED  BY <1>2, <1>3, <1>4, <1>5
-----------------------------------------------------------------------------
(* The size of a part. *)
LEMMA PartSize == M \in Nat \ {0} /\ M = K * B /\ B \in Nat /\ K \in Nat
  BY CompareAssumption DEF M

(* Division of positions by the size of a part or a block. *)
LEMMA Division ==
  ASSUME NEW d \in Nat \ {0}, NEW n \in Nat
  PROVE  /\ n \div d \in Nat /\ n % d \in 0..(d - 1)
         /\ n = (n \div d) * d + (n % d)
  OBVIOUS

(* A smaller quotient is that of a smaller number. *)
LEMMA Quotient ==
  ASSUME NEW d \in Nat \ {0}, NEW n \in Nat, NEW q \in Nat
  PROVE  /\ q <= n \div d <=> q * d <= n
         /\ q < n \div d => (q + 1) * d <= n
<1>1. /\ n \div d \in Nat /\ n % d \in 0..(d - 1)
      /\ n = (n \div d) * d + (n % d)
  BY Division
<1>2. ASSUME NEW p \in Nat, q <= p PROVE q * d <= p * d
  BY <1>2
<1>3. ASSUME NEW p \in Nat, p < q PROVE p * d + d <= q * d
  BY <1>3
<1>4. q <= n \div d => q * d <= n
  BY <1>1, <1>2
<1>5. n \div d < q => n < q * d
  BY <1>1, <1>3
<1>6. q < n \div d => (q + 1) * d <= n
  <2>. SUFFICES ASSUME q < n \div d PROVE (q + 1) * d <= n
    OBVIOUS
  <2>1. q + 1 \in Nat /\ q + 1 <= n \div d
    BY <1>1
  <2>2. (q + 1) * d <= (n \div d) * d
    BY <1>1, <2>1
  <2>. QED  BY <1>1, <2>2
<1>. QED  BY <1>1, <1>4, <1>5, <1>6

(* Of two lengths the smaller one has no more parts. *)
LEMMA SmallerQuotient ==
  ASSUME NEW m \in Nat, NEW n \in Nat, m <= n
  PROVE  m \div M <= n \div M
<1>1. M \in Nat \ {0}
  BY PartSize
<1>2. m \div M \in Nat /\ n \div M \in Nat
  BY <1>1, Division
<1>3. (m \div M) * M \in Nat /\ (m \div M) * M <= m
  BY <1>1, <1>2, Quotient
<1>. QED  BY <1>1, <1>2, <1>3, Quotient

(* Two files that have the same part i have the same units in it. *)
LEMMA EqualParts ==
  ASSUME NEW U, NEW f \in Seq(U), NEW g \in Seq(U), NEW i \in Nat,
         Part(f, i) = Part(g, i),
         NEW u \in (i * M + 1)..((i + 1) * M), u <= Len(f)
  PROVE  u <= Len(g) /\ f[u] = g[u]
<1>. DEFINE first == i * M + 1
            end == (i + 1) * M
            Last(s) == IF end < Len(s) THEN end ELSE Len(s)
<1>1. /\ first \in Nat \ {0} /\ end \in Nat
      /\ u >= first /\ u <= end /\ u \in Nat
  BY PartSize
<1>2. \A s : Part(s, i) = SubSeq(s, first, Last(s))
  BY DEF Part
<1>. HIDE DEF first, end
<1>3. ASSUME NEW s \in Seq(U)
      PROVE  /\ Last(s) \in Nat /\ Last(s) <= Len(s)
             /\ Len(Part(s, i)) = IF first <= Last(s) THEN Last(s) - first + 1
                                  ELSE 0
             /\ \A k \in 1..(Last(s) - first + 1) :
                   Part(s, i)[k] = s[first + k - 1]
  <2>1. Last(s) \in Nat /\ Last(s) <= Len(s)
    BY <1>1
  <2>2. \A k \in first..Last(s) : s[k] \in U
    BY <1>1, <2>1
  <2>. HIDE DEF Last
  <2>. QED  BY <1>1, <1>2, <2>1, <2>2, SubSeqProperties
<1>4. u <= Last(f)
  BY <1>1
<1>. HIDE DEF Last
<1>5. u <= Last(g)
  BY <1>1, <1>3, <1>4
<1>6. u - first + 1 \in 1..(Last(f) - first + 1)
      /\ u - first + 1 \in 1..(Last(g) - first + 1)
      /\ first + (u - first + 1) - 1 = u
  BY <1>1, <1>3, <1>4, <1>5
<1>7. Part(f, i)[u - first + 1] = f[u] /\ Part(g, i)[u - first + 1] = g[u]
  BY <1>3, <1>6
<1>. QED  BY <1>1, <1>3, <1>5, <1>7
-----------------------------------------------------------------------------
(* The image ends within a part, and the target has no more parts. *)
EndsWithin(image, target) == /\ Len(image) % M # 0
                             /\ Len(target) \div M <= Len(image) \div M

(* Then the last part that is compared is the last one of the target, which is
   one of the image's. *)
LEMMA LastPart ==
  ASSUME NEW U, NEW image \in Seq(U), NEW target \in Seq(U),
         EndsWithin(image, target)
  PROVE  LET l == Len(image) \div M
             m == Len(target) \div M
         IN
         /\ l \in Nat /\ l * M + LastBlockSize(image) = Len(image)
         /\ LastBlockSize(image) \in 1..(M - 1)
         /\ m \in Nat /\ m <= l
         /\ LastEqual(image, target) = {Part(image, m) = Part(target, m)}
         /\ PartCount(target) - 1 = m /\ PartCount(image) - 2 = l - 1
<1>1. Len(image) \in Nat /\ Len(target) \in Nat /\ M \in Nat \ {0}
  BY PartSize
<1>2. /\ Len(image) \div M \in Nat /\ Len(image) % M \in 0..(M - 1)
      /\ Len(image) = (Len(image) \div M) * M + (Len(image) % M)
      /\ Len(target) \div M \in Nat
  BY <1>1, Division
<1>3. LastBlockSize(image) = Len(image) % M
  BY DEF LastBlockSize, EndsWithin
<1>4. PartCount(target) - 1 = Len(target) \div M
  BY <1>2 DEF PartCount
<1>5. PartCount(image) - 2 = Len(image) \div M - 1
      /\ Len(target) \div M < PartCount(image)
  BY <1>2 DEF PartCount, EndsWithin
<1>6. LastEqual(image, target) =
         {Part(image, Len(target) \div M) = Part(target, Len(target) \div M)}
  BY <1>4, <1>5 DEF LastEqual
<1>. QED  BY <1>1, <1>2, <1>3, <1>4, <1>5, <1>6 DEF EndsWithin

(* Block j of part i, its units, and its number. *)
LEMMA BlockUnits ==
  ASSUME NEW i \in Nat, NEW j \in 0..(K - 1)
  PROVE  LET b == i * K + j IN
         /\ b \in Nat
         /\ b * B = i * M + j * B /\ (b + 1) * B = i * M + (j + 1) * B
         /\ j * B \in Nat /\ (j + 1) * B <= M /\ (i + 1) * M = i * M + M
<1>1. K \in Nat /\ B \in Nat /\ j \in Nat /\ M = K * B
  BY PartSize
<1>2. (i * K + j) * B = i * (K * B) + j * B
  BY <1>1
<1>3. (i * K + j + 1) * B = i * (K * B) + (j + 1) * B
  BY <1>1
<1>4. j * B \in Nat /\ (j + 1) * B <= K * B
  BY <1>1
<1>5. (i + 1) * M = i * M + M
  BY <1>1
<1>. QED  BY <1>1, <1>2, <1>3, <1>4, <1>5

(* It is a block of that part. *)
LEMMA PartOfBlock ==
  ASSUME NEW i \in Nat, NEW j \in 0..(K - 1)
  PROVE  (i * K + j) \div K = i
<1>. DEFINE b == i * K + j
<1>1. /\ K \in Nat \ {0} /\ b \in Nat /\ i * K <= b
      /\ (i + 1) * K = i * K + K /\ ~ ((i + 1) * K <= b)
  BY CompareAssumption
<1>. HIDE DEF b
<1>2. i <= b \div K /\ ~ (i + 1 <= b \div K)
  BY <1>1, Quotient
<1>3. b \div K \in Nat
  BY <1>1, Division
<1>4. b \div K = i
  BY <1>2, <1>3
<1>. QED  BY <1>4 DEF b

(* What is marked is a block within the image; if its part has a sum the target
   has it. *)
LEMMA MarksAreKept ==
  ASSUME NEW U, NEW image \in Seq(U), NEW target \in Seq(U),
         EndsWithin(image, target),
         NEW stray, stray \subseteq Unsummed(image, target),
         NEW lastEqual \in LastEqual(image, target),
         NEW b \in Marks(image, target, stray, lastEqual)
  PROVE  /\ b \in Nat /\ (b + 1) * B <= Len(image)
         /\ b \div K \notin stray =>
               \A u \in (b * B + 1)..((b + 1) * B) :
                  u <= Len(target) /\ target[u] = image[u]
<1>. DEFINE l == Len(image) \div M
            m == Len(target) \div M
<1>1. /\ l \in Nat /\ l * M + LastBlockSize(image) = Len(image)
      /\ LastBlockSize(image) \in 1..(M - 1)
      /\ m \in Nat /\ m <= l
      /\ LastEqual(image, target) = {Part(image, m) = Part(target, m)}
      /\ PartCount(target) - 1 = m /\ PartCount(image) - 2 = l - 1
  BY LastPart
<1>2. Len(image) \in Nat /\ M \in Nat \ {0} /\ B \in Nat \ {0}
  BY PartSize, CompareAssumption
<1>3. \A q \in Nat : q < l => (q + 1) * M <= Len(image)
  BY <1>2, Quotient
<1>. HIDE DEF l, m
<1>4. \E i \in Nat, j \in 0..(K - 1) :
         /\ b = i * K + j
         /\ Part(image, i) = Part(target, i) \/ i \in stray
         /\ i * M + (j + 1) * B <= Len(image)
  <2>1. CASE b \in {i * K + j : i \in WholeParts(image, target) \cup stray,
                                j \in 0..(K - 1)}
    <3>1. PICK i \in WholeParts(image, target) \cup stray, j \in 0..(K - 1) :
             b = i * K + j
      BY <2>1
    <3>2. i \in Nat /\ i < l /\ (Part(image, i) = Part(target, i) \/ i \in stray)
      <4>1. CASE i \in WholeParts(image, target)
        BY <1>1, <4>1 DEF WholeParts
      <4>2. CASE i \in stray
        <5>1. i \in PartCount(target)..(PartCount(image) - 2)
          BY <4>2 DEF Unsummed
        <5>2. PartCount(target) \in Nat
          <6>1. Len(target) \in Nat
            OBVIOUS
          <6>2. Len(target) \div M \in Nat
            BY <1>2, <6>1, Division
          <6>. QED  BY <6>2 DEF PartCount
        <5>. QED  BY <1>1, <4>2, <5>1, <5>2
      <4>. QED  BY <3>1, <4>1, <4>2
    <3>3. (i + 1) * M <= Len(image)
      BY <3>2, <1>3
    <3>4. (j + 1) * B <= M /\ (i + 1) * M = i * M + M /\ j * B \in Nat
          /\ i * M \in Nat /\ (j + 1) * B \in Nat
      BY <3>1, <3>2, PartSize, BlockUnits
    <3>5. i * M + (j + 1) * B <= Len(image)
      BY <3>3, <3>4, PartSize
    <3>. QED  BY <3>1, <3>2, <3>5
  <2>2. CASE lastEqual /\ b \in LastMarks(image, target)
    <3>1. PICK j \in 0..(LastBlockSize(image) \div B - 1) : b = m * K + j
      BY <1>1, <2>2 DEF LastMarks
    <3>. DEFINE size == LastBlockSize(image)
    <3>2. size \in Nat /\ size < M
      BY <1>1, <1>2
    <3>. HIDE DEF size
    <3>3. j \in Nat /\ j < size \div B
      <4>1. size \div B \in Nat
        BY <1>2, <3>2, Division
      <4>2. j \in 0..(size \div B - 1)
        BY <3>1 DEF size
      <4>. QED  BY <4>1, <4>2
    <3>4. (j + 1) * B <= size
      BY <1>2, <3>2, <3>3, Quotient
    <3>5. j < K
      <4>. SUFFICES ASSUME K <= j PROVE FALSE
        BY <3>3, PartSize
      <4>1. K * B <= (j + 1) * B
        BY <1>2, <3>3, PartSize
      <4>2. K * B \in Nat /\ (j + 1) * B \in Nat
        BY <1>2, <3>3, PartSize
      <4>. QED  BY <3>2, <3>4, <4>1, <4>2, PartSize
    <3>6. m * M + (j + 1) * B <= Len(image)
      <4>1. m * M \in Nat /\ l * M \in Nat /\ (j + 1) * B \in Nat
        BY <1>1, <1>2, <3>3
      <4>2. m * M <= l * M
        BY <1>1, <1>2
      <4>3. l * M + size = Len(image)
        BY <1>1 DEF size
      <4>. QED  BY <3>2, <3>4, <4>1, <4>2, <4>3
    <3>7. Part(image, m) = Part(target, m)
      BY <1>1, <2>2
    <3>8. j \in 0..(K - 1)
      BY <3>3, <3>5, PartSize
    <3>. QED  BY <1>1, <3>1, <3>6, <3>7, <3>8
  <2>. QED  BY <2>1, <2>2 DEF Marks
<1>5. PICK i \in Nat, j \in 0..(K - 1) :
         /\ b = i * K + j
         /\ Part(image, i) = Part(target, i) \/ i \in stray
         /\ i * M + (j + 1) * B <= Len(image)
  BY <1>4
<1>6. /\ b \in Nat
      /\ b * B = i * M + j * B /\ (b + 1) * B = i * M + (j + 1) * B
      /\ j * B \in Nat /\ (j + 1) * B <= M /\ (i + 1) * M = i * M + M
  BY <1>5, BlockUnits
<1>7. i * M \in Nat /\ (j + 1) * B \in Nat /\ (i + 1) * M \in Nat
      /\ M \in Nat
  BY <1>6, PartSize
<1>8. ASSUME b \div K \notin stray, NEW u \in (b * B + 1)..((b + 1) * B)
      PROVE  u <= Len(target) /\ target[u] = image[u]
  <2>1. u \in (i * M + 1)..((i + 1) * M) /\ u <= Len(image)
    BY <1>5, <1>6, <1>7
  <2>2. b \div K = i
    BY <1>5, PartOfBlock
  <2>3. Part(image, i) = Part(target, i)
    BY <1>5, <1>8, <2>2
  <2>. QED  BY <1>5, <2>1, <2>3, EqualParts
<1>. QED  BY <1>5, <1>6, <1>8

(* And every block of the image in a part that both files have is marked. *)
LEMMA MarksAreAll ==
  ASSUME NEW U, NEW image \in Seq(U), NEW target \in Seq(U),
         EndsWithin(image, target), NEW stray,
         NEW lastEqual \in LastEqual(image, target),
         NEW b \in Nat, (b + 1) * B <= Len(image),
         Part(target, b \div K) = Part(image, b \div K)
  PROVE  b \in Marks(image, target, stray, lastEqual)
<1>. DEFINE l == Len(image) \div M
            m == Len(target) \div M
            i == b \div K
            j == b % K
            size == LastBlockSize(image)
<1>1. /\ l \in Nat /\ l * M + size = Len(image)
      /\ size \in 1..(M - 1)
      /\ m \in Nat /\ m <= l
      /\ LastEqual(image, target) = {Part(image, m) = Part(target, m)}
      /\ PartCount(target) - 1 = m /\ PartCount(image) - 2 = l - 1
  BY LastPart
<1>2. /\ Len(image) \in Nat /\ Len(target) \in Nat /\ M \in Nat \ {0} /\ B \in Nat \ {0}
      /\ K \in Nat \ {0}
  BY PartSize, CompareAssumption
<1>3. i \in Nat /\ j \in 0..(K - 1) /\ b = i * K + j
  BY <1>2, Division
<1>4. \A q \in Nat : /\ q <= l <=> q * M <= Len(image)
                     /\ q <= m <=> q * M <= Len(target)
  BY <1>2, Quotient
<1>. HIDE DEF l, m, i, j
<1>5. /\ (b + 1) * B = i * M + (j + 1) * B
      /\ i * M \in Nat /\ j * B \in Nat /\ (j + 1) * B \in Nat
      /\ (j + 1) * B <= M
  BY <1>2, <1>3, BlockUnits
<1>6. Part(target, i) = Part(image, i)
  BY DEF i
<1>7. i <= l
  <2>1. i * M <= Len(image)
    BY <1>2, <1>5
  <2>. QED  BY <1>3, <1>4, <2>1
<1>8. CASE i < l
  <2>1. i \in WholeParts(image, target)
    BY <1>1, <1>3, <1>6, <1>8 DEF WholeParts
  <2>. QED  BY <1>3, <2>1 DEF Marks
<1>9. CASE i = l
  <2>1. size \in Nat /\ l * M \in Nat
    BY <1>1, <1>2
  <2>2. (j + 1) * B <= size
    <3>. DEFINE blocks == (j + 1) * B
                units == l * M
                upto == (b + 1) * B
    <3>1. /\ blocks \in Nat /\ units \in Nat /\ size \in Nat
          /\ upto = units + blocks /\ upto <= Len(image)
          /\ units + size = Len(image) /\ Len(image) \in Nat
      BY <1>1, <1>2, <1>5, <1>9, <2>1, Zenon
    <3>. HIDE DEF blocks, units, upto, size
    <3>2. blocks <= size
      BY <3>1
    <3>. QED  BY <3>2, Zenon DEF blocks
  <2>. HIDE DEF size
  <2>3. j + 1 \in Nat /\ size \div B \in Nat
    <3>1. size \div B \in Nat
      BY <1>2, <2>1, Division
    <3>. QED  BY <1>3, <3>1
  <2>4. j + 1 <= size \div B
    BY <1>2, <2>1, <2>2, <2>3, Quotient
  <2>5. j \in 0..(LastBlockSize(image) \div B - 1)
    BY <1>3, <2>3, <2>4 DEF size
  <2>6. m = l
    <3>. DEFINE u == l * M + 1
    <3>1. u \in (l * M + 1)..((l + 1) * M) /\ u <= Len(image)
      <4>1. (l + 1) * M = l * M + M
        BY <1>1, <1>2
      <4>2. l * M \in Nat /\ l * M + 1 <= Len(image)
        BY <1>1, <1>2, <2>1 DEF size
      <4>. QED  BY <1>2, <4>1, <4>2
    <3>2. u <= Len(target)
      BY <1>1, <1>6, <1>9, <3>1, EqualParts
    <3>3. l * M <= Len(target)
      BY <1>2, <2>1, <3>2
    <3>4. l <= m
      BY <1>1, <1>4, <3>3
    <3>. QED  BY <1>1, <3>4
  <2>7. lastEqual
    BY <1>1, <1>6, <1>9, <2>6
  <2>. QED  BY <1>1, <1>3, <1>9, <2>5, <2>6, <2>7 DEF Marks, LastMarks
<1>. QED  BY <1>1, <1>3, <1>7, <1>8, <1>9

(* The target gets as many parts as the image has. *)
LEMMA ExtendedEnds ==
  ASSUME NEW U, NEW f \in Seq(U), NEW size \in Nat, NEW hole \in U,
         NEW r \in U, Len(f) \div M <= size \div M
  PROVE  LET g == Extended(f, size, hole, r)
         IN  /\ g \in Seq(U) /\ Len(g) \div M = size \div M
             /\ Len(f) \div M # size \div M => size > Len(f)
<1>1. CASE Len(f) \div M = size \div M
  BY <1>1 DEF Extended
<1>2. CASE Len(f) \div M # size \div M
  <2>1. M \in Nat \ {0} /\ Len(f) \in Nat
    BY PartSize
  <2>2. size > Len(f)
    <3>1. size \div M \in Nat /\ Len(f) \div M \in Nat
      BY <2>1, Division
    <3>2. Len(f) \div M < size \div M
      BY <1>2, <3>1
    <3>3. size \div M <= Len(f) \div M <=> (size \div M) * M <= Len(f)
      BY <2>1, <3>1, Quotient
    <3>4. (size \div M) * M <= size /\ (size \div M) * M \in Nat
      BY <2>1, <3>1, Quotient
    <3>. QED  BY <2>1, <3>1, <3>2, <3>3, <3>4
  <2>. DEFINE e(u) == IF u = size THEN r ELSE IF u <= Len(f) THEN f[u] ELSE hole
  <2>3. Extended(f, size, hole, r) = [u \in 1..size |-> e(u)]
    BY <1>2, <2>2 DEF Extended
  <2>4. \A u \in 1..size : e(u) \in U
    BY <2>1
  <2>. HIDE DEF e
  <2>5. [u \in 1..size |-> e(u)] \in Seq(U)
        /\ Len([u \in 1..size |-> e(u)]) = size
    BY <2>4
  <2>. QED  BY <2>2, <2>3, <2>5
<1>. QED  BY <1>1, <1>2

(* If that fails it has no more parts either. *)
LEMMA ExtensionsEnd ==
  ASSUME NEW U, NEW f \in Seq(U), NEW size \in Nat, NEW hole \in U,
         NEW r \in U, Len(f) \div M <= size \div M,
         NEW g \in Extensions(f, size, hole, r)
  PROVE  g \in Seq(U) /\ Len(g) \div M <= size \div M
<1>1. M \in Nat \ {0} /\ Len(f) \in Nat
  BY PartSize
<1>2. CASE g = Extended(f, size, hole, r)
  <2>1. size \div M \in Nat
    BY <1>1, Division
  <2>. QED  BY <1>2, <2>1, ExtendedEnds
<1>3. CASE g = f
  BY <1>3
<1>4. CASE g = Append(f, r) /\ Len(f) \div M # size \div M
  <2>1. g \in Seq(U) /\ Len(g) = Len(f) + 1
    BY <1>4
  <2>2. Len(f) < size
    BY <1>4, ExtendedEnds
  <2>3. Len(g) \in Nat /\ Len(g) <= size
    BY <1>1, <2>1, <2>2
  <2>. QED  BY <2>1, <2>3, SmallerQuotient
<1>. QED  BY <1>2, <1>3, <1>4 DEF Extensions
=============================================================================

---------------------------- MODULE BitVectProofs ----------------------------
(***************************************************************************)
(* Proofs about BitVect for vectors of any size: the packed bytes          *)
(* implement a set of bit numbers, and the searches for an interval return *)
(* the first run whatever the bits are.                                    *)
(***************************************************************************)
EXTENDS BitVect, BlockProofs

Bytes == (size + 7) \div 8

(* Byte and position of a bit are unique, and exist for every bit. *)
LEMMA Position ==
  ASSUME NEW n \in Nat, NEW idx \in 0..(n - 1)
  PROVE  /\ idx \div 8 \in 0..((n + 7) \div 8 - 1)
         /\ idx % 8 \in 0..7
         /\ idx = 8 * (idx \div 8) + (idx % 8)
  OBVIOUS

(* So two bits that share byte and position are one. *)
LEMMA Unique ==
  ASSUME NEW i \in Nat, NEW j \in Nat, i \div 8 = j \div 8, i % 8 = j % 8
  PROVE  i = j
  OBVIOUS

(* The bits beyond size lie in the last byte. *)
LEMMA Padding ==
  ASSUME NEW n \in Nat, NEW idx \in n..(8 * ((n + 7) \div 8) - 1)
  PROVE  /\ idx \in Nat /\ idx \div 8 \in 0..((n + 7) \div 8 - 1)
         /\ idx % 8 \in 0..7
  OBVIOUS

(* A new vector is empty. *)
LEMMA InitTyped ==
  ASSUME Init
  PROVE  TypeOK /\ Ones = {}
<1>. USE BitVectAssumption
<1>1. size \in Nat
  BY DEF Init
<1>2. \A idx \in 0..(size - 1) : ~ Bit(idx)
  <2>. SUFFICES ASSUME NEW idx \in 0..(size - 1) PROVE ~ Bit(idx)
    OBVIOUS
  <2>1. idx \div 8 \in 0..((size + 7) \div 8 - 1)
    BY <1>1, Position
  <2>. QED  BY <2>1 DEF Init, Bit
<1>3. \A idx \in size..(8 * ((size + 7) \div 8) - 1) : ~ Bit(idx)
  <2>. SUFFICES ASSUME NEW idx \in size..(8 * ((size + 7) \div 8) - 1)
                PROVE  ~ Bit(idx)
    OBVIOUS
  <2>1. idx \div 8 \in 0..((size + 7) \div 8 - 1)
    BY <1>1, Padding
  <2>. QED  BY <2>1 DEF Init, Bit
<1>. QED  BY <1>1, <1>2, <1>3 DEF Init, TypeOK, Ones

(* set and unset change the bit they name and no other, of those below size
   and of those beyond it. *)
LEMMA OneBit ==
  ASSUME TypeOK, NEW idx \in 0..(size - 1), set(idx) \/ unset(idx),
         NEW j \in Nat, j \div 8 \in 0..(Bytes - 1)
  PROVE  /\ set(idx)   => (Bit(j)' <=> Bit(j) \/ j = idx)
         /\ unset(idx) => (Bit(j)' <=> Bit(j) /\ j # idx)
<1>1. /\ size \in Nat /\ idx \in Nat
      /\ data \in [0..(Bytes - 1) -> SUBSET (0..7)]
  BY BitVectAssumption DEF TypeOK, Bytes
<1>2. j # idx => j \div 8 # idx \div 8 \/ j % 8 # idx % 8
  BY <1>1, Unique
<1>. DEFINE jb == j \div 8
            ib == idx \div 8
            jp == j % 8
            ip == idx % 8
<1>3. jb \in DOMAIN data
  BY <1>1
<1>4. j = idx => jb = ib /\ jp = ip
  OBVIOUS
<1>5. Bit(j) = (jp \in data[jb]) /\ Bit(j)' = (jp \in data'[jb])
  BY DEF Bit
<1>6. set(idx) => data' = [data EXCEPT ![ib] = @ \cup {ip}]
  BY DEF set
<1>7. unset(idx) => data' = [data EXCEPT ![ib] = @ \ {ip}]
  BY DEF unset
<1>8. j # idx => jb # ib \/ jp # ip
  BY <1>2
<1>. HIDE DEF jb, ib, jp, ip
<1>9. set(idx) => (jp \in data'[jb] <=> jp \in data[jb] \/ j = idx)
  BY <1>3, <1>4, <1>6, <1>8
<1>10. unset(idx) => (jp \in data'[jb] <=> jp \in data[jb] /\ j # idx)
  BY <1>3, <1>4, <1>7, <1>8
<1>. QED  BY <1>5, <1>9, <1>10

(* The types are kept, and the step is one of the set. *)
LEMMA StepSet ==
  ASSUME TypeOK, NEW idx \in 0..(size - 1), set(idx) \/ unset(idx)
  PROVE  /\ TypeOK'
         /\ Set!Add(idx) \/ Set!Remove(idx)
<1>1. size \in Sizes /\ size \in Nat /\ size' = size
  BY BitVectAssumption DEF TypeOK, set, unset
<1>2. idx \div 8 \in 0..(Bytes - 1) /\ idx % 8 \in 0..7
  BY <1>1, Position DEF Bytes
<1>3. data' \in [0..(Bytes - 1) -> SUBSET (0..7)]
  <2>. DEFINE ib == idx \div 8
              ip == idx % 8
  <2>1. data \in [0..(Bytes - 1) -> SUBSET (0..7)]
    BY DEF TypeOK, Bytes
  <2>2. \/ data' = [data EXCEPT ![ib] = @ \cup {ip}]
        \/ data' = [data EXCEPT ![ib] = @ \ {ip}]
    BY DEF set, unset
  <2>. HIDE DEF ib, ip
  <2>. QED  BY <1>2, <2>1, <2>2 DEF ib, ip
<1>4. \A j \in size..(8 * Bytes - 1) : ~ Bit(j)'
  <2>. SUFFICES ASSUME NEW j \in size..(8 * Bytes - 1) PROVE ~ Bit(j)'
    OBVIOUS
  <2>1. j \in Nat /\ j \div 8 \in 0..(Bytes - 1)
    BY <1>1, Padding DEF Bytes
  <2>2. ~ Bit(j)
    BY DEF TypeOK, Bytes
  <2>3. j # idx
    BY <1>1
  <2>. QED  BY <2>1, <2>2, <2>3, OneBit
<1>5. TypeOK'
  BY <1>1, <1>3, <1>4 DEF TypeOK, Bytes
<1>6. ASSUME NEW j \in 0..(size - 1)
      PROVE  /\ set(idx)   => (Bit(j)' <=> Bit(j) \/ j = idx)
             /\ unset(idx) => (Bit(j)' <=> Bit(j) /\ j # idx)
  <2>1. j \in Nat /\ j \div 8 \in 0..(Bytes - 1)
    BY <1>1, Position DEF Bytes
  <2>. QED  BY <2>1, OneBit
<1>7. set(idx) => Ones' = Ones \cup {idx}
  BY <1>1, <1>6 DEF Ones
<1>8. unset(idx) => Ones' = Ones \ {idx}
  BY <1>1, <1>6 DEF Ones
<1>. QED  BY <1>1, <1>5, <1>7, <1>8 DEF Set!Add, Set!Remove

(* A step that is none changes nothing. *)
LEMMA StandStep ==
  ASSUME TypeOK, UNCHANGED vars
  PROVE  TypeOK' /\ Ones' = Ones
BY DEF vars, TypeOK, Ones, Bit

(* The bytes are typed and the bits beyond the last one stay 0. *)
THEOREM Typed == Spec => []TypeOK
<1>1. Init => TypeOK
  BY InitTyped
<1>2. TypeOK /\ [Next]_vars => TypeOK'
  BY StepSet, StandStep DEF Next
<1>. QED  BY <1>1, <1>2, PTL DEF Spec

(* The packed bytes implement the set of bit numbers, whatever the size:
   no operation touches a neighbour's bit. *)
THEOREM BytesAreASet == Spec => ImplementsBitSet
<1>1. Init => Ones = {}
  BY InitTyped
<1>2. TypeOK /\ [Next]_vars =>
        [\E i \in 0..(size - 1) : Set!Add(i) \/ Set!Remove(i)]_<<Ones, size>>
  BY StepSet, StandStep DEF Next, vars
<1>. QED  BY <1>1, <1>2, Typed, PTL DEF Spec, ImplementsBitSet, Set!BitSetSpec
-----------------------------------------------------------------------------
\* f walks from x up to n through the numbers of S
Walks(f, n, S) ==
    f = [x \in 0..n |-> IF x # n /\ x \in S THEN f[x + 1] ELSE x]

(* There is such a function: from x it goes to the least number that is not
   in S, or to n. *)
LEMMA WalkExists ==
  ASSUME NEW n \in Nat, NEW S
  PROVE  \E f : Walks(f, n, S)
<1>. DEFINE T(x) == {y \in x..n : y = n \/ y \notin S}
            f == [x \in 0..n |-> Min(T(x))]
<1>1. ASSUME NEW x \in 0..n, x # n, x \in S
      PROVE  x + 1 \in 0..n /\ T(x) = T(x + 1)
  BY <1>1
<1>2. ASSUME NEW x \in 0..n, x = n \/ x \notin S
      PROVE  Min(T(x)) = x
  <2>1. T(x) \in SUBSET Nat /\ x \in T(x) /\ \A y \in T(x) : x <= y
    BY <1>2
  <2>. HIDE DEF T
  <2>2. Min(T(x)) \in T(x) /\ Min(T(x)) <= x
    BY <2>1, MinIsLeast
  <2>3. x <= Min(T(x)) /\ Min(T(x)) \in Nat
    BY <2>1, <2>2
  <2>. QED  BY <2>2, <2>3
<1>. HIDE DEF T
<1>3. ASSUME NEW x \in 0..n
      PROVE  f[x] = IF x # n /\ x \in S THEN f[x + 1] ELSE x
  BY <1>1, <1>2
<1>. HIDE DEF f
<1>4. f = [x \in 0..n |-> f[x]]
  BY DEF f
<1>5. f = [x \in 0..n |-> IF x # n /\ x \in S THEN f[x + 1] ELSE x]
  BY <1>3, <1>4
<1>. QED  BY <1>5 DEF Walks

(* Where it ends: everything it passes is in S, where it stops is not. *)
LEMMA WalkEnds ==
  ASSUME NEW n \in Nat, NEW S, NEW f, Walks(f, n, S), NEW x \in 0..n
  PROVE  /\ f[x] \in x..n
         /\ x..(f[x] - 1) \subseteq S
         /\ f[x] = n \/ f[x] \notin S
<1>. DEFINE Good(y) == /\ f[y] \in y..n
                       /\ y..(f[y] - 1) \subseteq S
                       /\ f[y] = n \/ f[y] \notin S
            Bad == {k \in 0..n : ~ Good(n - k)}
<1>1. ASSUME NEW y \in 0..n
      PROVE  f[y] = IF y # n /\ y \in S THEN f[y + 1] ELSE y
  BY DEF Walks
<1>2. ASSUME NEW y \in 0..n, y # n => Good(y + 1)
      PROVE  Good(y)
  <2>1. CASE y # n /\ y \in S
    <3>1. f[y] = f[y + 1] /\ y + 1 \in 0..n
      BY <1>1, <2>1
    <3>2. Good(y + 1)
      BY <1>2, <2>1
    <3>3. f[y] \in y..n /\ (f[y] = n \/ f[y] \notin S)
      BY <3>1, <3>2
    <3>4. ASSUME NEW z \in y..(f[y] - 1) PROVE z \in S
      <4>1. z = y \/ z \in (y + 1)..(f[y + 1] - 1)
        BY <3>1, <3>3
      <4>. QED  BY <2>1, <3>2, <4>1
    <3>. QED  BY <3>3, <3>4
  <2>2. CASE ~ (y # n /\ y \in S)
    <3>1. f[y] = y
      BY <1>1, <2>2
    <3>. QED  BY <2>2, <3>1
  <2>. QED  BY <2>1, <2>2
<1>. HIDE DEF Good
<1>3. ASSUME Bad # {} PROVE FALSE
  <2>0. Bad \in SUBSET Nat
    OBVIOUS
  <2>1. PICK k \in Bad : \A j \in Bad : k <= j
    <3>. HIDE DEF Bad
    <3>. QED  BY <1>3, <2>0, LeastNumber
  <2>2. n - k \in 0..n /\ ~ Good(n - k)
    OBVIOUS
  <2>3. n - k # n /\ ~ Good(n - k + 1)
    BY <1>2, <2>2
  <2>4. k - 1 \in 0..n /\ n - (k - 1) = n - k + 1
    BY <2>2, <2>3
  <2>5. k - 1 \in Bad
    BY <2>3, <2>4
  <2>. QED  BY <2>1, <2>5
<1>4. n - x \in 0..n /\ n - (n - x) = x
  OBVIOUS
<1>5. Good(x)
  BY <1>3, <1>4
<1>. QED  BY <1>5 DEF Good

(* The first loop of intv stops at the first bit that is not v, or at size. *)
LEMMA SkipStops ==
  ASSUME size \in Nat, NEW v \in BOOLEAN
  PROVE  /\ SkipFrom0(v) \in 0..size
         /\ \A j \in 0..(SkipFrom0(v) - 1) : Bit(j) = v
         /\ SkipFrom0(v) # size => Bit(SkipFrom0(v)) # v
<1>. DEFINE S == {x \in 0..size : Bit(x) = v}
            skip[x \in 0..size] ==
              IF x # size /\ Bit(x) = v THEN skip[x + 1] ELSE x
<1>1. SkipFrom0(v) = skip[0]
  BY DEF SkipFrom0
<1>2. Walks(skip, size, S)
  <2>1. \A f : Walks(f, size, S) <=>
               f = [x \in 0..size |->
                      IF x # size /\ Bit(x) = v THEN f[x + 1] ELSE x]
    BY DEF Walks
  <2>2. PICK f : Walks(f, size, S)
    BY WalkExists
  <2>. QED  BY <2>1, <2>2
<1>. HIDE DEF S, skip
<1>3. /\ skip[0] \in 0..size /\ 0..(skip[0] - 1) \subseteq S
      /\ skip[0] = size \/ skip[0] \notin S
  BY <1>2, WalkEnds
<1>. QED  BY <1>1, <1>3 DEF S

(* The second one stops at the last bit of the run of v after x. *)
LEMMA ExtendStops ==
  ASSUME size \in Nat, NEW v \in BOOLEAN, NEW x \in 0..(size - 1)
  PROVE  /\ Extend(x, v) \in x..(size - 1)
         /\ \A j \in (x + 1)..Extend(x, v) : Bit(j) = v
         /\ Extend(x, v) # size - 1 => Bit(Extend(x, v) + 1) # v
<1>. DEFINE S == {y \in 0..(size - 1) : Bit(y + 1) = v}
            extend[y \in 0..(size - 1)] ==
              IF y # size - 1 /\ Bit(y + 1) = v THEN extend[y + 1] ELSE y
<1>1. Extend(x, v) = extend[x]
  BY DEF Extend
<1>2. Walks(extend, size - 1, S)
  <2>1. \A f : Walks(f, size - 1, S) <=>
               f = [y \in 0..(size - 1) |->
                      IF y # size - 1 /\ Bit(y + 1) = v THEN f[y + 1] ELSE y]
    BY DEF Walks
  <2>2. PICK f : Walks(f, size - 1, S)
    BY WalkExists
  <2>. QED  BY <2>1, <2>2
<1>. HIDE DEF S, extend
<1>3. /\ extend[x] \in x..(size - 1) /\ x..(extend[x] - 1) \subseteq S
      /\ extend[x] = size - 1 \/ extend[x] \notin S
  BY <1>2, WalkEnds
<1>4. ASSUME NEW j \in (x + 1)..extend[x] PROVE Bit(j) = v
  <2>1. j - 1 \in S
    BY <1>3
  <2>2. j - 1 + 1 = j
    OBVIOUS
  <2>. QED  BY <2>1, <2>2 DEF S
<1>5. extend[x] # size - 1 => Bit(extend[x] + 1) # v
  BY <1>3 DEF S
<1>. QED  BY <1>1, <1>3, <1>4, <1>5

(* A number that starts a run of S, ends it and has nothing of S before it
   are the two ends of the first run. *)
LEMMA RunIs ==
  ASSUME NEW n \in Nat, NEW S \in SUBSET (0..(n - 1)), NEW x \in S, NEW y \in S,
         \A z \in S : x <= z, x <= y, x..y \subseteq S, y + 1 \notin S
  PROVE  FirstRun(S, n) = [from |-> x, to |-> y]
<1>1. Min(S) \in S /\ \A z \in S : Min(S) <= z
  BY MinIsLeast
<1>2. Min(S) = x
  <2>. DEFINE m == Min(S)
  <2>1. m \in S /\ m <= x
    BY <1>1
  <2>. HIDE DEF m
  <2>2. m \in 0..(n - 1) /\ x \in 0..(n - 1) /\ x <= m
    BY <2>1
  <2>3. m = x
    BY <2>1, <2>2
  <2>. QED  BY <2>3 DEF m
<1>3. /\ RunEnd(S, x) \in S /\ x <= RunEnd(S, x)
      /\ x..RunEnd(S, x) \subseteq S
      /\ RunEnd(S, x) + 1 \notin S
  BY RunEndIsEnd
<1>4. RunEnd(S, x) = y
  <2>. DEFINE e == RunEnd(S, x)
  <2>0. e \in S /\ x <= e /\ x..e \subseteq S /\ e + 1 \notin S
    BY <1>3
  <2>. HIDE DEF e
  <2>1. e \in Nat /\ x <= e /\ x..e \subseteq S /\ e + 1 \notin S
    BY <2>0
  <2>2. ~ (e < y)
    <3>1. e < y => e + 1 \in x..y
      BY <2>1
    <3>. QED  BY <2>1, <3>1
  <2>3. ~ (y < e)
    <3>1. y < e => y + 1 \in x..e
      BY <2>1
    <3>. QED  BY <2>1, <3>1
  <2>4. e = y
    BY <2>1, <2>2, <2>3
  <2>. QED  BY <2>4 DEF e
<1>. QED  BY <1>2, <1>4 DEF FirstRun

(* What intv returns if it skips one value and looks for the other one. *)
LEMMA IntervalIsRun ==
  ASSUME size \in Nat, NEW v \in BOOLEAN
  PROVE  Interval(~ v, v) = FirstRun({j \in 0..(size - 1) : Bit(j) = v}, size)
<1>. DEFINE S == {j \in 0..(size - 1) : Bit(j) = v}
            x == SkipFrom0(~ v)
<1>0. \A j : Bit(j) \in BOOLEAN
  BY DEF Bit
<1>1. /\ x \in 0..size /\ \A j \in 0..(x - 1) : Bit(j) = ~ v
      /\ x # size => Bit(x) # ~ v
  BY SkipStops
<1>2. Interval(~ v, v) = [from |-> x, to |-> IF x = size THEN -1
                                             ELSE Extend(x, v)]
  BY DEF Interval
<1>. HIDE DEF x
<1>3. CASE x = size
  <2>1. S = {}
    BY <1>0, <1>1, <1>3
  <2>. QED  BY <1>2, <1>3, <2>1 DEF FirstRun
<1>4. CASE x # size
  <2>. DEFINE y == Extend(x, v)
  <2>1. x \in 0..(size - 1)
    BY <1>1, <1>4
  <2>2. /\ y \in x..(size - 1) /\ \A j \in (x + 1)..y : Bit(j) = v
        /\ y # size - 1 => Bit(y + 1) # v
    BY <2>1, ExtendStops
  <2>3. Bit(x) = v
    BY <1>0, <1>1, <1>4
  <2>. HIDE DEF y
  <2>4. x..y \subseteq S
    BY <2>1, <2>2, <2>3
  <2>5. x \in S /\ y \in S /\ x <= y /\ y + 1 \notin S
    BY <2>1, <2>2, <2>4
  <2>6. \A z \in S : x <= z
    BY <1>0, <1>1, <2>1
  <2>. HIDE DEF S
  <2>7. S \in SUBSET (0..(size - 1))
    BY DEF S
  <2>8. FirstRun(S, size) = [from |-> x, to |-> y]
    BY <2>4, <2>5, <2>6, <2>7, RunIs
  <2>. QED  BY <1>2, <1>4, <2>8 DEF S, y
<1>. QED  BY <1>3, <1>4

(* What the restore thread sends next is the first run of requested blocks,
   whole, for a vector of any size. *)
THEOREM Intv1Searches == Spec => []Intv1IsFirstRun
<1>1. TypeOK => Intv1IsFirstRun
  <2>. SUFFICES ASSUME TypeOK PROVE Intv1IsFirstRun
    OBVIOUS
  <2>1. size \in Nat
    BY BitVectAssumption DEF TypeOK
  <2>2. Ones = {j \in 0..(size - 1) : Bit(j) = TRUE}
    BY DEF Ones, Bit
  <2>3. intv1 = Interval(~ TRUE, TRUE)
    BY DEF intv1
  <2>. QED  BY <2>1, <2>2, <2>3, IntervalIsRun DEF Intv1IsFirstRun
<1>. QED  BY <1>1, Typed, PTL

(* What the client asks for is the first run of missing blocks, whole, for a
   vector of any size. *)
THEOREM IntvExSearches == Spec => []IntvExIsFirstGap
<1>1. TypeOK => IntvExIsFirstGap
  <2>. SUFFICES ASSUME TypeOK PROVE IntvExIsFirstGap
    OBVIOUS
  <2>1. size \in Nat
    BY BitVectAssumption DEF TypeOK
  <2>2. 0..(size - 1) \ Ones = {j \in 0..(size - 1) : Bit(j) = FALSE}
    BY DEF Ones, Bit
  <2>3. intvEx = Interval(~ FALSE, FALSE)
    BY DEF intvEx
  <2>. QED  BY <2>1, <2>2, <2>3, IntervalIsRun
            DEF IntvExIsFirstGap, FirstGap
<1>. QED  BY <1>1, Typed, PTL
=============================================================================

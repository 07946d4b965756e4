--------------------------- MODULE InfoServerProofs ---------------------------
(***************************************************************************)
(* Proofs about InfoServer for any images, files, configurations, clients, *)
(* reloads and crashes.                                                    *)
(***************************************************************************)
EXTENDS InfoServer, WellFoundedInduction, SequenceTheorems, TLAPS

\* an image is in a file of units of U, or has none
Files(U) == Seq(U) \cup {NoFile}

\* the files that there are at first and that are written later
FilesOver(U) == /\ NoFile \notin Seq(U) /\ Zeros \in U
                /\ Disk \in [Names -> Files(U)]
                /\ Edits \subseteq Names \X Files(U)

\* what may be read of a name that is cut off
Begun == {<<>>} \cup UNION {{SubSeq(n, 1, j) : j \in 0..Len(n)} : n \in Names}

\* the images of a configuration are those of which Disk knows the file, and so
\* are those whose names are beginnings of these, if a configuration has a path
\* for them
ImagesNamed == /\ Names \subseteq Seq(STRING)
               /\ \A c \in Usable : /\ images(c) \in Seq(Names)
                                    /\ \A n \in Begun :
                                          <<c, n>> \in WithPath => n \in Names

Entries(U) == [name : Begun, size : Int, sums : Seq(U)]

\* the cache file: none, a whole one, nothing, or one that ends within an entry
CacheTyped(U) ==
    /\ cache.list \in Seq(Entries(U))
    /\ \/ cache \in {NoCache, Emptied, Complete(cache.list)}
       \/ \E w \in 0..(Len(cache.list) - 1) :
             \E k \in -3..(Len(cache.list[w + 1].sums) - 1) :
                cache = Written(cache.list, w, k)

CTyped(U) ==
    /\ disk \in [Names -> Files(U)]
    /\ lpc \in {"off", "idle", "measure", "checksum", "publish", "write"}
    /\ lst \in Seq(Entries(U)) /\ list \in Seq(Entries(U))
    /\ infoList \in Seq(Entries(U)) /\ pos \in Nat \ {0}
    /\ CacheTyped(U)

-----------------------------------------------------------------------------
(* Every set of natural numbers that is not empty has a least member. *)
LEMMA LeastNumber ==
  ASSUME NEW S \in SUBSET Nat, S # {}
  PROVE  \E x \in S : \A y \in S : x <= y
<1>. DEFINE R == OpToRel(<, Nat)
<1>1. IsWellFoundedOn(R, Nat)
  BY NatLessThanWellFounded
<1>2. \A x, y \in Nat : <<y, x>> \in R <=> y < x
  BY DEF OpToRel
<1>. HIDE DEF R
<1>3. PICK x \in S : \A y \in S : ~ (<<y, x>> \in R)
  BY <1>1, WFMin
<1>4. ASSUME NEW y \in S PROVE x <= y
  <2>1. ~ (y < x)
    BY <1>2, <1>3
  <2>. QED  BY <2>1
<1>. QED  BY <1>4

\* f is the loop of WithNames over the first n names
Adds(f, n, l, names) ==
    f = [i \in 0..n |->
           IF i = 0 THEN l
           ELSE IF names[i] \in NamesOf(f[i - 1]) THEN f[i - 1]
           ELSE Append(f[i - 1], Entry(names[i], 0, <<>>))]

(* The loop has a result, however many names there are. *)
LEMMA AddsExists ==
  ASSUME NEW n \in Nat, NEW l, NEW names
  PROVE  \E f : Adds(f, n, l, names)
<1>. DEFINE Bad == {m \in Nat : ~ \E f : Adds(f, m, l, names)}
            step(m, before) ==
              IF names[m] \in NamesOf(before) THEN before
              ELSE Append(before, Entry(names[m], 0, <<>>))
<1>1. \A f, m : Adds(f, m, l, names) <=>
         f = [i \in 0..m |-> IF i = 0 THEN l ELSE step(i, f[i - 1])]
  BY DEF Adds
<1>. HIDE DEF step
<1>2. ASSUME Bad # {} PROVE FALSE
  <2>1. PICK m \in Bad : \A k \in Bad : m <= k
    <3>1. Bad \in SUBSET Nat
      OBVIOUS
    <3>. HIDE DEF Bad
    <3>. QED  BY <1>2, <3>1, LeastNumber
  <2>2. m # 0
    <3>. DEFINE f == [i \in 0..0 |-> l]
    <3>1. f = [i \in 0..0 |-> IF i = 0 THEN l ELSE step(i, f[i - 1])]
      OBVIOUS
    <3>. HIDE DEF f
    <3>. QED  BY <1>1, <3>1
  <2>3. PICK f : Adds(f, m - 1, l, names)
    <3>1. m - 1 \in Nat /\ m - 1 \notin Bad
      BY <2>1, <2>2
    <3>. QED  BY <3>1
  <2>. DEFINE g == [i \in 0..m |-> IF i = m THEN step(m, f[m - 1]) ELSE f[i]]
  <2>4. f = [i \in 0..(m - 1) |-> IF i = 0 THEN l ELSE step(i, f[i - 1])]
    BY <1>1, <2>3
  <2>5. ASSUME NEW i \in 0..m
        PROVE  g[i] = IF i = 0 THEN l ELSE step(i, g[i - 1])
    <3>1. CASE i = m
      BY <2>2, <3>1
    <3>2. CASE i # m
      <4>1. g[i] = f[i] /\ (i # 0 => g[i - 1] = f[i - 1])
        BY <3>2
      <4>2. f[i] = IF i = 0 THEN l ELSE step(i, f[i - 1])
        BY <2>4, <3>2
      <4>. QED  BY <4>1, <4>2
    <3>. QED  BY <3>1, <3>2
  <2>6. g = [i \in 0..m |-> g[i]]
    OBVIOUS
  <2>. HIDE DEF g
  <2>7. g = [i \in 0..m |-> IF i = 0 THEN l ELSE step(i, g[i - 1])]
    BY <2>5, <2>6
  <2>8. Adds(g, m, l, names)
    BY <1>1, <2>7
  <2>. QED  BY <2>1, <2>8
<1>. QED  BY <1>2

(* The first elements of a sequence. *)
LEMMA BeginningOf ==
  ASSUME NEW S, NEW s \in Seq(S), NEW n \in 0..Len(s)
  PROVE  /\ SubSeq(s, 1, n) \in Seq(S) /\ Len(SubSeq(s, 1, n)) = n
         /\ \A k \in 1..n : SubSeq(s, 1, n)[k] = s[k]
<1>1. Len(s) \in Nat /\ DOMAIN s = 1..Len(s) /\ n \in Nat
  OBVIOUS
<1>2. \A k \in 1..n : s[k] \in S
  BY <1>1
<1>. QED  BY <1>1, <1>2, SubSeqProperties

(* A name of an image is a beginning of itself, and the beginning of a
   beginning is one. *)
LEMMA BegunClosed ==
  ASSUME ImagesNamed
  PROVE  /\ Names \subseteq Begun
         /\ \A n \in Begun : \A j \in 0..Len(n) : SubSeq(n, 1, j) \in Begun
<1>1. ASSUME NEW n \in Names
      PROVE  /\ n \in Begun
             /\ \A j \in 0..Len(n) :
                   \A i \in 0..Len(SubSeq(n, 1, j)) :
                      SubSeq(SubSeq(n, 1, j), 1, i) \in Begun
  <2>1. n \in Seq(STRING) /\ Len(n) \in Nat
    BY DEF ImagesNamed
  <2>2. \A j \in 0..Len(n) : SubSeq(n, 1, j) \in Begun
    BY DEF Begun
  <2>3. SubSeq(n, 1, Len(n)) = n
    BY <2>1, SubSeqFull
  <2>4. ASSUME NEW j \in 0..Len(n), NEW i \in 0..Len(SubSeq(n, 1, j))
        PROVE  SubSeq(SubSeq(n, 1, j), 1, i) = SubSeq(n, 1, i) /\ i \in 0..Len(n)
    <3>. DEFINE m == SubSeq(n, 1, j)
    <3>1. /\ m \in Seq(STRING) /\ Len(m) = j
          /\ \A k \in 1..j : m[k] = n[k]
      BY <2>1, BeginningOf
    <3>. HIDE DEF m
    <3>2. i \in 0..Len(n) /\ i \in 0..Len(m) /\ i <= j
      BY <2>1, <2>4, <3>1 DEF m
    <3>3. /\ SubSeq(m, 1, i) \in Seq(STRING) /\ Len(SubSeq(m, 1, i)) = i
          /\ \A k \in 1..i : SubSeq(m, 1, i)[k] = m[k]
      BY <3>1, <3>2, BeginningOf
    <3>4. /\ SubSeq(n, 1, i) \in Seq(STRING) /\ Len(SubSeq(n, 1, i)) = i
          /\ \A k \in 1..i : SubSeq(n, 1, i)[k] = n[k]
      BY <2>1, <3>2, BeginningOf
    <3>5. \A k \in 1..i : k \in 1..j
      BY <2>1, <3>2
    <3>. QED  BY <3>1, <3>2, <3>3, <3>4, <3>5, SeqEqual DEF m
  <2>5. ASSUME NEW j \in 0..Len(n), NEW i \in 0..Len(SubSeq(n, 1, j))
        PROVE  SubSeq(SubSeq(n, 1, j), 1, i) \in Begun
    <3>1. SubSeq(SubSeq(n, 1, j), 1, i) = SubSeq(n, 1, i) /\ i \in 0..Len(n)
      BY <2>4
    <3>. QED  BY <2>2, <3>1
  <2>6. n \in Begun
    <3>1. Len(n) \in 0..Len(n)
      BY <2>1
    <3>. QED  BY <2>2, <2>3, <3>1
  <2>. QED  BY <2>5, <2>6
<1>2. ASSUME NEW n \in Begun, NEW j \in 0..Len(n)
      PROVE  SubSeq(n, 1, j) \in Begun
  <2>1. CASE n = <<>>
    <3>1. SubSeq(n, 1, j) = <<>>
      BY <2>1, SubSeqEmpty
    <3>. QED  BY <3>1 DEF Begun
  <2>2. CASE n # <<>>
    <3>1. PICK m \in Names : n \in {SubSeq(m, 1, i) : i \in 0..Len(m)}
      BY <2>2 DEF Begun
    <3>. QED  BY <1>1, <3>1
  <2>. QED  BY <2>1, <2>2
<1>. QED  BY <1>1, <1>2

\* m is l with entries added that have neither size nor checksums
Grown(U, l, m) ==
    /\ m \in Seq(Entries(U))
    /\ \A k \in DOMAIN m : \/ \E j \in DOMAIN l : m[k] = l[j]
                           \/ m[k].size = 0 /\ m[k].sums = <<>>

(* After i names each of them is in the list, and nothing else was added. *)
LEMMA AddsKeeps ==
  ASSUME NEW U, NEW l \in Seq(Entries(U)), NEW names \in Seq(Names),
         Names \subseteq Begun, NEW f, Adds(f, Len(names), l, names)
  PROVE  \A i \in 0..Len(names) : /\ Grown(U, l, f[i])
                                  /\ \A j \in 1..i : names[j] \in NamesOf(f[i])
<1>. DEFINE n == Len(names)
            Good(i) == /\ Grown(U, l, f[i])
                       /\ \A j \in 1..i : names[j] \in NamesOf(f[i])
            Bad == {i \in 0..n : ~ Good(i)}
<1>0. n \in Nat /\ \A j \in 1..n : names[j] \in Names
  OBVIOUS
<1>1. ASSUME NEW i \in 0..n
      PROVE  f[i] = IF i = 0 THEN l
                    ELSE IF names[i] \in NamesOf(f[i - 1]) THEN f[i - 1]
                    ELSE Append(f[i - 1], Entry(names[i], 0, <<>>))
  BY DEF Adds
<1>. HIDE DEF n
<1>2. Good(0)
  <2>1. f[0] = l
    BY <1>0, <1>1
  <2>2. Grown(U, l, l)
    BY DEF Grown
  <2>. QED  BY <2>1, <2>2
<1>3. ASSUME NEW i \in 1..n, Good(i - 1)
      PROVE  Good(i)
  <2>. DEFINE before == f[i - 1]
              e == Entry(names[i], 0, <<>>)
  <2>1. /\ before \in Seq(Entries(U))
        /\ \A k \in DOMAIN before : \/ \E j \in DOMAIN l : before[k] = l[j]
                                    \/ /\ before[k].size = 0
                                       /\ before[k].sums = <<>>
        /\ \A j \in 1..(i - 1) : names[j] \in NamesOf(before)
    BY <1>3 DEF Grown
  <2>2. names[i] \in Names
    BY <1>0
  <2>3. f[i] = IF names[i] \in NamesOf(before) THEN before
               ELSE Append(before, e)
    BY <1>0, <1>1
  <2>4. /\ e \in Entries(U) /\ e.name = names[i]
        /\ e.size = 0 /\ e.sums = <<>>
    BY <2>2 DEF Entry, Entries
  <2>. HIDE DEF before, e
  <2>5. CASE names[i] \in NamesOf(before)
    <3>1. \A j \in 1..i : j = i \/ j \in 1..(i - 1)
      BY <1>0
    <3>2. f[i] = before
      BY <2>3, <2>5
    <3>. QED  BY <2>1, <2>5, <3>1, <3>2 DEF Grown
  <2>6. CASE names[i] \notin NamesOf(before)
    <3>. DEFINE m == Append(before, e)
    <3>1. f[i] = m
      BY <2>3, <2>6
    <3>2. /\ m \in Seq(Entries(U)) /\ Len(m) = Len(before) + 1
          /\ \A k \in 1..Len(before) : m[k] = before[k]
          /\ m[Len(before) + 1] = e
      BY <2>1, <2>4, AppendProperties
    <3>. HIDE DEF m
    <3>3. DOMAIN m = 1..Len(m) /\ DOMAIN before = 1..Len(before)
          /\ Len(before) \in Nat
      BY <2>1, <3>2
    <3>4. Grown(U, l, m)
      <4>. SUFFICES ASSUME NEW k \in DOMAIN m
                    PROVE  \/ \E j \in DOMAIN l : m[k] = l[j]
                           \/ m[k].size = 0 /\ m[k].sums = <<>>
        BY <3>2 DEF Grown
      <4>1. CASE k = Len(before) + 1
        BY <2>4, <3>2, <4>1
      <4>2. CASE k \in DOMAIN before
        BY <2>1, <3>2, <3>3, <4>2
      <4>. QED  BY <3>2, <3>3, <4>1, <4>2
    <3>5. ASSUME NEW j \in 1..i PROVE names[j] \in NamesOf(m)
      <4>1. CASE j = i
        <5>1. Len(before) + 1 \in DOMAIN m
          BY <3>2, <3>3
        <5>2. m[Len(before) + 1].name = names[j]
          BY <2>4, <3>2, <4>1
        <5>. QED  BY <5>1, <5>2 DEF NamesOf
      <4>2. CASE j # i
        <5>1. names[j] \in NamesOf(before)
          BY <1>0, <2>1, <4>2
        <5>2. PICK k \in DOMAIN before : before[k].name = names[j]
          BY <5>1 DEF NamesOf
        <5>3. k \in DOMAIN m /\ m[k] = before[k]
          BY <3>2, <3>3
        <5>. QED  BY <5>2, <5>3 DEF NamesOf
      <4>. QED  BY <4>1, <4>2
    <3>. QED  BY <3>1, <3>4, <3>5
  <2>. QED  BY <2>5, <2>6
<1>. HIDE DEF Good
<1>4. ASSUME Bad # {} PROVE FALSE
  <2>1. Bad \in SUBSET Nat
    BY <1>0
  <2>2. PICK m \in Bad : \A k \in Bad : m <= k
    <3>. HIDE DEF Bad
    <3>. QED  BY <1>4, <2>1, LeastNumber
  <2>3. m \in 0..n /\ ~ Good(m) /\ m # 0
    BY <1>2, <2>2
  <2>4. m \in 1..n /\ m - 1 \in 0..n /\ ~ (m <= m - 1)
    BY <1>0, <2>3
  <2>5. Good(m - 1)
    BY <2>2, <2>4
  <2>. QED  BY <1>3, <2>3, <2>4, <2>5
<1>5. \A i \in 0..n : Good(i)
  BY <1>4
<1>. QED  BY <1>5 DEF Good, n

(* What a load starts with: what it was given, and every image that is
   configured. *)
LEMMA WithNamesKeeps ==
  ASSUME NEW U, ImagesNamed, config \in Usable, NEW l \in Seq(Entries(U))
  PROVE  /\ Grown(U, l, WithNames(l))
         /\ \A n \in Names : <<config, n>> \in Listed => n \in NamesOf(WithNames(l))
<1>. DEFINE names == images(config)
            added[i \in 0..Len(names)] ==
              IF i = 0 THEN l
              ELSE IF names[i] \in NamesOf(added[i - 1]) THEN added[i - 1]
              ELSE Append(added[i - 1], Entry(names[i], 0, <<>>))
<1>1. WithNames(l) = added[Len(names)]
  BY DEF WithNames
<1>2. names \in Seq(Names) /\ Len(names) \in Nat
  <2>1. names \in Seq(Names)
    BY DEF ImagesNamed
  <2>. HIDE DEF names
  <2>. QED  BY <2>1
<1>3. Adds(added, Len(names), l, names)
  <2>1. \A f : Adds(f, Len(names), l, names) <=>
          f = [i \in 0..Len(names) |->
                 IF i = 0 THEN l
                 ELSE IF names[i] \in NamesOf(f[i - 1]) THEN f[i - 1]
                 ELSE Append(f[i - 1], Entry(names[i], 0, <<>>))]
    BY DEF Adds
  <2>. HIDE DEF names
  <2>2. \E f : Adds(f, Len(names), l, names)
    BY <1>2, AddsExists
  <2>. QED  BY <2>1, <2>2 DEF Adds
<1>4. \A n : <<config, n>> \in Listed =>
         \E k \in 1..Len(names) : n = names[k]
  <2>. SUFFICES ASSUME NEW n, <<config, n>> \in Listed
                PROVE  \E k \in 1..Len(names) : n = names[k]
    OBVIOUS
  <2>1. PICK c \in Usable :
           <<config, n>> \in {<<c, images(c)[k]>> : k \in DOMAIN images(c)}
    BY DEF Listed
  <2>2. PICK k \in DOMAIN images(c) : <<config, n>> = <<c, images(c)[k]>>
    BY <2>1
  <2>3. c = config /\ n = images(c)[k]
    BY <2>2
  <2>. QED  BY <1>2, <2>2, <2>3
<1>. HIDE DEF names, added
<1>5. /\ Grown(U, l, added[Len(names)])
      /\ \A j \in 1..Len(names) : names[j] \in NamesOf(added[Len(names)])
  BY <1>2, <1>3, AddsKeeps, BegunClosed
<1>. QED  BY <1>1, <1>4, <1>5

(* Two sequences with an element between them. *)
LEMMA Joined ==
  ASSUME NEW S, NEW s \in Seq(S), NEW e \in S, NEW t \in Seq(S),
         NEW v \in Nat, NEW m \in Nat, Len(s) + 1 = v, m = v + Len(t)
  PROVE  LET b == s \o <<e>> \o t IN
         /\ b \in Seq(S) /\ DOMAIN b = 1..m
         /\ \A i \in 1..m : b[i] = IF i < v THEN s[i] ELSE
                                    IF i = v THEN e ELSE t[i - v]
<1>. DEFINE u == s \o <<e>>
            b == u \o t
<1>0. Len(s) \in Nat
  OBVIOUS
<1>1. /\ u \in Seq(S) /\ Len(u) = v
      /\ \A i \in 1..v : u[i] = IF i < v THEN s[i] ELSE e
  <2>. DEFINE o == <<e>>
  <2>1. o \in Seq(S) /\ Len(o) = 1 /\ o[1] = e
    OBVIOUS
  <2>. HIDE DEF o, u
  <2>2. /\ u \in Seq(S) /\ Len(u) = Len(s) + Len(o)
        /\ \A i \in 1..(Len(s) + Len(o)) :
              u[i] = IF i <= Len(s) THEN s[i] ELSE o[i - Len(s)]
    BY <2>1, ConcatProperties DEF u, o
  <2>3. ASSUME NEW i \in 1..v PROVE u[i] = IF i < v THEN s[i] ELSE e
    <3>1. CASE i < v
      <4>1. i <= Len(s) /\ i \in 1..(Len(s) + Len(o))
        BY <1>0, <2>1, <3>1
      <4>. QED  BY <2>2, <3>1, <4>1
    <3>2. CASE i = v
      <4>1. ~ (i <= Len(s)) /\ i \in 1..(Len(s) + Len(o)) /\ i - Len(s) = 1
        BY <1>0, <2>1, <3>2
      <4>2. u[i] = o[1]
        BY <2>2, <4>1
      <4>. QED  BY <2>1, <3>2, <4>2
    <3>. QED  BY <3>1, <3>2
  <2>. QED  BY <2>1, <2>2, <2>3
<1>. HIDE DEF u
<1>2. /\ b \in Seq(S) /\ Len(b) = m
      /\ \A i \in 1..m : b[i] = IF i <= v THEN u[i] ELSE t[i - v]
  <2>1. /\ b \in Seq(S) /\ Len(b) = Len(u) + Len(t)
        /\ \A i \in 1..(Len(u) + Len(t)) :
              b[i] = IF i <= Len(u) THEN u[i] ELSE t[i - Len(u)]
    BY <1>1, ConcatProperties
  <2>. QED  BY <1>1, <2>1
<1>. HIDE DEF b
<1>3. DOMAIN b = 1..m
  BY <1>2
<1>4. ASSUME NEW i \in 1..m
      PROVE  b[i] = IF i < v THEN s[i] ELSE IF i = v THEN e ELSE t[i - v]
  <2>1. b[i] = IF i <= v THEN u[i] ELSE t[i - v]
    BY <1>2
  <2>2. i <= v => u[i] = IF i < v THEN s[i] ELSE e
    BY <1>1
  <2>3. i <= v <=> i < v \/ i = v
    OBVIOUS
  <2>. QED  BY <2>1, <2>2, <2>3
<1>. QED  BY <1>2, <1>3, <1>4 DEF b, u

(* An entry that was cut off is read as an entry: with a size that no file has,
   or with as many checksums as there were, if their number was in the file. *)
LEMMA CutTyped ==
  ASSUME NEW U, ImagesNamed, Zeros \in U, NEW e \in Entries(U),
         NEW n \in -3..(Len(e.sums) - 1), NEW d \in Cut(e, n)
  PROVE  /\ d \in Entries(U)
         /\ \/ d.size = -1
            \/ /\ d.name = e.name /\ d.size = e.size
               /\ n = -1 \/ Len(d.sums) = Len(e.sums)
<1>1. /\ e.name \in Begun /\ e.size \in Int /\ e.sums \in Seq(U)
      /\ Len(e.sums) \in Nat /\ DOMAIN e.sums = 1..Len(e.sums)
      /\ e = [name |-> e.name, size |-> e.size, sums |-> e.sums]
      /\ n \in Int
  BY DEF Entries
<1>2. CASE n >= 0
  <2>. DEFINE sum(k) == IF k <= n THEN e.sums[k]
                        ELSE IF n = 0 THEN Zeros ELSE e.sums[n]
              s == [k \in 1..Len(e.sums) |-> sum(k)]
  <2>1. \A k \in 1..Len(e.sums) : sum(k) \in U
    BY <1>1, <1>2
  <2>2. Cut(e, n) = {Filled(e, n)}
    BY <1>2 DEF Cut
  <2>3. Filled(e, n) = [name |-> e.name, size |-> e.size, sums |-> s]
    <3>1. Filled(e, n) = [e EXCEPT !.sums = s]
      BY <1>1 DEF Filled
    <3>. HIDE DEF s
    <3>. QED  BY <3>1 DEF Entries
  <2>. HIDE DEF sum
  <2>4. s \in Seq(U) /\ Len(s) = Len(e.sums)
    BY <1>1, <2>1
  <2>. HIDE DEF s
  <2>. QED  BY <1>1, <1>2, <2>2, <2>3, <2>4 DEF Entries
<1>3. CASE n = -1
  <2>1. PICK m \in 0..MaxStray : d = [e EXCEPT !.sums = [j \in 1..m |-> Zeros]]
    BY <1>3 DEF Cut
  <2>2. m \in Nat
    BY CacheAssumption
  <2>. DEFINE s == [j \in 1..m |-> Zeros]
  <2>3. s \in Seq(U)
    BY <2>2
  <2>4. d = [name |-> e.name, size |-> e.size, sums |-> s]
    BY <1>1, <2>1 DEF Entries
  <2>. HIDE DEF s
  <2>. QED  BY <1>1, <1>3, <2>3, <2>4 DEF Entries
<1>4. CASE n < -1
  <2>1. \E m \in Begun : d = Entry(m, -1, <<>>)
    <3>1. CASE n = -2
      BY <1>1, <3>1 DEF Cut
    <3>2. CASE n # -2
      <4>1. Cut(e, n) = {Entry(SubSeq(e.name, 1, j), -1, <<>>) : j \in 0..Len(e.name)}
        BY <1>1, <1>4, <3>2 DEF Cut
      <4>2. PICK j \in 0..Len(e.name) : d = Entry(SubSeq(e.name, 1, j), -1, <<>>)
        BY <4>1
      <4>. QED  BY <1>1, <4>2, BegunClosed
    <3>. QED  BY <3>1, <3>2
  <2>2. <<>> \in Seq(U)
    OBVIOUS
  <2>. QED  BY <2>1, <2>2 DEF Entry, Entries
<1>. QED  BY <1>1, <1>2, <1>3, <1>4

(* Entries that are read when there is nothing left to read. *)
LEMMA StrayTyped ==
  ASSUME NEW U, NEW name \in Begun, NEW n \in Nat
  PROVE  /\ Stray(name, n) \in Seq(Entries(U)) /\ Len(Stray(name, n)) = n
         /\ DOMAIN Stray(name, n) = 1..n
         /\ \A i \in 1..n : Stray(name, n)[i].size = -1
<1>. DEFINE e == Entry(name, -1, <<>>)
<1>1. e \in Entries(U) /\ e.size = -1
  <2>1. <<>> \in Seq(U)
    OBVIOUS
  <2>. QED  BY <2>1 DEF Entry, Entries
<1>2. Stray(name, n) = [k \in 1..n |-> e]
  BY DEF Stray
<1>. HIDE DEF e
<1>. QED  BY <1>1, <1>2

(* What is read back of a cache file are entries.  Each has a size that no file
   has, or as many checksums as its size says, if those of the file have them
   and the one at whose number of checksums the file ended was noted. *)
LEMMA ReadBackTyped ==
  ASSUME NEW U, FilesOver(U), ImagesNamed, CacheTyped(U), cache # NoCache,
         NEW b \in ReadBack(cache)
  PROVE  /\ b \in Seq(Entries(U))
         /\ AllFit(cache.list) /\ Torn(cache) \subseteq torn =>
               \A i \in DOMAIN b : b[i].size = -1 \/ Fit(b[i])
<1>. DEFINE l == cache.list
<1>0. l \in Seq(Entries(U)) /\ Len(l) \in Nat /\ DOMAIN l = 1..Len(l)
  <2>1. l \in Seq(Entries(U))
    BY DEF CacheTyped
  <2>. HIDE DEF l
  <2>. QED  BY <2>1
<1>1. CASE cache = Complete(l)
  <2>1. cache.whole = Len(l) /\ cache.sums = 0
    BY <1>1 DEF Complete, Written
  <2>2. b = l
    BY <2>1 DEF ReadBack
  <2>. QED  BY <1>0, <2>2 DEF AllFit
<1>2. CASE cache = Emptied
  <2>1. cache.sums = -4
    BY <1>2 DEF Emptied, Written
  <2>2. PICK n \in 0..MaxStray : b = Stray(<<>>, n)
    BY <2>1 DEF ReadBack
  <2>3. n \in Nat /\ <<>> \in Begun
    BY CacheAssumption DEF Begun
  <2>. QED  BY <2>2, <2>3, StrayTyped
<1>3. ASSUME NEW w \in 0..(Len(l) - 1), NEW k \in -3..(Len(l[w + 1].sums) - 1),
             cache = Written(l, w, k)
      PROVE  /\ b \in Seq(Entries(U))
             /\ AllFit(l) /\ Torn(cache) \subseteq torn =>
                   \A i \in DOMAIN b : b[i].size = -1 \/ Fit(b[i])
  <2>. DEFINE front == SubSeq(l, 1, w)
              n == Len(l) - w - 1
  <2>1. cache.whole = w /\ cache.sums = k
    BY <1>3 DEF Written
  <2>2. w \in Nat /\ w + 1 \in 1..Len(l) /\ w # Len(l) /\ n \in Nat
    BY <1>0
  <2>3. l[w + 1] \in Entries(U)
    BY <1>0, <2>2, ElementOfSeq
  <2>4. k # -4
    BY <2>3 DEF Entries
  <2>5. PICK e \in Cut(l[w + 1], k) : b = front \o <<e>> \o Stray(e.name, n)
    BY <2>1, <2>2, <2>4 DEF ReadBack
  <2>. DEFINE rest == Stray(e.name, n)
  <2>6. /\ e \in Entries(U)
        /\ \/ e.size = -1
           \/ /\ e.name = l[w + 1].name /\ e.size = l[w + 1].size
              /\ k = -1 \/ Len(e.sums) = Len(l[w + 1].sums)
    <3>. HIDE DEF l
    <3>. QED  BY <2>3, CutTyped DEF FilesOver
  <2>7. /\ front \in Seq(Entries(U)) /\ Len(front) = w
        /\ \A i \in 1..w : front[i] = l[i]
    <3>. HIDE DEF l
    <3>1. w \in 0..Len(l)
      <4>1. Len(l) \in Nat /\ w \in 0..(Len(l) - 1)
        BY <1>0
      <4>. QED  BY <4>1
    <3>. QED  BY <1>0, <3>1, BeginningOf
  <2>8. /\ rest \in Seq(Entries(U)) /\ Len(rest) = n
        /\ \A i \in 1..n : rest[i].size = -1
    <3>1. e.name \in Begun
      BY <2>6 DEF Entries
    <3>. HIDE DEF n
    <3>. QED  BY <2>2, <3>1, StrayTyped
  <2>9. AllFit(l) /\ Torn(cache) \subseteq torn => e.size = -1 \/ Fit(e)
    <3>1. l[w + 1].name \in {} \cup (IF k = -1 THEN Torn(cache) ELSE {l[w + 1].name})
      BY <2>1, <2>2 DEF Torn
    <3>2. AllFit(l) => Fit(l[w + 1])
      BY <1>0, <2>2 DEF AllFit
    <3>. HIDE DEF l
    <3>. QED  BY <2>6, <3>1, <3>2 DEF Fit, Damaged
  <2>. HIDE DEF front, rest, n
  <2>. DEFINE v == w + 1
              m == v + n
  <2>10. /\ v \in Nat /\ m \in Nat /\ m = v + n /\ w + 1 = v
         /\ \A i \in 1..m : /\ i < v => i \in 1..w
                            /\ i > v => i - v \in 1..n
    <3>1. w \in Nat /\ n \in Nat
      BY <2>2
    <3>. QED  BY <3>1
  <2>. HIDE DEF v, m
  <2>11. /\ b \in Seq(Entries(U)) /\ DOMAIN b = 1..m
         /\ \A i \in 1..m : b[i] = IF i < v THEN front[i] ELSE
                                    IF i = v THEN e ELSE rest[i - v]
    <3>1. b = front \o <<e>> \o rest
      BY <2>5 DEF rest
    <3>2. Len(front) + 1 = v
      BY <2>7, <2>10
    <3>3. m = v + Len(rest)
      BY <2>8, <2>10
    <3>. HIDE DEF l
    <3>4. e \in Entries(U) /\ front \in Seq(Entries(U)) /\ rest \in Seq(Entries(U))
      BY <2>6, <2>7, <2>8
    <3>5. v \in Nat /\ m \in Nat
      BY <2>10
    <3>6. LET c == front \o <<e>> \o rest
          IN  /\ c \in Seq(Entries(U)) /\ DOMAIN c = 1..m
              /\ \A i \in 1..m : c[i] = IF i < v THEN front[i] ELSE
                                         IF i = v THEN e ELSE rest[i - v]
      BY <3>2, <3>3, <3>4, <3>5, Joined, SMTT(40)
    <3>. QED  BY <3>1, <3>6
  <2>12. ASSUME AllFit(l), Torn(cache) \subseteq torn, NEW i \in DOMAIN b
         PROVE  b[i].size = -1 \/ Fit(b[i])
    <3>0. i \in 1..m
      BY <2>11
    <3>1. CASE i < v
      <4>1. i \in 1..w
        BY <2>10, <3>0, <3>1
      <4>2. i \in DOMAIN l
        BY <1>0, <2>2, <4>1
      <4>3. b[i] = l[i]
        BY <2>7, <2>11, <3>0, <3>1, <4>1
      <4>. QED  BY <2>12, <4>2, <4>3 DEF AllFit
    <3>2. CASE i = v
      <4>1. b[i] = e
        BY <2>10, <2>11, <3>0, <3>2
      <4>. QED  BY <2>9, <2>12, <4>1
    <3>3. CASE i > v
      <4>1. i - v \in 1..n
        BY <2>10, <3>0, <3>3
      <4>2. b[i] = rest[i - v]
        BY <2>10, <2>11, <3>0, <3>3
      <4>. QED  BY <2>8, <4>1, <4>2
    <3>. QED  BY <2>10, <3>0, <3>1, <3>2, <3>3
  <2>. QED  BY <2>11, <2>12
<1>. QED  BY <1>1, <1>2, <1>3 DEF CacheTyped
-----------------------------------------------------------------------------
Loads(U) == CTyped(U) /\ Noted /\ Loading /\ Summed

(* Before the first load. *)
LEMMA InitLoads ==
  ASSUME NEW U, FilesOver(U), CInit
  PROVE  Loads(U)
<1>1. CTyped(U)
  <2>1. CacheTyped(U)
    BY DEF CInit, CacheTyped, NoCache, Written
  <2>2. disk \in [Names -> Files(U)]
    BY DEF CInit, FilesOver
  <2>3. <<>> \in Seq(Entries(U))
    OBVIOUS
  <2>. QED  BY <2>1, <2>2, <2>3 DEF CInit, CTyped
<1>2. Noted
  BY DEF CInit, Noted
<1>3. Loading
  BY DEF CInit, Loading, Found
<1>4. Summed
  BY DEF CInit, Summed, AllFit, NoCache, Written, Torn
<1>. QED  BY <1>1, <1>2, <1>3, <1>4 DEF Loads

(* What is appended to a list of entries. *)
LEMMA AppendEntry ==
  ASSUME NEW U, NEW l \in Seq(Entries(U)), NEW e \in Entries(U)
  PROVE  LET m == Append(l, e) IN
         /\ m \in Seq(Entries(U)) /\ Len(m) = Len(l) + 1 /\ m # <<>>
         /\ Len(l) \in Nat /\ DOMAIN l = 1..Len(l)
         /\ DOMAIN m = 1..(Len(l) + 1)
         /\ \A k \in 1..Len(l) : m[k] = l[k]
         /\ m[Len(l) + 1] = e
         /\ NamesOf(m) = NamesOf(l) \cup {e.name}
<1>. DEFINE m == Append(l, e)
<1>1. /\ m \in Seq(Entries(U)) /\ Len(m) = Len(l) + 1 /\ m # <<>>
      /\ \A k \in 1..Len(l) : m[k] = l[k]
      /\ m[Len(l) + 1] = e
  BY AppendProperties
<1>. HIDE DEF m
<1>2. /\ Len(l) \in Nat /\ DOMAIN l = 1..Len(l)
      /\ DOMAIN m = 1..(Len(l) + 1)
  BY <1>1
<1>3. \A k \in DOMAIN m : k \in DOMAIN l \/ k = Len(l) + 1
  BY <1>2
<1>4. DOMAIN l \subseteq DOMAIN m /\ Len(l) + 1 \in DOMAIN m
  BY <1>2
<1>5. NamesOf(m) = NamesOf(l) \cup {e.name}
  <2>1. ASSUME NEW n \in NamesOf(m) PROVE n \in NamesOf(l) \cup {e.name}
    BY <1>1, <1>2, <1>3, <2>1 DEF NamesOf
  <2>2. NamesOf(l) \subseteq NamesOf(m)
    BY <1>1, <1>2, <1>4 DEF NamesOf
  <2>3. e.name \in NamesOf(m)
    BY <1>1, <1>4 DEF NamesOf
  <2>. QED  BY <2>1, <2>2, <2>3
<1>. QED  BY <1>1, <1>2, <1>5 DEF m

(* A list is loaded again. *)
LEMMA ParseLoads ==
  ASSUME NEW U, FilesOver(U), ImagesNamed, Loads(U), parseConfig
  PROVE  Loads(U)'
<1>0. PICK src \in IF cache = NoCache THEN {infoList} ELSE ReadBack(cache) :
         lst' = WithNames(src)
  BY DEF parseConfig
<1>1. /\ config \in Usable /\ lpc' = "measure" /\ lst' = WithNames(src)
      /\ parser' = config /\ list' = <<>> /\ pos' = 1 /\ edited' = FALSE
      /\ UNCHANGED <<disk, config, cache, infoList, raced, torn, lacked>>
  BY <1>0 DEF parseConfig, past
<1>2. CTyped(U) /\ Noted /\ Loading
  BY DEF Loads
<1>3. /\ src \in Seq(Entries(U))
      /\ \A i \in DOMAIN src : src[i].size = -1 \/ Fit(src[i])
  <2>1. CASE cache = NoCache
    BY <1>0, <1>2, <2>1 DEF CTyped, Loads, Summed, AllFit
  <2>2. CASE cache # NoCache
    BY <1>0, <1>2, <2>2, ReadBackTyped DEF CTyped, Loads, Summed
  <2>. QED  BY <2>1, <2>2
<1>4. /\ Grown(U, src, lst')
      /\ \A n \in Names : <<config, n>> \in Listed => n \in NamesOf(lst')
  BY <1>1, <1>3, WithNamesKeeps
<1>5. CTyped(U)'
  <2>1. CacheTyped(U)'
    BY <1>1, <1>2 DEF CTyped, CacheTyped
  <2>2. lst' \in Seq(Entries(U)) /\ <<>> \in Seq(Entries(U))
    BY <1>4 DEF Grown
  <2>. QED  BY <1>1, <1>2, <2>1, <2>2 DEF CTyped
<1>6. Noted'
  <2>1. Lacking' = Lacking
    BY <1>1 DEF Lacking, Available
  <2>2. \A n \in Names \ lacked : <<config, n>> \in Listed \cap WithPath
    BY <1>1, <1>2 DEF Noted, Lacking, Available
  <2>. QED  BY <1>1, <1>2, <2>1, <2>2 DEF Noted
<1>7. Loading'
  <2>1. ASSUME NEW n \in Names, Wanted(n)' PROVE Found(n)'
    <3>1. n \in NamesOf(lst')
      BY <1>1, <1>4, <2>1 DEF Wanted
    <3>2. DOMAIN lst' = 1..Len(lst')
      BY <1>4 DEF Grown
    <3>. QED  BY <1>1, <3>1, <3>2 DEF Found, NamesOf
  <2>. QED  BY <1>1, <2>1 DEF Loading
<1>8. Summed'
  <2>1. Summed
    BY DEF Loads
  <2>2. AllFit(infoList)' /\ AllFit(cache.list)' /\ (Torn(cache) \subseteq torn)'
    BY <1>1, <2>1 DEF Summed, AllFit, Fit, Damaged, Torn
  <2>3. ASSUME NEW k \in DOMAIN lst' PROVE lst'[k].size = -1 \/ Fit(lst[k])'
    <3>1. CASE \E j \in DOMAIN src : lst'[k] = src[j]
      BY <1>1, <1>3, <3>1 DEF Fit, Damaged
    <3>2. CASE lst'[k].size = 0 /\ lst'[k].sums = <<>>
      BY <3>2 DEF Fit
    <3>. QED  BY <1>4, <2>3, <3>1, <3>2 DEF Grown
  <2>. QED  BY <1>1, <2>2, <2>3 DEF Summed
<1>. QED  BY <1>5, <1>6, <1>7, <1>8 DEF Loads

(* An entry that has a path is about an image. *)
LEMMA WithPathNamed ==
  ASSUME ImagesNamed, NEW n \in Begun, NEW c, <<c, n>> \in WithPath
  PROVE  n \in Names
<1>1. PICK d \in Usable : <<c, n>> \in
           {<<d, m>> : m \in {k \in DOMAIN data(d) :
              Conf!getValueDefault(data(d), k, <<"none">>) # <<"none">>}}
  BY DEF WithPath
<1>2. c \in Usable
  BY <1>1
<1>. QED  BY <1>2 DEF ImagesNamed

(* What a step of a load leaves alone. *)
StaysPut == UNCHANGED <<disk, config, cache, parser, edited, raced,
                        torn, lacked>>

(* Then what was noted still is, and the cache file and its sums are as they
   were. *)
LEMMA Stays ==
  ASSUME NEW U, Loads(U), StaysPut, lpc # "off"
  PROVE  /\ CacheTyped(U)' /\ disk' \in [Names -> Files(U)]
         /\ Noted'
         /\ \A n : Wanted(n)' <=> Wanted(n)
         /\ \A e : (Fit(e)' <=> Fit(e)) /\ (Measured(e)' <=> Measured(e))
         /\ AllFit(cache.list)' /\ (Torn(cache) \subseteq torn)'
<1>1. CTyped(U) /\ Noted
  BY DEF Loads
<1>2. CacheTyped(U)' /\ disk' \in [Names -> Files(U)]
  BY <1>1 DEF CTyped, CacheTyped, StaysPut
<1>3. Lacking' = Lacking
  BY DEF Lacking, Available, StaysPut
<1>4. Noted'
  BY <1>1, <1>3 DEF Noted, StaysPut
<1>5. /\ \A n : Wanted(n)' <=> Wanted(n)
      /\ \A e : (Fit(e)' <=> Fit(e)) /\ (Measured(e)' <=> Measured(e))
  BY DEF Wanted, Fit, Damaged, Measured, StaysPut
<1>6. AllFit(cache.list)' /\ (Torn(cache) \subseteq torn)'
  BY DEF Loads, Summed, AllFit, Fit, Damaged, Torn, StaysPut
<1>. QED  BY <1>2, <1>4, <1>5, <1>6

(* An image is measured, or left out because it has no path or file. *)
LEMMA MeasureLoads ==
  ASSUME NEW U, FilesOver(U), ImagesNamed, Loads(U), measure
  PROVE  Loads(U)'
<1>. DEFINE e == lst[pos]
            new == [e EXCEPT !.size = Len(disk[e.name])]
            skipped == <<parser, e.name>> \notin WithPath \/ disk[e.name] = NoFile
<1>1. /\ lpc = "measure" /\ pos <= Len(lst) /\ lst' = lst
      /\ infoList' = infoList /\ StaysPut
  BY DEF measure, past, StaysPut
<1>2. /\ skipped => pos' = pos + 1 /\ list' = list /\ lpc' = lpc
      /\ ~ skipped => /\ list' = Append(list, new)
                      /\ \/ /\ Same(e, disk[e.name])
                            /\ pos' = pos + 1 /\ lpc' = lpc
                         \/ pos' = pos /\ lpc' = "checksum"
  BY DEF measure
<1>3. CTyped(U) /\ Noted /\ Loading
  BY DEF Loads
<1>4. /\ CacheTyped(U)' /\ disk' \in [Names -> Files(U)]
      /\ Noted'
      /\ \A n : Wanted(n)' <=> Wanted(n)
      /\ \A d : (Fit(d)' <=> Fit(d)) /\ (Measured(d)' <=> Measured(d))
      /\ AllFit(cache.list)' /\ (Torn(cache) \subseteq torn)'
  BY <1>1, Stays
<1>5. /\ pos \in 1..Len(lst) /\ pos \in Nat /\ Len(lst) \in Nat
      /\ lst \in Seq(Entries(U)) /\ e \in Entries(U)
      /\ list \in Seq(Entries(U)) /\ infoList \in Seq(Entries(U))
  BY <1>1, <1>3 DEF CTyped
<1>6. /\ e.name \in Begun /\ e.size \in Int /\ e.sums \in Seq(U)
      /\ Len(e.sums) \in Nat
  BY <1>5 DEF Entries
<1>7. ~ skipped => /\ e.name \in Names /\ disk[e.name] \in Seq(U)
                   /\ Len(disk[e.name]) \in Nat
  BY <1>3, <1>6, WithPathNamed DEF CTyped, Files
<1>8. ~ skipped => /\ new \in Entries(U) /\ new.name = e.name
                   /\ new.size = Len(disk[e.name]) /\ new.sums = e.sums
  <2>. DEFINE len == Len(disk[e.name])
  <2>1. new = [e EXCEPT !.size = len]
    OBVIOUS
  <2>2. ~ skipped => len \in Nat
    BY <1>7
  <2>. HIDE DEF e, new, skipped, len
  <2>3. new = [name |-> e.name, size |-> len, sums |-> e.sums]
    BY <1>5, <2>1 DEF Entries
  <2>4. ~ skipped => new \in Entries(U)
    BY <1>6, <2>2, <2>3 DEF Entries
  <2>. QED  BY <2>3, <2>4 DEF len
<1>9. ~ skipped => Measured(new)
  <2>. HIDE DEF new
  <2>1. ~ skipped => disk[e.name] # NoFile
    OBVIOUS
  <2>. QED  BY <1>8, <2>1 DEF Measured
<1>10. \A n \in Names : Wanted(n) =>
          n \in NamesOf(list) \cup {lst[k].name : k \in pos..Len(lst)}
  BY <1>1, <1>3 DEF Loading, Found
<1>11. skipped => ~ Wanted(e.name)
  BY DEF Wanted
<1>12. ~ edited => \A k \in DOMAIN list : Measured(list[k])
  BY <1>3 DEF Loading
<1>13. /\ \A k \in DOMAIN list : Fit(list[k])
       /\ e.size = -1 \/ Fit(e)
       /\ Summed
  BY <1>1, <1>3, <1>5 DEF Loads, Summed
<1>14. ~ skipped /\ Same(e, disk[e.name]) => Fit(new)
  <2>. HIDE DEF new, skipped
  <2>. SUFFICES ASSUME ~ skipped, Same(e, disk[e.name])
                PROVE  Fit(new)
    OBVIOUS
  <2>1. e.size = Len(disk[e.name]) /\ e.size # -1
    BY <1>7 DEF Same
  <2>2. Fit(e)
    BY <1>13, <2>1
  <2>. QED  BY <1>8, <2>1, <2>2 DEF Fit
<1>15. \A n : n # e.name /\ n \in {lst[k].name : k \in pos..Len(lst)}
          => n \in {lst[k].name : k \in (pos + 1)..Len(lst)}
  <2>1. \A k \in pos..Len(lst) : k = pos \/ k \in (pos + 1)..Len(lst)
    BY <1>5
  <2>. QED  BY <2>1
<1>. HIDE DEF e, new, skipped
<1>16. CASE skipped
  <2>1. pos' = pos + 1 /\ list' = list /\ lpc' = "measure"
    BY <1>1, <1>2, <1>16
  <2>2. pos' \in Nat \ {0}
    BY <1>5, <2>1
  <2>3. CTyped(U)'
    BY <1>1, <1>4, <1>5, <2>1, <2>2 DEF CTyped
  <2>4. \A n \in Names : Wanted(n)' => Found(n)'
    <3>. SUFFICES ASSUME NEW n \in Names, Wanted(n) PROVE Found(n)'
      BY <1>4
    <3>1. n # e.name
      BY <1>11, <1>16
    <3>2. n \in NamesOf(list) \cup {lst[k].name : k \in (pos + 1)..Len(lst)}
      BY <1>10, <1>15, <3>1
    <3>. QED  BY <1>1, <2>1, <3>2 DEF Found, NamesOf
  <2>5. Loading'
    BY <1>1, <1>4, <1>12, <2>1, <2>4 DEF Loading, StaysPut
  <2>6. Summed'
    BY <1>1, <1>4, <1>13, <2>1 DEF Summed, AllFit
  <2>. QED  BY <1>4, <2>3, <2>5, <2>6 DEF Loads
<1>17. CASE ~ skipped
  <2>. DEFINE grown == Append(list, new)
  <2>1. list' = grown
    BY <1>2, <1>17
  <2>2. /\ grown \in Seq(Entries(U)) /\ Len(grown) = Len(list) + 1
        /\ grown # <<>> /\ Len(list) \in Nat /\ DOMAIN list = 1..Len(list)
        /\ DOMAIN grown = 1..(Len(list) + 1)
        /\ \A k \in 1..Len(list) : grown[k] = list[k]
        /\ grown[Len(list) + 1] = new
        /\ NamesOf(grown) = NamesOf(list) \cup {e.name}
    BY <1>5, <1>8, <1>17, AppendEntry
  <2>. HIDE DEF grown
  <2>3. \A k \in DOMAIN grown : k \in DOMAIN list \/ k = Len(list) + 1
    BY <2>2
  <2>4. ~ edited => \A k \in DOMAIN grown : Measured(grown[k])
    BY <1>9, <1>12, <1>17, <2>2, <2>3
  <2>5. pos' \in Nat \ {0} /\ lpc' \in {"measure", "checksum"}
    BY <1>1, <1>2, <1>5, <1>17
  <2>6. CTyped(U)'
    BY <1>1, <1>4, <1>5, <2>1, <2>2, <2>5 DEF CTyped
  <2>7. \A n \in Names : Wanted(n)' => Found(n)'
    <3>. SUFFICES ASSUME NEW n \in Names, Wanted(n) PROVE Found(n)'
      BY <1>4
    <3>1. n \in NamesOf(grown) \cup {lst[k].name : k \in pos..Len(lst)}
          /\ n \in NamesOf(grown) \cup {lst[k].name : k \in (pos + 1)..Len(lst)}
      BY <1>10, <1>15, <2>2
    <3>2. NamesOf(list)' = NamesOf(grown)
      BY <2>1 DEF NamesOf
    <3>3. pos' = pos \/ pos' = pos + 1
      BY <1>2, <1>17
    <3>. QED  BY <1>1, <2>5, <3>1, <3>2, <3>3 DEF Found
  <2>8. ASSUME lpc' = "checksum" PROVE Checking'
    <3>1. pos' = pos
      BY <1>1, <1>2, <1>17, <2>8
    <3>2. list'[Len(list')] = new
      BY <2>1, <2>2
    <3>3. lst'[pos'] = e
      BY <1>1, <3>1 DEF e
    <3>4. disk[e.name] # NoFile
      BY <1>17 DEF skipped
    <3>. QED  BY <1>1, <1>7, <1>8, <1>17, <2>1, <2>2, <3>1, <3>2, <3>3, <3>4
              DEF Checking, StaysPut
  <2>9. Loading'
    BY <1>1, <1>4, <2>1, <2>4, <2>5, <2>7, <2>8 DEF Loading, StaysPut
  <2>10. Summed'
    <3>1. \A k \in DOMAIN grown :
             Fit(grown[k]) \/ (lpc' = "checksum" /\ k = Len(grown))
      <4>. SUFFICES ASSUME NEW k \in DOMAIN grown
                    PROVE  Fit(grown[k]) \/ (lpc' = "checksum" /\ k = Len(grown))
        OBVIOUS
      <4>1. CASE k \in DOMAIN list
        BY <1>13, <2>2, <4>1
      <4>2. CASE k = Len(list) + 1
        BY <1>2, <1>14, <1>17, <2>2, <4>2
      <4>. QED  BY <2>3, <4>1, <4>2
    <3>. QED  BY <1>1, <1>4, <1>13, <2>1, <3>1 DEF Summed, AllFit
  <2>. QED  BY <1>4, <2>6, <2>9, <2>10 DEF Loads
<1>. QED  BY <1>16, <1>17

(* The checksums of the image that was measured are computed. *)
LEMMA ChecksumLoads ==
  ASSUME NEW U, FilesOver(U), ImagesNamed, Loads(U), calculateChecksum
  PROVE  Loads(U)'
<1>. DEFINE last == Len(list)
            file == disk[lst[pos].name]
            new == [list[last] EXCEPT !.sums = file]
            summed == [list EXCEPT ![last] = new]
<1>1. /\ lpc = "checksum" /\ lpc' = "measure" /\ pos' = pos + 1 /\ lst' = lst
      /\ infoList' = infoList /\ StaysPut
  BY DEF calculateChecksum, past, StaysPut
<1>2. list' = summed
  BY DEF calculateChecksum
<1>3. CTyped(U) /\ Noted /\ Loading /\ Checking
  BY <1>1 DEF Loads, Loading
<1>4. /\ CacheTyped(U)' /\ disk' \in [Names -> Files(U)]
      /\ Noted'
      /\ \A n : Wanted(n)' <=> Wanted(n)
      /\ \A d : (Fit(d)' <=> Fit(d)) /\ (Measured(d)' <=> Measured(d))
      /\ AllFit(cache.list)' /\ (Torn(cache) \subseteq torn)'
  BY <1>1, Stays
<1>5. /\ pos \in 1..Len(lst) /\ Len(lst) \in Nat /\ pos + 1 \in Nat \ {0}
      /\ lst \in Seq(Entries(U)) /\ list \in Seq(Entries(U))
      /\ infoList \in Seq(Entries(U))
      /\ last \in Nat /\ last \in 1..last /\ DOMAIN list = 1..last
      /\ list[last] \in Entries(U)
  BY <1>3 DEF CTyped, Checking
<1>6. /\ list[last].name = lst[pos].name /\ lst[pos].name \in Names
      /\ lst[pos].name \in raced \/ list[last].size = Len(file)
      /\ file # NoFile
  BY <1>3 DEF Checking
<1>7. file \in Seq(U)
  BY <1>3, <1>6 DEF CTyped, Files
<1>8. new \in Entries(U) /\ new.name = lst[pos].name
      /\ new.size = list[last].size /\ new.sums = file
  <2>. DEFINE d == list[last]
  <2>1. new = [d EXCEPT !.sums = file]
    OBVIOUS
  <2>2. d.name \in Begun /\ d.size \in Int
    BY <1>5 DEF Entries
  <2>. HIDE DEF d, new, file
  <2>3. d \in Entries(U)
    BY <1>5 DEF d
  <2>4. new = [name |-> d.name, size |-> d.size, sums |-> file]
    BY <2>1, <2>3 DEF Entries
  <2>5. new \in Entries(U)
    BY <1>7, <2>2, <2>4 DEF Entries
  <2>. QED  BY <1>6, <2>4, <2>5 DEF d
<1>9. Fit(new)
  BY <1>6, <1>8 DEF Fit, Damaged
<1>10. ~ edited => \A k \in DOMAIN list : Measured(list[k])
  BY <1>3 DEF Loading
<1>11. ~ edited => Measured(new)
  <2>. HIDE DEF new
  <2>. QED  BY <1>5, <1>6, <1>8, <1>10 DEF Measured
<1>12. \A k \in DOMAIN list : k # last => Fit(list[k])
  BY <1>1 DEF Loads, Summed
<1>. HIDE DEF file, new
<1>13. /\ summed \in Seq(Entries(U)) /\ Len(summed) = last
       /\ \A k \in 1..last : summed[k] = IF k = last THEN new ELSE list[k]
  BY <1>5, <1>8, ExceptSeq
<1>. HIDE DEF summed, last
<1>14. DOMAIN summed = 1..last
  BY <1>13
<1>15. NamesOf(list) = NamesOf(summed)
  <2>1. \A k \in 1..last : summed[k].name = list[k].name
    BY <1>6, <1>8, <1>13
  <2>. QED  BY <1>5, <1>14, <2>1 DEF NamesOf
<1>16. lst[pos].name \in NamesOf(summed)
  BY <1>5, <1>6, <1>15 DEF NamesOf
<1>17. CTyped(U)'
  BY <1>1, <1>2, <1>4, <1>5, <1>13 DEF CTyped
<1>18. \A n \in Names : Wanted(n)' => Found(n)'
  <2>. SUFFICES ASSUME NEW n \in Names, Wanted(n) PROVE Found(n)'
    BY <1>4
  <2>1. n \in NamesOf(list) \cup {lst[k].name : k \in pos..Len(lst)}
    BY <1>1, <1>3 DEF Loading, Found
  <2>2. \A k \in pos..Len(lst) : k = pos \/ k \in (pos + 1)..Len(lst)
    BY <1>5
  <2>3. n \in NamesOf(summed) \cup {lst[k].name : k \in (pos + 1)..Len(lst)}
    BY <1>15, <1>16, <2>1, <2>2
  <2>4. NamesOf(list)' = NamesOf(summed)
    BY <1>2 DEF NamesOf
  <2>. QED  BY <1>1, <2>3, <2>4 DEF Found
<1>19. ~ edited => \A k \in DOMAIN summed : Measured(summed[k])
  BY <1>5, <1>10, <1>11, <1>13, <1>14
<1>20. Loading'
  BY <1>1, <1>2, <1>4, <1>18, <1>19 DEF Loading, StaysPut
<1>21. Summed'
  <2>1. \A k \in DOMAIN summed : Fit(summed[k])
    BY <1>5, <1>9, <1>12, <1>13, <1>14
  <2>2. Summed
    BY DEF Loads
  <2>. QED  BY <1>1, <1>2, <1>4, <2>1, <2>2 DEF Summed, AllFit
<1>. QED  BY <1>4, <1>17, <1>20, <1>21 DEF Loads

(* When everything is measured, the old list is cleared. *)
LEMMA PublishLoads ==
  ASSUME NEW U, Loads(U), publish
  PROVE  Loads(U)'
<1>1. /\ lpc = "measure" /\ lpc' = "publish" /\ pos > Len(lst)
      /\ pos' = pos /\ lst' = lst /\ list' = list /\ infoList' = <<>>
      /\ StaysPut
  BY DEF publish, locals, past, StaysPut
<1>2. CTyped(U) /\ Loading
  BY DEF Loads
<1>3. /\ CacheTyped(U)' /\ disk' \in [Names -> Files(U)]
      /\ Noted'
      /\ \A n : Wanted(n)' <=> Wanted(n)
      /\ \A d : (Fit(d)' <=> Fit(d)) /\ (Measured(d)' <=> Measured(d))
      /\ AllFit(cache.list)' /\ (Torn(cache) \subseteq torn)'
  BY <1>1, Stays
<1>4. /\ pos \in Nat \ {0} /\ Len(lst) \in Nat /\ Len(list) \in Nat
      /\ lst \in Seq(Entries(U)) /\ list \in Seq(Entries(U))
      /\ <<>> \in Seq(Entries(U))
  BY <1>2 DEF CTyped
<1>5. CTyped(U)'
  BY <1>1, <1>3, <1>4 DEF CTyped
<1>6. \A n \in Names : Wanted(n)' => Found(n)'
  <2>1. pos..Len(lst) = {}
    BY <1>1, <1>4
  <2>2. \A n \in Names : Wanted(n) => n \in NamesOf(list)
    BY <1>1, <1>2, <2>1 DEF Loading, Found
  <2>. QED  BY <1>1, <1>3, <2>2 DEF Found, NamesOf
<1>7. infoList' = SubSeq(list', 1, Len(infoList')) /\ Len(infoList') <= Len(list')
  <2>1. SubSeq(list, 1, 0) = <<>>
    BY SubSeqEmpty
  <2>. QED  BY <1>1, <1>4, <2>1
<1>8. Loading'
  <2>1. ~ edited => \A k \in DOMAIN list : Measured(list[k])
    BY <1>2 DEF Loading
  <2>. QED  BY <1>1, <1>3, <1>6, <1>7, <2>1 DEF Loading, StaysPut
<1>9. Summed'
  <2>1. Summed
    BY DEF Loads
  <2>. QED  BY <1>1, <1>3, <2>1 DEF Summed, AllFit
<1>. QED  BY <1>3, <1>5, <1>8, <1>9 DEF Loads

(* The new list is copied, one entry after the other. *)
LEMMA CopyLoads ==
  ASSUME NEW U, Loads(U), copy
  PROVE  Loads(U)'
<1>1. /\ lpc = "publish" /\ pos' = pos /\ lst' = lst /\ list' = list
      /\ StaysPut
  BY DEF copy, locals, past, StaysPut
<1>2. CTyped(U) /\ Loading
  BY DEF Loads
<1>3. /\ CacheTyped(U)' /\ disk' \in [Names -> Files(U)]
      /\ Noted'
      /\ \A n : Wanted(n)' <=> Wanted(n)
      /\ \A d : (Fit(d)' <=> Fit(d)) /\ (Measured(d)' <=> Measured(d))
      /\ AllFit(cache.list)' /\ (Torn(cache) \subseteq torn)'
  BY <1>1, Stays
<1>4. /\ pos \in Nat \ {0}
      /\ lst \in Seq(Entries(U)) /\ list \in Seq(Entries(U))
      /\ infoList \in Seq(Entries(U))
      /\ Len(list) \in Nat /\ Len(infoList) \in Nat
      /\ DOMAIN list = 1..Len(list)
  BY <1>2 DEF CTyped
<1>5. /\ Len(infoList) <= Len(list)
      /\ infoList = SubSeq(list, 1, Len(infoList))
      /\ ~ edited => \A k \in DOMAIN list : Measured(list[k])
      /\ \A n \in Names : Wanted(n) => n \in NamesOf(list)
  BY <1>1, <1>2 DEF Loading, Found
<1>6. Summed
  BY DEF Loads
<1>7. CASE infoList = list
  <2>1. lpc' = "write" /\ infoList' = infoList
    BY <1>7 DEF copy
  <2>2. CTyped(U)'
    BY <1>1, <1>3, <1>4, <2>1 DEF CTyped
  <2>3. \A n \in Names : Wanted(n)' => Found(n)'
    BY <1>3, <1>5, <1>7, <2>1 DEF Found, NamesOf
  <2>4. Loading'
    BY <1>1, <1>3, <1>5, <1>7, <2>1, <2>3 DEF Loading, StaysPut
  <2>5. Summed'
    BY <1>1, <1>3, <1>6, <2>1 DEF Summed, AllFit
  <2>. QED  BY <1>3, <2>2, <2>4, <2>5 DEF Loads
<1>8. CASE infoList # list
  <2>. DEFINE i == Len(infoList) + 1
              more == Append(infoList, list[i])
  <2>1. lpc' = "publish" /\ infoList' = more
    BY <1>1, <1>8 DEF copy
  <2>2. Len(infoList) # Len(list)
    <3>1. SubSeq(list, 1, Len(list)) = list
      BY <1>4, SubSeqFull
    <3>. QED  BY <1>5, <1>8, <3>1
  <2>3. i \in 1..Len(list) /\ i - 1 = Len(infoList)
    <3>. DEFINE m == Len(infoList)
                n == Len(list)
    <3>1. m \in Nat /\ n \in Nat /\ m <= n /\ m # n
      BY <1>4, <1>5, <2>2
    <3>. HIDE DEF m, n
    <3>2. m + 1 \in 1..n /\ m + 1 - 1 = m
      BY <3>1
    <3>. QED  BY <3>2 DEF m, n
  <2>4. list[i] \in Entries(U)
    BY <1>4, <2>3, ElementOfSeq
  <2>5. /\ more \in Seq(Entries(U)) /\ Len(more) = i
        /\ \A k \in 1..Len(infoList) : more[k] = infoList[k]
        /\ more[i] = list[i] /\ DOMAIN more = 1..i
        /\ DOMAIN infoList = 1..Len(infoList)
    BY <1>4, <2>4, AppendEntry
  <2>6. more = SubSeq(list, 1, i)
    <3>1. SubSeq(list, 1, i) = SubSeq(list, 1, i - 1) \o <<list[i]>>
      BY <1>4, <2>3, SubSeqRecursiveSecond
    <3>2. more = infoList \o <<list[i]>>
      BY <1>4, <2>4, AppendIsConcat
    <3>. QED  BY <1>5, <2>3, <3>1, <3>2
  <2>. HIDE DEF i, more
  <2>7. i <= Len(list)
    BY <1>4, <2>3
  <2>8. CTyped(U)'
    BY <1>1, <1>3, <1>4, <2>1, <2>5 DEF CTyped
  <2>9. \A n \in Names : Wanted(n)' => Found(n)'
    BY <1>1, <1>3, <1>5, <2>1 DEF Found, NamesOf
  <2>10. Loading'
    BY <1>1, <1>3, <1>5, <2>1, <2>5, <2>6, <2>7, <2>9 DEF Loading, StaysPut
  <2>11. Summed'
    <3>1. \A k \in DOMAIN list : Fit(list[k])
      BY <1>1, <1>6 DEF Summed
    <3>2. \A k \in 1..i : k \in 1..Len(infoList) \/ k = i
      BY <1>4, <2>3
    <3>3. \A k \in DOMAIN more : Fit(more[k])
      BY <1>4, <1>6, <2>3, <2>5, <3>1, <3>2 DEF Summed, AllFit
    <3>. QED  BY <1>1, <1>3, <1>6, <2>1, <3>3 DEF Summed, AllFit
  <2>. QED  BY <1>3, <2>8, <2>10, <2>11 DEF Loads
<1>. QED  BY <1>7, <1>8

(* What is left of a cache file that is not written to its end. *)
LEMMA PartLeft ==
  ASSUME NEW U, CTyped(U), LeavesPart
  PROVE  /\ CacheTyped(U)'
         /\ cache'.list \in {infoList, <<>>}
         /\ torn \subseteq torn' /\ (Torn(cache) \subseteq torn)'
<1>1. infoList \in Seq(Entries(U)) /\ <<>> \in Seq(Entries(U))
  BY DEF CTyped
<1>2. torn \subseteq torn' /\ (Torn(cache) \subseteq torn)'
  BY DEF LeavesPart
<1>3. cache' \in Cuts(infoList)
  BY DEF LeavesPart
<1>4. CASE cache' = Emptied
  BY <1>1, <1>2, <1>4 DEF Emptied, Written, CacheTyped
<1>5. CASE cache' # Emptied
  <2>1. PICK w \in 0..(Len(infoList) - 1) :
           cache' \in {Written(infoList, w, k) :
                          k \in -3..(Len(infoList[w + 1].sums) - 1)}
    BY <1>3, <1>5 DEF Cuts
  <2>2. PICK k \in -3..(Len(infoList[w + 1].sums) - 1) :
           cache' = Written(infoList, w, k)
    BY <2>1
  <2>3. cache'.list = infoList
    BY <2>2 DEF Written
  <2>. QED  BY <1>1, <1>2, <2>2, <2>3 DEF CacheTyped
<1>. QED  BY <1>4, <1>5

(* The list is written to the cache file. *)
LEMMA SaveLoads ==
  ASSUME NEW U, Loads(U), save
  PROVE  Loads(U)'
<1>1. /\ lpc = "write" /\ lpc' = "idle" /\ infoList' = infoList
      /\ lst' = <<>> /\ list' = <<>> /\ pos' = 1
      /\ UNCHANGED <<disk, config, parser, edited, raced, lacked>>
  BY DEF save, Forget
<1>2. CTyped(U) /\ Noted /\ Loading /\ Summed
  BY DEF Loads
<1>3. infoList = list
  BY <1>1, <1>2 DEF Loading
<1>4. /\ CacheTyped(U)'
      /\ cache'.list \in {infoList, cache.list, <<>>}
      /\ torn \subseteq torn' /\ (Torn(cache) \subseteq torn)'
  <2>1. CASE cache' = cache /\ torn' = torn
    BY <1>2, <2>1 DEF CTyped, CacheTyped, Summed
  <2>2. CASE cache' = Complete(infoList) /\ torn' = torn
    <3>1. infoList \in Seq(Entries(U)) /\ Len(infoList) \in Nat
      BY <1>2 DEF CTyped
    <3>2. Torn(cache') = {}
      BY <2>2, <3>1 DEF Torn, Complete, Written
    <3>. QED  BY <2>2, <3>1, <3>2 DEF CacheTyped, Complete, Written, Torn
  <2>3. CASE LeavesPart
    BY <1>2, <2>3, PartLeft
  <2>. QED  BY <2>1, <2>2, <2>3 DEF save
<1>5. CTyped(U)'
  <2>1. <<>> \in Seq(Entries(U))
    OBVIOUS
  <2>. QED  BY <1>1, <1>2, <1>4, <2>1 DEF CTyped
<1>6. Noted'
  <2>1. Lacking' = Lacking
    BY <1>1 DEF Lacking, Available
  <2>. QED  BY <1>1, <1>2, <2>1 DEF Noted
<1>7. /\ \A n : Wanted(n)' <=> Wanted(n)
      /\ \A d : (Fit(d) => Fit(d)') /\ (Measured(d)' <=> Measured(d))
  BY <1>1, <1>4 DEF Wanted, Fit, Damaged, Measured
<1>8. Loading'
  <2>1. \A n \in Names : Wanted(n)' => Found(n)'
    BY <1>1, <1>2, <1>7 DEF Loading, Found, NamesOf
  <2>2. ~ edited => \A k \in DOMAIN infoList : Measured(infoList[k])
    BY <1>2, <1>3 DEF Loading
  <2>. QED  BY <1>1, <1>7, <2>1, <2>2 DEF Loading
<1>9. Summed'
  <2>1. AllFit(infoList) /\ AllFit(cache.list) /\ AllFit(<<>>)
    BY <1>2 DEF Summed, AllFit
  <2>2. \A l : AllFit(l) => AllFit(l)'
    BY <1>7 DEF AllFit
  <2>3. AllFit(infoList)' /\ AllFit(cache.list)'
    BY <1>1, <1>4, <2>1, <2>2 DEF AllFit
  <2>. QED  BY <1>1, <1>4, <2>3 DEF Summed
<1>. QED  BY <1>5, <1>6, <1>8, <1>9 DEF Loads

(* An image is written over, created or removed. *)
LEMMA EditLoads ==
  ASSUME NEW U, FilesOver(U), Loads(U), NEW n, NEW f, Edit(n, f)
  PROVE  Loads(U)'
<1>. DEFINE held == lpc = "checksum" /\ lst[pos].name = n
<1>1. /\ <<n, f>> \in Edits /\ disk' = [disk EXCEPT ![n] = f] /\ edited' = TRUE
      /\ held => f # NoFile
      /\ raced' = IF held THEN raced \cup {n} ELSE raced
      /\ UNCHANGED <<config, cache, parser, infoList, lpc, lst, list, pos,
                     torn>>
      /\ lacked' = lacked \cup Lacking'
  BY DEF Edit, locals
<1>. HIDE DEF held
<1>2. CTyped(U) /\ Noted /\ Loading
  BY DEF Loads
<1>3. n \in Names /\ f \in Files(U)
  BY <1>1 DEF FilesOver
<1>4. /\ disk' \in [Names -> Files(U)] /\ disk'[n] = f
      /\ \A m \in Names : m # n => disk'[m] = disk[m]
  BY <1>1, <1>2, <1>3 DEF CTyped
<1>5. CTyped(U)'
  <2>1. CacheTyped(U)'
    BY <1>1, <1>2 DEF CTyped, CacheTyped
  <2>. QED  BY <1>1, <1>2, <1>4, <2>1 DEF CTyped
<1>6. Noted'
  BY <1>1, <1>2 DEF Noted
<1>7. ASSUME NEW m \in Names, Wanted(m)' PROVE Wanted(m)
  <2>1. m \notin lacked /\ <<parser, m>> \in Listed \cap WithPath
    BY <1>1, <1>7 DEF Wanted
  <2>2. disk[m] # NoFile
    BY <1>2, <2>1 DEF Noted, Lacking, Available
  <2>. QED  BY <2>1, <2>2 DEF Wanted
<1>8. \A m \in Names : Wanted(m)' => Found(m)'
  <2>1. \A m \in Names : Found(m)' <=> Found(m)
    BY <1>1 DEF Found, NamesOf
  <2>. QED  BY <1>2, <1>7, <2>1 DEF Loading
<1>9. ASSUME lpc = "checksum" PROVE Checking'
  <2>. DEFINE m == lst[pos].name
  <2>1. /\ list # <<>> /\ pos <= Len(lst)
        /\ list[Len(list)].name = m /\ m \in Names /\ disk[m] # NoFile
        /\ m \in raced \/ list[Len(list)].size = Len(disk[m])
    BY <1>2, <1>9 DEF Loading, Checking
  <2>2. held <=> m = n
    BY <1>9 DEF held
  <2>. HIDE DEF m
  <2>3. /\ disk'[m] # NoFile
        /\ m \in raced' \/ list[Len(list)].size = Len(disk'[m])
    <3>1. CASE m = n
      BY <1>1, <1>4, <2>2, <3>1
    <3>2. CASE m # n
      BY <1>1, <1>4, <2>1, <2>2, <3>2
    <3>. QED  BY <3>1, <3>2
  <2>. QED  BY <1>1, <2>1, <2>3 DEF Checking, m
<1>10. Loading'
  BY <1>1, <1>2, <1>8, <1>9 DEF Loading
<1>11. Summed'
  <2>1. \A e : Fit(e) => Fit(e)'
    BY <1>1 DEF Fit, Damaged
  <2>2. Summed
    BY DEF Loads
  <2>. QED  BY <1>1, <2>1, <2>2 DEF Summed, AllFit, Torn
<1>. QED  BY <1>5, <1>6, <1>10, <1>11 DEF Loads

(* The configuration file is another one. *)
LEMMA ReconfigureLoads ==
  ASSUME NEW U, Loads(U), Reconfigure
  PROVE  Loads(U)'
<1>1. /\ UNCHANGED <<disk, cache, parser, infoList, lpc, lst, list, pos,
                     edited, raced, torn>>
      /\ lacked' = lacked \cup Lacking'
  BY DEF Reconfigure, locals
<1>2. CTyped(U) /\ Noted /\ Loading
  BY DEF Loads
<1>3. CTyped(U)'
  <2>1. CacheTyped(U)'
    BY <1>1, <1>2 DEF CTyped, CacheTyped
  <2>. QED  BY <1>1, <1>2, <2>1 DEF CTyped
<1>4. Noted'
  BY <1>1, <1>2 DEF Noted
<1>5. /\ \A m \in Names : Wanted(m)' => Wanted(m)
      /\ \A m \in Names : Found(m)' <=> Found(m)
      /\ \A e : (Fit(e)' <=> Fit(e)) /\ (Measured(e)' <=> Measured(e))
      /\ Checking' <=> Checking
  BY <1>1 DEF Wanted, Found, NamesOf, Fit, Damaged, Measured, Checking
<1>6. Loading'
  BY <1>1, <1>2, <1>5 DEF Loading
<1>7. Summed'
  <2>1. Summed
    BY DEF Loads
  <2>. QED  BY <1>1, <1>5, <2>1 DEF Summed, AllFit, Torn
<1>. QED  BY <1>3, <1>4, <1>6, <1>7 DEF Loads

(* The server is killed: of the list nothing is left, and of the cache file a
   part if it was being written. *)
LEMMA CrashLoads ==
  ASSUME NEW U, Loads(U), Crash
  PROVE  Loads(U)'
<1>1. /\ lpc' = "off" /\ infoList' = <<>>
      /\ lst' = <<>> /\ list' = <<>> /\ pos' = 1
      /\ UNCHANGED <<disk, config, parser, edited, raced, lacked>>
  BY DEF Crash, Forget
<1>2. CTyped(U) /\ Noted /\ Summed
  BY DEF Loads
<1>3. /\ CacheTyped(U)'
      /\ cache'.list \in {infoList, cache.list, <<>>}
      /\ torn \subseteq torn' /\ (Torn(cache) \subseteq torn)'
  <2>1. CASE cache' = cache /\ torn' = torn
    BY <1>2, <2>1 DEF CTyped, CacheTyped, Summed
  <2>2. CASE LeavesPart
    BY <1>2, <2>2, PartLeft
  <2>. QED  BY <2>1, <2>2 DEF Crash
<1>4. CTyped(U)'
  <2>1. <<>> \in Seq(Entries(U))
    OBVIOUS
  <2>. QED  BY <1>1, <1>2, <1>3, <2>1 DEF CTyped
<1>5. Noted'
  <2>1. Lacking' = Lacking
    BY <1>1 DEF Lacking, Available
  <2>. QED  BY <1>1, <1>2, <2>1 DEF Noted
<1>6. Loading'
  BY <1>1 DEF Loading, Found
<1>7. Summed'
  <2>1. AllFit(infoList) /\ AllFit(cache.list) /\ AllFit(<<>>)
    BY <1>2 DEF Summed, AllFit
  <2>2. \A e : Fit(e) => Fit(e)'
    BY <1>1, <1>3 DEF Fit, Damaged
  <2>3. AllFit(cache.list)' /\ AllFit(infoList)'
    BY <1>1, <1>3, <2>1, <2>2 DEF AllFit
  <2>. QED  BY <1>1, <1>3, <2>3 DEF Summed
<1>. QED  BY <1>4, <1>5, <1>6, <1>7 DEF Loads

(* A step that is none of these. *)
LEMMA StandLoads ==
  ASSUME NEW U, Loads(U), UNCHANGED cacheVars
  PROVE  Loads(U)'
<1>1. UNCHANGED <<disk, config, cache, parser, infoList, lpc, lst, list, pos,
                  edited, raced, torn, lacked>>
  BY DEF cacheVars, locals, past
<1>2. CTyped(U)'
  BY <1>1 DEF Loads, CTyped, CacheTyped
<1>3. Noted'
  BY <1>1 DEF Loads, Noted, Lacking, Available
<1>4. Loading'
  BY <1>1 DEF Loads, Loading, Wanted, Found, NamesOf, Measured, Checking
<1>5. Summed'
  BY <1>1 DEF Loads, Summed, AllFit, Fit, Damaged, Torn
<1>. QED  BY <1>2, <1>3, <1>4, <1>5 DEF Loads
-----------------------------------------------------------------------------
Serves == TypeOK /\ Serving

(* Before the info thread is started. *)
LEMMA InitServes ==
  ASSUME Init
  PROVE  Serves
<1>1. <<>> \in Seq(Clients) /\ DOMAIN <<>> = {}
  OBVIOUS
<1>2. ok \in BOOLEAN
  BY Zenon DEF Init
<1>3. /\ ipc = [c \in Clients |-> "idle"] /\ backlog = <<>>
      /\ tpc = "off" /\ served = None /\ open = 0
  BY DEF Init
<1>4. TypeOK
  BY <1>1, <1>2, <1>3, InfoAssumption DEF TypeOK
<1>. QED  BY <1>1, <1>3, <1>4 DEF Serves, Serving, Queued, Room, Refused,
             AvailableIsFound

(* Nothing that was lacking is forgotten. *)
LEMMA LackedGrows ==
  ASSUME parseConfig \/ LoadStep \/ Outside \/ Crash
  PROVE  lacked \subseteq lacked'
<1>1. CASE parseConfig \/ LoadStep \/ Crash
  BY <1>1 DEF parseConfig, LoadStep, measure, calculateChecksum, publish, copy,
              save, Crash, past
<1>2. CASE Reconfigure
  BY <1>2 DEF Reconfigure
<1>3. ASSUME NEW e \in Edits, Edit(e[1], e[2])
      PROVE  lacked \subseteq lacked'
  BY <1>3 DEF Edit
<1>. QED  BY <1>1, <1>2, <1>3 DEF Outside

(* Steps of the load do not change what the info thread has promised. *)
LEMMA LoadServes ==
  ASSUME Serves, lacked \subseteq lacked', UNCHANGED infoVars
  PROVE  Serves'
<1>1. UNCHANGED <<ipc, backlog, tpc, served, ok, open>>
  BY DEF infoVars
<1>2. TypeOK'
  BY <1>1 DEF Serves, TypeOK
<1>3. Queued' /\ Room' /\ Refused'
  BY <1>1 DEF Serves, Serving, Queued, Room, Refused
<1>4. AvailableIsFound'
  BY <1>1 DEF Serves, Serving, AvailableIsFound
<1>. QED  BY <1>2, <1>3, <1>4 DEF Serves, Serving

(* A client connects: it is not in the backlog yet. *)
LEMMA ConnectServes ==
  ASSUME Serves, NEW c \in Clients, connect(c)
  PROVE  Serves'
<1>. DEFINE more == Append(backlog, c)
<1>1. /\ tpc # "off" /\ ipc[c] = "idle"
      /\ ipc' = [ipc EXCEPT ![c] = "connected"]
      /\ UNCHANGED <<tpc, served, ok, open, lacked>>
  BY DEF connect, Goes, cacheVars, past
<1>2. backlog' = more
  BY DEF connect
<1>3. TypeOK /\ Queued /\ Room /\ Refused /\ AvailableIsFound
  BY DEF Serves, Serving
<1>4. /\ more \in Seq(Clients) /\ Len(backlog) \in Nat
      /\ DOMAIN backlog = 1..Len(backlog) /\ DOMAIN more = 1..(Len(backlog) + 1)
      /\ \A k \in 1..Len(backlog) : more[k] = backlog[k]
      /\ more[Len(backlog) + 1] = c
  <2>1. backlog \in Seq(Clients)
    BY <1>3 DEF TypeOK
  <2>2. /\ more \in Seq(Clients) /\ Len(more) = Len(backlog) + 1
        /\ \A k \in 1..Len(backlog) : more[k] = backlog[k]
        /\ more[Len(backlog) + 1] = c
    BY <2>1, AppendProperties
  <2>. HIDE DEF more
  <2>. QED  BY <2>1, <2>2
<1>. HIDE DEF more
<1>5. \A k \in DOMAIN more : k \in DOMAIN backlog \/ k = Len(backlog) + 1
  BY <1>4
<1>6. \A k \in DOMAIN backlog : more[k] = backlog[k] /\ backlog[k] # c
  BY <1>1, <1>3, <1>4 DEF Queued
<1>7. c # served
  BY <1>1, <1>3, InfoAssumption DEF Queued
<1>8. /\ \A j, k \in DOMAIN more : more[j] = more[k] => j = k
      /\ \A k \in DOMAIN more : more[k] # served
  BY <1>3, <1>4, <1>5, <1>6, <1>7 DEF TypeOK
<1>9. TypeOK'
  BY <1>1, <1>2, <1>3, <1>4, <1>8 DEF TypeOK
<1>10. Queued'
  BY <1>1, <1>2, <1>3, <1>4, <1>5, <1>6, <1>7 DEF Queued, TypeOK
<1>11. Room' /\ Refused' /\ AvailableIsFound'
  BY <1>1, <1>3 DEF Room, Refused, AvailableIsFound, TypeOK
<1>. QED  BY <1>9, <1>10, <1>11 DEF Serves, Serving

(* A client writes, is killed or vanishes. *)
LEMMA ClientServes ==
  ASSUME Serves, NEW c \in Clients, ClientStep(c)
  PROVE  Serves'
<1>1. /\ ipc[c] \in {"connected", "asked"}
      /\ \E to \in {"asked", "failed", "left", "silent"} :
            ipc' = [ipc EXCEPT ![c] = to]
      /\ UNCHANGED <<backlog, tpc, served, ok, open, lacked>>
  BY DEF ClientStep, Goes, cacheVars, past
<1>2. TypeOK /\ Queued /\ Room /\ Refused /\ AvailableIsFound
  BY DEF Serves, Serving
<1>3. TypeOK'
  BY <1>1, <1>2 DEF TypeOK
<1>4. Queued'
  <2>1. \A d \in Clients : ipc[d] # "idle" => ipc'[d] # "idle"
    BY <1>1, <1>2 DEF TypeOK
  <2>2. (\A k \in DOMAIN backlog : backlog[k] \in Clients)
        /\ served \in Clients \cup {None}
    BY <1>2 DEF TypeOK
  <2>. QED  BY <1>1, <1>2, <2>1, <2>2 DEF Queued
<1>5. Room' /\ Refused' /\ AvailableIsFound'
  BY <1>1, <1>2 DEF Room, Refused, AvailableIsFound, TypeOK
<1>. QED  BY <1>3, <1>4, <1>5 DEF Serves, Serving

(* The info thread waits for connections. *)
LEMMA StartServes ==
  ASSUME Serves, startProc
  PROVE  Serves'
<1>1. /\ tpc = "off" /\ tpc' = "accept"
      /\ UNCHANGED <<ipc, backlog, served, ok, open, lacked>>
  BY DEF startProc, cacheVars, past
<1>2. TypeOK'
  BY <1>1 DEF Serves, TypeOK
<1>. QED  BY <1>1, <1>2 DEF Serves, TypeOK, Serving, Queued, Room, Refused,
             AvailableIsFound

(* The connection that waits longest is served: it was in the backlog once. *)
LEMMA AcceptServes ==
  ASSUME Serves, accept
  PROVE  Serves'
<1>. DEFINE c == Head(backlog)
            others == Tail(backlog)
<1>1. /\ tpc = "accept" /\ backlog # <<>> /\ open < MaxOpen
      /\ tpc' = "parse" /\ UNCHANGED <<ipc, ok, open, lacked>>
  BY DEF accept, cacheVars, past
<1>2. served' = c /\ backlog' = others
  BY DEF accept
<1>3. TypeOK /\ Queued /\ AvailableIsFound
  BY DEF Serves, Serving
<1>4. /\ c = backlog[1] /\ c \in Clients /\ 1 \in DOMAIN backlog
      /\ others \in Seq(Clients)
      /\ \A k \in DOMAIN others : /\ k + 1 \in DOMAIN backlog
                                  /\ others[k] = backlog[k + 1]
  <2>1. backlog \in Seq(Clients)
    BY <1>3 DEF TypeOK
  <2>2. /\ others \in Seq(Clients) /\ Len(others) = Len(backlog) - 1
        /\ \A k \in 1..Len(others) : others[k] = backlog[k + 1]
    BY <1>1, <2>1, HeadTailProperties
  <2>3. c = backlog[1] /\ Len(backlog) \in Nat \ {0}
        /\ DOMAIN backlog = 1..Len(backlog)
    BY <1>1, <2>1
  <2>. HIDE DEF c, others
  <2>4. DOMAIN others = 1..Len(others)
    BY <2>2
  <2>. QED  BY <2>1, <2>2, <2>3, <2>4
<1>. HIDE DEF c, others
<1>5. DOMAIN others \subseteq Nat \ {0}
  BY <1>4
<1>6. /\ \A j, k \in DOMAIN others : others[j] = others[k] => j = k
      /\ \A k \in DOMAIN others : others[k] # c
  <2>1. \A j, k \in DOMAIN backlog : backlog[j] = backlog[k] => j = k
    BY <1>3 DEF TypeOK
  <2>. QED  BY <1>4, <1>5, <2>1
<1>7. TypeOK'
  BY <1>1, <1>2, <1>3, <1>4, <1>6, InfoAssumption DEF TypeOK
<1>8. Queued'
  BY <1>1, <1>2, <1>3, <1>4 DEF Queued
<1>9. Room' /\ Refused' /\ AvailableIsFound'
  BY <1>1, <1>3 DEF Room, Refused, AvailableIsFound
<1>. QED  BY <1>7, <1>8, <1>9 DEF Serves, Serving

(* An image that is looked up in vain was lacking: the list is complete
   whenever the lock can be had. *)
LEMMA ParseServes ==
  ASSUME NEW U, Loads(U), Serves, parse
  PROVE  Serves'
<1>1. /\ tpc = "parse" /\ lpc = "idle" /\ tpc' = "reply"
      /\ UNCHANGED <<ipc, backlog, served, lacked>>
      /\ ok' = (Asks[served] \in NamesOf(infoList))
      /\ open' = IF ok' THEN open + 1 ELSE open
  BY DEF parse, Unlocked, cacheVars, past
<1>2. TypeOK /\ Queued /\ Room /\ AvailableIsFound
  BY DEF Serves, Serving
<1>3. open \in Nat /\ open < MaxOpen /\ MaxOpen \in Nat
  BY <1>1, <1>2, InfoAssumption DEF TypeOK, Room
<1>4. ok' \in BOOLEAN
  <2>1. ok' = (Asks[served] \in NamesOf(infoList))
    BY DEF parse
  <2>2. (Asks[served] \in NamesOf(infoList)) \in BOOLEAN
    OBVIOUS
  <2>. QED  BY <2>1, <2>2
<1>5. open' \in 0..MaxOpen /\ (~ ok' => open' < MaxOpen)
  BY <1>1, <1>3
<1>6. TypeOK'
  BY <1>1, <1>2, <1>4, <1>5 DEF TypeOK
<1>7. served \in Clients /\ Asks[served] \in Names
  BY <1>1, <1>2, InfoAssumption DEF TypeOK
<1>8. ASSUME Asks[served] \notin NamesOf(infoList)
      PROVE  Asks[served] \in lacked
  <2>. DEFINE n == Asks[served]
  <2>1. n \in Names
    BY <1>7
  <2>. HIDE DEF n
  <2>2. ~ Wanted(n)
    BY <1>1, <1>8, <2>1 DEF Loads, Loading, Found, n
  <2>3. n \notin lacked => <<parser, n>> \in Listed \cap WithPath
    BY <1>1, <2>1 DEF Loads, Noted
  <2>4. n \notin lacked => disk[n] # NoFile
    BY <2>1 DEF Loads, Noted, Lacking, Available
  <2>5. n \in lacked
    BY <2>2, <2>3, <2>4 DEF Wanted
  <2>. QED  BY <2>5 DEF n
<1>9. Refused'
  BY <1>1, <1>8 DEF Refused
<1>10. Queued' /\ Room' /\ AvailableIsFound'
  BY <1>1, <1>2, <1>5 DEF Queued, Room, AvailableIsFound
<1>. QED  BY <1>6, <1>9, <1>10 DEF Serves, Serving

(* The client is gone before it has sent its request. *)
LEMMA HangupServes ==
  ASSUME Serves, hangup
  PROVE  Serves'
<1>1. /\ tpc = "parse" /\ tpc' = "accept" /\ served' = None
      /\ UNCHANGED <<ipc, backlog, ok, open, lacked>>
  BY DEF hangup, cacheVars, past
<1>2. TypeOK'
  <2>1. \A k \in DOMAIN backlog : backlog[k] \in Clients
    BY DEF Serves, TypeOK
  <2>. QED  BY <1>1, <2>1, InfoAssumption DEF Serves, TypeOK
<1>. QED  BY <1>1, <1>2 DEF Serves, Serving, Queued, Room, Refused,
             AvailableIsFound

(* The first line of the answer. *)
LEMMA ReplyServes ==
  ASSUME Serves, reply
  PROVE  Serves'
<1>1. /\ tpc = "reply" /\ UNCHANGED <<backlog, ok, lacked>>
      /\ tpc' = IF ok THEN "body" ELSE "accept"
      /\ ipc' = Tell(served, IF ok THEN "told" ELSE "refused")
      /\ served' = IF ok THEN served ELSE None
      /\ open' = IF ok THEN open ELSE open + 1
  BY DEF reply, After, cacheVars, past
<1>2. TypeOK /\ Queued /\ Room /\ Refused /\ AvailableIsFound
  BY DEF Serves, Serving
<1>3. served \in Clients /\ open \in 0..MaxOpen /\ MaxOpen \in Nat
  BY <1>1, <1>2, InfoAssumption DEF TypeOK
<1>4. open' \in 0..MaxOpen
  BY <1>1, <1>2, <1>3 DEF Room
<1>5. /\ ipc' = ipc \/ ipc' = [ipc EXCEPT ![served] =
                                 IF ok THEN "told" ELSE "refused"]
      /\ \A c \in Clients : ipc[c] # "told"
  BY <1>1, <1>2 DEF Tell, TypeOK
<1>6. \A k \in DOMAIN backlog : backlog[k] \in Clients /\ backlog[k] # served
  BY <1>2 DEF TypeOK
<1>7. TypeOK'
  BY <1>1, <1>2, <1>3, <1>4, <1>5, <1>6, InfoAssumption DEF TypeOK
<1>8. Queued' /\ Room' /\ Refused'
  BY <1>1, <1>2, <1>3, <1>5, <1>6 DEF Queued, Room, Refused, TypeOK
<1>9. AvailableIsFound'
  BY <1>1, <1>2, <1>3, <1>5 DEF Refused, AvailableIsFound, TypeOK
<1>. QED  BY <1>7, <1>8, <1>9 DEF Serves, Serving

(* The rest of the answer. *)
LEMMA BodyServes ==
  ASSUME Serves, body
  PROVE  Serves'
<1>1. /\ tpc = "body" /\ tpc' = "accept" /\ served' = None /\ ok' = FALSE
      /\ ipc' = Tell(served, "answered")
      /\ UNCHANGED <<backlog, open, lacked>>
  BY DEF body, cacheVars, past
<1>2. TypeOK /\ Queued /\ AvailableIsFound
  BY DEF Serves, Serving
<1>3. served \in Clients
  BY <1>1, <1>2 DEF TypeOK
<1>4. /\ ipc' \in [Clients -> {"idle", "connected", "silent", "asked", "left",
                               "told", "answered", "refused", "misled",
                               "failed"}]
      /\ \A c \in Clients : c # served => ipc'[c] = ipc[c]
      /\ ipc'[served] \in {"left", "answered"}
  BY <1>1, <1>2, <1>3 DEF Tell, TypeOK
<1>5. \A k \in DOMAIN backlog : backlog[k] \in Clients /\ backlog[k] # served
  BY <1>2 DEF TypeOK
<1>6. \A c \in Clients : ipc'[c] # "told"
  BY <1>2, <1>4 DEF TypeOK
<1>7. ok' \in BOOLEAN
  BY <1>1, Zenon
<1>8. TypeOK'
  BY <1>1, <1>2, <1>4, <1>5, <1>6, <1>7, InfoAssumption DEF TypeOK
<1>9. Queued' /\ Room' /\ Refused' /\ AvailableIsFound'
  BY <1>1, <1>2, <1>4, <1>5 DEF Queued, Room, Refused, AvailableIsFound, TypeOK
<1>. QED  BY <1>8, <1>9 DEF Serves, Serving

(* The server is killed: nobody waits for it any more. *)
LEMMA KillServes ==
  ASSUME Serves, kill
  PROVE  Serves'
<1>1. /\ tpc' = "off" /\ served' = None /\ backlog' = <<>> /\ ok' = FALSE
      /\ open' = 0 /\ lacked' = lacked
      /\ ipc' = [c \in Clients |->
                   CASE ipc[c] \in {"connected", "asked"} -> "failed"
                     [] ipc[c] = "told" -> "misled"
                     [] OTHER -> ipc[c]]
  BY DEF kill, Crash
<1>2. TypeOK /\ AvailableIsFound
  BY DEF Serves, Serving
<1>3. \A c \in Clients :
         /\ ipc'[c] \in {"idle", "connected", "silent", "asked", "left",
                         "answered", "refused", "misled", "failed"}
         /\ ipc'[c] = "refused" => ipc[c] = "refused"
  BY <1>1, <1>2 DEF TypeOK
<1>4. ipc' \in [Clients -> {"idle", "connected", "silent", "asked", "left",
                            "told", "answered", "refused", "misled", "failed"}]
  BY <1>1, <1>3
<1>5. ok' \in BOOLEAN
  BY <1>1, Zenon
<1>6. <<>> \in Seq(Clients) /\ DOMAIN <<>> = {}
  OBVIOUS
<1>7. TypeOK'
  BY <1>1, <1>3, <1>4, <1>5, <1>6, InfoAssumption DEF TypeOK
<1>8. Queued' /\ Room' /\ Refused' /\ AvailableIsFound'
  BY <1>1, <1>2, <1>3, <1>6 DEF Queued, Room, Refused, AvailableIsFound
<1>. QED  BY <1>7, <1>8 DEF Serves, Serving

-----------------------------------------------------------------------------
IInv(U) == Loads(U) /\ Serves

(* Every step of the load, the info thread, the clients and the world keeps
   the invariant. *)
LEMMA NextIInv ==
  ASSUME NEW U, FilesOver(U), ImagesNamed, IInv(U), [Next]_vars
  PROVE  IInv(U)'
<1>0. Loads(U) /\ Serves
  BY DEF IInv
<1>1. ASSUME parseConfig \/ LoadStep \/ Outside, UNCHANGED infoVars
      PROVE  IInv(U)'
  <2>1. Serves'
    BY <1>0, <1>1, LackedGrows, LoadServes
  <2>2. Loads(U)'
    <3>1. CASE parseConfig
      BY <1>0, <3>1, ParseLoads
    <3>2. CASE LoadStep
      BY <1>0, <3>2, MeasureLoads, ChecksumLoads, PublishLoads, CopyLoads,
         SaveLoads DEF LoadStep
    <3>3. CASE Outside
      BY <1>0, <3>3, EditLoads, ReconfigureLoads DEF Outside
    <3>. QED  BY <1>1, <3>1, <3>2, <3>3
  <2>. QED  BY <2>1, <2>2 DEF IInv
<1>2. CASE startProc \/ accept \/ parse \/ hangup \/ reply \/ body
  <2>1. UNCHANGED cacheVars
    BY <1>2 DEF startProc, accept, parse, hangup, reply, body
  <2>2. Loads(U)'
    BY <1>0, <2>1, StandLoads
  <2>3. Serves'
    BY <1>0, <1>2, StartServes, AcceptServes, ParseServes, HangupServes,
       ReplyServes, BodyServes
  <2>. QED  BY <2>2, <2>3 DEF IInv
<1>3. ASSUME NEW c \in Clients, connect(c) \/ ClientStep(c)
      PROVE  IInv(U)'
  <2>1. UNCHANGED cacheVars
    BY <1>3 DEF connect, ClientStep
  <2>2. Loads(U)'
    BY <1>0, <2>1, StandLoads
  <2>. QED  BY <1>0, <1>3, <2>2, ConnectServes, ClientServes DEF IInv
<1>4. CASE kill
  <2>1. Crash
    BY <1>4 DEF kill
  <2>. QED  BY <1>0, <1>4, <2>1, CrashLoads, KillServes DEF IInv
<1>5. CASE UNCHANGED vars
  <2>1. UNCHANGED cacheVars /\ UNCHANGED infoVars /\ lacked' = lacked
    BY <1>5 DEF vars, cacheVars, past
  <2>. QED  BY <1>0, <2>1, StandLoads, LoadServes DEF IInv
<1>. QED  BY <1>1, <1>2, <1>3, <1>4, <1>5 DEF Next

(* The invariant holds in every reachable state. *)
THEOREM InfoInvariant ==
  ASSUME NEW U, FilesOver(U), ImagesNamed
  PROVE  Spec => []IInv(U)
<1>1. Init => IInv(U)
  BY InitLoads, InitServes DEF Init, IInv
<1>2. IInv(U) /\ [Next]_vars => IInv(U)'
  BY NextIInv
<1>. QED  BY <1>1, <1>2, PTL DEF Spec

(* A connection is either served or waits, once; no descriptor is counted that
   cannot be open. *)
THEOREM ConnectionsTyped ==
  ASSUME NEW U, FilesOver(U), ImagesNamed
  PROVE  Spec => []TypeOK
<1>1. IInv(U) => TypeOK
  BY DEF IInv, Serves
<1>. QED  BY <1>1, InfoInvariant, PTL

(* An image that all the time is named, has a path and a file is never
   refused, with any number of images, clients, reloads and crashes. *)
THEOREM NeverRefused ==
  ASSUME NEW U, FilesOver(U), ImagesNamed
  PROVE  Spec => []AvailableIsFound
<1>1. IInv(U) => AvailableIsFound
  BY DEF IInv, Serves, Serving
<1>. QED  BY <1>1, InfoInvariant, PTL

(* After a load during which no file was changed the list is that of the
   files. *)
THEOREM ListsAreCurrent ==
  ASSUME NEW U, FilesOver(U), ImagesNamed
  PROVE  Spec => []ListIsCurrent
<1>1. ASSUME IInv(U) PROVE ListIsCurrent
  <2>. SUFFICES ASSUME lpc = "idle", ~ edited
         PROVE  /\ \A n \in Names :
                     <<parser, n>> \in Listed \cap WithPath /\ disk[n] # NoFile
                     => /\ n \in NamesOf(infoList)
                        /\ infoList[First(n)].size = Len(disk[n])
                /\ \A n \in NamesOf(infoList) : disk[n] # NoFile
    BY DEF ListIsCurrent
  <2>1. CTyped(U) /\ Loading
    BY <1>1 DEF IInv, Loads
  <2>2. \A k \in DOMAIN infoList : Measured(infoList[k])
    BY <2>1 DEF Loading
  <2>3. DOMAIN infoList \in SUBSET Nat
    BY <2>1 DEF CTyped
  <2>4. ASSUME NEW n \in Names, <<parser, n>> \in Listed \cap WithPath,
               disk[n] # NoFile
        PROVE  /\ n \in NamesOf(infoList)
               /\ infoList[First(n)].size = Len(disk[n])
    <3>1. n \in NamesOf(infoList)
      BY <2>1, <2>4 DEF Loading, Wanted, Found
    <3>. DEFINE Is == {k \in DOMAIN infoList : infoList[k].name = n}
    <3>2. Is \in SUBSET Nat /\ Is # {}
      BY <2>3, <3>1 DEF NamesOf
    <3>3. PICK k \in Is : \A j \in Is : k <= j
      <4>. HIDE DEF Is
      <4>. QED  BY <3>2, LeastNumber
    <3>4. \A j \in 1..(k - 1) : infoList[j].name # n
      <4>1. \A j \in 1..(k - 1) : j \in DOMAIN infoList /\ ~ (k <= j)
        BY <2>1, <3>3 DEF CTyped
      <4>. QED  BY <3>3, <4>1
    <3>5. First(n) \in DOMAIN infoList /\ infoList[First(n)].name = n
      BY <3>3, <3>4 DEF First
    <3>. QED  BY <2>2, <3>1, <3>5 DEF Measured
  <2>5. \A n \in NamesOf(infoList) : disk[n] # NoFile
    BY <2>2 DEF NamesOf, Measured
  <2>. QED  BY <2>4, <2>5
<1>. QED  BY <1>1, InfoInvariant, PTL

(* An image has as many checksums as its size says, whatever a crash or a full
   disk left of the cache file, but for images at whose number of checksums the
   file ended and for those that were written over while they were measured. *)
THEOREM SumsAlwaysFit ==
  ASSUME NEW U, FilesOver(U), ImagesNamed
  PROVE  Spec => []SumsFit
<1>1. IInv(U) => SumsFit
  BY DEF IInv, Loads, Summed, AllFit, Fit, SumsFit
<1>. QED  BY <1>1, InfoInvariant, PTL

(* Whatever is reloaded, edited or killed, no load loses an image and the info
   thread refuses only what lacked. *)
THEOREM LoadsAndAnswers ==
  ASSUME NEW U, FilesOver(U), ImagesNamed
  PROVE  Spec => []SInv
<1>1. IInv(U) => SInv
  BY DEF IInv, Loads, Serves, CInv, SInv
<1>. QED  BY <1>1, InfoInvariant, PTL
=============================================================================

--------------------------- MODULE RSExchangeProofs ---------------------------
(***************************************************************************)
(* Proofs about RSParser and RSExchange for headers with lines of any      *)
(* length, bodies of any contents, a buffer of any size and any reads that *)
(* end where EndsWell says: the header is cut into its lines and the data  *)
(* after it is kept, the server reads what the client asked for, and the   *)
(* client what the server answered.                                        *)
(***************************************************************************)
EXTENDS RSExchange, WellFoundedInduction, SequenceTheorems, TLAPS

\* C has the characters that the program itself writes
Alphabet(C) == /\ CR \in C /\ LF \in C /\ NUL \in C

\* lines that can be sent: none is empty or has an end of line within
Plain(ls, C) ==
    /\ ls \in Seq(Seq(C)) /\ ls # <<>>
    /\ \A k \in 1..Len(ls) :
          /\ ls[k] # <<>>
          /\ \A i \in 1..Len(ls[k]) : ls[k][i] \notin {CR, LF, NUL}

-----------------------------------------------------------------------------
(* Numbers and functions *)

(* What holds at 0 and for the successor of every number it holds at holds up
   to n. *)
LEMMA Counting ==
  ASSUME NEW n \in Nat, NEW S, 0 \in S,
         \A k \in 1..n : k - 1 \in S => k \in S
  PROVE  0..n \subseteq S
<1>. DEFINE R == OpToRel(<, Nat)
            Out == {k \in 0..n : k \notin S}
<1>1. IsWellFoundedOn(R, Nat)
  BY NatLessThanWellFounded
<1>2. \A x, y \in Nat : <<y, x>> \in R <=> y < x
  BY DEF OpToRel
<1>3. Out \in SUBSET Nat
  OBVIOUS
<1>. HIDE DEF R
<1>4. SUFFICES ASSUME Out # {} PROVE FALSE
  OBVIOUS
<1>5. PICK x \in Out : \A y \in Out : ~ (<<y, x>> \in R)
  BY <1>1, <1>3, <1>4, WFMin
<1>6. x \in 0..n /\ x \notin S /\ x # 0
  BY <1>5
<1>7. x - 1 \in 0..n /\ x \in 1..n
  BY <1>6
<1>8. x - 1 \notin S
  BY <1>6, <1>7
<1>9. x - 1 \in Out
  BY <1>7, <1>8
<1>10. <<x - 1, x>> \in R
  BY <1>2, <1>7
<1>. QED  BY <1>5, <1>9, <1>10

(* A recursive definition that counts up defines a function. *)
Iterates(f, T, n, base, step) ==
    /\ f \in [0..n -> T] /\ f[0] = base
    /\ \A k \in 1..n : f[k] = step[k][f[k - 1]]

LEMMA Iterated ==
  ASSUME NEW T, NEW n \in Nat, NEW base \in T,
         NEW step \in [1..n -> [T -> T]]
  PROVE  \E f : Iterates(f, T, n, base, step)
<1>. DEFINE S == {m \in 0..n : \E f \in [0..m -> T] :
                     /\ f[0] = base
                     /\ \A k \in 1..m : f[k] = step[k][f[k - 1]]}
<1>1. 0 \in S
  <2>. DEFINE f == [k \in 0..0 |-> base]
  <2>1. f \in [0..0 -> T] /\ f[0] = base /\ \A k \in 1..0 : f[k] = step[k][f[k - 1]]
    OBVIOUS
  <2>. HIDE DEF f
  <2>. QED  BY <2>1
<1>2. ASSUME NEW m \in 1..n, m - 1 \in S PROVE m \in S
  <2>1. PICK f \in [0..(m - 1) -> T] :
               /\ f[0] = base
               /\ \A k \in 1..(m - 1) : f[k] = step[k][f[k - 1]]
    BY <1>2
  <2>. DEFINE g == [k \in 0..m |-> IF k = m THEN step[m][f[m - 1]] ELSE f[k]]
  <2>2. f[m - 1] \in T
    BY <2>1
  <2>3. step[m][f[m - 1]] \in T
    BY <2>2
  <2>4. g \in [0..m -> T]
    BY <2>1, <2>3
  <2>5. g[0] = base
    BY <2>1
  <2>6. ASSUME NEW k \in 1..m PROVE g[k] = step[k][g[k - 1]]
    BY <2>1
  <2>7. /\ g[0] = base
        /\ \A k \in 1..m : g[k] = step[k][g[k - 1]]
    BY <2>5, <2>6
  <2>8. m \in 0..n
    OBVIOUS
  <2>. HIDE DEF g
  <2>. QED  BY <2>4, <2>7, <2>8
<1>. HIDE DEF S
<1>3. 0..n \subseteq S
  BY <1>1, <1>2, Counting
<1>. QED  BY <1>3 DEF S, Iterates
-----------------------------------------------------------------------------
(* What the peer sends *)

(* Ended adds the lines one by one. *)
LEMMA EndedAdds ==
  ASSUME NEW C, Alphabet(C), NEW ls \in Seq(Seq(C))
  PROVE  /\ Ended(ls, 0) = <<>>
         /\ \A k \in 1..Len(ls) :
               Ended(ls, k) = Ended(ls, k - 1) \o ls[k] \o <<CR, LF>>
         /\ \A k \in 0..Len(ls) : Ended(ls, k) \in Seq(C)
<1>. DEFINE n == Len(ls)
            base == <<>>
            end == <<CR, LF>>
            step == [k \in 1..n |-> [s \in Seq(C) |-> s \o ls[k] \o end]]
            Is(f) == f = [k \in 0..n |->
                            IF k = 0 THEN base ELSE f[k - 1] \o ls[k] \o end]
            g == CHOOSE f : Is(f)
<1>1. \A k \in 0..n : Ended(ls, k) = g[k]
  BY DEF Ended
<1>2. n \in Nat /\ \A k \in 1..n : ls[k] \in Seq(C)
  OBVIOUS
<1>3. base \in Seq(C) /\ end \in Seq(C)
  BY DEF Alphabet
<1>. HIDE DEF n, base, end
<1>4. \A k \in 1..n, s \in Seq(C) : s \o ls[k] \o end \in Seq(C)
  BY <1>2, <1>3
<1>5. step \in [1..n -> [Seq(C) -> Seq(C)]]
  BY <1>4
<1>6. \A k \in 1..n, s \in Seq(C) : step[k][s] = s \o ls[k] \o end
  OBVIOUS
<1>. HIDE DEF step
<1>7. PICK f : Iterates(f, Seq(C), n, base, step)
  BY <1>2, <1>3, <1>5, Iterated
<1>8. \A k \in 1..n : k \in 0..n /\ k - 1 \in 0..n /\ k # 0
  BY <1>2
<1>9. \A k \in 0..n : k = 0 \/ k \in 1..n
  BY <1>2
<1>10. Is(f)
  <2>1. f = [k \in 0..n |-> f[k]]
    BY <1>7 DEF Iterates
  <2>2. \A k \in 1..n : f[k] = f[k - 1] \o ls[k] \o end
    BY <1>6, <1>7, <1>8, Zenon DEF Iterates
  <2>3. \A k \in 0..n : f[k] = IF k = 0 THEN base ELSE f[k - 1] \o ls[k] \o end
    BY <1>7, <1>9, <2>2, Zenon DEF Iterates
  <2>. QED  BY <2>1, <2>3, Zenon
<1>11. Is(g)
  <2>. HIDE DEF Is
  <2>. QED  BY <1>10
<1>. HIDE DEF g
<1>12. \A k \in 1..n : g[k] = g[k - 1] \o ls[k] \o end
  BY <1>8, <1>11, Zenon
<1>13. g[0] = base
  <2>1. 0 \in 0..n
    BY <1>2
  <2>. QED  BY <1>11, <2>1, Zenon
<1>. HIDE DEF Is
<1>. DEFINE S == {k \in 0..n : g[k] \in Seq(C)}
<1>14. 0 \in S
  BY <1>2, <1>3, <1>13
<1>15. ASSUME NEW k \in 1..n, k - 1 \in S PROVE k \in S
  BY <1>4, <1>8, <1>12, <1>15, Zenon
<1>. HIDE DEF S
<1>16. 0..n \subseteq S
  BY <1>2, <1>14, <1>15, Counting
<1>17. \A k \in 0..n : g[k] \in Seq(C)
  BY <1>16 DEF S
<1>18. 0 \in 0..n
  BY <1>2
<1>. QED  BY <1>1, <1>8, <1>12, <1>13, <1>17, <1>18, Zenon DEF n, base, end

(* What Ended begins with stays when lines are added. *)
LEMMA EndedBegins ==
  ASSUME NEW C, Alphabet(C), NEW ls \in Seq(Seq(C)), NEW j \in 0..Len(ls),
         NEW m \in j..Len(ls)
  PROVE  /\ Len(Ended(ls, j)) <= Len(Ended(ls, m))
         /\ \A i \in 1..Len(Ended(ls, j)) : Ended(ls, m)[i] = Ended(ls, j)[i]
<1>. DEFINE n == Len(ls)
            e == Ended(ls, j)
            Begins(x) == /\ Len(e) <= Len(Ended(ls, x))
                         /\ \A i \in 1..Len(e) : Ended(ls, x)[i] = e[i]
            S == {x \in 0..n : x >= j => Begins(x)}
<1>1. n \in Nat /\ j \in 0..n /\ m \in 0..n /\ m >= j
  OBVIOUS
<1>2. \A x \in 0..n : Ended(ls, x) \in Seq(C) /\ Len(Ended(ls, x)) \in Nat
  <2>1. \A x \in 0..n : Ended(ls, x) \in Seq(C)
    BY EndedAdds, Zenon
  <2>. QED  BY <2>1
<1>3. \A x \in 1..n : /\ ls[x] \in Seq(C)
                      /\ Ended(ls, x) = Ended(ls, x - 1) \o ls[x] \o <<CR, LF>>
  <2>1. \A x \in 1..n : Ended(ls, x) = Ended(ls, x - 1) \o ls[x] \o <<CR, LF>>
    BY EndedAdds, Zenon
  <2>2. \A x \in 1..n : ls[x] \in Seq(C)
    OBVIOUS
  <2>. QED  BY <2>1, <2>2, Zenon
<1>. HIDE DEF n
<1>4. Begins(j)
  BY <1>1, <1>2
<1>5. 0 \in S
  BY <1>1, <1>4
<1>6. ASSUME NEW x \in 1..n, x - 1 \in S PROVE x \in S
  <2>. SUFFICES ASSUME x > j PROVE Begins(x)
    BY <1>1, <1>4
  <2>1. x - 1 \in 0..n /\ x - 1 >= j
    BY <1>1
  <2>2. Begins(x - 1)
    BY <1>6, <2>1
  <2>. DEFINE b == Ended(ls, x - 1)
              l == ls[x]
  <2>3. b \in Seq(C) /\ l \in Seq(C) /\ Ended(ls, x) = b \o l \o <<CR, LF>>
    BY <1>2, <1>3, <2>1
  <2>4. e \in Seq(C)
    BY <1>1, <1>2
  <2>5. Len(e) <= Len(b) /\ \A i \in 1..Len(e) : b[i] = e[i]
    BY <2>2
  <2>. HIDE DEF b, l, e
  <2>6. CR \in C /\ LF \in C
    BY DEF Alphabet
  <2>7. /\ Len(b \o l \o <<CR, LF>>) = Len(b) + Len(l) + 2
        /\ \A i \in 1..Len(b) : (b \o l \o <<CR, LF>>)[i] = b[i]
    BY <2>3, <2>6
  <2>8. Len(e) <= Len(b \o l \o <<CR, LF>>)
    BY <2>3, <2>4, <2>5, <2>7
  <2>9. \A i \in 1..Len(e) : (b \o l \o <<CR, LF>>)[i] = e[i]
    BY <2>3, <2>4, <2>5, <2>7
  <2>. QED  BY <2>3, <2>8, <2>9
<1>. HIDE DEF Begins
<1>7. 0..n \subseteq S
  <2>. HIDE DEF S
  <2>. QED  BY <1>1, <1>5, <1>6, Counting
<1>. QED  BY <1>1, <1>7 DEF Begins

\* the line after the first k, and where it ends
LineAt(ls, k) == IF k < Len(ls) THEN ls[k + 1] ELSE <<>>
EndAt(ls, k) == Len(Ended(ls, k)) + Len(LineAt(ls, k)) + 2

(* Where the lines and the empty one lie in what is sent. *)
LEMMA LinesLie ==
  ASSUME NEW C, Alphabet(C), NEW ls \in Seq(Seq(C)), NEW k \in 0..Len(ls)
  PROVE  /\ Encoded(ls) \in Seq(C)
         /\ Len(Encoded(ls)) \in Nat /\ Len(Ended(ls, k)) \in Nat
         /\ LineAt(ls, k) \in Seq(C) /\ Len(LineAt(ls, k)) \in Nat
         /\ EndAt(ls, k) <= Len(Encoded(ls))
         /\ \A i \in 1..Len(LineAt(ls, k)) :
               Encoded(ls)[Len(Ended(ls, k)) + i] = LineAt(ls, k)[i]
         /\ Encoded(ls)[EndAt(ls, k) - 1] = CR
         /\ Encoded(ls)[EndAt(ls, k)] = LF
         /\ Ended(ls, 0) = <<>>
         /\ k < Len(ls) => EndAt(ls, k) = Len(Ended(ls, k + 1))
         /\ k = Len(ls) => EndAt(ls, k) = Len(Encoded(ls))
<1>. DEFINE n == Len(ls)
            all == Ended(ls, n)
            b == Ended(ls, k)
            l == LineAt(ls, k)
<1>1. n \in Nat /\ k \in 0..n /\ n \in 0..n /\ CR \in C /\ LF \in C
  BY DEF Alphabet
<1>2. all \in Seq(C) /\ b \in Seq(C) /\ Ended(ls, 0) = <<>>
  BY <1>1, EndedAdds
<1>3. l \in Seq(C)
  <2>1. CASE k < n
    BY <2>1 DEF LineAt
  <2>2. CASE ~ (k < n)
    BY <2>2 DEF LineAt
  <2>. QED  BY <2>1, <2>2
<1>4. Encoded(ls) = all \o <<CR, LF>>
  BY DEF Encoded
<1>5. CASE k = n
  <2>1. l = <<>> /\ b = all
    BY <1>5 DEF LineAt
  <2>2. EndAt(ls, k) = Len(b) + 2
    BY <1>2, <2>1 DEF EndAt
  <2>. HIDE DEF all, b, l, n
  <2>. QED  BY <1>1, <1>2, <1>4, <1>5, <2>1, <2>2 DEF n, b, l
<1>6. CASE k # n
  <2>1. k + 1 \in 1..n /\ k < n /\ l = ls[k + 1]
    BY <1>1, <1>6 DEF LineAt
  <2>. DEFINE m == Ended(ls, k + 1)
  <2>2. m = b \o l \o <<CR, LF>>
    <3>1. \A x \in 1..n : Ended(ls, x) = Ended(ls, x - 1) \o ls[x] \o <<CR, LF>>
      BY EndedAdds, Zenon
    <3>2. (k + 1) - 1 = k
      OBVIOUS
    <3>. QED  BY <2>1, <3>1, <3>2, Zenon
  <2>3. /\ Len(m) <= Len(all)
        /\ \A i \in 1..Len(m) : all[i] = m[i]
    BY <1>1, <2>1, EndedBegins
  <2>4. EndAt(ls, k) = Len(b) + Len(l) + 2
    BY DEF EndAt
  <2>. HIDE DEF all, b, l, n, m
  <2>5. /\ Len(m) = Len(b) + Len(l) + 2 /\ m \in Seq(C)
        /\ m[Len(b) + Len(l) + 1] = CR
        /\ m[Len(b) + Len(l) + 2] = LF
        /\ \A i \in 1..Len(l) : m[Len(b) + i] = l[i]
    BY <1>1, <1>2, <1>3, <2>2
  <2>6. /\ Encoded(ls) \in Seq(C) /\ Len(Encoded(ls)) = Len(all) + 2
        /\ \A i \in 1..Len(all) : Encoded(ls)[i] = all[i]
    BY <1>1, <1>2, <1>4
  <2>7. /\ Len(l) \in Nat /\ Len(b) \in Nat /\ Len(all) \in Nat
    BY <1>2, <1>3
  <2>8. /\ \A i \in 1..Len(l) : Encoded(ls)[Len(b) + i] = l[i]
        /\ Encoded(ls)[Len(b) + Len(l) + 1] = CR
        /\ Encoded(ls)[Len(b) + Len(l) + 2] = LF
    <3>. DEFINE x == Len(m)
                y == Len(all)
    <3>0. x \in Nat /\ y \in Nat /\ x <= y
      BY <2>3, <2>5, <2>7
    <3>. HIDE DEF x, y
    <3>1. \A i \in 1..x : i \in 1..y
      BY <3>0
    <3>4. \A i \in 1..Len(m) : Encoded(ls)[i] = m[i]
      BY <2>3, <2>6, <3>1, Zenon DEF x, y
    <3>2. \A i \in 1..Len(l) : Len(b) + i \in 1..Len(m)
      BY <2>5, <2>7
    <3>3. Len(b) + Len(l) + 1 \in 1..Len(m) /\ Len(b) + Len(l) + 2 \in 1..Len(m)
      BY <2>5, <2>7
    <3>. QED  BY <2>5, <3>2, <3>3, <3>4, Zenon
  <2>9. /\ Ended(ls, k) \in Seq(C) /\ Len(Ended(ls, k)) \in Nat
        /\ Encoded(ls) \in Seq(C) /\ Len(Encoded(ls)) \in Nat
        /\ LineAt(ls, k) \in Seq(C) /\ Len(LineAt(ls, k)) \in Nat
        /\ EndAt(ls, k) <= Len(Encoded(ls))
    <3>1. Len(Encoded(ls)) \in Nat /\ EndAt(ls, k) <= Len(Encoded(ls))
      BY <2>3, <2>4, <2>5, <2>6, <2>7
    <3>. QED  BY <1>2, <1>3, <2>6, <2>7, <3>1, Zenon DEF b, l
  <2>10. Encoded(ls)[EndAt(ls, k) - 1] = CR
    <3>1. EndAt(ls, k) - 1 = Len(b) + Len(l) + 1
      BY <2>4, <2>7
    <3>. QED  BY <2>8, <3>1, Zenon
  <2>11. EndAt(ls, k) = Len(Ended(ls, k + 1)) /\ k # Len(ls)
    BY <1>6, <2>4, <2>5, Zenon DEF n, m
  <2>. QED  BY <1>2, <2>4, <2>8, <2>9, <2>10, <2>11, Zenon DEF b, l
<1>. QED  BY <1>5, <1>6
-----------------------------------------------------------------------------
(* The search for an end of line *)

\* what the loop of EOLFrom finds from i on, if f is what it finds after i
ScanAt(f, h, n, i) ==
    IF i >= n THEN h
    ELSE IF h.buffer[i] = CR
         THEN IF h.buffer[i + 1] = LF THEN Found(h, i, TRUE) ELSE f[i + 2]
    ELSE IF h.buffer[i] = LF THEN Found(h, i, FALSE)
    ELSE f[i + 1]

Defined(f, h, n) == f = [i \in 0..(Size + 1) |-> ScanAt(f, h, n, i)]
Scans(f, h, n) == \A i \in 0..(Size + 1) : f[i] = ScanAt(f, h, n, i)

(* There is such a function: it is defined from the end of the buffer on. *)
LEMMA ScanExists ==
  ASSUME NEW h, NEW n \in 0..Size
  PROVE  \E f : Defined(f, h, n)
<1>. USE ParserAssumption
<1>. DEFINE Z == Size + 1
            From(f, a) == \A i \in a..Z : f[i] = ScanAt(f, h, n, i)
            S == {m \in 0..Z : \E f : From(f, Z - m)}
<1>0. Z \in Nat /\ Z >= 1 /\ n \in Nat /\ n < Z
  OBVIOUS
<1>1. ASSUME NEW f, NEW g, NEW i \in 0..Z,
             i < n => f[i + 1] = g[i + 1] /\ f[i + 2] = g[i + 2]
      PROVE  ScanAt(f, h, n, i) = ScanAt(g, h, n, i)
  <2>1. CASE i >= n
    BY <2>1, Zenon DEF ScanAt
  <2>2. CASE ~ (i >= n)
    <3>1. i < n
      BY <2>2
    <3>. QED  BY <1>1, <2>2, <3>1, Zenon DEF ScanAt
  <2>. QED  BY <2>1, <2>2, Zenon
<1>. HIDE DEF Z
<1>2. 0 \in S
  <2>. DEFINE f == [i \in 0..Z |-> h]
  <2>1. \A i \in (Z - 0)..Z : i \in 0..Z /\ i >= n
    BY <1>0
  <2>2. From(f, Z - 0)
    BY <2>1, Zenon DEF ScanAt
  <2>3. 0 \in 0..Z
    BY <1>0
  <2>. HIDE DEF f, From
  <2>. QED  BY <2>2, <2>3
<1>3. ASSUME NEW m \in 1..Z, m - 1 \in S PROVE m \in S
  <2>. DEFINE a == Z - m
  <2>1. PICK f : From(f, Z - (m - 1))
    BY <1>3, Zenon
  <2>. DEFINE g == [i \in 0..Z |-> IF i = a THEN ScanAt(f, h, n, a) ELSE f[i]]
  <2>2. m \in 0..Z /\ a \in 0..Z /\ Z - (m - 1) = a + 1
    BY <1>0
  <2>3. \A i \in (a + 1)..Z : f[i] = ScanAt(f, h, n, i)
    BY <2>1, <2>2, Zenon
  <2>. HIDE DEF a
  <2>4. ASSUME NEW i \in a..Z PROVE g[i] = ScanAt(g, h, n, i)
    <3>1. i \in 0..Z
      BY <1>0, <2>2
    <3>2. ASSUME i < n
          PROVE  /\ i + 1 \in 0..Z /\ i + 1 # a
                 /\ i + 2 \in 0..Z /\ i + 2 # a
      BY <1>0, <2>2, <3>1, <3>2
    <3>3. i < n => f[i + 1] = g[i + 1] /\ f[i + 2] = g[i + 2]
      BY <3>2, Zenon
    <3>4. ScanAt(f, h, n, i) = ScanAt(g, h, n, i)
      <4>. HIDE DEF g
      <4>. QED  BY <1>1, <3>1, <3>3
    <3>5. CASE i = a
      BY <3>1, <3>4, <3>5, Zenon
    <3>6. CASE i # a
      <4>1. i \in (a + 1)..Z
        BY <1>0, <2>2, <3>6
      <4>. QED  BY <2>3, <3>1, <3>4, <3>6, <4>1, Zenon
    <3>. QED  BY <3>5, <3>6
  <2>5. From(g, Z - m)
    BY <2>4, Zenon DEF a
  <2>. HIDE DEF From, g
  <2>. QED  BY <2>2, <2>5
<1>4. 0..Z \subseteq S
  <2>. HIDE DEF S
  <2>. QED  BY <1>0, <1>2, <1>3, Counting
<1>5. Z \in 0..Z /\ Z - Z = 0
  BY <1>0
<1>6. PICK f : From(f, 0)
  BY <1>4, <1>5, Zenon
<1>. DEFINE g == [i \in 0..Z |-> f[i]]
<1>7. ASSUME NEW i \in 0..Z PROVE f[i] = ScanAt(g, h, n, i)
  <2>1. i < n => i + 1 \in 0..Z /\ i + 2 \in 0..Z
    BY <1>0
  <2>2. i < n => f[i + 1] = g[i + 1] /\ f[i + 2] = g[i + 2]
    BY <2>1, Zenon
  <2>. HIDE DEF g
  <2>3. ScanAt(f, h, n, i) = ScanAt(g, h, n, i)
    BY <1>1, <2>2
  <2>. QED  BY <1>6, <2>3, Zenon
<1>8. g = [i \in 0..Z |-> ScanAt(g, h, n, i)]
  <2>1. [i \in 0..Z |-> f[i]] = [i \in 0..Z |-> ScanAt(g, h, n, i)]
    <3>. HIDE DEF g
    <3>. QED  BY <1>7, Zenon
  <2>. QED  BY <2>1, Zenon
<1>. QED  BY <1>8, Zenon DEF Z, Defined

(* EOLFrom is what it finds at the beginning. *)
LEMMA EOLFromScans ==
  ASSUME NEW h, NEW n \in 0..Size, h.offset_eol = 0
  PROVE  \E f : Scans(f, h, n) /\ EOLFrom(h, n) = f[0]
<1>. DEFINE g == CHOOSE f : Defined(f, h, n)
<1>1. EOLFrom(h, n) = IF h.offset_eol < 0 THEN h ELSE g[h.offset_eol]
  BY Zenon DEF EOLFrom, ScanAt, Defined
<1>2. EOLFrom(h, n) = g[0]
  <2>. HIDE DEF g
  <2>1. ~ (h.offset_eol < 0)
    OBVIOUS
  <2>. QED  BY <1>1, <2>1, Zenon
<1>3. \E f : Defined(f, h, n)
  BY ScanExists, Zenon
<1>4. Defined(g, h, n)
  BY <1>3, Zenon
<1>. HIDE DEF g
<1>5. Scans(g, h, n)
  BY <1>4, Zenon DEF Scans, Defined
<1>. QED  BY <1>2, <1>5

(* The end of line is found that has none before it, or that there is none. *)
LEMMA FindsFirst ==
  ASSUME NEW h, NEW n \in 0..Size, h.offset_eol = 0, NEW r \in 0..n,
         \A i \in 0..(r - 1) : h.buffer[i] # CR /\ h.buffer[i] # LF
  PROVE  /\ r = n => EOLFrom(h, n) = h
         /\ r < n /\ h.buffer[r] = CR /\ h.buffer[r + 1] = LF
               => EOLFrom(h, n) = Found(h, r, TRUE)
<1>. USE ParserAssumption
<1>1. PICK f : Scans(f, h, n) /\ EOLFrom(h, n) = f[0]
  BY EOLFromScans
<1>. DEFINE S == {m \in 0..r : f[m] = f[0]}
<1>2. r \in Nat /\ r \in 0..(Size + 1)
  OBVIOUS
<1>3. 0 \in S
  BY <1>2
<1>4. ASSUME NEW m \in 1..r, m - 1 \in S PROVE m \in S
  <2>1. /\ m - 1 \in 0..(Size + 1) /\ m - 1 \in 0..(r - 1) /\ m \in 0..r
        /\ ~ (m - 1 >= n) /\ (m - 1) + 1 = m
    BY <1>2
  <2>2. f[m - 1] = ScanAt(f, h, n, m - 1)
    BY <1>1, <2>1, Zenon DEF Scans
  <2>3. ScanAt(f, h, n, m - 1) = f[(m - 1) + 1]
    BY <2>1, Zenon DEF ScanAt
  <2>. QED  BY <1>4, <2>1, <2>2, <2>3
<1>5. 0..r \subseteq S
  <2>. HIDE DEF S
  <2>. QED  BY <1>2, <1>3, <1>4, Counting
<1>6. r \in 0..r
  BY <1>2
<1>7. f[0] = ScanAt(f, h, n, r)
  BY <1>1, <1>2, <1>5, <1>6, Zenon DEF Scans
<1>8. r = n => r >= n
  OBVIOUS
<1>9. r < n => ~ (r >= n)
  OBVIOUS
<1>. QED  BY <1>1, <1>7, <1>8, <1>9, Zenon DEF ScanAt

(* Whatever the buffer has, what is found lies before n. *)
LEMMA FindsWithin ==
  ASSUME NEW h, NEW n \in 0..Size, h.offset_eol = 0
  PROVE  \/ EOLFrom(h, n) = h
         \/ \E i \in 0..(n - 1), normal \in BOOLEAN :
               EOLFrom(h, n) = Found(h, i, normal)
<1>. USE ParserAssumption
<1>1. PICK f : Scans(f, h, n) /\ EOLFrom(h, n) = f[0]
  BY EOLFromScans
<1>. DEFINE Z == Size + 1
            Good(x) == \/ x = h
                       \/ \E i \in 0..(n - 1), normal \in BOOLEAN :
                             x = Found(h, i, normal)
            S == {m \in 0..Z : \A i \in (Z - m)..Z : Good(f[i])}
<1>2. Z \in Nat /\ n \in Nat /\ n < Z
  OBVIOUS
<1>3. TRUE \in BOOLEAN /\ FALSE \in BOOLEAN
  OBVIOUS
<1>. HIDE DEF Z
<1>4. ASSUME NEW i \in 0..Z,
             i < n => Good(f[i + 1]) /\ Good(f[i + 2])
      PROVE  Good(f[i])
  <2>1. f[i] = ScanAt(f, h, n, i)
    BY <1>1, Zenon DEF Scans, Z
  <2>2. CASE i >= n
    BY <2>1, <2>2, Zenon DEF ScanAt
  <2>3. CASE ~ (i >= n)
    <3>1. i \in 0..(n - 1) /\ i < n
      BY <1>2, <2>3
    <3>2. Good(Found(h, i, TRUE)) /\ Good(Found(h, i, FALSE))
      BY <1>3, <3>1, Zenon
    <3>. HIDE DEF Good
    <3>. QED  BY <1>4, <2>1, <2>3, <3>1, <3>2, Zenon DEF ScanAt
  <2>. QED  BY <2>2, <2>3
<1>5. 0 \in S
  <2>. SUFFICES ASSUME NEW i \in (Z - 0)..Z PROVE Good(f[i])
    BY <1>2
  <2>1. i \in 0..Z /\ ~ (i < n)
    BY <1>2
  <2>. HIDE DEF Good
  <2>. QED  BY <1>4, <2>1
<1>6. ASSUME NEW m \in 1..Z, m - 1 \in S PROVE m \in S
  <2>1. \A i \in (Z - (m - 1))..Z : Good(f[i])
    BY <1>6, Zenon
  <2>. HIDE DEF Good
  <2>. SUFFICES ASSUME NEW i \in (Z - m)..Z PROVE Good(f[i])
    BY <1>2
  <2>2. i \in 0..Z
    BY <1>2
  <2>3. ASSUME i < n
        PROVE  i + 1 \in (Z - (m - 1))..Z /\ i + 2 \in (Z - (m - 1))..Z
    BY <1>2, <2>2, <2>3
  <2>4. i < n => Good(f[i + 1]) /\ Good(f[i + 2])
    BY <2>1, <2>3, Zenon
  <2>. QED  BY <1>4, <2>2, <2>4
<1>7. 0..Z \subseteq S
  <2>. HIDE DEF S
  <2>. QED  BY <1>2, <1>5, <1>6, Counting
<1>8. Z \in 0..Z /\ 0 \in (Z - Z)..Z
  BY <1>2
<1>9. Good(f[0])
  <2>. HIDE DEF Good
  <2>1. \A i \in (Z - Z)..Z : Good(f[i])
    BY <1>7, <1>8, Zenon
  <2>. QED  BY <1>8, <2>1, Zenon
<1>. QED  BY <1>1, <1>9, Zenon

IsHelper(h, C) ==
    /\ DOMAIN h = {"buffer", "offset", "offset_eol", "hasEOL", "posEOL",
                    "normalEOL", "tempString"}
    /\ h.buffer \in [0..Size -> C] /\ h.tempString \in Seq(C)
    /\ h.offset \in Int /\ h.offset_eol \in Int /\ h.posEOL \in Int

(* updateLength finds the end of a line that is in the buffer. *)
LEMMA UpdateFinds ==
  ASSUME NEW C, NEW h, IsHelper(h, C), NEW n \in Int, NEW r \in Nat,
         h.offset_eol = 0, ~ h.hasEOL,
         h.offset + n \in 0..Size, r + 2 <= h.offset + n,
         \A i \in 0..(r - 1) : h.buffer[i] # CR /\ h.buffer[i] # LF,
         h.buffer[r] = CR, h.buffer[r + 1] = LF
  PROVE  LET g == updateLength(h, n)
         IN  /\ IsHelper(g, C) /\ g.buffer = h.buffer
             /\ g.offset = h.offset + n /\ g.offset_eol = r + 2
             /\ g.posEOL = r /\ g.tempString = h.tempString
             /\ g.hasEOL /\ g.normalEOL
<1>. DEFINE m == h.offset + n
            e == EOLFrom(h, m)
            g == updateLength(h, n)
<1>1. m \in 0..Size /\ r \in 0..m /\ r < m
  BY DEF IsHelper
<1>2. e = Found(h, r, TRUE)
  <2>. HIDE DEF m
  <2>. QED  BY <1>1, FindsFirst
<1>3. g = [e EXCEPT !.offset = @ + n, !.offset_eol = IF e.hasEOL THEN @ ELSE @ + n]
  BY Zenon DEF updateLength
<1>. HIDE DEF e, g
<1>4. /\ IsHelper(e, C) /\ e.buffer = h.buffer /\ e.offset = h.offset
      /\ e.offset_eol = r + 2 /\ e.posEOL = r /\ e.tempString = h.tempString
      /\ e.hasEOL /\ e.normalEOL
  BY <1>2 DEF Found, IsHelper
<1>5. /\ IsHelper(g, C) /\ g.buffer = h.buffer
      /\ g.offset = h.offset + n /\ g.offset_eol = r + 2
      /\ g.posEOL = r /\ g.tempString = h.tempString
      /\ g.hasEOL /\ g.normalEOL
  BY <1>3, <1>4 DEF IsHelper
<1>. QED  BY <1>5 DEF g

(* It finds nothing if there is nothing, and then looks at it no more. *)
LEMMA UpdateSkips ==
  ASSUME NEW C, NEW h, IsHelper(h, C), NEW n \in Int,
         h.offset_eol = 0, ~ h.hasEOL, h.offset + n \in 0..Size,
         \A i \in 0..(h.offset + n - 1) : h.buffer[i] # CR /\ h.buffer[i] # LF
  PROVE  LET g == updateLength(h, n)
         IN  /\ IsHelper(g, C) /\ g.buffer = h.buffer
             /\ g.offset = h.offset + n /\ g.offset_eol = n
             /\ g.posEOL = h.posEOL /\ g.tempString = h.tempString
             /\ ~ g.hasEOL /\ (g.normalEOL <=> h.normalEOL)
<1>. DEFINE m == h.offset + n
            g == updateLength(h, n)
<1>1. /\ m \in 0..Size /\ m \in 0..m
      /\ \A i \in 0..(m - 1) : h.buffer[i] # CR /\ h.buffer[i] # LF
  BY DEF IsHelper
<1>2. EOLFrom(h, m) = h
  <2>. HIDE DEF m
  <2>. QED  BY <1>1, FindsFirst
<1>3. g = [h EXCEPT !.offset = @ + n, !.offset_eol = IF h.hasEOL THEN @ ELSE @ + n]
  BY <1>2, Zenon DEF updateLength
<1>. HIDE DEF g
<1>4. /\ IsHelper(g, C) /\ g.buffer = h.buffer
      /\ g.offset = h.offset + n /\ g.offset_eol = n
      /\ g.posEOL = h.posEOL /\ g.tempString = h.tempString
      /\ ~ g.hasEOL /\ (g.normalEOL <=> h.normalEOL)
  BY <1>3 DEF IsHelper
<1>. QED  BY <1>4 DEF g

(* Whatever it finds lies in the buffer. *)
LEMMA UpdateStays ==
  ASSUME NEW C, NEW h, IsHelper(h, C), NEW n \in Nat,
         h.offset_eol = 0, ~ h.hasEOL, h.offset \in Nat,
         h.offset + n + 1 <= Size, h.posEOL \in 0..Size
  PROVE  LET g == updateLength(h, n)
         IN  /\ IsHelper(g, C) /\ g.buffer = h.buffer
             /\ g.offset = h.offset + n /\ g.offset_eol \in 0..Size
             /\ g.posEOL \in 0..Size
             /\ g.hasEOL => g.posEOL < g.offset
<1>. USE ParserAssumption
<1>. DEFINE m == h.offset + n
            e == EOLFrom(h, m)
            g == updateLength(h, n)
<1>1. m \in 0..Size /\ m + 1 <= Size
  OBVIOUS
<1>2. g = [e EXCEPT !.offset = @ + n, !.offset_eol = IF e.hasEOL THEN @ ELSE @ + n]
  BY Zenon DEF updateLength
<1>3. \/ e = h
      \/ \E i \in 0..(m - 1), normal \in BOOLEAN : e = Found(h, i, normal)
  <2>. HIDE DEF m
  <2>. QED  BY <1>1, FindsWithin
<1>. HIDE DEF g, e
<1>4. CASE e = h
  <2>1. /\ IsHelper(g, C) /\ g.buffer = h.buffer
        /\ g.offset = h.offset + n /\ g.offset_eol = n
        /\ g.posEOL = h.posEOL /\ ~ g.hasEOL
    BY <1>2, <1>4 DEF IsHelper
  <2>. QED  BY <1>1, <2>1 DEF g
<1>5. ASSUME NEW i \in 0..(m - 1), NEW normal \in BOOLEAN,
             e = Found(h, i, normal)
      PROVE  /\ IsHelper(g, C) /\ g.buffer = h.buffer
             /\ g.offset = h.offset + n /\ g.offset_eol \in 0..Size
             /\ g.posEOL \in 0..Size /\ g.posEOL < g.offset
  <2>. DEFINE k == i + (IF normal THEN 2 ELSE 1)
  <2>1. k \in 0..Size /\ i \in 0..Size /\ k \in Int /\ i \in Int
    BY <1>1
  <2>. HIDE DEF k
  <2>2. /\ IsHelper(e, C) /\ e.buffer = h.buffer /\ e.offset = h.offset
        /\ e.offset_eol = k /\ e.posEOL = i /\ e.hasEOL
    BY <1>5, <2>1 DEF Found, IsHelper, k
  <2>3. /\ IsHelper(g, C) /\ g.buffer = h.buffer
        /\ g.offset = h.offset + n /\ g.offset_eol = k /\ g.posEOL = i
    BY <1>2, <2>1, <2>2 DEF IsHelper
  <2>4. i < h.offset + n
    BY <1>1
  <2>. QED  BY <2>1, <2>3, <2>4
<1>. QED  BY <1>3, <1>4, <1>5 DEF g
-----------------------------------------------------------------------------
(* Taking from the buffer *)

(* What is added to tempString is the buffer's beginning, which has no NUL. *)
LEMMA AppendedIs ==
  ASSUME NEW C, NUL \in C, NEW h, IsHelper(h, C), NEW n \in 0..Size,
         \A i \in 0..(n - 1) : h.buffer[i] # NUL
  PROVE  LET g == Appended(h, n)
         IN  /\ IsHelper(g, C)
             /\ g.tempString = h.tempString \o [k \in 1..n |-> h.buffer[k - 1]]
             /\ \A i \in 0..Size : i # n => g.buffer[i] = h.buffer[i]
             /\ g.offset = h.offset /\ g.offset_eol = h.offset_eol
             /\ g.posEOL = h.posEOL /\ (g.hasEOL <=> h.hasEOL)
             /\ (g.normalEOL <=> h.normalEOL)
<1>. USE ParserAssumption
<1>. DEFINE cut == [h.buffer EXCEPT ![n] = NUL]
            Ends(e) == cut[e] = NUL /\ \A m \in 0..(e - 1) : cut[m] # NUL
            end == CHOOSE e \in 0..n : Ends(e)
            taken == [k \in 1..n |-> h.buffer[k - 1]]
            g == Appended(h, n)
<1>1. /\ n \in Nat /\ cut \in [0..Size -> C] /\ cut[n] = NUL
      /\ \A i \in 0..Size : i # n => cut[i] = h.buffer[i]
  BY DEF IsHelper
<1>2. /\ g = [h EXCEPT !.buffer = cut,
                    !.tempString = @ \o [k \in 1..end |-> cut[k - 1]]]
  BY Zenon DEF Appended
<1>. HIDE DEF cut
<1>3. n \in 0..n /\ Ends(n)
  <2>1. \A m \in 0..(n - 1) : cut[m] = h.buffer[m]
    BY <1>1
  <2>. QED  BY <1>1, <2>1
<1>4. \A e \in 0..n : Ends(e) => e = n
  <2>1. \A e \in 0..(n - 1) : cut[e] # NUL
    BY <1>1
  <2>. QED  BY <1>1, <2>1
<1>5. end = n
  <2>. HIDE DEF Ends
  <2>1. end \in 0..n /\ Ends(end)
    BY <1>3
  <2>. HIDE DEF end
  <2>. QED  BY <1>4, <2>1
<1>6. [k \in 1..end |-> cut[k - 1]] = taken
  <2>1. \A k \in 1..n : cut[k - 1] = h.buffer[k - 1]
    BY <1>1
  <2>. HIDE DEF end
  <2>. QED  BY <1>5, <2>1, Zenon
<1>7. taken \in Seq(C)
  <2>1. \A k \in 1..n : h.buffer[k - 1] \in C
    BY <1>1 DEF IsHelper
  <2>. QED  BY <1>1, <2>1
<1>. DEFINE text == h.tempString \o taken
<1>8. text \in Seq(C)
  BY <1>7 DEF IsHelper
<1>9. g = [h EXCEPT !.buffer = cut, !.tempString = text]
  <2>. HIDE DEF g, end, taken
  <2>. QED  BY <1>2, <1>6, Zenon
<1>. HIDE DEF g, text
<1>10. /\ IsHelper(g, C) /\ g.tempString = text /\ g.buffer = cut
       /\ g.offset = h.offset /\ g.offset_eol = h.offset_eol
       /\ g.posEOL = h.posEOL /\ (g.hasEOL <=> h.hasEOL)
       /\ (g.normalEOL <=> h.normalEOL)
  BY <1>1, <1>8, <1>9 DEF IsHelper
<1>. QED  BY <1>1, <1>10 DEF g, text

(* What removeLine leaves is searched for an end of line from its beginning. *)
LEMMA RemovedIs ==
  ASSUME NEW C, NEW h, IsHelper(h, C), NEW forced \in BOOLEAN,
         h.hasEOL \/ forced, h.offset # 0,
         NEW d \in 1..Size, d = LineLength(h)
  PROVE  \E g : /\ removeLine(h, forced) = updateLength(g, 0)
                /\ IsHelper(g, C)
                /\ \A i \in 0..(Size - d - 1) : g.buffer[i] = h.buffer[i + d]
                /\ g.offset = h.offset - d /\ g.offset_eol = h.offset_eol - d
                /\ ~ g.hasEOL /\ g.posEOL = h.posEOL
                /\ (g.normalEOL <=> h.normalEOL)
                /\ g.tempString = h.tempString
<1>. USE ParserAssumption
<1>. DEFINE b == Moved(h)
            e == [h EXCEPT !.buffer = b]
            g == [e EXCEPT !.offset = @ - LineLength(e),
                           !.offset_eol = @ - LineLength(e), !.hasEOL = FALSE]
<1>1. ~ Stays(h, forced)
  BY Zenon DEF Stays
<1>2. removeLine(h, forced) = updateLength(g, 0)
  BY <1>1, Zenon DEF removeLine, Shortened
<1>3. /\ b \in [0..Size -> C]
      /\ \A i \in 0..(Size - d - 1) : b[i] = h.buffer[i + d]
  <2>. DEFINE old == h.buffer
  <2>1. b = [i \in 0..Size |-> IF i < Size - d THEN old[i + d] ELSE old[i]]
    BY Zenon DEF Moved
  <2>2. old \in [0..Size -> C]
    BY DEF IsHelper
  <2>. HIDE DEF b, old
  <2>3. \A i \in 0..(Size - d - 1) : i \in 0..Size /\ i < Size - d
    OBVIOUS
  <2>4. \A i \in 0..(Size - d - 1) : b[i] = old[i + d]
    BY <2>1, <2>3, Zenon
  <2>5. \A i \in 0..Size : i < Size - d => i + d \in 0..Size
    OBVIOUS
  <2>6. b \in [0..Size -> C]
    BY <2>1, <2>2, <2>5
  <2>. QED  BY <2>4, <2>6 DEF b, old
<1>. HIDE DEF b
<1>4. /\ IsHelper(e, C) /\ e.buffer = b /\ e.offset = h.offset
      /\ e.offset_eol = h.offset_eol /\ e.posEOL = h.posEOL
      /\ e.tempString = h.tempString /\ (e.normalEOL <=> h.normalEOL)
  BY <1>3 DEF IsHelper
<1>. HIDE DEF e
<1>5. LineLength(e) = d
  BY <1>4 DEF LineLength
<1>6. g = [e EXCEPT !.offset = @ - d, !.offset_eol = @ - d, !.hasEOL = FALSE]
  BY <1>5, Zenon
<1>. HIDE DEF g
<1>7. /\ IsHelper(g, C) /\ g.buffer = b /\ g.offset = h.offset - d
      /\ g.offset_eol = h.offset_eol - d /\ ~ g.hasEOL /\ g.posEOL = h.posEOL
      /\ (g.normalEOL <=> h.normalEOL) /\ g.tempString = h.tempString
  BY <1>4, <1>6 DEF IsHelper
<1>. QED  BY <1>2, <1>3, <1>7
-----------------------------------------------------------------------------
(* Where the parser is in what the peer sends *)

(* The lines and the body in what is sent. *)
LEMMA InputLies ==
  ASSUME NEW C, Alphabet(C), Plain(header, C), body \in Seq(C),
         NEW k \in 0..Len(header)
  PROVE  /\ Input \in Seq(C)
         /\ Len(Input) = Len(Encoded(header)) + Len(body)
         /\ Len(Encoded(header)) \in Nat /\ Len(body) \in Nat
         /\ Len(Ended(header, k)) \in Nat
         /\ LineAt(header, k) \in Seq(C) /\ Len(LineAt(header, k)) \in Nat
         /\ EndAt(header, k) \in Nat /\ EndAt(header, k) <= Len(Encoded(header))
         /\ \A i \in 1..Len(LineAt(header, k)) :
               /\ Input[Len(Ended(header, k)) + i] = LineAt(header, k)[i]
               /\ LineAt(header, k)[i] # CR /\ LineAt(header, k)[i] # LF
               /\ LineAt(header, k)[i] # NUL
         /\ Input[EndAt(header, k) - 1] = CR
         /\ Input[EndAt(header, k)] = LF
         /\ \A i \in 1..Len(body) : Input[Len(Encoded(header)) + i] = body[i]
<1>. DEFINE all == Encoded(header)
            e == Len(Ended(header, k))
            l == LineAt(header, k)
            z == EndAt(header, k)
<1>1. header \in Seq(Seq(C))
  BY DEF Plain
<1>2. /\ all \in Seq(C) /\ Len(all) \in Nat /\ e \in Nat
      /\ l \in Seq(C) /\ Len(l) \in Nat /\ z <= Len(all)
      /\ all[z - 1] = CR /\ all[z] = LF
  BY <1>1, LinesLie
<1>3. \A i \in 1..Len(l) : all[e + i] = l[i]
  BY <1>1, LinesLie, Zenon
<1>4. z = e + Len(l) + 2
  BY DEF EndAt
<1>5. \A i \in 1..Len(l) : l[i] # CR /\ l[i] # LF /\ l[i] # NUL
  <2>1. CASE k < Len(header)
    <3>1. k + 1 \in 1..Len(header) /\ l = header[k + 1]
      BY <1>1, <2>1 DEF LineAt
    <3>. HIDE DEF l
    <3>2. \A i \in 1..Len(header[k + 1]) : header[k + 1][i] \notin {CR, LF, NUL}
      BY <3>1, Zenon DEF Plain
    <3>. QED  BY <3>1, <3>2, Zenon
  <2>2. CASE ~ (k < Len(header))
    BY <2>2 DEF LineAt
  <2>. QED  BY <2>1, <2>2
<1>6. Input = all \o body
  BY DEF Input
<1>. HIDE DEF all, e, l, z
<1>7. /\ Input \in Seq(C) /\ Len(Input) = Len(all) + Len(body)
      /\ Len(body) \in Nat
      /\ \A i \in 1..Len(all) : Input[i] = all[i]
      /\ \A i \in 1..Len(body) : Input[Len(all) + i] = body[i]
  BY <1>2, <1>6
<1>8. /\ z - 1 \in 1..Len(all) /\ z \in 1..Len(all) /\ z \in Nat
      /\ \A i \in 1..Len(l) : e + i \in 1..Len(all)
  BY <1>2, <1>4
<1>9. /\ \A i \in 1..Len(l) : Input[e + i] = l[i]
      /\ Input[z - 1] = CR /\ Input[z] = LF
  BY <1>2, <1>3, <1>7, <1>8, Zenon
<1>. QED  BY <1>2, <1>5, <1>7, <1>8, <1>9, Zenon DEF all, e, l, z

(* A read that ends well brings the whole of the line that it begins. *)
LEMMA EndsAfter ==
  ASSUME NEW C, Alphabet(C), Plain(header, C), body \in Seq(C),
         NEW k \in 0..Len(header), NEW p \in 0..Len(Input), EndsWell(p),
         p > 1, p > Len(Ended(header, k))
  PROVE  p >= EndAt(header, k)
<1>. DEFINE e == Len(Ended(header, k))
            l == LineAt(header, k)
            z == EndAt(header, k)
<1>1. /\ z <= Len(Encoded(header)) /\ e \in Nat /\ Len(l) \in Nat
      /\ Input \in Seq(C) /\ Input[z - 1] = CR /\ z \in Nat
      /\ Len(Encoded(header)) \in Nat
  BY InputLies
<1>2. \A i \in 1..Len(l) : Input[e + i] # LF
  BY InputLies, Zenon
<1>3. z = e + Len(l) + 2
  BY DEF EndAt
<1>. HIDE DEF e, l, z
<1>4. SUFFICES ASSUME p < z PROVE FALSE
  BY <1>1 DEF z
<1>5. SubSeq(Input, p - 1, p) = <<CR, LF>>
  BY <1>1, <1>4 DEF EndsWell
<1>6. Input[p] = LF
  <2>1. SubSeq(Input, p - 1, p)[2] = Input[p]
    BY <1>1
  <2>2. <<CR, LF>>[2] = LF
    OBVIOUS
  <2>. QED  BY <1>5, <2>1, <2>2, Zenon
<1>7. p - e \in 1..(Len(l) + 1) /\ p = e + (p - e)
  BY <1>1, <1>3, <1>4 DEF e
<1>8. CASE p - e \in 1..Len(l)
  <2>. DEFINE i == p - e
  <2>1. Input[e + i] # LF
    BY <1>2, <1>8, Zenon
  <2>. QED  BY <1>6, <1>7, <2>1
<1>9. CASE p - e = Len(l) + 1
  <2>1. p = z - 1
    BY <1>1, <1>3, <1>9
  <2>2. CR # LF
    BY DEF CR, LF
  <2>. QED  BY <1>1, <1>6, <2>1, <2>2
<1>. QED  BY <1>1, <1>7, <1>8, <1>9

(* The rest of a line of u characters, of which t are taken, and its end are
   among the m characters that are in the buffer. *)
LEMMA RestFits ==
  ASSUME NEW e \in Nat, NEW u \in Nat, NEW t \in 0..u, NEW m \in Int,
         e + u + 2 <= e + t + m
  PROVE  /\ u - t \in Nat /\ (u - t) + 2 <= m
         /\ (u - t) \in 0..(m - 1) /\ (u - t) + 1 \in 0..(m - 1)
         /\ e + t + (u - t) + 1 = (e + u + 2) - 1
         /\ e + t + ((u - t) + 1) + 1 = e + u + 2
         /\ \A i \in 0..((u - t) - 1) :
               /\ i \in 0..(m - 1) /\ t + i + 1 \in 1..u
               /\ e + t + i + 1 = e + (t + i + 1)
OBVIOUS

(* What is left of the line k after t characters, and its end, is among the
   next m characters of the input, and its end is the first one there. *)
RestIn(k, t, m) ==
    LET e == Len(Ended(header, k)) + t
        r == Len(LineAt(header, k)) - t
    IN  /\ r \in Nat /\ r + 2 <= m
        /\ r \in 0..(m - 1) /\ r + 1 \in 0..(m - 1)
        /\ Input[e + r + 1] = CR /\ Input[e + (r + 1) + 1] = LF
        /\ \A i \in 0..(r - 1) :
              /\ i \in 0..(m - 1)
              /\ Input[e + i + 1] # CR /\ Input[e + i + 1] # LF

LEMMA RestOfLine ==
  ASSUME NEW C, Alphabet(C), Plain(header, C), body \in Seq(C),
         NEW k \in 0..Len(header), NEW t \in 0..Len(LineAt(header, k)),
         NEW m \in 0..Size,
         EndAt(header, k) <= Len(Ended(header, k)) + t + m
  PROVE  RestIn(k, t, m)
<1>. USE ParserAssumption
<1>. DEFINE e == Len(Ended(header, k))
            l == LineAt(header, k)
            z == EndAt(header, k)
            u == Len(l)
            r == u - t
<1>1. /\ e \in Nat /\ u \in Nat /\ Input[z - 1] = CR /\ Input[z] = LF
  BY InputLies, Zenon
<1>2. \A i \in 1..u :
         /\ Input[e + i] = l[i] /\ l[i] # CR /\ l[i] # LF /\ l[i] # NUL
  BY InputLies, Zenon
<1>3. z = e + u + 2 /\ m \in Int
  BY DEF EndAt
<1>4. t \in 0..u /\ z <= e + t + m
  OBVIOUS
<1>. HIDE DEF e, l, z, u
<1>5. /\ r \in Nat /\ r + 2 <= m /\ r \in 0..(m - 1) /\ r + 1 \in 0..(m - 1)
      /\ e + t + r + 1 = z - 1 /\ e + t + (r + 1) + 1 = z
      /\ \A i \in 0..(r - 1) : /\ i \in 0..(m - 1) /\ t + i + 1 \in 1..u
                               /\ e + t + i + 1 = e + (t + i + 1)
  BY <1>1, <1>3, <1>4, RestFits
<1>. HIDE DEF r
<1>6. ASSUME NEW i \in 0..(r - 1)
      PROVE  /\ i \in 0..(m - 1)
             /\ Input[e + t + i + 1] # CR /\ Input[e + t + i + 1] # LF
  <2>1. /\ i \in 0..(m - 1) /\ t + i + 1 \in 1..u
        /\ e + t + i + 1 = e + (t + i + 1)
    BY <1>5, Zenon
  <2>. QED  BY <1>2, <2>1, Zenon
<1>7. Input[e + t + r + 1] = CR /\ Input[e + t + (r + 1) + 1] = LF
  BY <1>1, <1>5, Zenon
<1>. QED  BY <1>5, <1>6, <1>7, Zenon DEF RestIn, r, u, e, l

(* The search finds the end of the line whose rest is in the buffer. *)
LEMMA FindsLine ==
  ASSUME NEW C, Alphabet(C), Plain(header, C), body \in Seq(C),
         NEW k \in 0..Len(header), NEW t \in 0..Len(LineAt(header, k)),
         NEW h, IsHelper(h, C), h.offset_eol = 0, ~ h.hasEOL,
         NEW n \in Int, NEW m \in 0..Size, m = h.offset + n,
         \A i \in 0..(m - 1) :
            h.buffer[i] = Input[Len(Ended(header, k)) + t + i + 1],
         EndAt(header, k) <= Len(Ended(header, k)) + t + m
  PROVE  LET g == updateLength(h, n)
             r == Len(LineAt(header, k)) - t
         IN  /\ IsHelper(g, C) /\ g.buffer = h.buffer
             /\ g.offset = m /\ g.offset_eol = r + 2
             /\ g.posEOL = r /\ g.tempString = h.tempString
             /\ g.hasEOL /\ g.normalEOL /\ r \in Nat /\ r + 2 <= m
<1>. USE ParserAssumption
<1>. DEFINE e == Len(Ended(header, k)) + t
            r == Len(LineAt(header, k)) - t
            g == updateLength(h, n)
<1>1. RestIn(k, t, m)
  BY RestOfLine
<1>2. /\ r \in Nat /\ r + 2 <= m
      /\ r \in 0..(m - 1) /\ r + 1 \in 0..(m - 1)
      /\ Input[e + r + 1] = CR /\ Input[e + (r + 1) + 1] = LF
      /\ \A i \in 0..(r - 1) :
            /\ i \in 0..(m - 1)
            /\ Input[e + i + 1] # CR /\ Input[e + i + 1] # LF
  BY <1>1, Zenon DEF RestIn
<1>3. \A i \in 0..(m - 1) : h.buffer[i] = Input[e + i + 1]
  OBVIOUS
<1>. HIDE DEF e, r
<1>4. \A i \in 0..(r - 1) : h.buffer[i] # CR /\ h.buffer[i] # LF
  <2>. SUFFICES ASSUME NEW i \in 0..(r - 1)
                PROVE  h.buffer[i] # CR /\ h.buffer[i] # LF
    OBVIOUS
  <2>1. /\ i \in 0..(m - 1)
        /\ Input[e + i + 1] # CR /\ Input[e + i + 1] # LF
    BY <1>2, Zenon
  <2>2. h.buffer[i] = Input[e + i + 1]
    BY <1>3, <2>1, Zenon
  <2>. QED  BY <2>1, <2>2, Zenon
<1>5. h.buffer[r] = CR /\ h.buffer[r + 1] = LF
  BY <1>2, <1>3, Zenon
<1>6. h.offset + n \in 0..Size /\ r + 2 <= h.offset + n
  BY <1>2, Zenon
<1>7. /\ IsHelper(g, C) /\ g.buffer = h.buffer
      /\ g.offset = h.offset + n /\ g.offset_eol = r + 2
      /\ g.posEOL = r /\ g.tempString = h.tempString
      /\ g.hasEOL /\ g.normalEOL
  <2>1. r \in Nat
    BY <1>2, Zenon
  <2>. QED  BY <1>4, <1>5, <1>6, <2>1, UpdateFinds, Zenon
<1>. QED  BY <1>2, <1>7, Zenon DEF g, r

(* Only before the first line nothing, or one character, has been taken. *)
LEMMA FirstLine ==
  ASSUME NEW C, Alphabet(C), Plain(header, C), NEW k \in 0..Len(header),
         Len(Ended(header, k)) <= 1
  PROVE  k = 0
<1>1. header \in Seq(Seq(C)) /\ Len(header) \in Nat
  BY DEF Plain
<1>2. SUFFICES ASSUME k # 0 PROVE FALSE
  OBVIOUS
<1>3. 1 \in 0..Len(header) /\ k \in 1..Len(header) /\ 0 \in 0..Len(header) /\ 0 < Len(header)
  BY <1>1, <1>2
<1>4. Len(Ended(header, 1)) <= Len(Ended(header, k))
  BY <1>1, <1>3, EndedBegins
<1>5. /\ EndAt(header, 0) = Len(Ended(header, 0 + 1))
      /\ Len(Ended(header, 0)) \in Nat /\ Len(LineAt(header, 0)) \in Nat
      /\ Len(Ended(header, k)) \in Nat
  <2>1. /\ EndAt(header, 0) = Len(Ended(header, 0 + 1))
        /\ Len(Ended(header, 0)) \in Nat /\ Len(LineAt(header, 0)) \in Nat
    BY <1>1, <1>3, LinesLie
  <2>2. Len(Ended(header, k)) \in Nat
    BY <1>1, LinesLie
  <2>. QED  BY <2>1, <2>2
<1>6. EndAt(header, 0) >= 2 /\ 0 + 1 = 1
  BY <1>5 DEF EndAt
<1>. QED  BY <1>4, <1>5, <1>6

Text(C) == /\ Plain(header, C) /\ body \in Seq(C)
           /\ IsHelper(helper, C) /\ lines \in Seq(Seq(C))

(* What Cutting says of lines and tempString. *)
LEMMA Held ==
  ASSUME NEW C, Alphabet(C), Text(C), Cutting, pc \in {"read", "lines"}
  PROVE  /\ Len(lines) \in 0..Len(header)
         /\ Line = LineAt(header, Len(lines))
         /\ Len(Ended(header, Len(lines))) \in Nat
         /\ Len(helper.tempString) \in 0..Len(Line) /\ Len(Line) \in Nat
         /\ lines = <<>> \/ helper.tempString = <<>>
         /\ Len(lines) < Len(header) => Len(helper.tempString) < Len(Line)
<1>. DEFINE k == Len(lines)
<1>1. /\ header \in Seq(Seq(C)) /\ Len(header) \in Nat \ {0}
      /\ lines \in Seq(Seq(C)) /\ k \in Nat
  BY DEF Text, Plain
<1>2. k \in 0..Len(header)
  BY <1>1 DEF Cutting, LineByLine
<1>3. Line = LineAt(header, k)
  BY Zenon DEF Line, LineAt
<1>4. Len(Ended(header, k)) \in Nat /\ Len(LineAt(header, k)) \in Nat
  BY <1>1, <1>2, LinesLie
<1>5. ASSUME k < Len(header) PROVE Len(Line) > 0
  <2>1. k + 1 \in 1..Len(header) /\ Line = header[k + 1]
    BY <1>1, <1>2, <1>5 DEF Line
  <2>2. Line # <<>> /\ Line \in Seq(C)
    BY <1>1, <2>1 DEF Text, Plain
  <2>. QED  BY <2>2
<1>6. CASE helper.tempString = <<>>
  BY <1>2, <1>3, <1>4, <1>5, <1>6
<1>7. CASE helper.tempString # <<>>
  <2>1. /\ lines = <<>> /\ Len(header[1]) > 1
        /\ helper.tempString = <<header[1][1]>>
    BY <1>7, Zenon DEF Cutting
  <2>2. k = 0 /\ k < Len(header) /\ Line = header[1]
    BY <1>1, <2>1 DEF Line
  <2>3. Len(helper.tempString) = 1
    BY <2>1
  <2>. QED  BY <1>2, <1>3, <1>4, <2>1, <2>2, <2>3
<1>. QED  BY <1>6, <1>7
-----------------------------------------------------------------------------
(* The steps of the parser *)

\* where a step leaves the parser that has not yet found the empty line: k
\* lines taken, t characters of the next one in tempString, m in the buffer
Resumes(C, k, t, m) ==
    /\ header' = header /\ body' = body
    /\ pc' \in {"read", "lines"} /\ retval' = 1
    /\ pos' \in 0..Len(Input) /\ (pos' = 0 \/ EndsWell(pos'))
    /\ pos' <= 1 => helper'.posEOL = 0 /\ ~ helper'.normalEOL
    /\ IsHelper(helper', C) /\ helper'.posEOL \in 0..Size
    /\ lines' \in Seq(Seq(C)) /\ k = Len(lines')
    /\ \A i \in 1..k : lines'[i] = header[i]
    /\ t = Len(helper'.tempString) /\ m = helper'.offset
    /\ pos' = Len(Ended(header, k)) + t + m
    /\ \A i \in 0..(m - 1) :
          helper'.buffer[i] = Input[Len(Ended(header, k)) + t + i + 1]
    /\ \/ helper'.tempString = <<>>
       \/ /\ lines' = <<>> /\ Len(header[1]) > 1
          /\ helper'.tempString = <<header[1][1]>>
    /\ \/ m = 0 /\ helper'.offset_eol = 0 /\ ~ helper'.hasEOL
       \/ /\ pc' = "lines" /\ pos' = 1 /\ m = 1 /\ helper'.offset_eol = 1
          /\ ~ helper'.hasEOL
       \/ /\ pc' = "lines" /\ helper'.hasEOL /\ helper'.normalEOL
          /\ helper'.posEOL = Len(LineAt(header, k)) - t
          /\ helper'.offset_eol = Len(LineAt(header, k)) - t + 2
          /\ Len(LineAt(header, k)) - t + 2 <= m

(* Such a step keeps Cutting. *)
LEMMA StillCutting ==
  ASSUME NEW C, Alphabet(C), Text(C), NEW k \in 0..Len(header),
         NEW t \in 0..Len(LineAt(header, k)), NEW m \in 0..Size,
         Resumes(C, k, t, m)
  PROVE  Text(C)' /\ Cutting'
<1>. DEFINE e == Len(Ended(header, k))
            u == Len(LineAt(header, k))
<1>1. /\ Plain(header, C) /\ body \in Seq(C) /\ header \in Seq(Seq(C))
      /\ Len(header) \in Nat /\ k \in 0..Len(header)
  BY DEF Text, Plain
<1>2. Text(C)'
  BY <1>1, Zenon DEF Text, Resumes
<1>3. Input' = Input
  BY Zenon DEF Input, Resumes
<1>4. /\ e \in Nat /\ u \in Nat /\ EndAt(header, k) <= Len(Encoded(header))
      /\ Len(Encoded(header)) \in Nat
  BY <1>1, LinesLie
<1>5. EndAt(header, k) = e + u + 2 /\ t \in 0..u /\ m \in Nat
  BY DEF EndAt
<1>6. Line' = LineAt(header, k)
  BY Zenon DEF Line, LineAt, Resumes
<1>7. Start' = e + t /\ Rest' = u - t
  BY <1>6, Zenon DEF Start, Rest, Resumes
<1>8. \/ m = 0 /\ helper'.offset_eol = 0 /\ ~ helper'.hasEOL
      \/ /\ pc' = "lines" /\ pos' = 1 /\ m = 1 /\ helper'.offset_eol = 1
         /\ ~ helper'.hasEOL
      \/ /\ pc' = "lines" /\ helper'.hasEOL /\ helper'.normalEOL
         /\ helper'.posEOL = u - t /\ helper'.offset_eol = u - t + 2
         /\ u - t + 2 <= m
  BY Zenon DEF Resumes
<1>9. pos' = e + t + m /\ m = helper'.offset /\ m \in 0..Size
  BY Zenon DEF Resumes
<1>. HIDE DEF e, u
<1>10. helper'.hasEOL => helper'.posEOL < helper'.offset
  <2>1. helper'.hasEOL => helper'.posEOL = u - t /\ u - t + 2 <= m
    BY <1>8
  <2>2. u - t + 2 <= m => u - t < m
    BY <1>4, <1>5
  <2>. QED  BY <1>9, <2>1, <2>2, Zenon
<1>11. helper'.offset_eol \in 0..Size
  <2>1. \/ helper'.offset_eol = 0
        \/ helper'.offset_eol = 1 /\ m = 1
        \/ helper'.offset_eol = u - t + 2 /\ u - t + 2 <= m
    BY <1>8
  <2>2. u - t + 2 <= m => u - t + 2 \in 0..Size
    BY <1>4, <1>5, ParserAssumption
  <2>3. 0 \in 0..Size /\ (m = 1 => 1 \in 0..Size)
    BY <1>5, ParserAssumption
  <2>. QED  BY <2>1, <2>2, <2>3, Zenon
<1>12. TypeOK'
  <2>1. pos' \in 0..Len(Input') /\ helper'.posEOL \in 0..Size
    BY <1>3, Zenon DEF Resumes
  <2>2. retval' \in {-1, 0, 1} /\ pc' \in {"read", "lines", "done", "closed"}
    BY DEF Resumes
  <2>. QED  BY <1>9, <1>10, <1>11, <2>1, <2>2, Zenon DEF TypeOK
<1>13. pc' # "done"
  BY DEF Resumes
<1>14. LineByLine'
  <2>1. \A i \in DOMAIN lines' : i \in 1..k /\ i <= Len(header)
    <3>1. DOMAIN lines' = 1..k
      BY DEF Resumes
    <3>. QED  BY <1>1, <3>1
  <2>. QED  BY <1>13, <2>1, Zenon DEF LineByLine, Resumes
<1>15. NothingLeftBehind'
  <2>1. pc' = "read" => m = 0
    BY <1>8
  <2>2. m = 0 => pos' < Len(Encoded(header))
    BY <1>4, <1>5, <1>9
  <2>. QED  BY <1>13, <2>1, <2>2, Zenon DEF NothingLeftBehind, Resumes
<1>16. pos' = 0 \/ EndsWell(pos)'
  BY <1>3, Zenon DEF EndsWell, Resumes
<1>17. pos' = Start' + helper'.offset
  BY <1>7, <1>9, Zenon
<1>18. \A i \in 0..(helper'.offset - 1) :
          helper'.buffer[i] = Input'[Start' + i + 1]
  BY <1>3, <1>7, <1>9, Zenon DEF e, Resumes
<1>. QED  BY <1>2, <1>7, <1>8, <1>9, <1>12, <1>13, <1>14, <1>15, <1>16,
             <1>17, <1>18, Zenon DEF Cutting, Resumes

(* A read brings the first character or the rest of the line at least, and
   updateLength finds its end. *)
LEMMA ReadStep ==
  ASSUME NEW C, Alphabet(C), ~ CutAnywhere, Text(C), Cutting,
         NEW n \in 1..Size, read(n)
  PROVE  Text(C)' /\ Cutting'
<1>. USE ParserAssumption
<1>. DEFINE k == Len(lines)
            t == Len(helper.tempString)
            nb == [i \in 0..Size |->
                      IF i \in helper.offset..(helper.offset + n - 1)
                      THEN Input[pos + i - helper.offset + 1]
                      ELSE helper.buffer[i]]
            h == [helper EXCEPT !.buffer = nb]
            e == Len(Ended(header, k))
<1>1. /\ pc = "read" /\ retval = 1 /\ pos + n <= Len(Input)
      /\ EndsWell(pos + n) /\ pos' = pos + n /\ pc' = "lines"
      /\ header' = header /\ body' = body /\ lines' = lines /\ retval' = retval
  BY DEF read
<1>2. helper' = updateLength(h, n)
  BY Zenon DEF read
<1>3. /\ Plain(header, C) /\ body \in Seq(C) /\ IsHelper(helper, C)
      /\ lines \in Seq(Seq(C))
  BY DEF Text
<1>4. /\ k \in 0..Len(header) /\ e \in Nat /\ Line = LineAt(header, k)
      /\ t \in 0..Len(Line) /\ Len(Line) \in Nat
  BY <1>1, Held
<1>5. /\ Input \in Seq(C) /\ Len(Input) \in Nat
      /\ Len(Input) = Len(Encoded(header)) + Len(body)
  BY <1>3, <1>4, InputLies
<1>6. /\ helper.offset = 0 /\ helper.offset_eol = 0 /\ ~ helper.hasEOL
      /\ pos = e + t /\ pos \in 0..Len(Input) /\ helper.posEOL \in 0..Size
  <2>1. helper.offset = 0 /\ helper.offset_eol = 0 /\ ~ helper.hasEOL
    BY <1>1, Zenon DEF Cutting
  <2>2. pos = Start + helper.offset
    BY <1>1, Zenon DEF Cutting
  <2>3. pos \in 0..Len(Input) /\ helper.posEOL \in 0..Size
    BY DEF Cutting, TypeOK
  <2>. QED  BY <1>3, <1>4, <2>1, <2>2, <2>3 DEF Start, IsHelper
<1>7. /\ nb \in [0..Size -> C]
      /\ \A i \in 0..(n - 1) : nb[i] = Input[e + t + i + 1]
  <2>1. nb = [i \in 0..Size |-> IF i \in 0..(n - 1) THEN Input[pos + i + 1]
                                ELSE helper.buffer[i]]
    BY <1>6
  <2>2. \A i \in 0..(n - 1) : pos + i + 1 \in 1..Len(Input) /\ i \in 0..Size
    BY <1>1, <1>5, <1>6
  <2>. HIDE DEF nb
  <2>3. \A i \in 0..(n - 1) : nb[i] = Input[pos + i + 1]
    BY <2>1, <2>2, Zenon
  <2>4. \A i \in 0..(n - 1) : Input[pos + i + 1] \in C
    BY <1>5, <2>2
  <2>5. nb \in [0..Size -> C]
    BY <1>3, <2>1, <2>4 DEF IsHelper
  <2>. QED  BY <1>6, <2>3, <2>5
<1>. HIDE DEF nb
<1>8. /\ IsHelper(h, C) /\ h.buffer = nb /\ h.offset = 0 /\ h.offset_eol = 0
      /\ ~ h.hasEOL /\ h.posEOL = helper.posEOL
      /\ h.tempString = helper.tempString /\ (h.normalEOL <=> helper.normalEOL)
  BY <1>3, <1>6, <1>7 DEF IsHelper
<1>. HIDE DEF h
<1>9. CASE pos + n = 1
  <2>1. pos = 0 /\ n = 1 /\ e = 0 /\ t = 0
    BY <1>4, <1>6, <1>9
  <2>2. Len(Encoded(header)) >= 2 /\ 0 \in 0..Len(header)
    <3>1. /\ 0 \in 0..Len(header) /\ header \in Seq(Seq(C))
      BY <1>3 DEF Plain
    <3>2. EndAt(header, 0) <= Len(Encoded(header)) /\ Len(LineAt(header, 0)) \in Nat
          /\ Len(Ended(header, 0)) \in Nat /\ Len(Encoded(header)) \in Nat
      BY <3>1, LinesLie
    <3>. QED  BY <3>1, <3>2 DEF EndAt
  <2>3. Len(header[1]) > 1
    BY <1>1, <1>5, <2>1, <2>2 DEF EndsWell
  <2>4. k = 0
    BY <1>3, <1>4, <2>1, FirstLine
  <2>5. nb[0] # CR /\ nb[0] # LF
    <3>1. Line = header[1]
      BY <1>3, <2>4 DEF Line, Plain
    <3>2. 1 \in 1..Len(LineAt(header, k))
      BY <1>4, <2>3, <3>1
    <3>3. /\ Input[e + 1] = LineAt(header, k)[1]
          /\ LineAt(header, k)[1] # CR /\ LineAt(header, k)[1] # LF
      BY <1>3, <1>4, <3>2, InputLies
    <3>4. nb[0] = Input[e + t + 0 + 1] /\ e + t + 0 + 1 = e + 1
      BY <1>7, <2>1
    <3>. QED  BY <3>3, <3>4
  <2>6. /\ h.offset + n \in 0..Size
        /\ \A i \in 0..(h.offset + n - 1) : h.buffer[i] # CR /\ h.buffer[i] # LF
    BY <1>8, <2>1, <2>5
  <2>7. /\ IsHelper(helper', C) /\ helper'.buffer = nb
        /\ helper'.offset = h.offset + n /\ helper'.offset_eol = n
        /\ helper'.posEOL = h.posEOL /\ helper'.tempString = h.tempString
        /\ ~ helper'.hasEOL /\ (helper'.normalEOL <=> h.normalEOL)
    BY <1>2, <1>8, <2>6, UpdateSkips
  <2>8. helper.posEOL = 0 /\ ~ helper.normalEOL
    <3>1. pos <= 1
      BY <2>1
    <3>. QED  BY <3>1, Zenon DEF Cutting
  <2>9. Resumes(C, k, t, n)
    <3>1. /\ pos' \in 0..Len(Input) /\ pos' = e + t + n /\ helper'.offset = n
          /\ helper'.posEOL = 0 /\ ~ helper'.normalEOL /\ helper'.posEOL \in 0..Size
      BY <1>1, <1>5, <1>6, <1>8, <2>1, <2>7, <2>8
    <3>2. /\ \A i \in 1..k : lines'[i] = header[i]
          /\ \/ helper.tempString = <<>>
             \/ /\ lines = <<>> /\ Len(header[1]) > 1
                /\ helper.tempString = <<header[1][1]>>
      <4>1. \A i \in 1..k : i \in DOMAIN lines
        BY <1>3
      <4>. QED  BY <1>1, <4>1, Zenon DEF Cutting, LineByLine
    <3>3. \A i \in 0..(n - 1) : helper'.buffer[i] = Input[e + t + i + 1]
      BY <1>7, <2>7, Zenon
    <3>4. helper'.tempString = helper.tempString
      BY <1>8, <2>7
    <3>5. n = 1 /\ helper'.offset_eol = 1 /\ pos' = 1 /\ ~ helper'.hasEOL
      BY <1>1, <1>9, <2>1, <2>7
    <3>. QED  BY <1>1, <1>3, <2>7, <3>1, <3>2, <3>3, <3>4, <3>5, Zenon
              DEF Resumes
  <2>. QED  BY <1>4, <2>9, StillCutting
<1>10. CASE pos + n # 1
  <2>1. /\ pos + n \in 0..Len(Input) /\ pos + n > 1 /\ pos + n > e
        /\ pos + n = e + t + n
    <3>1. t \in Nat /\ n \in Nat \ {0}
      BY <1>4
    <3>. HIDE DEF e, t, k
    <3>. QED  BY <1>1, <1>4, <1>5, <1>6, <1>10, <3>1
  <2>2. pos + n >= EndAt(header, k)
    BY <1>1, <1>3, <1>4, <2>1, EndsAfter
  <2>3. EndAt(header, k) <= e + t + n /\ n \in 0..Size /\ n \in Int /\ n = h.offset + n
    <3>1. EndAt(header, k) \in Nat
      BY <1>3, <1>4, InputLies
    <3>. QED  BY <1>4, <1>8, <2>1, <2>2, <3>1
  <2>4. \A i \in 0..(n - 1) : h.buffer[i] = Input[e + t + i + 1]
    BY <1>7, <1>8, Zenon
  <2>5. /\ IsHelper(helper', C) /\ helper'.buffer = nb /\ helper'.offset = n
        /\ helper'.offset_eol = Len(LineAt(header, k)) - t + 2
        /\ helper'.posEOL = Len(LineAt(header, k)) - t
        /\ helper'.tempString = helper.tempString
        /\ helper'.hasEOL /\ helper'.normalEOL
        /\ Len(LineAt(header, k)) - t \in Nat
        /\ Len(LineAt(header, k)) - t + 2 <= n
    <3>1. t \in 0..Len(LineAt(header, k))
      BY <1>4
    <3>2. Plain(header, C) /\ body \in Seq(C) /\ k \in 0..Len(header)
      BY <1>3, <1>4
    <3>3. IsHelper(h, C) /\ h.offset_eol = 0 /\ ~ h.hasEOL
      BY <1>8
    <3>. HIDE DEF t, k
    <3>4. LET g == updateLength(h, n)
              r == Len(LineAt(header, k)) - t
          IN  /\ IsHelper(g, C) /\ g.buffer = h.buffer
              /\ g.offset = n /\ g.offset_eol = r + 2
              /\ g.posEOL = r /\ g.tempString = h.tempString
              /\ g.hasEOL /\ g.normalEOL /\ r \in Nat /\ r + 2 <= n
      BY <2>3, <2>4, <3>1, <3>2, <3>3, FindsLine, SMTT(30) DEF e
    <3>. QED  BY <1>2, <1>8, <3>4, Zenon
  <2>6. Resumes(C, k, t, n)
    <3>1. /\ pos' \in 0..Len(Input) /\ pos' = e + t + n /\ ~ (pos' <= 1)
          /\ helper'.posEOL \in 0..Size
      <4>1. pos' = pos + n
        BY <1>1, Zenon
      <4>2. pos' \in 0..Len(Input) /\ pos' = e + t + n /\ pos' > 1
        BY <2>1, <4>1, Zenon
      <4>3. pos' \in Int
        <5>. DEFINE z == Len(Input)
        <5>1. pos' \in 0..z
          BY <4>2, Zenon
        <5>. HIDE DEF z, e, t, k
        <5>. QED  BY <5>1
      <4>4. ~ (pos' <= 1)
        <5>1. pos' > 1
          BY <4>2, Zenon
        <5>. HIDE DEF e, t, k
        <5>. QED  BY <4>3, <5>1
      <4>5. helper'.posEOL \in 0..Size
        <5>. DEFINE r == Len(LineAt(header, k)) - t
        <5>1. helper'.posEOL = r /\ r \in Nat /\ r + 2 <= n
          BY <2>5, Zenon
        <5>2. n \in 0..Size
          BY <2>3, Zenon
        <5>. HIDE DEF r, t, k, e
        <5>. QED  BY <5>1, <5>2, ParserAssumption
      <4>. QED  BY <4>2, <4>4, <4>5, Zenon
    <3>2. /\ \A i \in 1..k : lines'[i] = header[i]
          /\ \/ helper.tempString = <<>>
             \/ /\ lines = <<>> /\ Len(header[1]) > 1
                /\ helper.tempString = <<header[1][1]>>
      <4>1. \A i \in 1..k : i \in DOMAIN lines
        BY <1>3
      <4>. QED  BY <1>1, <4>1, Zenon DEF Cutting, LineByLine
    <3>3. \A i \in 0..(n - 1) : helper'.buffer[i] = Input[e + t + i + 1]
      BY <1>7, <2>5, Zenon
    <3>. QED  BY <1>1, <1>3, <2>5, <3>1, <3>2, <3>3, Zenon DEF Resumes
  <2>7. n \in 0..Size
    OBVIOUS
  <2>. QED  BY <1>4, <2>6, <2>7, StillCutting
<1>. QED  BY <1>9, <1>10

(* The string with r characters of the buffer added to it. *)
Extended(s, b, r) == s \o [j \in 1..r |-> b[j - 1]]

(* What is added to tempString completes the line. *)
LEMMA Completes ==
  ASSUME NEW C, NEW l \in Seq(C), NEW s \in Seq(C), NEW r \in Nat,
         NEW b \in [0..Size -> C], r <= Size,
         Len(l) = Len(s) + r,
         \A i \in 1..Len(s) : s[i] = l[i],
         \A i \in 0..(r - 1) : b[i] = l[Len(s) + i + 1]
  PROVE  Extended(s, b, r) = l
<1>. USE ParserAssumption
<1>. DEFINE u == [j \in 1..r |-> b[j - 1]]
            t == Len(s)
<1>1. \A j \in 1..r : j - 1 \in 0..Size /\ j - 1 \in 0..(r - 1)
  OBVIOUS
<1>2. u \in Seq(C) /\ Len(u) = r
  BY <1>1
<1>3. ASSUME NEW j \in 1..r PROVE u[j] = l[t + j]
  <2>1. /\ j - 1 \in 0..(r - 1) /\ t + (j - 1) + 1 = t + j
    BY <1>1
  <2>2. u[j] = b[j - 1]
    OBVIOUS
  <2>. HIDE DEF u, t
  <2>3. b[j - 1] = l[t + (j - 1) + 1]
    BY <2>1, Zenon DEF t
  <2>. QED  BY <2>1, <2>2, <2>3
<1>. HIDE DEF u
<1>4. t \in Nat
  OBVIOUS
<1>5. s \o u \in Seq(C) /\ Len(s \o u) = t + r
  BY <1>2, ConcatProperties
<1>6. ASSUME NEW i \in 1..(t + r) PROVE (s \o u)[i] = l[i]
  <2>1. CASE i <= t
    BY <1>2, <1>4, <2>1
  <2>2. CASE ~ (i <= t)
    <3>1. i - t \in 1..r /\ t + (i - t) = i
      BY <1>4, <2>2
    <3>2. (s \o u)[i] = u[i - t]
      BY <1>2, <1>4, <2>2
    <3>. QED  BY <1>3, <3>1, <3>2
  <2>. QED  BY <2>1, <2>2
<1>7. \A i \in 1..Len(l) : (s \o u)[i] = l[i]
  BY <1>6
<1>. HIDE DEF t
<1>8. Len(s \o u) = Len(l)
  BY <1>5 DEF t
<1>9. s \o u = l
  BY <1>5, <1>7, <1>8, SeqEqual
<1>. QED  BY <1>9, Zenon DEF u, Extended

(* The whole line is taken, and the next one, if it has come, is found. *)
LEMMA TakeLineStep ==
  ASSUME NEW C, Alphabet(C), Text(C), Cutting, takeLine
  PROVE  Text(C)' /\ Cutting'
<1>. USE ParserAssumption
<1>. DEFINE k == Len(lines)
            l == LineAt(header, k)
            t == Len(helper.tempString)
            e == Len(Ended(header, k))
            r == helper.posEOL
            z == Len(Ended(header, k + 1))
            m == helper.offset - (r + 2)
            a == Appended(helper, r)
            b == [a EXCEPT !.tempString = <<>>]
<1>1. /\ pc = "lines" /\ helper.hasEOL /\ r > 0 /\ helper.offset > 0
      /\ header' = header /\ body' = body /\ pos' = pos /\ pc' = pc
      /\ retval' = retval
  BY DEF takeLine, getEOL
<1>2. lines' = Append(lines, a.tempString) /\ helper' = removeLine(b, FALSE)
  <2>1. getEOL = r
    BY <1>1, Zenon DEF getEOL
  <2>. QED  BY <2>1, Zenon DEF takeLine
<1>3. /\ Plain(header, C) /\ header \in Seq(Seq(C)) /\ body \in Seq(C)
      /\ IsHelper(helper, C) /\ lines \in Seq(Seq(C)) /\ Len(header) \in Nat
  BY DEF Text, Plain
<1>4. /\ k \in 0..Len(header) /\ e \in Nat /\ Line = l /\ t \in 0..Len(l)
      /\ Len(l) \in Nat /\ k \in Nat /\ t \in Nat
  <2>1. /\ k \in 0..Len(header) /\ e \in Nat /\ Line = l /\ t \in 0..Len(l)
        /\ Len(l) \in Nat
    BY <1>1, Held
  <2>. QED  BY <2>1
<1>5. /\ retval = 1 /\ pos = e + t + helper.offset
      /\ r = Len(l) - t /\ helper.normalEOL
      /\ helper.offset_eol = r + 2 /\ r + 2 <= helper.offset
      /\ helper.offset \in 0..Size /\ pos \in 0..Len(Input)
      /\ pos = 0 \/ EndsWell(pos)
  <2>1. /\ helper.normalEOL /\ helper.posEOL = Rest
        /\ helper.offset_eol = Rest + 2 /\ Rest + 2 <= helper.offset
    BY <1>1, Zenon DEF Cutting
  <2>2. Rest = Len(l) - t
    BY <1>4 DEF Rest
  <2>3. pos = Start + helper.offset /\ Start = e + t /\ retval = 1
    BY <1>1, Zenon DEF Cutting, Start
  <2>4. helper.offset \in 0..Size /\ pos \in 0..Len(Input)
    BY DEF Cutting, TypeOK
  <2>5. pos = 0 \/ EndsWell(pos)
    BY DEF Cutting
  <2>. QED  BY <2>1, <2>2, <2>3, <2>4, <2>5, Zenon
<1>6. \A i \in 0..(helper.offset - 1) : helper.buffer[i] = Input[e + t + i + 1]
  BY <1>1, Zenon DEF Cutting, Start
<1>7. /\ Input \in Seq(C) /\ Len(Input) \in Nat
      /\ \A i \in 1..Len(l) : Input[e + i] = l[i] /\ l[i] # NUL
      /\ l \in Seq(C) /\ EndAt(header, k) <= Len(Encoded(header))
  <2>. HIDE DEF k
  <2>1. /\ Input \in Seq(C)
        /\ \A i \in 1..Len(l) : Input[e + i] = l[i] /\ l[i] # NUL
        /\ l \in Seq(C) /\ EndAt(header, k) <= Len(Encoded(header))
    BY <1>3, <1>4, InputLies, Zenon
  <2>. HIDE DEF e, l
  <2>2. Len(Input) \in Nat
    BY <2>1
  <2>. QED  BY <2>1, <2>2, Zenon
<1>8. /\ r \in Nat /\ r \in 0..Size /\ m \in Nat /\ m \in 0..Size
      /\ r + 2 \in 1..Size
  <2>. DEFINE o == helper.offset
              u == Len(l)
  <2>1. /\ t \in 0..u /\ u \in Nat /\ r = u - t /\ r > 0
        /\ r + 2 <= o /\ o \in 0..Size
    BY <1>1, <1>4, <1>5, Zenon
  <2>. HIDE DEF l, t, r, o, u
  <2>2. r \in Nat
    BY <2>1
  <2>3. /\ r \in 0..Size /\ r + 2 \in 1..Size
        /\ o - (r + 2) \in Nat /\ o - (r + 2) \in 0..Size
    BY <2>1, <2>2
  <2>. QED  BY <2>2, <2>3 DEF o
<1>9. k < Len(header) /\ l = header[k + 1] /\ k + 1 \in 0..Len(header)
  <2>1. l # <<>>
    <3>1. Len(l) > 0
      <4>. HIDE DEF l, t, r
      <4>. QED  BY <1>1, <1>4, <1>5
    <3>. HIDE DEF l
    <3>. QED  BY <3>1
  <2>2. k < Len(header) /\ l = header[k + 1]
    BY <2>1 DEF LineAt
  <2>. QED  BY <1>3, <1>4, <2>2
<1>10. z = e + t + r + 2 /\ z \in Nat /\ pos = z + m
  <2>1. EndAt(header, k) = z /\ EndAt(header, k) = e + Len(l) + 2
    <3>1. k < Len(header) => EndAt(header, k) = Len(Ended(header, k + 1))
      BY <1>3, <1>4, LinesLie, Zenon
    <3>. QED  BY <1>9, <3>1 DEF EndAt
  <2>. DEFINE o == helper.offset
              u == Len(l)
              y == EndAt(header, k)
  <2>2. /\ t \in Nat /\ u \in Nat /\ e \in Nat /\ r = u - t /\ r \in Nat
        /\ o \in 0..Size /\ pos = e + t + o /\ y = z /\ y = e + u + 2
    BY <1>4, <1>5, <1>8, <2>1, Zenon
  <2>. HIDE DEF e, t, r, z, l, o, u, y
  <2>. QED  BY <2>2 DEF m, o
<1>11. \A i \in 0..(r - 1) :
          /\ helper.buffer[i] = l[t + i + 1] /\ helper.buffer[i] # NUL
  <2>. SUFFICES ASSUME NEW i \in 0..(r - 1)
                PROVE  helper.buffer[i] = l[t + i + 1] /\ helper.buffer[i] # NUL
    OBVIOUS
  <2>. DEFINE o == helper.offset
              u == Len(l)
  <2>0. /\ t \in Nat /\ u \in Nat /\ e \in Nat /\ r = u - t /\ r \in Nat
        /\ o \in 0..Size /\ r + 2 <= o
    BY <1>4, <1>5, <1>8, Zenon
  <2>. HIDE DEF e, t, r, l, o, u
  <2>1. /\ i \in 0..(o - 1) /\ t + i + 1 \in 1..u
        /\ e + t + i + 1 = e + (t + i + 1)
    BY <2>0
  <2>. QED  BY <1>6, <1>7, <2>1, Zenon DEF o, u
<1>12. /\ IsHelper(a, C)
       /\ a.tempString = helper.tempString
                            \o [j \in 1..r |-> helper.buffer[j - 1]]
       /\ \A i \in 0..Size : i # r => a.buffer[i] = helper.buffer[i]
       /\ a.offset = helper.offset /\ a.offset_eol = helper.offset_eol
       /\ a.posEOL = r /\ (a.hasEOL <=> helper.hasEOL)
       /\ (a.normalEOL <=> helper.normalEOL)
  <2>1. NUL \in C /\ \A i \in 0..(r - 1) : helper.buffer[i] # NUL
    BY <1>11 DEF Alphabet
  <2>. QED  BY <1>3, <1>8, <2>1, AppendedIs
<1>13. a.tempString = l
  <2>. HIDE DEF a
  <2>1. helper.tempString \in Seq(C) /\ helper.buffer \in [0..Size -> C]
    BY <1>3 DEF IsHelper
  <2>2. \A i \in 1..t : helper.tempString[i] = l[i]
    <3>1. CASE helper.tempString = <<>>
      BY <3>1
    <3>2. CASE helper.tempString # <<>>
      <4>1. /\ lines = <<>> /\ helper.tempString = <<header[1][1]>>
        BY <1>1, <3>2, Zenon DEF Cutting
      <4>2. k = 0 /\ k + 1 = 1
        BY <4>1
      <4>. QED  BY <1>9, <4>1, <4>2
    <3>. QED  BY <3>1, <3>2
  <2>. DEFINE s == helper.tempString
              f == helper.buffer
  <2>3. /\ s \in Seq(C) /\ f \in [0..Size -> C] /\ t = Len(s)
        /\ \A i \in 1..Len(s) : s[i] = l[i]
        /\ \A i \in 0..(r - 1) : f[i] = l[Len(s) + i + 1]
    BY <1>11, <2>1, <2>2
  <2>4. Len(l) = Len(s) + r /\ r <= Size
    <3>. HIDE DEF l, t, r
    <3>. QED  BY <1>4, <1>5, <1>8 DEF t
  <2>. HIDE DEF l, t, r, s, f
  <2>5. Extended(s, f, r) = l
    <3>1. l \in Seq(C) /\ r \in Nat
      BY <1>7, <1>8, Zenon
    <3>. QED  BY <2>3, <2>4, <3>1, Completes, Zenon
  <2>. QED  BY <1>12, <2>5, Zenon DEF s, f, Extended
<1>. HIDE DEF a
<1>14. /\ IsHelper(b, C) /\ b.buffer = a.buffer /\ b.offset = helper.offset
       /\ b.offset_eol = r + 2 /\ b.posEOL = r /\ b.hasEOL /\ b.normalEOL
       /\ b.tempString = <<>>
  <2>1. <<>> \in Seq(C)
    OBVIOUS
  <2>. QED  BY <1>1, <1>5, <1>12, <2>1 DEF IsHelper
<1>. HIDE DEF b
<1>15. LineLength(b) = r + 2
  BY <1>14, Zenon DEF LineLength
<1>16. PICK g : /\ removeLine(b, FALSE) = updateLength(g, 0)
                /\ IsHelper(g, C)
                /\ \A i \in 0..(Size - (r + 2) - 1) :
                      g.buffer[i] = b.buffer[i + (r + 2)]
                /\ g.offset = b.offset - (r + 2)
                /\ g.offset_eol = b.offset_eol - (r + 2)
                /\ ~ g.hasEOL /\ g.posEOL = b.posEOL
                /\ (g.normalEOL <=> b.normalEOL)
                /\ g.tempString = b.tempString
  <2>1. b.hasEOL /\ b.offset # 0 /\ FALSE \in BOOLEAN
    BY <1>1, <1>14
  <2>. DEFINE d == r + 2
  <2>2. d \in 1..Size /\ d = LineLength(b) /\ IsHelper(b, C)
    BY <1>8, <1>14, <1>15
  <2>. DEFINE no == FALSE
  <2>4. no \in BOOLEAN /\ (b.hasEOL \/ no) /\ b.offset # 0
    BY <2>1
  <2>. HIDE DEF r, d, no
  <2>3. \E g : /\ removeLine(b, no) = updateLength(g, 0)
               /\ IsHelper(g, C)
               /\ \A i \in 0..(Size - d - 1) : g.buffer[i] = b.buffer[i + d]
               /\ g.offset = b.offset - d /\ g.offset_eol = b.offset_eol - d
               /\ ~ g.hasEOL /\ g.posEOL = b.posEOL
               /\ (g.normalEOL <=> b.normalEOL)
               /\ g.tempString = b.tempString
    BY <2>2, <2>4, RemovedIs
  <2>. QED  BY <2>3, Zenon DEF d, no
<1>17. /\ g.offset = m /\ g.offset_eol = 0 /\ ~ g.hasEOL /\ g.posEOL = r
       /\ g.tempString = <<>> /\ m = g.offset + 0
  <2>. HIDE DEF r
  <2>. QED  BY <1>8, <1>14, <1>16
<1>18. \A i \in 0..(m - 1) : g.buffer[i] = Input[z + 0 + i + 1]
  <2>. SUFFICES ASSUME NEW i \in 0..(m - 1)
                PROVE  g.buffer[i] = Input[z + 0 + i + 1]
    OBVIOUS
  <2>. DEFINE o == helper.offset
  <2>1. o \in 0..Size /\ m = o - (r + 2)
    BY <1>5
  <2>. HIDE DEF r, m, o, z, e, t
  <2>2. /\ i \in 0..(Size - (r + 2) - 1) /\ i + (r + 2) \in 0..Size
        /\ i + (r + 2) # r /\ i + (r + 2) \in 0..(o - 1)
        /\ e + t + (i + (r + 2)) + 1 = z + 0 + i + 1
    BY <1>4, <1>8, <1>10, <2>1
  <2>3. g.buffer[i] = b.buffer[i + (r + 2)]
    BY <1>16, <2>2, Zenon
  <2>4. b.buffer[i + (r + 2)] = helper.buffer[i + (r + 2)]
    BY <1>12, <1>14, <2>2, Zenon
  <2>5. helper.buffer[i + (r + 2)] = Input[e + t + (i + (r + 2)) + 1]
    BY <1>6, <2>2, Zenon DEF o
  <2>. QED  BY <2>2, <2>3, <2>4, <2>5
<1>19. /\ Len(lines') = k + 1 /\ lines' \in Seq(Seq(C))
       /\ \A i \in 1..(k + 1) : lines'[i] = header[i]
  <2>1. lines' = Append(lines, l) /\ l \in Seq(C)
    BY <1>2, <1>7, <1>13
  <2>2. \A i \in 1..k : lines[i] = header[i]
    <3>1. \A i \in 1..k : i \in DOMAIN lines
      BY <1>3
    <3>. QED  BY <3>1, Zenon DEF Cutting, LineByLine
  <2>. HIDE DEF l
  <2>3. /\ Len(lines') = k + 1 /\ lines' \in Seq(Seq(C))
        /\ \A i \in 1..k : lines'[i] = lines[i]
        /\ lines'[k + 1] = l
    BY <1>3, <2>1
  <2>4. \A i \in 1..(k + 1) : i \in 1..k \/ i = k + 1
    BY <1>4
  <2>. QED  BY <1>9, <2>2, <2>3, <2>4, Zenon
<1>20. helper' = updateLength(g, 0)
  BY <1>2, <1>16
<1>21. ~ (pos' <= 1) /\ z >= 2
  <2>. HIDE DEF z, e, t, r, m
  <2>. QED  BY <1>1, <1>4, <1>8, <1>10
<1>. HIDE DEF r, m, l, e, t
<1>22. ASSUME helper'.offset = m, helper'.tempString = <<>>,
              IsHelper(helper', C), helper'.buffer = g.buffer,
              helper'.posEOL \in 0..Size,
              \/ m = 0 /\ helper'.offset_eol = 0 /\ ~ helper'.hasEOL
              \/ /\ helper'.hasEOL /\ helper'.normalEOL
                 /\ helper'.posEOL = Len(LineAt(header, k + 1)) - 0
                 /\ helper'.offset_eol = Len(LineAt(header, k + 1)) - 0 + 2
                 /\ Len(LineAt(header, k + 1)) - 0 + 2 <= m
       PROVE  Resumes(C, k + 1, 0, m)
  <2>1. 0 = Len(helper'.tempString) /\ pos' = z + 0 + m
    BY <1>1, <1>8, <1>10, <1>22
  <2>2. \A i \in 0..(m - 1) : helper'.buffer[i] = Input[z + 0 + i + 1]
    BY <1>18, <1>22, Zenon
  <2>3. pc' \in {"read", "lines"} /\ pc' = "lines" /\ retval' = 1
    BY <1>1, <1>5
  <2>4. /\ pos' \in 0..Len(Input) /\ (pos' = 0 \/ EndsWell(pos'))
        /\ header' = header /\ body' = body
    BY <1>1, <1>5
  <2>. QED  BY <1>19, <1>21, <1>22, <2>1, <2>2, <2>3, <2>4, Zenon DEF Resumes
<1>23. CASE m = 0
  <2>1. /\ 0 \in Int /\ g.offset + 0 \in 0..Size
        /\ \A i \in 0..(g.offset + 0 - 1) : g.buffer[i] # CR /\ g.buffer[i] # LF
    BY <1>8, <1>17, <1>23
  <2>2. /\ IsHelper(helper', C) /\ helper'.buffer = g.buffer
        /\ helper'.offset = g.offset + 0 /\ helper'.offset_eol = 0
        /\ helper'.posEOL = g.posEOL /\ helper'.tempString = g.tempString
        /\ ~ helper'.hasEOL
    BY <1>16, <1>17, <1>20, <2>1, UpdateSkips
  <2>3. Resumes(C, k + 1, 0, m)
    BY <1>8, <1>17, <1>22, <1>23, <2>2
  <2>4. 0 \in 0..Len(LineAt(header, k + 1))
    BY <1>3, <1>9, InputLies
  <2>. HIDE DEF k
  <2>. QED  BY <1>8, <1>9, <2>3, <2>4, StillCutting
<1>24. CASE m # 0
  <2>1. /\ pos > 1 /\ pos > z /\ EndsWell(pos)
    BY <1>5, <1>8, <1>10, <1>21, <1>24
  <2>2. pos >= EndAt(header, k + 1)
    <3>. HIDE DEF k
    <3>. QED  BY <1>3, <1>5, <1>9, <2>1, EndsAfter DEF z
  <2>3. /\ EndAt(header, k + 1) <= z + 0 + m
        /\ 0 \in 0..Len(LineAt(header, k + 1)) /\ 0 \in Int
    <3>1. EndAt(header, k + 1) \in Nat /\ Len(LineAt(header, k + 1)) \in Nat
      BY <1>3, <1>9, InputLies
    <3>. HIDE DEF z
    <3>. QED  BY <1>8, <1>10, <2>2, <3>1
  <2>4. LET x == updateLength(g, 0)
            y == Len(LineAt(header, k + 1)) - 0
        IN  /\ IsHelper(x, C) /\ x.buffer = g.buffer
            /\ x.offset = m /\ x.offset_eol = y + 2
            /\ x.posEOL = y /\ x.tempString = g.tempString
            /\ x.hasEOL /\ x.normalEOL /\ y \in Nat /\ y + 2 <= m
    <3>1. /\ IsHelper(g, C) /\ g.offset_eol = 0 /\ ~ g.hasEOL
          /\ m = g.offset + 0 /\ m \in 0..Size
      BY <1>8, <1>16, <1>17
    <3>2. Plain(header, C) /\ body \in Seq(C) /\ k + 1 \in 0..Len(header)
      BY <1>3, <1>9
    <3>. DEFINE none == 0
                next == k + 1
    <3>3. /\ m = g.offset + none /\ none \in Int
          /\ next \in 0..Len(header)
          /\ none \in 0..Len(LineAt(header, next))
          /\ \A i \in 0..(m - 1) :
                g.buffer[i] = Input[Len(Ended(header, next)) + none + i + 1]
          /\ EndAt(header, next) <= Len(Ended(header, next)) + none + m
      BY <1>18, <2>3, <3>1, <3>2
    <3>. HIDE DEF k, none, next
    <3>4. LET x == updateLength(g, none)
              y == Len(LineAt(header, next)) - none
          IN  /\ IsHelper(x, C) /\ x.buffer = g.buffer
              /\ x.offset = m /\ x.offset_eol = y + 2
              /\ x.posEOL = y /\ x.tempString = g.tempString
              /\ x.hasEOL /\ x.normalEOL /\ y \in Nat /\ y + 2 <= m
      BY <3>1, <3>2, <3>3, FindsLine, SMTT(30)
    <3>. QED  BY <3>4, Zenon DEF none, next
  <2>5. /\ IsHelper(helper', C) /\ helper'.buffer = g.buffer
        /\ helper'.offset = m
        /\ helper'.offset_eol = Len(LineAt(header, k + 1)) - 0 + 2
        /\ helper'.posEOL = Len(LineAt(header, k + 1)) - 0
        /\ helper'.tempString = <<>>
        /\ helper'.hasEOL /\ helper'.normalEOL
        /\ Len(LineAt(header, k + 1)) - 0 \in Nat
        /\ Len(LineAt(header, k + 1)) - 0 + 2 <= m
    BY <1>17, <1>20, <2>4, Zenon
  <2>6. helper'.posEOL \in 0..Size
    <3>. DEFINE y == Len(LineAt(header, k + 1)) - 0
    <3>1. y \in Nat /\ y + 2 <= m /\ helper'.posEOL = y
      BY <2>5
    <3>. HIDE DEF y
    <3>. QED  BY <1>8, <3>1
  <2>7. Resumes(C, k + 1, 0, m)
    BY <1>22, <2>5, <2>6, Zenon
  <2>. HIDE DEF k
  <2>. QED  BY <1>8, <1>9, <2>3, <2>7, StillCutting
<1>. QED  BY <1>23, <1>24

(* If only the first character has come, it is one of the first line's, which
   is not all of it. *)
LEMMA FirstCharacter ==
  ASSUME NEW C, Alphabet(C), Plain(header, C), body \in Seq(C), EndsWell(1)
  PROVE  /\ Len(header[1]) > 1 /\ header[1] \in Seq(C)
         /\ Input[1] = header[1][1] /\ header[1][1] # NUL
<1>. DEFINE none == 0
            l == LineAt(header, none)
<1>1. none \in 0..Len(header) /\ 0 < Len(header) /\ Len(header) \in Nat
  BY DEF Plain
<1>2. l = header[1]
  <2>1. l = header[0 + 1] /\ 0 + 1 = 1
    BY <1>1 DEF LineAt
  <2>. QED  BY <2>1
<1>3. Ended(header, none) = <<>>
  BY EndedAdds DEF Plain
<1>. HIDE DEF none
<1>4. /\ l \in Seq(C) /\ Len(l) \in Nat
      /\ EndAt(header, none) <= Len(Encoded(header))
      /\ Len(Encoded(header)) \in Nat
      /\ \A i \in 1..Len(l) : Input[Len(Ended(header, none)) + i] = l[i] /\ l[i] # NUL
  BY <1>1, InputLies
<1>5. EndAt(header, none) = Len(l) + 2 /\ Len(Ended(header, none)) = 0
  <2>1. Len(Ended(header, none)) = 0
    BY <1>3
  <2>. HIDE DEF l
  <2>. QED  BY <1>4, <2>1 DEF EndAt, l
<1>. HIDE DEF l
<1>6. ~ (1 >= Len(Encoded(header)))
  BY <1>4, <1>5
<1>7. Len(l) > 1
  BY <1>2, <1>6 DEF EndsWell
<1>8. 1 \in 1..Len(l) /\ Len(Ended(header, none)) + 1 = 1
  BY <1>4, <1>5, <1>7
<1>9. Input[Len(Ended(header, none)) + 1] = l[1] /\ l[1] # NUL
  BY <1>4, <1>8, Zenon
<1>. QED  BY <1>2, <1>4, <1>7, <1>8, <1>9

(* The empty line ends the header; the first character is kept. *)
LEMMA FinishStep ==
  ASSUME NEW C, Alphabet(C), Text(C), Cutting, finish
  PROVE  Text(C)' /\ Cutting'
<1>. USE ParserAssumption
<1>. DEFINE k == Len(lines)
            l == LineAt(header, k)
            t == Len(helper.tempString)
            e == Len(Ended(header, k))
            o == helper.offset
<1>1. /\ pc = "lines" /\ ~ (o # 0 /\ getEOL > 0)
      /\ header' = header /\ body' = body /\ pos' = pos /\ lines' = lines
      /\ pc' = IF retval' = 0 THEN "done" ELSE "read"
  BY Zenon DEF finish
<1>2. \/ /\ getEOL = 0
         /\ helper' = removeLine(helper, TRUE) /\ retval' = 0
      \/ /\ getEOL = -1 /\ o # 0
         /\ helper' = removeLine(Appended(helper, o), TRUE) /\ retval' = 1
      \/ getEOL = -1 /\ o = 0 /\ helper' = helper /\ retval' = 1
      \/ getEOL > 0 /\ helper' = Appended(helper, getEOL) /\ retval' = 1
  BY Zenon DEF finish
<1>3. /\ Plain(header, C) /\ header \in Seq(Seq(C)) /\ body \in Seq(C)
      /\ IsHelper(helper, C) /\ lines \in Seq(Seq(C)) /\ Len(header) \in Nat
  BY DEF Text, Plain
<1>4. /\ k \in 0..Len(header) /\ e \in Nat /\ Line = l /\ t \in 0..Len(l)
      /\ Len(l) \in Nat /\ k \in Nat /\ t \in Nat
      /\ k < Len(header) => t < Len(l)
  <2>1. /\ k \in 0..Len(header) /\ e \in Nat /\ Line = l /\ t \in 0..Len(l)
        /\ Len(l) \in Nat
    BY <1>1, Held
  <2>2. k < Len(header) => t < Len(Line)
    BY <1>1, Held, Zenon
  <2>. QED  BY <2>1, <2>2
<1>5. /\ retval = 1 /\ pos = e + t + o /\ o \in 0..Size /\ o \in Nat
      /\ pos \in 0..Len(Input) /\ (pos = 0 \/ EndsWell(pos))
      /\ helper.posEOL \in 0..Size
      /\ pos <= 1 => helper.posEOL = 0 /\ ~ helper.normalEOL
  <2>1. pos = Start + o /\ Start = e + t /\ retval = 1
    BY <1>1, Zenon DEF Cutting, Start
  <2>2. o \in 0..Size /\ pos \in 0..Len(Input) /\ helper.posEOL \in 0..Size
    BY DEF Cutting, TypeOK
  <2>3. /\ pos = 0 \/ EndsWell(pos)
        /\ pos <= 1 => helper.posEOL = 0 /\ ~ helper.normalEOL
    BY Zenon DEF Cutting
  <2>4. o \in Nat
    BY <2>2
  <2>. QED  BY <2>1, <2>2, <2>3, <2>4, Zenon
<1>6. /\ \A i \in 0..(o - 1) : helper.buffer[i] = Input[e + t + i + 1]
      /\ \/ helper.tempString = <<>>
         \/ /\ lines = <<>> /\ Len(header[1]) > 1
            /\ helper.tempString = <<header[1][1]>>
  BY <1>1, Zenon DEF Cutting, Start
<1>7. \A i \in 1..k : lines'[i] = header[i]
  <2>1. \A i \in 1..k : i \in DOMAIN lines
    BY <1>3
  <2>. QED  BY <1>1, <2>1, Zenon DEF Cutting, LineByLine
<1>8. \/ o = 0 /\ helper.offset_eol = 0 /\ ~ helper.hasEOL
      \/ /\ pos = 1 /\ o = 1 /\ helper.offset_eol = 1 /\ ~ helper.hasEOL
      \/ /\ helper.hasEOL /\ helper.normalEOL /\ helper.posEOL = Len(l) - t
         /\ helper.offset_eol = Len(l) - t + 2 /\ Len(l) - t + 2 <= o
  <2>1. Rest = Len(l) - t
    BY <1>4, Zenon DEF Rest
  <2>. QED  BY <1>1, <2>1, Zenon DEF Cutting
<1>9. CASE o = 0 /\ helper.offset_eol = 0 /\ ~ helper.hasEOL
  <2>1. getEOL = -1
    BY <1>9, Zenon DEF getEOL
  <2>2. helper' = helper /\ retval' = 1
    BY <1>2, <1>9, <2>1
  <2>3. pc' = "read" /\ pc' \in {"read", "lines"}
    BY <1>1, <2>2
  <2>. DEFINE none == 0
  <2>4. /\ none = helper'.offset /\ pos' = e + t + none
        /\ \A i \in 0..(none - 1) : helper'.buffer[i] = Input[e + t + i + 1]
        /\ none \in 0..Size /\ none = 0
    BY <1>1, <1>5, <1>9, <2>2
  <2>. HIDE DEF none
  <2>5. Resumes(C, k, t, none)
    BY <1>1, <1>3, <1>5, <1>6, <1>7, <1>9, <2>2, <2>3, <2>4, Zenon DEF Resumes
  <2>. QED  BY <1>4, <2>4, <2>5, StillCutting
<1>10. CASE pos = 1 /\ o = 1 /\ helper.offset_eol = 1 /\ ~ helper.hasEOL
  <2>. DEFINE a == Appended(helper, o)
              none == 0
              one == 1
  <2>1. getEOL = -1
    BY <1>10, Zenon DEF getEOL
  <2>2. helper' = removeLine(a, TRUE) /\ retval' = 1
    BY <1>2, <1>10, <2>1
  <2>3. pc' = "read" /\ pc' \in {"read", "lines"}
    BY <1>1, <2>2
  <2>4. e = 0 /\ t = 0 /\ helper.posEOL = 0 /\ ~ helper.normalEOL /\ EndsWell(1)
    <3>1. pos <= 1 /\ pos # 0
      BY <1>10
    <3>. HIDE DEF e, t, o
    <3>. QED  BY <1>4, <1>5, <1>10, <3>1
  <2>5. k = 0 /\ lines = <<>> /\ helper.tempString = <<>>
    <3>1. k = 0
      BY <1>3, <1>4, <2>4, FirstLine
    <3>. QED  BY <1>3, <2>4, <3>1 DEF IsHelper
  <2>6. /\ Len(header[1]) > 1 /\ header[1] \in Seq(C)
        /\ Input[1] = header[1][1] /\ header[1][1] # NUL
    BY <1>3, <2>4, FirstCharacter
  <2>7. helper.buffer[0] = header[1][1]
    <3>1. 0 \in 0..(o - 1) /\ e + t + 0 + 1 = 1
      BY <1>10, <2>4
    <3>2. helper.buffer[0] = Input[e + t + 0 + 1]
      BY <1>6, <3>1, Zenon
    <3>. QED  BY <2>6, <3>1, <3>2
  <2>8. /\ IsHelper(a, C)
        /\ a.tempString = helper.tempString
                             \o [j \in 1..o |-> helper.buffer[j - 1]]
        /\ a.offset = o /\ a.offset_eol = 1 /\ a.posEOL = 0
        /\ ~ a.normalEOL
    <3>1. /\ NUL \in C /\ \A i \in 0..(o - 1) : helper.buffer[i] # NUL
      BY <1>10, <2>6, <2>7 DEF Alphabet
    <3>. QED  BY <1>3, <1>5, <1>10, <2>4, <3>1, AppendedIs
  <2>9. a.tempString = <<header[1][1]>>
    <3>1. [j \in 1..o |-> helper.buffer[j - 1]] = <<header[1][1]>>
      BY <1>10, <2>7
    <3>2. <<>> \o <<header[1][1]>> = <<header[1][1]>>
      OBVIOUS
    <3>. HIDE DEF a
    <3>. QED  BY <2>5, <2>8, <3>1, <3>2
  <2>. HIDE DEF a
  <2>10. LineLength(a) = one
    BY <2>8 DEF LineLength
  <2>11. PICK g : /\ removeLine(a, TRUE) = updateLength(g, 0)
                  /\ IsHelper(g, C)
                  /\ g.offset = a.offset - one
                  /\ g.offset_eol = a.offset_eol - one
                  /\ ~ g.hasEOL /\ g.posEOL = a.posEOL
                  /\ (g.normalEOL <=> a.normalEOL)
                  /\ g.tempString = a.tempString
    <3>. DEFINE yes == TRUE
    <3>1. /\ yes \in BOOLEAN /\ (a.hasEOL \/ yes) /\ a.offset # 0
          /\ one \in 1..Size /\ one = LineLength(a) /\ IsHelper(a, C)
      BY <1>10, <2>8, <1>5, <2>10
    <3>. HIDE DEF yes, one
    <3>2. \E g : /\ removeLine(a, yes) = updateLength(g, 0)
                 /\ IsHelper(g, C)
                 /\ \A i \in 0..(Size - one - 1) :
                       g.buffer[i] = a.buffer[i + one]
                 /\ g.offset = a.offset - one
                 /\ g.offset_eol = a.offset_eol - one
                 /\ ~ g.hasEOL /\ g.posEOL = a.posEOL
                 /\ (g.normalEOL <=> a.normalEOL)
                 /\ g.tempString = a.tempString
      BY <3>1, RemovedIs
    <3>. QED  BY <3>2, Zenon DEF yes
  <2>12. g.offset = 0 /\ g.offset_eol = 0
    BY <1>10, <2>8, <2>11
  <2>13. /\ IsHelper(helper', C) /\ helper'.offset = none
         /\ helper'.offset_eol = 0 /\ helper'.posEOL = 0
         /\ helper'.tempString = <<header[1][1]>>
         /\ ~ helper'.hasEOL /\ ~ helper'.normalEOL
    <3>1. /\ 0 \in Int /\ g.offset + 0 \in 0..Size
          /\ \A i \in 0..(g.offset + 0 - 1) :
                g.buffer[i] # CR /\ g.buffer[i] # LF
      BY <2>12
    <3>2. LET x == updateLength(g, 0)
          IN  /\ IsHelper(x, C) /\ x.buffer = g.buffer
              /\ x.offset = g.offset + 0 /\ x.offset_eol = 0
              /\ x.posEOL = g.posEOL /\ x.tempString = g.tempString
              /\ ~ x.hasEOL /\ (x.normalEOL <=> g.normalEOL)
      BY <2>11, <2>12, <3>1, UpdateSkips
    <3>3. g.offset + 0 = none
      BY <2>12
    <3>5. helper' = updateLength(g, 0)
      BY <2>2, <2>11, Zenon
    <3>4. g.posEOL = 0 /\ g.tempString = <<header[1][1]>> /\ ~ g.normalEOL
      BY <2>8, <2>9, <2>11, Zenon
    <3>. QED  BY <3>2, <3>3, <3>4, <3>5, Zenon
  <2>14. Resumes(C, k, one, none)
    <3>1. one = Len(helper'.tempString) /\ pos' = e + one + none
      BY <1>1, <1>10, <2>4, <2>13
    <3>2. \A i \in 0..(none - 1) : helper'.buffer[i] = Input[e + one + i + 1]
      OBVIOUS
    <3>3. helper'.posEOL \in 0..Size
      BY <2>13
    <3>. HIDE DEF one
    <3>. QED  BY <1>1, <1>3, <1>5, <1>7, <2>2, <2>3, <2>5, <2>6, <2>13, <3>1,
                 <3>2, <3>3, Zenon DEF Resumes
  <2>15. one \in 0..Len(LineAt(header, k)) /\ none \in 0..Size
    <3>1. k < Len(header) /\ l = header[1]
      <4>1. k < Len(header)
        BY <1>3, <2>5 DEF Plain
      <4>2. k + 1 = 1
        BY <2>5
      <4>. QED  BY <4>1, <4>2 DEF LineAt
    <3>. QED  BY <1>4, <2>6, <3>1
  <2>. QED  BY <1>4, <2>14, <2>15, StillCutting
<1>11. CASE /\ helper.hasEOL /\ helper.normalEOL /\ helper.posEOL = Len(l) - t
            /\ helper.offset_eol = Len(l) - t + 2 /\ Len(l) - t + 2 <= o
  <2>1. getEOL = helper.posEOL
    BY <1>11, Zenon DEF getEOL
  <2>2. /\ helper.posEOL = 0 /\ t = Len(l) /\ helper.offset_eol = 2 /\ 2 <= o
        /\ k = Len(header)
    <3>. DEFINE u == Len(l)
                r == helper.posEOL
                n == Len(header)
    <3>1. /\ ~ (o # 0 /\ r > 0) /\ r = u - t /\ u - t + 2 <= o
          /\ helper.offset_eol = u - t + 2 /\ u \in Nat /\ t \in 0..u
          /\ (k < n => t < u) /\ k \in 0..n /\ n \in Nat
          /\ r \in 0..Size
      BY <1>1, <1>3, <1>4, <1>5, <1>11, <2>1
    <3>. HIDE DEF u, r, n, k, l, t, o
    <3>2. r = 0 /\ t = u /\ helper.offset_eol = 2 /\ 2 <= o /\ k = n
      BY <3>1
    <3>. QED  BY <3>2 DEF u, r, n
  <2>3. helper' = removeLine(helper, TRUE) /\ retval' = 0 /\ pc' = "done"
    <3>1. getEOL = 0
      BY <2>1, <2>2
    <3>. QED  BY <1>1, <1>2, <3>1
  <2>4. l = <<>> /\ t = 0
    BY <2>2 DEF LineAt
  <2>5. /\ Len(Encoded(header)) = e + 2 /\ pos = e + o
        /\ Input \in Seq(C) /\ Len(Input) \in Nat
    <3>1. EndAt(header, k) = e + 2
      BY <1>4, <2>4 DEF EndAt
    <3>2. EndAt(header, k) = Len(Encoded(header))
      <4>1. k = Len(header) => EndAt(header, k) = Len(Encoded(header))
        BY <1>3, <1>4, LinesLie, Zenon
      <4>. QED  BY <2>2, <4>1
    <3>3. Input \in Seq(C)
      BY <1>3, <1>4, InputLies
    <3>. QED  BY <1>4, <1>5, <2>4, <3>1, <3>2, <3>3
  <2>6. lines' = header
    <3>1. Len(lines) = Len(header) /\ \A i \in 1..Len(lines) : lines[i] = header[i]
      BY <1>1, <1>7, <2>2
    <3>. QED  BY <1>1, <1>3, <3>1, SeqEqual
  <2>. DEFINE two == 2
  <2>7. LineLength(helper) = two
    BY <1>11, <2>2 DEF LineLength
  <2>8. PICK g : /\ removeLine(helper, TRUE) = updateLength(g, 0)
                 /\ IsHelper(g, C)
                 /\ \A i \in 0..(Size - two - 1) :
                       g.buffer[i] = helper.buffer[i + two]
                 /\ g.offset = o - two
                 /\ g.offset_eol = helper.offset_eol - two
                 /\ ~ g.hasEOL /\ g.posEOL = helper.posEOL
    <3>. DEFINE yes == TRUE
    <3>1. yes \in BOOLEAN /\ (helper.hasEOL \/ yes) /\ o # 0 /\ two \in 1..Size
      BY <1>5, <1>11, <2>2
    <3>. HIDE DEF yes, two
    <3>2. \E g : /\ removeLine(helper, yes) = updateLength(g, 0)
                 /\ IsHelper(g, C)
                 /\ \A i \in 0..(Size - two - 1) :
                       g.buffer[i] = helper.buffer[i + two]
                 /\ g.offset = o - two
                 /\ g.offset_eol = helper.offset_eol - two
                 /\ ~ g.hasEOL /\ g.posEOL = helper.posEOL
      BY <1>3, <2>7, <3>1, RemovedIs
    <3>. QED  BY <3>2, Zenon DEF yes
  <2>9. /\ g.offset = o - 2 /\ g.offset_eol = 0 /\ g.offset \in Nat
        /\ g.offset + 0 + 1 <= Size /\ g.posEOL \in 0..Size
    BY <1>5, <2>2, <2>8
  <2>10. LET x == updateLength(g, 0)
         IN  /\ IsHelper(x, C) /\ x.buffer = g.buffer
             /\ x.offset = g.offset + 0 /\ x.offset_eol \in 0..Size
             /\ x.posEOL \in 0..Size
             /\ x.hasEOL => x.posEOL < x.offset
    BY <2>8, <2>9, UpdateStays
  <2>11. /\ IsHelper(helper', C) /\ helper'.buffer = g.buffer
         /\ helper'.offset = o - 2 /\ helper'.offset_eol \in 0..Size
         /\ helper'.posEOL \in 0..Size /\ helper'.offset \in 0..Size
         /\ helper'.hasEOL => helper'.posEOL < helper'.offset
    <3>1. o - 2 + 0 = o - 2 /\ o - 2 \in 0..Size
      BY <1>5, <2>2
    <3>. QED  BY <2>3, <2>8, <2>9, <2>10, <3>1
  <2>12. getRemainingData' = SubSeq(Input, Len(Encoded(header)) + 1, pos)
    <3>. DEFINE n == o - 2
                x == [j \in 1..n |-> helper'.buffer[j - 1]]
                y == SubSeq(Input, Len(Encoded(header)) + 1, pos)
    <3>1. getRemainingData' = x
      BY <2>11, Zenon DEF getRemainingData
    <3>2. /\ n \in Nat /\ pos = Len(Encoded(header)) + n
          /\ Len(Encoded(header)) \in Nat
      <4>. DEFINE c == Len(Encoded(header))
      <4>1. c = e + 2 /\ pos = e + o /\ e \in Nat /\ o \in 0..Size /\ 2 <= o
        BY <1>4, <1>5, <2>2, <2>5, Zenon
      <4>. HIDE DEF c, e, o
      <4>. QED  BY <4>1 DEF c
    <3>3. y = [j \in 1..n |-> Input[Len(Encoded(header)) + j]]
      <4>. DEFINE c == Len(Encoded(header))
      <4>1. c \in Nat /\ c + 1 \in 1..(Len(Input) + 1) /\ pos \in c..Len(Input)
        <5>1. pos \in 0..Len(Input) /\ Len(Input) \in Nat
          BY <1>5, <2>5
        <5>. HIDE DEF n
        <5>. QED  BY <3>2, <5>1
      <4>. HIDE DEF c, n
      <4>2. /\ SubSeq(Input, c + 1, pos) \in Seq(C)
            /\ Len(SubSeq(Input, c + 1, pos)) = n
            /\ \A j \in 1..n : SubSeq(Input, c + 1, pos)[j] = Input[c + j]
        BY <2>5, <3>2, <4>1 DEF c
      <4>. HIDE DEF y
      <4>3. y \in Seq(C) /\ Len(y) = n /\ \A j \in 1..n : y[j] = Input[c + j]
        BY <4>2, Zenon DEF y, c
      <4>4. y = [j \in 1..n |-> y[j]]
        BY <4>3
      <4>. QED  BY <4>3, <4>4, Zenon DEF c
    <3>4. \A j \in 1..n : helper'.buffer[j - 1] = Input[Len(Encoded(header)) + j]
      <4>. SUFFICES ASSUME NEW j \in 1..n
                    PROVE helper'.buffer[j - 1] = Input[Len(Encoded(header)) + j]
        OBVIOUS
      <4>1. /\ j - 1 \in 0..(Size - two - 1) /\ (j - 1) + two = j + 1
            /\ j + 1 \in 0..(o - 1)
            /\ e + t + (j + 1) + 1 = Len(Encoded(header)) + j
        BY <1>4, <1>5, <2>2, <2>4, <2>5
      <4>2. helper'.buffer[j - 1] = helper.buffer[(j - 1) + two]
        BY <2>8, <2>11, <4>1, Zenon
      <4>3. helper.buffer[j + 1] = Input[e + t + (j + 1) + 1]
        BY <1>6, <4>1, Zenon
      <4>. QED  BY <4>1, <4>2, <4>3
    <3>. HIDE DEF y, n
    <3>. QED  BY <3>1, <3>3, <3>4, Zenon DEF y
  <2>13. Input' = Input /\ pos' = pos /\ header' = header
    BY <1>1, Zenon DEF Input
  <2>14. Text(C)'
    BY <1>1, <1>3, <2>11, Zenon DEF Text
  <2>15. TypeOK'
    <3>1. retval' \in {-1, 0, 1} /\ pc' \in {"read", "lines", "done", "closed"}
      BY <2>3
    <3>. QED  BY <1>5, <2>11, <2>13, <3>1, Zenon DEF TypeOK
  <2>16. LineByLine'
    <3>1. \A i \in DOMAIN lines' : i <= Len(header)
      BY <1>3, <2>6
    <3>. QED  BY <2>6, <2>13, <3>1, Zenon DEF LineByLine
  <2>17. NothingLeftBehind'
    <3>1. pc' # "read"
      BY <2>3
    <3>. QED  BY <2>12, <2>13, <3>1, Zenon DEF NothingLeftBehind
  <2>18. /\ pos' = 0 \/ EndsWell(pos)'
         /\ ~ (pos' <= 1) /\ pc' \notin {"read", "lines"}
         /\ pos' >= Len(Encoded(header'))
    <3>1. pos' = 0 \/ EndsWell(pos)'
      BY <1>5, <2>13, Zenon DEF EndsWell
    <3>2. ~ (pos' <= 1)
      BY <1>4, <1>5, <2>2, <2>5, <2>13
    <3>3. pos' >= Len(Encoded(header'))
      BY <1>4, <1>5, <2>2, <2>5, <2>13
    <3>. QED  BY <2>3, <3>1, <3>2, <3>3
  <2>. QED  BY <2>14, <2>15, <2>16, <2>17, <2>18, Zenon DEF Cutting
<1>. QED  BY <1>8, <1>9, <1>10, <1>11

(* A connection that is closed changes nothing else. *)
LEMMA FailStep ==
  ASSUME NEW C, Text(C), Cutting, fail
  PROVE  Text(C)' /\ Cutting'
<1>1. /\ pc' = "closed" /\ retval' = -1 /\ header' = header /\ body' = body
      /\ pos' = pos /\ helper' = helper /\ lines' = lines
  BY DEF fail
<1>2. Input' = Input
  BY <1>1, Zenon DEF Input
<1>3. Text(C)'
  BY <1>1, Zenon DEF Text
<1>4. TypeOK'
  <2>1. retval' \in {-1, 0, 1} /\ pc' \in {"read", "lines", "done", "closed"}
    BY <1>1
  <2>. QED  BY <1>1, <1>2, <2>1, Zenon DEF Cutting, TypeOK
<1>5. pc' # "done" /\ pc' # "read" /\ pc' \notin {"read", "lines"}
  BY <1>1
<1>6. LineByLine' /\ NothingLeftBehind'
  BY <1>1, <1>5, Zenon DEF Cutting, LineByLine, NothingLeftBehind
<1>7. EndsWell(pos)' <=> EndsWell(pos)
  BY <1>1, <1>2, Zenon DEF EndsWell
<1>. QED  BY <1>1, <1>3, <1>4, <1>5, <1>6, <1>7, Zenon DEF Cutting

(* No step changes the rest of the state. *)
LEMMA RestsStep ==
  ASSUME NEW C, Text(C), Cutting, UNCHANGED vars
  PROVE  Text(C)' /\ Cutting'
<1>1. /\ pc' = pc /\ retval' = retval /\ header' = header /\ body' = body
      /\ pos' = pos /\ helper' = helper /\ lines' = lines
  BY DEF vars
<1>. QED  BY <1>1, Zenon DEF Text, Cutting, TypeOK, LineByLine, NothingLeftBehind,
             Input, EndsWell, getRemainingData, Line, Start, Rest

(* Every step of the parser keeps Cutting. *)
LEMMA CuttingKept ==
  ASSUME NEW C, Alphabet(C), ~ CutAnywhere, Text(C), Cutting, [Next]_vars
  PROVE  Text(C)' /\ Cutting'
<1>1. CASE fail
  BY <1>1, FailStep
<1>2. CASE takeLine
  BY <1>2, TakeLineStep
<1>3. CASE finish
  BY <1>3, FinishStep
<1>4. ASSUME NEW n \in 1..Size, read(n) PROVE Text(C)' /\ Cutting'
  BY <1>4, ReadStep
<1>5. CASE UNCHANGED vars
  BY <1>5, RestsStep
<1>. QED  BY <1>1, <1>2, <1>3, <1>4, <1>5 DEF Next
-----------------------------------------------------------------------------
(* Words and delimiters *)

Space == " "

\* C has the words that both sides write and look for
Words(C) ==
    /\ Alphabet(C)
    /\ {" ", ":", "GET", "RS/1.0", "dig", "error", "from", "to", "200", "OK",
        "400", "Problem with request", "Image", "not found", "found but",
        "Value", "of 'from' or 'to'", "of 'from'", "of 'to'",
        "Request", "equest", "quest", "is invalid"} \subseteq C

(* A set of numbers has a least and, if it is bounded, a greatest one. *)
LEMMA HasFirst ==
  ASSUME NEW S \in SUBSET Nat, S # {}
  PROVE  \E i \in S : \A j \in S : i <= j
<1>. DEFINE R == OpToRel(<, Nat)
<1>1. IsWellFoundedOn(R, Nat)
  BY NatLessThanWellFounded
<1>2. \A x, y \in Nat : <<y, x>> \in R <=> y < x
  BY DEF OpToRel
<1>. HIDE DEF R
<1>3. PICK i \in S : \A j \in S : ~ (<<j, i>> \in R)
  BY <1>1, WFMin
<1>4. \A j \in S : ~ (j < i)
  BY <1>2, <1>3
<1>5. \A j \in S : i <= j
  BY <1>4
<1>. QED  BY <1>5

LEMMA HasLast ==
  ASSUME NEW n \in Nat, NEW S \in SUBSET (0..n), S # {}
  PROVE  \E i \in S : \A j \in S : j <= i
<1>. DEFINE T == {n - i : i \in S}
<1>1. T \in SUBSET Nat /\ T # {}
  <2>1. \A i \in S : n - i \in Nat
    OBVIOUS
  <2>. QED  BY <2>1
<1>. HIDE DEF T
<1>2. PICK x \in T : \A y \in T : x <= y
  BY <1>1, HasFirst
<1>3. PICK i \in S : x = n - i
  BY <1>2 DEF T
<1>4. ASSUME NEW j \in S PROVE j <= i
  <2>1. n - j \in T
    BY DEF T
  <2>2. n - i <= n - j
    BY <1>2, <1>3, <2>1
  <2>. QED  BY <2>2
<1>. QED  BY <1>4

(* A text is cut at the delimiter after its first character. *)
LEMMA CutsAfter ==
  ASSUME NEW C, NEW a \in C, NEW d \in C, a # d, NEW rest \in Seq(C)
  PROVE  splitByEx(d, <<a, d>> \o rest) = <<<<a>>, rest>>
<1>. DEFINE text == <<a, d>> \o rest
            Is(j) == /\ \A k \in 1..(j - 1) : text[k] \notin {d}
                     /\ j <= Len(text) => text[j] \in {d}
            p == CHOOSE j \in 1..(Len(text) + 1) : Is(j)
<1>1. /\ text \in Seq(C) /\ Len(text) = Len(rest) + 2 /\ Len(rest) \in Nat
      /\ text[1] = a /\ text[2] = d
      /\ \A i \in 1..Len(rest) : text[i + 2] = rest[i]
  OBVIOUS
<1>. HIDE DEF text
<1>2. 2 \in 1..(Len(text) + 1) /\ Is(2)
  <2>1. \A k \in 1..(2 - 1) : k = 1
    OBVIOUS
  <2>. QED  BY <1>1, <2>1
<1>3. \A j \in 1..(Len(text) + 1) : Is(j) => j = 2
  <2>. SUFFICES ASSUME NEW j \in 1..(Len(text) + 1), Is(j), j # 2 PROVE FALSE
    OBVIOUS
  <2>1. CASE j = 1
    BY <1>1, <2>1
  <2>2. CASE j > 2
    <3>1. 2 \in 1..(j - 1)
      BY <1>1, <2>2
    <3>. QED  BY <1>1, <3>1
  <2>. QED  BY <1>1, <2>1, <2>2
<1>4. p = 2
  <2>. HIDE DEF Is
  <2>1. p \in 1..(Len(text) + 1) /\ Is(p)
    BY <1>2
  <2>. HIDE DEF p
  <2>. QED  BY <1>3, <2>1
<1>5. splitByEx(d, text) = IF text = <<>> THEN <<>>
                           ELSE IF p > Len(text) THEN <<text>>
                           ELSE <<SubSeq(text, 1, p - 1),
                                  SubSeq(text, p + 1, Len(text))>>
  BY Zenon DEF splitByEx, Find
<1>. HIDE DEF p
<1>6. text # <<>> /\ ~ (p > Len(text))
  BY <1>1, <1>4
<1>7. SubSeq(text, 1, p - 1) = <<a>>
  <2>1. p - 1 = 1 /\ 1 \in 1..Len(text)
    BY <1>1, <1>4
  <2>2. SubSeq(text, 1, 1) = <<text[1]>>
    <3>. DEFINE s == SubSeq(text, 1, 1)
    <3>1. s \in Seq(C) /\ Len(s) = 1 /\ s[1] = text[1]
      BY <1>1
    <3>. HIDE DEF s
    <3>. DEFINE x == <<a>>
    <3>3. x \in Seq(C) /\ Len(x) = 1 /\ x[1] = a
      OBVIOUS
    <3>. HIDE DEF x
    <3>4. Len(s) = Len(x) /\ \A i \in 1..Len(s) : s[i] = x[i]
      BY <1>1, <3>1, <3>3
    <3>5. s = x
      BY <3>1, <3>3, <3>4, SeqEqual
    <3>. QED  BY <1>1, <3>5, Zenon DEF s, x
  <2>. QED  BY <1>1, <2>1, <2>2
<1>8. SubSeq(text, p + 1, Len(text)) = rest
  <2>. DEFINE s == SubSeq(text, 3, Len(text))
              n == Len(rest)
  <2>1. n \in Nat /\ Len(text) = n + 2
    BY <1>1
  <2>2. s \in Seq(C) /\ Len(s) = n /\ \A i \in 1..n : s[i] = text[i + 2]
    BY <1>1, <2>1
  <2>. HIDE DEF s
  <2>3. \A i \in 1..Len(s) : s[i] = rest[i]
    BY <1>1, <2>2
  <2>4. s = rest
    BY <2>2, <2>3, SeqEqual
  <2>. QED  BY <1>4, <2>4 DEF s
<1>9. splitByEx(d, text) = <<<<a>>, rest>>
  BY <1>5, <1>6, <1>7, <1>8, Zenon
<1>. QED  BY <1>9 DEF text

(* trimEx takes the first word, all of the text but blanks at its beginning if
   there are no others. *)
LEMMA TrimIs ==
  ASSUME NEW C, NEW text \in Seq(C), NEW i \in 1..Len(text),
         \A k \in 1..(i - 1) : text[k] = Space,
         text[i] # Space
  PROVE  /\ trimEx(text) # <<>>
         /\ (\A k \in i..Len(text) : text[k] # Space)
               => trimEx(text) = SubSeq(text, i, Len(text))
<1>. DEFINE n == Len(text)
            Skipped(j) == /\ \A k \in 1..(j - 1) : text[k] \in {Space}
                          /\ j <= n => text[j] \notin {Space}
            Ends(a, j) == /\ \A k \in a..(j - 1) : text[k] \notin {Space}
                          /\ j <= n => text[j] \in {Space}
            s == CHOOSE j \in 1..(n + 1) : Skipped(j)
            z == CHOOSE j \in s..(n + 1) : Ends(s, j)
<1>1. trimEx(text) = SubSeq(text, s, z - 1)
  BY Zenon DEF trimEx, Skip, Find, Space
<1>2. n \in Nat /\ i \in 1..n
  OBVIOUS
<1>. HIDE DEF n
<1>3. i \in 1..(n + 1) /\ Skipped(i)
  BY <1>2
<1>4. ASSUME NEW j \in 1..(n + 1), Skipped(j) PROVE j = i
  <2>1. CASE j < i
    <3>1. j \in 1..(i - 1) /\ j <= n
      BY <1>2, <2>1
    <3>2. text[j] = Space
      BY <3>1
    <3>. QED  BY <1>4, <3>1, <3>2
  <2>2. CASE j > i
    <3>1. i \in 1..(j - 1)
      BY <1>2, <2>2
    <3>. QED  BY <1>4, <3>1
  <2>. QED  BY <1>2, <2>1, <2>2
<1>5. s = i
  <2>. HIDE DEF Skipped
  <2>1. s \in 1..(n + 1) /\ Skipped(s)
    BY <1>3
  <2>. HIDE DEF s
  <2>. QED  BY <1>4, <2>1
<1>6. z = CHOOSE j \in i..(n + 1) : Ends(i, j)
  <2>. HIDE DEF s, Ends
  <2>. QED  BY <1>5, Zenon
<1>. HIDE DEF z, s
<1>7. z \in i..(n + 1) /\ Ends(i, z)
  <2>. DEFINE S == {j \in i..(n + 1) : j <= n => text[j] \in {Space}}
  <2>1. n + 1 \in S /\ S \in SUBSET Nat
    BY <1>2
  <2>. HIDE DEF S
  <2>2. PICK j \in S : \A k \in S : j <= k
    BY <2>1, HasFirst
  <2>3. j \in i..(n + 1) /\ (j <= n => text[j] \in {Space})
    BY <2>2 DEF S
  <2>4. ASSUME NEW k \in i..(j - 1) PROVE text[k] \notin {Space}
    <3>1. k \in i..(n + 1) /\ k <= n /\ ~ (j <= k)
      BY <1>2, <2>3
    <3>2. k \notin S
      BY <2>2, <3>1
    <3>. QED  BY <3>1, <3>2 DEF S
  <2>5. Ends(i, j)
    BY <2>3, <2>4
  <2>. HIDE DEF Ends
  <2>. QED  BY <1>6, <2>3, <2>5
<1>8. z # i
  BY <1>2, <1>7
<1>9. z - 1 \in i..n
  BY <1>2, <1>7, <1>8
<1>10. trimEx(text) # <<>>
  <2>1. \A k \in i..(z - 1) : text[k] \in C
    BY <1>2, <1>9 DEF n
  <2>2. Len(SubSeq(text, i, z - 1)) = (z - 1) - i + 1
    <3>1. i \in Int /\ z - 1 \in Int /\ i <= z - 1
      BY <1>2, <1>9
    <3>. QED  BY <2>1, <3>1, SubSeqProperties
  <2>3. (z - 1) - i + 1 # 0
    BY <1>2, <1>9
  <2>4. Len(<<>>) = 0
    OBVIOUS
  <2>. QED  BY <1>1, <1>5, <2>2, <2>3, <2>4, Zenon
<1>11. ASSUME \A k \in i..n : text[k] # Space
       PROVE  trimEx(text) = SubSeq(text, i, n)
  <2>1. ~ (z <= n)
    BY <1>2, <1>7, <1>11
  <2>2. z - 1 = n
    BY <1>2, <1>7, <1>9, <2>1
  <2>. QED  BY <1>1, <1>5, <2>2
<1>. QED  BY <1>10, <1>11 DEF n

(* The name and the value of a header. *)
LEMMA TrimsOne ==
  ASSUME NEW C, NEW w \in C, w # Space
  PROVE  trimEx(<<w>>) = <<w>>
<1>. DEFINE text == <<w>>
<1>1. text \in Seq(C) /\ Len(text) = 1 /\ text[1] = w /\ 1 \in 1..Len(text)
  OBVIOUS
<1>. HIDE DEF text
<1>2. /\ \A k \in 1..(1 - 1) : text[k] = Space
      /\ \A k \in 1..Len(text) : text[k] # Space
  BY <1>1
<1>3. trimEx(text) = SubSeq(text, 1, Len(text))
  BY <1>1, <1>2, TrimIs
<1>4. SubSeq(text, 1, Len(text)) = text
  BY <1>1
<1>. QED  BY <1>3, <1>4 DEF text

LEMMA TrimsValue ==
  ASSUME NEW C, Space \in C, NEW v \in Seq(C), v # <<>>, v[1] # Space
  PROVE  /\ trimEx(<<Space>> \o v) # <<>>
         /\ (\A k \in 1..Len(v) : v[k] # Space) => trimEx(<<Space>> \o v) = v
<1>. DEFINE text == <<Space>> \o v
            n == Len(v)
<1>1. /\ n \in Nat \ {0} /\ text \in Seq(C) /\ Len(text) = n + 1
      /\ text[1] = Space /\ \A k \in 1..n : text[k + 1] = v[k]
  OBVIOUS
<1>. HIDE DEF text
<1>2. /\ 2 \in 1..Len(text) /\ text[2] # Space
      /\ \A k \in 1..(2 - 1) : text[k] = Space
  <2>1. 1 \in 1..n
    BY <1>1
  <2>2. text[1 + 1] = v[1]
    BY <1>1, <2>1
  <2>. QED  BY <1>1, <2>2
<1>3. /\ trimEx(text) # <<>>
      /\ (\A k \in 2..Len(text) : text[k] # Space)
            => trimEx(text) = SubSeq(text, 2, Len(text))
  BY <1>1, <1>2, TrimIs
<1>4. ASSUME \A k \in 1..Len(v) : v[k] # Space PROVE trimEx(text) = v
  <2>1. ASSUME NEW k \in 2..Len(text) PROVE text[k] # Space
    <3>1. k - 1 \in 1..n /\ (k - 1) + 1 = k
      BY <1>1
    <3>2. text[(k - 1) + 1] = v[k - 1] /\ v[k - 1] # Space
      BY <1>1, <1>4, <3>1
    <3>. QED  BY <3>1, <3>2
  <2>. DEFINE s == SubSeq(text, 2, Len(text))
  <2>2. s \in Seq(C) /\ Len(s) = n /\ \A k \in 1..n : s[k] = text[k + 1]
    BY <1>1
  <2>. HIDE DEF s
  <2>3. \A k \in 1..Len(s) : s[k] = v[k]
    BY <1>1, <2>2
  <2>4. s = v
    BY <2>2, <2>3, SeqEqual
  <2>. QED  BY <1>3, <2>1, <2>4 DEF s
<1>. QED  BY <1>3, <1>4 DEF text
-----------------------------------------------------------------------------
(* The lines that are made of a first line and headers *)

Names == {HeaderOrder[k] : k \in 1..Len(HeaderOrder)}
HeaderLine(h, n) == n \o <<":", Space>> \o h[n]

\* L has this first line, and then only lines of headers in D, among them one
\* for each name in J
HasLines(L, C, first, h, D, J) ==
    /\ L \in Seq(Seq(C)) /\ Len(L) >= 1 /\ L[1] = first
    /\ \A i \in 2..Len(L) : \E n \in D : L[i] = HeaderLine(h, n)
    /\ \A n \in J : \E i \in 2..Len(L) : L[i] = HeaderLine(h, n)

(* A line is added for a name. *)
LEMMA LineAdded ==
  ASSUME NEW C, NEW first, NEW h, NEW D, NEW J, NEW L,
         HasLines(L, C, first, h, D, J),
         NEW n \in D, HeaderLine(h, n) \in Seq(C)
  PROVE  HasLines(Append(L, HeaderLine(h, n)), C, first, h, D, J \cup {n})
<1>. DEFINE x == HeaderLine(h, n)
            M == Append(L, x)
<1>1. /\ L \in Seq(Seq(C)) /\ Len(L) >= 1 /\ L[1] = first
      /\ \A i \in 2..Len(L) : \E m \in D : L[i] = HeaderLine(h, m)
      /\ \A m \in J : \E i \in 2..Len(L) : L[i] = HeaderLine(h, m)
  BY DEF HasLines
<1>2. /\ M \in Seq(Seq(C)) /\ Len(M) = Len(L) + 1 /\ M[Len(L) + 1] = x
      /\ \A i \in 1..Len(L) : M[i] = L[i]
  <2>. HIDE DEF x
  <2>. QED  BY <1>1 DEF x
<1>. HIDE DEF M
<1>3. /\ Len(L) \in Nat /\ 1 \in 1..Len(L) /\ Len(L) + 1 \in 2..Len(M)
      /\ \A i \in 2..Len(L) : i \in 1..Len(L) /\ i \in 2..Len(M)
      /\ \A i \in 2..Len(M) : i \in 2..Len(L) \/ i = Len(L) + 1
  BY <1>1, <1>2
<1>4. M[1] = first /\ Len(M) >= 1
  BY <1>1, <1>2, <1>3
<1>5. ASSUME NEW i \in 2..Len(M) PROVE \E m \in D : M[i] = HeaderLine(h, m)
  BY <1>1, <1>2, <1>3, Zenon DEF x
<1>6. ASSUME NEW m \in J \cup {n}
      PROVE  \E i \in 2..Len(M) : M[i] = HeaderLine(h, m)
  <2>1. CASE m \in J
    BY <1>1, <1>2, <1>3, <2>1, Zenon
  <2>2. CASE m = n
    BY <1>2, <1>3, <2>2, Zenon DEF x
  <2>. QED  BY <2>1, <2>2
<1>7. HasLines(M, C, first, h, D, J \cup {n})
  BY <1>2, <1>4, <1>5, <1>6, Zenon DEF HasLines
<1>. QED  BY <1>7 DEF M, x

(* getLines writes a line for each header, and no others but the first. *)
LEMMA LinesMade ==
  ASSUME NEW C, Words(C), NEW first \in Seq(C), NEW D \in SUBSET Names,
         NEW h \in [D -> Seq(C)]
  PROVE  HasLines(getLines(first, h), C, first, h, D, D)
<1>. DEFINE line(n) == n \o <<":", " ">> \o h[n]
            ho == HeaderOrder
            z == Len(ho)
            base == <<first>>
            T == Seq(Seq(C))
            Is(f) == f = [k \in 0..z |->
                            IF k = 0 THEN base
                            ELSE IF ho[k] \notin DOMAIN h THEN f[k - 1]
                            ELSE Append(f[k - 1], line(ho[k]))]
            g == CHOOSE f : Is(f)
            step == [k \in 1..z |-> [s \in T |->
                        IF ho[k] \notin DOMAIN h THEN s
                        ELSE Append(s, line(ho[k]))]]
<1>1. getLines(first, h) = g[z]
  BY Zenon DEF getLines
<1>2. z = 4 /\ z \in Nat /\ DOMAIN h = D
  BY DEF HeaderOrder
<1>3. \A n : line(n) = HeaderLine(h, n)
  BY Zenon DEF HeaderLine, Space
<1>4. \A n \in D : line(n) \in Seq(C)
  <2>1. ":" \in C /\ "dig" \in C /\ "error" \in C /\ "from" \in C /\ "to" \in C
    BY Zenon DEF Words
  <2>2. Space \in C
    BY Zenon DEF Words, Space
  <2>3. Names = {<<"dig">>, <<"error">>, <<"from">>, <<"to">>}
    <3>1. 1..4 = {1, 2, 3, 4}
      OBVIOUS
    <3>. QED  BY <1>2, <3>1 DEF Names, HeaderOrder
  <2>4. \A n \in D : n \in Seq(C) /\ h[n] \in Seq(C)
    <3>1. \A c \in C : <<c>> \in Seq(C)
      OBVIOUS
    <3>2. ASSUME NEW n \in D PROVE n \in Seq(C)
      <4>1. n \in {<<"dig">>, <<"error">>, <<"from">>, <<"to">>}
        BY <2>3
      <4>. QED  BY <2>1, <3>1, <4>1, Zenon
    <3>3. \A n \in D : h[n] \in Seq(C)
      OBVIOUS
    <3>. QED  BY <3>2, <3>3
  <2>5. <<":", Space>> \in Seq(C)
    BY <2>1, <2>2
  <2>. DEFINE sep == <<":", Space>>
  <2>6. ASSUME NEW n \in D PROVE n \o sep \o h[n] \in Seq(C)
    <3>. HIDE DEF sep
    <3>. QED  BY <2>4, <2>5 DEF sep
  <2>. QED  BY <1>3, <2>6, Zenon DEF HeaderLine
<1>. HIDE DEF line, z, ho
<1>5. base \in T /\ HasLines(base, C, first, h, D, {})
  <2>1. base \in Seq(Seq(C)) /\ Len(base) = 1 /\ base[1] = first
    OBVIOUS
  <2>. HIDE DEF base
  <2>2. \A i \in 2..Len(base) : FALSE
    BY <2>1
  <2>3. Len(base) >= 1
    BY <2>1
  <2>. QED  BY <2>1, <2>2, <2>3 DEF HasLines
<1>. HIDE DEF base
<1>6. step \in [1..z -> [T -> T]]
  <2>1. ASSUME NEW k \in 1..z, NEW s \in T
        PROVE  (IF ho[k] \notin DOMAIN h THEN s
                ELSE Append(s, line(ho[k]))) \in T
    BY <1>2, <1>4
  <2>. HIDE DEF T
  <2>. QED  BY <2>1
<1>7. \A k \in 1..z, s \in T :
         step[k][s] = IF ho[k] \notin DOMAIN h THEN s
                      ELSE Append(s, line(ho[k]))
  BY Zenon
<1>. HIDE DEF step, T
<1>8. PICK f : Iterates(f, T, z, base, step)
  BY <1>2, <1>5, <1>6, Iterated
<1>9. \A k \in 1..z : k \in 0..z /\ k - 1 \in 0..z /\ k # 0
  BY <1>2
<1>10. \A k \in 0..z : k = 0 \/ k \in 1..z
  BY <1>2
<1>11. Is(f)
  <2>1. f = [k \in 0..z |-> f[k]]
    BY <1>8 DEF Iterates
  <2>2. \A k \in 1..z : f[k] = step[k][f[k - 1]] /\ f[k - 1] \in T
    BY <1>8, <1>9 DEF Iterates
  <2>3. \A k \in 1..z : f[k] = IF ho[k] \notin DOMAIN h THEN f[k - 1]
                               ELSE Append(f[k - 1], line(ho[k]))
    BY <1>7, <2>2, Zenon
  <2>4. \A k \in 0..z : f[k] = IF k = 0 THEN base
                               ELSE IF ho[k] \notin DOMAIN h THEN f[k - 1]
                               ELSE Append(f[k - 1], line(ho[k]))
    BY <1>8, <1>9, <1>10, <2>3, Zenon DEF Iterates
  <2>. QED  BY <2>1, <2>4, Zenon
<1>12. Is(g)
  <2>. HIDE DEF Is
  <2>. QED  BY <1>11
<1>. HIDE DEF g
<1>13. /\ g[0] = base
       /\ \A k \in 1..z : g[k] = IF ho[k] \notin DOMAIN h THEN g[k - 1]
                                 ELSE Append(g[k - 1], line(ho[k]))
  <2>1. 0 \in 0..z
    BY <1>2
  <2>. QED  BY <1>9, <1>12, <2>1, Zenon
<1>. HIDE DEF Is
<1>. DEFINE Done(k) == {ho[j] : j \in 1..k} \cap D
            S == {k \in 0..z : HasLines(g[k], C, first, h, D, Done(k))}
<1>14. 0 \in S
  <2>1. Done(0) = {} /\ 0 \in 0..z
    BY <1>2
  <2>. HIDE DEF Done
  <2>. QED  BY <1>5, <1>13, <2>1
<1>15. ASSUME NEW k \in 1..z, k - 1 \in S PROVE k \in S
  <2>1. HasLines(g[k - 1], C, first, h, D, Done(k - 1))
    BY <1>15
  <2>2. Done(k) = IF ho[k] \in D THEN Done(k - 1) \cup {ho[k]} ELSE Done(k - 1)
    <3>1. \A j : j \in 1..k <=> j \in 1..(k - 1) \/ j = k
      BY <1>2
    <3>. QED  BY <3>1
  <2>. HIDE DEF Done
  <2>3. CASE ho[k] \in D
    <3>1. g[k] = Append(g[k - 1], HeaderLine(h, ho[k]))
      BY <1>2, <1>3, <1>13, <2>3, Zenon
    <3>2. HeaderLine(h, ho[k]) \in Seq(C)
      BY <1>3, <1>4, <2>3, Zenon
    <3>3. HasLines(g[k], C, first, h, D, Done(k))
      <4>. DEFINE L == g[k - 1]
                  n == ho[k]
                  J == Done(k - 1)
      <4>1. HasLines(L, C, first, h, D, J) /\ n \in D /\ HeaderLine(h, n) \in Seq(C)
        BY <2>1, <2>3, <3>2
      <4>2. g[k] = Append(L, HeaderLine(h, n)) /\ Done(k) = J \cup {n}
        BY <2>2, <2>3, <3>1
      <4>. HIDE DEF L, n, J
      <4>3. HasLines(Append(L, HeaderLine(h, n)), C, first, h, D, J \cup {n})
        BY <4>1, LineAdded
      <4>. QED  BY <4>2, <4>3, Zenon
    <3>. QED  BY <1>9, <3>3
  <2>4. CASE ho[k] \notin D
    <3>1. g[k] = g[k - 1] /\ Done(k) = Done(k - 1)
      BY <1>2, <1>13, <2>2, <2>4, Zenon
    <3>. QED  BY <1>9, <2>1, <3>1
  <2>. QED  BY <2>3, <2>4
<1>16. z \in S
  <2>. HIDE DEF S
  <2>1. z \in 0..z
    BY <1>2
  <2>. QED  BY <1>2, <1>14, <1>15, <2>1, Counting
<1>17. Done(z) = D
  BY DEF Names, z, ho
<1>. QED  BY <1>1, <1>16, <1>17

(* What is sent as the name and the value of a header is read as such. *)
LEMMA NamesAre ==
  ASSUME NEW C, Words(C)
  PROVE  \A n \in Names : \E w \in C : /\ n = <<w>> /\ w # Space /\ w # ":"
                                      /\ w \notin {CR, LF, NUL}
<1>1. "dig" \in C /\ "error" \in C /\ "from" \in C /\ "to" \in C
  BY Zenon DEF Words
<1>2. Names = {<<"dig">>, <<"error">>, <<"from">>, <<"to">>}
  <2>1. 1..4 = {1, 2, 3, 4}
    OBVIOUS
  <2>2. Len(HeaderOrder) = 4
    BY DEF HeaderOrder
  <2>. QED  BY <2>1, <2>2 DEF Names, HeaderOrder
<1>3. /\ "dig" # Space /\ "error" # Space /\ "from" # Space /\ "to" # Space
  BY Zenon DEF Space
<1>4. "dig" # ":" /\ "error" # ":" /\ "from" # ":" /\ "to" # ":"
  OBVIOUS
<1>5. {"dig", "error", "from", "to"} \cap {CR, LF, NUL} = {}
  BY Zenon DEF CR, LF, NUL
<1>. QED  BY <1>1, <1>2, <1>3, <1>4, <1>5, Zenon

LEMMA HeaderCut ==
  ASSUME NEW C, Words(C), NEW n \in Names, NEW h, h[n] \in Seq(C)
  PROVE  /\ splitByEx(":", HeaderLine(h, n)) = <<n, <<Space>> \o h[n]>>
         /\ trimEx(n) = n /\ n # <<>>
<1>. DEFINE v == h[n]
            colon == ":"
<1>1. PICK w \in C : n = <<w>> /\ w # Space /\ w # colon
  BY NamesAre
<1>2. colon \in C /\ Space \in C
  BY Zenon DEF Words, Space
<1>. HIDE DEF colon, v
<1>3. n \o <<colon, Space>> \o v = <<w, colon>> \o (<<Space>> \o v)
  <2>. DEFINE x == n \o <<colon, Space>> \o v
              y == <<w, colon>> \o (<<Space>> \o v)
  <2>0. v \in Seq(C) /\ Len(v) \in Nat
    BY DEF v
  <2>1. /\ x \in Seq(C) /\ Len(x) = Len(v) + 3
        /\ x[1] = w /\ x[2] = colon /\ x[3] = Space
        /\ \A i \in 1..Len(v) : x[i + 3] = v[i]
    BY <1>1, <1>2, <2>0
  <2>2. /\ y \in Seq(C) /\ Len(y) = Len(v) + 3
        /\ y[1] = w /\ y[2] = colon /\ y[3] = Space
        /\ \A i \in 1..Len(v) : y[i + 3] = v[i]
    BY <1>1, <1>2, <2>0
  <2>. HIDE DEF x, y
  <2>3. ASSUME NEW i \in 1..Len(x) PROVE x[i] = y[i]
    <3>1. i = 1 \/ i = 2 \/ i = 3 \/ (i - 3 \in 1..Len(v) /\ (i - 3) + 3 = i)
      BY <2>0, <2>1
    <3>2. CASE i - 3 \in 1..Len(v) /\ (i - 3) + 3 = i
      <4>1. x[(i - 3) + 3] = v[i - 3] /\ y[(i - 3) + 3] = v[i - 3]
        BY <2>1, <2>2, <3>2
      <4>. QED  BY <3>2, <4>1
    <3>. QED  BY <2>1, <2>2, <3>1, <3>2
  <2>4. x = y
    BY <2>1, <2>2, <2>3, SeqEqual
  <2>. QED  BY <2>4 DEF x, y
<1>4. <<Space>> \o v \in Seq(C)
  BY <1>2 DEF v
<1>5. splitByEx(colon, <<w, colon>> \o (<<Space>> \o v))
         = <<<<w>>, <<Space>> \o v>>
  BY <1>1, <1>2, <1>4, CutsAfter
<1>6. splitByEx(":", HeaderLine(h, n)) = <<n, <<Space>> \o h[n]>>
  BY <1>1, <1>3, <1>5, Zenon DEF HeaderLine, colon, v
<1>7. trimEx(n) = n /\ n # <<>>
  BY <1>1, TrimsOne
<1>. QED  BY <1>6, <1>7

(* The headers that are read are those that were written, each value up to its
   first blank. *)
LEMMA HeadersRead ==
  ASSUME NEW C, Words(C), NEW first, NEW D \in SUBSET Names,
         NEW h \in [D -> Seq(C)], NEW L, HasLines(L, C, first, h, D, D),
         \A n \in D : h[n] # <<>> /\ h[n][1] # Space
  PROVE  HeadersIn(L) = [error |-> -1,
                         headers |-> [n \in D |-> trimEx(<<Space>> \o h[n])]]
<1>. DEFINE z == Len(L)
            bad == {i \in 2..z : ~ IsHeader(L[i])}
            Is(e) == /\ bad \cap 2..(e - 1) = {}
                     /\ e <= z => e \in bad
            end == CHOOSE e \in 2..(z + 1) : Is(e)
            name(i) == trimEx(splitByEx(":", L[i])[1])
            Last(n, i) == /\ name(i) = n
                          /\ \A j \in (i + 1)..(end - 1) : name(j) # n
            last(n) == CHOOSE i \in 2..(end - 1) : Last(n, i)
            value(i) == trimEx(splitByEx(":", L[i])[2])
<1>1. HeadersIn(L) =
         [error |-> IF end > z THEN -1 ELSE end - 1,
          headers |-> [n \in {name(i) : i \in 2..(end - 1)} |-> value(last(n))]]
  BY Zenon DEF HeadersIn
<1>2. /\ z \in Nat /\ z >= 1
      /\ \A i \in 2..z : \E n \in D : L[i] = HeaderLine(h, n)
      /\ \A n \in D : \E i \in 2..z : L[i] = HeaderLine(h, n)
  BY DEF HasLines
<1>3. ASSUME NEW i \in 2..z, NEW n \in D, L[i] = HeaderLine(h, n)
      PROVE  /\ name(i) = n /\ value(i) = trimEx(<<Space>> \o h[n])
             /\ IsHeader(L[i])
  <2>. DEFINE t == <<Space>> \o h[n]
              parts == splitByEx(":", L[i])
  <2>1. n \in Names /\ h[n] \in Seq(C) /\ h[n] # <<>> /\ h[n][1] # Space
    OBVIOUS
  <2>2. parts = <<n, t>> /\ trimEx(n) = n /\ n # <<>>
    BY <1>3, <2>1, HeaderCut
  <2>3. trimEx(t) # <<>>
    <3>1. " " \in C \/ Space \in C
      BY Zenon DEF Words
    <3>. QED  BY <2>1, <3>1, TrimsValue, Zenon DEF Words, Space
  <2>. HIDE DEF t, parts
  <2>4. parts[1] = n /\ parts[2] = t /\ Len(parts) = 2
    BY <2>2
  <2>. QED  BY <2>2, <2>3, <2>4, Zenon DEF IsHeader, parts, t
<1>. HIDE DEF z, name, value
<1>4. bad = {}
  BY <1>2, <1>3, Zenon
<1>. HIDE DEF bad
<1>5. end = z + 1
  <2>1. z + 1 \in 2..(z + 1) /\ Is(z + 1)
    BY <1>2, <1>4
  <2>2. ASSUME NEW e \in 2..(z + 1), Is(e) PROVE e = z + 1
    BY <1>2, <1>4, <2>2
  <2>. HIDE DEF Is
  <2>3. end \in 2..(z + 1) /\ Is(end)
    BY <2>1
  <2>. HIDE DEF end
  <2>. QED  BY <2>2, <2>3
<1>. HIDE DEF end
<1>6. end - 1 = z /\ end > z
  BY <1>2, <1>5
<1>7. {name(i) : i \in 2..(end - 1)} = D
  <2>1. \A i \in 2..z : name(i) \in D
    BY <1>2, <1>3, Zenon
  <2>2. \A n \in D : \E i \in 2..z : name(i) = n
    BY <1>2, <1>3, Zenon
  <2>3. {name(i) : i \in 2..z} = D
    BY <2>1, <2>2, Zenon
  <2>. QED  BY <1>6, <2>3, Zenon
<1>8. ASSUME NEW n \in D PROVE last(n) \in 2..z /\ name(last(n)) = n
  <2>. DEFINE S == {i \in 2..z : name(i) = n}
  <2>1. S \in SUBSET (0..z) /\ S # {}
    <3>1. \A i \in 2..z : i \in 0..z
      BY <1>2
    <3>2. \E i \in 2..z : name(i) = n
      BY <1>2, <1>3, Zenon
    <3>. QED  BY <3>1, <3>2, Zenon
  <2>. HIDE DEF S
  <2>2. PICK i \in S : \A j \in S : j <= i
    BY <1>2, <2>1, HasLast
  <2>3. i \in 2..z /\ name(i) = n
    BY <2>2 DEF S
  <2>4. \A j \in (i + 1)..z : j \in 2..z /\ ~ (j <= i)
    BY <1>2, <2>3
  <2>5. \A j \in (i + 1)..z : name(j) # n
    BY <2>2, <2>4, Zenon DEF S
  <2>6. i \in 2..(end - 1) /\ Last(n, i)
    BY <1>6, <2>3, <2>5, Zenon
  <2>. HIDE DEF Last
  <2>7. last(n) \in 2..(end - 1) /\ Last(n, last(n))
    BY <2>6
  <2>. HIDE DEF last
  <2>. QED  BY <1>6, <2>7, Zenon DEF Last
<1>9. ASSUME NEW n \in D PROVE value(last(n)) = trimEx(<<Space>> \o h[n])
  <2>. DEFINE i == last(n)
  <2>1. i \in 2..z /\ name(i) = n
    BY <1>8
  <2>. HIDE DEF last, i
  <2>2. PICK m \in D : L[i] = HeaderLine(h, m)
    BY <1>2, <2>1, Zenon
  <2>3. name(i) = m /\ value(i) = trimEx(<<Space>> \o h[m])
    BY <1>3, <2>1, <2>2
  <2>4. m = n
    BY <2>1, <2>3, Zenon
  <2>. QED  BY <2>3, <2>4, Zenon DEF i
<1>. HIDE DEF last
<1>10. [n \in D |-> value(last(n))] = [n \in D |-> trimEx(<<Space>> \o h[n])]
  BY <1>9, Zenon
<1>. QED  BY <1>1, <1>6, <1>7, <1>10, Zenon
-----------------------------------------------------------------------------
(* The words of the first line *)

\* the last word is one character longer
Grown(before, x) == [before EXCEPT ![Len(before)] = Append(@, x)]

\* what the n-th character does to the words before it
Word(before, text, n) ==
    IF text[n] \in Blanks THEN before
    ELSE IF n = 1 \/ text[n - 1] \in Blanks THEN Append(before, <<text[n]>>)
    ELSE Grown(before, text[n])

Splits(f, C, text) ==
    /\ f \in [0..Len(text) -> Seq(Seq(C))] /\ f[0] = <<>>
    /\ \A n \in 1..Len(text) : f[n] = Word(f[n - 1], text, n)

(* A character added to the last word. *)
LEMMA WordGrows ==
  ASSUME NEW C, NEW b \in Seq(Seq(C)), b # <<>>, NEW x \in C
  PROVE  LET g == Grown(b, x)
         IN  /\ g \in Seq(Seq(C)) /\ Len(g) = Len(b)
             /\ g[Len(b)] = Append(b[Len(b)], x)
             /\ \A i \in 1..(Len(b) - 1) : g[i] = b[i]
<1>. DEFINE n == Len(b)
            g == [b EXCEPT ![n] = Append(@, x)]
<1>1. n \in Nat \ {0} /\ n \in 1..n /\ b \in [1..n -> Seq(C)]
  OBVIOUS
<1>. HIDE DEF n
<1>2. Append(b[n], x) \in Seq(C)
  BY <1>1
<1>3. /\ g \in [1..n -> Seq(C)] /\ g[n] = Append(b[n], x)
      /\ \A i \in 1..(n - 1) : g[i] = b[i]
  BY <1>1, <1>2
<1>. HIDE DEF g
<1>4. g \in Seq(Seq(C)) /\ Len(g) = n
  BY <1>1, <1>3
<1>5. Grown(b, x) = g
  BY Zenon DEF Grown, g, n
<1>. QED  BY <1>3, <1>4, <1>5, Zenon DEF n

LEMMA WordTyped ==
  ASSUME NEW C, NEW text \in Seq(C), NEW n \in 1..Len(text),
         NEW b \in Seq(Seq(C))
  PROVE  Word(b, text, n) \in Seq(Seq(C))
<1>1. text[n] \in C /\ <<text[n]>> \in Seq(C)
  OBVIOUS
<1>2. Append(b, <<text[n]>>) \in Seq(Seq(C))
  BY <1>1
<1>3. Grown(b, text[n]) \in Seq(Seq(C))
  <2>1. CASE b = <<>>
    <3>1. Len(b) \notin DOMAIN b
      BY <2>1
    <3>2. [b EXCEPT ![Len(b)] = Append(@, text[n])] = b
      BY <2>1, <3>1
    <3>. QED  BY <3>2, Zenon DEF Grown
  <2>2. CASE b # <<>>
    BY <1>1, <2>2, WordGrows
  <2>. QED  BY <2>1, <2>2
<1>. QED  BY <1>2, <1>3, Zenon DEF Word

(* split collects the words character by character. *)
LEMMA SplitWords ==
  ASSUME NEW C, NEW text \in Seq(C)
  PROVE  \E f : Splits(f, C, text) /\ split(text) = f[Len(text)]
<1>. DEFINE z == Len(text)
            T == Seq(Seq(C))
            base == <<>>
            Is(f) == f = [n \in 0..z |-> IF n = 0 THEN base
                                         ELSE Word(f[n - 1], text, n)]
            g == CHOOSE f : Is(f)
            step == [n \in 1..z |-> [b \in T |-> Word(b, text, n)]]
<1>1. split(text) = g[z]
  BY Zenon DEF split, Word, Grown
<1>2. z \in Nat /\ base \in T
  OBVIOUS
<1>3. \A n \in 1..z, b \in T : Word(b, text, n) \in T
  BY WordTyped
<1>. HIDE DEF z, T, base
<1>4. step \in [1..z -> [T -> T]]
  BY <1>3
<1>5. \A n \in 1..z, b \in T : step[n][b] = Word(b, text, n)
  BY Zenon
<1>. HIDE DEF step
<1>6. PICK f : Iterates(f, T, z, base, step)
  BY <1>2, <1>4, Iterated
<1>7. \A n \in 1..z : n \in 0..z /\ n - 1 \in 0..z /\ n # 0
  BY <1>2
<1>8. \A n \in 0..z : n = 0 \/ n \in 1..z
  BY <1>2
<1>9. f \in [0..z -> T] /\ f[0] = base /\ f = [n \in 0..z |-> f[n]]
  BY <1>6 DEF Iterates
<1>10. \A n \in 1..z : f[n] = Word(f[n - 1], text, n)
  <2>1. \A n \in 1..z : f[n] = step[n][f[n - 1]] /\ f[n - 1] \in T
    BY <1>6, <1>7 DEF Iterates
  <2>. QED  BY <1>5, <2>1, Zenon
<1>11. Is(f)
  <2>1. \A n \in 0..z : f[n] = IF n = 0 THEN base ELSE Word(f[n - 1], text, n)
    BY <1>7, <1>8, <1>9, <1>10, Zenon
  <2>. QED  BY <1>9, <2>1, Zenon
<1>12. Is(g)
  <2>. HIDE DEF Is
  <2>. QED  BY <1>11
<1>. HIDE DEF g
<1>13. /\ g[0] = base /\ DOMAIN g = 0..z
       /\ \A n \in 1..z : g[n] = Word(g[n - 1], text, n)
  <2>1. 0 \in 0..z
    BY <1>2
  <2>. QED  BY <1>7, <1>12, <2>1, Zenon
<1>14. g \in [0..z -> T]
  <2>. DEFINE S == {n \in 0..z : g[n] \in T}
  <2>1. 0 \in S
    BY <1>2, <1>13
  <2>2. ASSUME NEW n \in 1..z, n - 1 \in S PROVE n \in S
    BY <1>3, <1>7, <1>13, <2>2, Zenon
  <2>. HIDE DEF S
  <2>3. 0..z \subseteq S
    BY <1>2, <2>1, <2>2, Counting
  <2>4. \A n \in 0..z : g[n] \in T
    BY <2>3 DEF S
  <2>5. g = [n \in 0..z |-> g[n]]
    BY <1>12, <1>13, Zenon
  <2>. QED  BY <2>4, <2>5
<1>. QED  BY <1>1, <1>13, <1>14, Zenon DEF Splits, z, T, base

(* There is a word once there has been a character that is not a blank. *)
LEMMA SplitStarts ==
  ASSUME NEW C, NEW text \in Seq(C), NEW f, Splits(f, C, text),
         NEW n \in 1..Len(text), text[n] \notin Blanks
  PROVE  f[n] # <<>>
<1>. DEFINE z == Len(text)
            S == {m \in 0..z : m = 0 \/ text[m] \in Blanks \/ f[m] # <<>>}
<1>1. /\ z \in Nat /\ f \in [0..z -> Seq(Seq(C))]
      /\ \A m \in 1..z : f[m] = Word(f[m - 1], text, m) /\ text[m] \in C
  BY DEF Splits
<1>2. 0 \in S
  BY <1>1
<1>. HIDE DEF z
<1>3. ASSUME NEW m \in 1..z, m - 1 \in S PROVE m \in S
  <2>0. m \in 0..z
    BY <1>1
  <2>. SUFFICES ASSUME text[m] \notin Blanks PROVE f[m] # <<>>
    BY <2>0, Zenon
  <2>. DEFINE b == f[m - 1]
              x == text[m]
  <2>1. b \in Seq(Seq(C)) /\ x \in C /\ <<x>> \in Seq(C) /\ f[m] = Word(b, text, m)
    <3>1. m - 1 \in 0..z
      BY <1>1
    <3>. QED  BY <1>1, <3>1
  <2>2. CASE m = 1 \/ text[m - 1] \in Blanks
    <3>1. f[m] = Append(b, <<x>>)
      BY <2>1, <2>2, Zenon DEF Word
    <3>. HIDE DEF b, x
    <3>2. Append(b, <<x>>) # <<>>
      BY <2>1
    <3>. QED  BY <3>1, <3>2
  <2>3. CASE ~ (m = 1 \/ text[m - 1] \in Blanks)
    <3>1. f[m] = Grown(b, x)
      BY <2>1, <2>3, Zenon DEF Word
    <3>2. b # <<>>
      <4>1. m - 1 # 0
        BY <1>1, <2>3
      <4>. QED  BY <1>3, <2>3, <4>1
    <3>. HIDE DEF b, x
    <3>3. Len(f[m]) = Len(b) /\ Len(b) # 0
      BY <2>1, <3>1, <3>2, WordGrows
    <3>4. Len(<<>>) = 0
      OBVIOUS
    <3>. QED  BY <3>3, <3>4, Zenon
  <2>. QED  BY <2>2, <2>3
<1>4. 0..z \subseteq S
  <2>. HIDE DEF S
  <2>. QED  BY <1>1, <1>2, <1>3, Counting
<1>5. n \in 0..z /\ n # 0
  BY <1>1 DEF z
<1>. QED  BY <1>4, <1>5

\* w stays before the words b when x is added to them
StaysFirst(w, b, x) ==
    /\ Append(<<w>> \o b, <<x>>) = <<w>> \o Append(b, <<x>>)
    /\ b # <<>> => Grown(<<w>> \o b, x) = <<w>> \o Grown(b, x)

(* What is added to the words after a first one leaves that as it is. *)
LEMMA ExtendsFirst ==
  ASSUME NEW C, NEW w \in Seq(C), NEW b \in Seq(Seq(C)), NEW x \in C
  PROVE  StaysFirst(w, b, x)
<1>. DEFINE T == Seq(C)
            c == <<w>> \o b
            n == Len(b)
            y == <<x>>
<1>1. y \in T /\ w \in T /\ b \in Seq(T)
  OBVIOUS
<1>. HIDE DEF T, y
<1>2. /\ n \in Nat /\ c \in Seq(T) /\ Len(c) = n + 1 /\ c[1] = w
      /\ \A i \in 1..n : c[i + 1] = b[i]
  BY <1>1
<1>3. Append(c, y) = <<w>> \o Append(b, y)
  <2>. DEFINE p == Append(c, y)
              d == Append(b, y)
              q == <<w>> \o d
  <2>1. /\ d \in Seq(T) /\ Len(d) = n + 1 /\ d[n + 1] = y
        /\ \A i \in 1..n : d[i] = b[i]
    BY <1>1
  <2>. HIDE DEF d, c
  <2>2. /\ p \in Seq(T) /\ Len(p) = n + 2 /\ p[n + 2] = y
        /\ \A i \in 1..(n + 1) : p[i] = c[i]
    BY <1>1, <1>2
  <2>3. /\ q \in Seq(T) /\ Len(q) = n + 2 /\ q[1] = w
        /\ \A i \in 1..(n + 1) : q[i + 1] = d[i]
    BY <1>1, <1>2, <2>1
  <2>. HIDE DEF p, q, n
  <2>4. ASSUME NEW i \in 1..(n + 2) PROVE p[i] = q[i]
    <3>1. CASE i = 1
      BY <1>2, <2>2, <2>3, <3>1
    <3>2. CASE i = n + 2
      <4>1. n + 1 \in 1..(n + 1) /\ (n + 1) + 1 = n + 2
        BY <1>2
      <4>2. q[(n + 1) + 1] = d[n + 1]
        BY <2>3, <4>1, Zenon
      <4>. QED  BY <2>1, <2>2, <3>2, <4>1, <4>2
    <3>3. CASE i # 1 /\ i # n + 2
      <4>. DEFINE j == i - 1
      <4>1. j \in 1..n /\ j \in 1..(n + 1) /\ i = j + 1 /\ i \in 1..(n + 1)
        BY <1>2, <3>3
      <4>. HIDE DEF j
      <4>2. p[j + 1] = c[j + 1] /\ c[j + 1] = b[j]
        BY <1>2, <2>2, <4>1
      <4>3. q[j + 1] = d[j] /\ d[j] = b[j]
        BY <2>1, <2>3, <4>1
      <4>. QED  BY <4>1, <4>2, <4>3
    <3>. QED  BY <3>1, <3>2, <3>3
  <2>5. Len(p) = Len(q) /\ \A i \in 1..Len(p) : p[i] = q[i]
    BY <2>2, <2>3, <2>4
  <2>6. p = q
    BY <2>2, <2>3, <2>5, SeqEqual
  <2>. QED  BY <2>6, Zenon DEF p, q, d, c
<1>4. ASSUME b # <<>>
      PROVE  Grown(c, x) = <<w>> \o Grown(b, x)
  <2>. DEFINE p == Grown(c, x)
              d == Grown(b, x)
              q == <<w>> \o d
  <2>1. /\ d \in Seq(T) /\ Len(d) = n /\ d[n] = Append(b[n], x)
        /\ \A i \in 1..(n - 1) : d[i] = b[i]
    BY <1>1, <1>4, WordGrows DEF T
  <2>2. c # <<>> /\ n # 0
    BY <1>2, <1>4
  <2>. HIDE DEF d, c
  <2>3. /\ p \in Seq(T) /\ Len(p) = n + 1 /\ p[n + 1] = Append(c[n + 1], x)
        /\ \A i \in 1..n : p[i] = c[i]
    <3>1. /\ p \in Seq(T) /\ Len(p) = Len(c) /\ p[Len(c)] = Append(c[Len(c)], x)
          /\ \A i \in 1..(Len(c) - 1) : p[i] = c[i]
      BY <1>2, <2>2, WordGrows DEF T
    <3>2. Len(c) = n + 1 /\ Len(c) - 1 = n
      BY <1>2
    <3>. HIDE DEF p
    <3>. QED  BY <3>1, <3>2, Zenon
  <2>4. /\ q \in Seq(T) /\ Len(q) = n + 1 /\ q[1] = w
        /\ \A i \in 1..n : q[i + 1] = d[i]
    BY <1>1, <1>2, <2>1
  <2>. HIDE DEF p, q, n
  <2>5. ASSUME NEW i \in 1..(n + 1) PROVE p[i] = q[i]
    <3>1. CASE i = 1
      BY <1>2, <2>2, <2>3, <2>4, <3>1
    <3>2. CASE i = n + 1
      <4>1. n \in 1..n
        BY <1>2, <2>2
      <4>2. q[n + 1] = d[n] /\ c[n + 1] = b[n]
        BY <1>2, <2>4, <4>1, Zenon
      <4>. QED  BY <2>1, <2>3, <3>2, <4>2
    <3>3. CASE i # 1 /\ i # n + 1
      <4>. DEFINE j == i - 1
      <4>1. j \in 1..n /\ j \in 1..(n - 1) /\ i = j + 1 /\ i \in 1..n
        BY <1>2, <3>3
      <4>. HIDE DEF j
      <4>2. p[j + 1] = c[j + 1] /\ c[j + 1] = b[j]
        BY <1>2, <2>3, <4>1
      <4>3. q[j + 1] = d[j] /\ d[j] = b[j]
        BY <2>1, <2>4, <4>1
      <4>. QED  BY <4>1, <4>2, <4>3
    <3>. QED  BY <3>1, <3>2, <3>3
  <2>6. Len(p) = Len(q) /\ \A i \in 1..Len(p) : p[i] = q[i]
    BY <2>3, <2>4, <2>5
  <2>7. p = q
    BY <2>3, <2>4, <2>6, SeqEqual
  <2>. QED  BY <2>7, Zenon DEF p, q, d
<1>. QED  BY <1>3, <1>4, Zenon DEF StaysFirst, c, y

(* A word before and one after a text are words before and after its words. *)
LEMMA SplitAround ==
  ASSUME NEW C, NEW a \in C, NEW z \in C, NEW b \in C, NEW s \in Seq(C),
         a \notin Blanks, z \notin Blanks, b \in Blanks
  PROVE  /\ split(s) \in Seq(Seq(C))
         /\ split(<<a, b>> \o s \o <<b, z>>)
               = Append(<<<<a>>>> \o split(s), <<z>>)
<1>. DEFINE n == Len(s)
            t == <<a, b>> \o s \o <<b, z>>
            w == <<a>>
            T == Seq(Seq(C))
<1>1. /\ n \in Nat /\ t \in Seq(C) /\ Len(t) = n + 4
      /\ t[1] = a /\ t[2] = b /\ t[n + 3] = b /\ t[n + 4] = z
      /\ \A i \in 1..n : t[i + 2] = s[i] /\ s[i] \in C
  OBVIOUS
<1>2. w \in Seq(C) /\ <<>> \in T /\ <<z>> \in Seq(C)
  OBVIOUS
<1>. HIDE DEF t
<1>3. PICK f : Splits(f, C, s) /\ split(s) = f[n]
  BY SplitWords
<1>4. PICK g : Splits(g, C, t) /\ split(t) = g[Len(t)]
  BY <1>1, SplitWords
<1>5. /\ f[0] = <<>> /\ \A m \in 0..n : f[m] \in T
      /\ \A m \in 1..n : f[m] = Word(f[m - 1], s, m)
  BY <1>3 DEF Splits
<1>6. g[0] = <<>> /\ \A m \in 1..(n + 4) : g[m] = Word(g[m - 1], t, m)
  BY <1>1, <1>4 DEF Splits
<1>7. \A m \in 1..n : s[m] \notin Blanks => f[m] # <<>>
  BY <1>3, SplitStarts
<1>. HIDE DEF n
<1>8. g[1] = <<w>>
  <2>1. 1 \in 1..(n + 4) /\ 1 - 1 = 0
    BY <1>1
  <2>2. g[1] = Append(g[0], <<t[1]>>)
    BY <1>1, <1>6, <2>1, Zenon DEF Word
  <2>3. Append(<<>>, w) = <<w>>
    OBVIOUS
  <2>. QED  BY <1>1, <1>6, <2>2, <2>3, Zenon
<1>9. g[2] = <<w>>
  <2>1. 2 \in 1..(n + 4) /\ 2 - 1 = 1
    BY <1>1
  <2>. QED  BY <1>1, <1>6, <1>8, <2>1, Zenon DEF Word
<1>. HIDE DEF w
<1>. DEFINE S == {m \in 0..n : g[m + 2] = <<w>> \o f[m]}
<1>10. 0 \in S
  <2>1. <<w>> \o <<>> = <<w>> /\ 0 + 2 = 2 /\ 0 \in 0..n
    BY <1>1
  <2>. QED  BY <1>5, <1>9, <2>1
<1>11. ASSUME NEW m \in 1..n, m - 1 \in S PROVE m \in S
  <2>. DEFINE p == g[m + 1]
              q == f[m - 1]
              x == s[m]
  <2>1. /\ m \in 0..n /\ m - 1 \in 0..n /\ m + 2 \in 1..(n + 4)
        /\ (m + 2) - 1 = m + 1 /\ (m - 1) + 2 = m + 1 /\ m + 2 # 1
        /\ m + 1 = (m - 1) + 2 /\ (m # 1 => m - 1 \in 1..n)
        /\ (m = 1 => m + 1 = 2)
    BY <1>1
  <2>2. p = <<w>> \o q
    BY <1>11, <2>1
  <2>3. /\ g[m + 2] = Word(p, t, m + 2) /\ f[m] = Word(q, s, m)
        /\ q \in T /\ x \in C /\ t[m + 2] = x
    <3>1. g[m + 2] = Word(g[(m + 2) - 1], t, m + 2)
      BY <1>6, <2>1, Zenon
    <3>. QED  BY <1>1, <1>5, <2>1, <3>1
  <2>4. t[m + 1] \in Blanks <=> m = 1 \/ s[m - 1] \in Blanks
    <3>1. CASE m = 1
      BY <1>1, <2>1, <3>1
    <3>2. CASE m # 1
      <4>1. t[(m - 1) + 2] = s[m - 1]
        BY <1>1, <2>1, <3>2, Zenon
      <4>. QED  BY <2>1, <3>2, <4>1
    <3>. QED  BY <3>1, <3>2
  <2>5. /\ Append(<<w>> \o q, <<x>>) = <<w>> \o Append(q, <<x>>)
        /\ q # <<>> => Grown(<<w>> \o q, x) = <<w>> \o Grown(q, x)
    <3>1. w \in Seq(C) /\ q \in Seq(Seq(C)) /\ x \in C
      BY <1>2, <2>3
    <3>. HIDE DEF p, q, x
    <3>2. StaysFirst(w, q, x)
      BY <3>1, ExtendsFirst
    <3>. QED  BY <3>2, Zenon DEF StaysFirst
  <2>6. q # <<>> \/ m = 1 \/ s[m - 1] \in Blanks
    BY <1>7, <2>1
  <2>. HIDE DEF p, q
  <2>7. Word(p, t, m + 2) = <<w>> \o Word(q, s, m)
    <3>1. CASE x \in Blanks
      BY <2>2, <2>3, <3>1, Zenon DEF Word
    <3>2. CASE x \notin Blanks /\ (m = 1 \/ s[m - 1] \in Blanks)
      <4>1. Word(q, s, m) = Append(q, <<x>>)
        BY <3>2, Zenon DEF Word
      <4>2. t[(m + 2) - 1] \in Blanks /\ t[m + 2] = x
        BY <2>1, <2>3, <2>4, <3>2, Zenon
      <4>3. Word(p, t, m + 2) = Append(p, <<x>>)
        BY <3>2, <4>2, Zenon DEF Word
      <4>. QED  BY <2>2, <2>5, <4>1, <4>3, Zenon
    <3>3. CASE x \notin Blanks /\ ~ (m = 1 \/ s[m - 1] \in Blanks)
      <4>1. Word(q, s, m) = Grown(q, x)
        BY <3>3, Zenon DEF Word
      <4>2. t[(m + 2) - 1] \notin Blanks /\ t[m + 2] = x
        BY <2>1, <2>3, <2>4, <3>3, Zenon
      <4>3. Word(p, t, m + 2) = Grown(p, x)
        BY <2>1, <3>3, <4>2, Zenon DEF Word
      <4>. QED  BY <2>2, <2>5, <2>6, <3>3, <4>1, <4>3, Zenon
    <3>. QED  BY <3>1, <3>2, <3>3
  <2>. QED  BY <2>1, <2>3, <2>7
<1>12. g[n + 2] = <<w>> \o f[n]
  <2>. HIDE DEF S, T
  <2>1. n \in Nat /\ n \in 0..n
    BY <1>1
  <2>2. 0..n \subseteq S
    BY <1>10, <1>11, <2>1, Counting
  <2>. QED  BY <2>1, <2>2 DEF S
<1>13. g[n + 3] = <<w>> \o f[n]
  <2>1. n + 3 \in 1..(n + 4) /\ (n + 3) - 1 = n + 2
    BY <1>1
  <2>2. g[n + 3] = Word(g[n + 2], t, n + 3)
    BY <1>6, <2>1, Zenon
  <2>. QED  BY <1>1, <1>12, <2>2, Zenon DEF Word
<1>14. g[n + 4] = Append(<<w>> \o f[n], <<z>>)
  <2>1. n + 4 \in 1..(n + 4) /\ (n + 4) - 1 = n + 3
    BY <1>1
  <2>2. g[n + 4] = Word(g[n + 3], t, n + 4)
    BY <1>6, <2>1, Zenon
  <2>3. Word(g[n + 3], t, n + 4) = Append(g[n + 3], <<t[n + 4]>>)
    BY <1>1, <2>1, Zenon DEF Word
  <2>. QED  BY <1>1, <1>13, <2>2, <2>3, Zenon
<1>15. n \in 0..n
  BY <1>1
<1>. QED  BY <1>1, <1>3, <1>4, <1>5, <1>14, <1>15, Zenon DEF w, n, t, T
-----------------------------------------------------------------------------
(* What the two sides read *)

\* what the client can ask: any name of an image, and headers with values of
\* one word
PlainRequest(r, C) ==
    /\ r.image \in Seq(C)
    /\ DOMAIN r.headers \in SUBSET Names /\ DOMAIN r.headers # {}
    /\ r.headers \in [DOMAIN r.headers -> Seq(C)]
    /\ \A n \in DOMAIN r.headers :
          /\ r.headers[n] # <<>>
          /\ \A k \in 1..Len(r.headers[n]) : r.headers[n][k] # Space

(* Short sequences one after the other. *)
LEMMA Joins ==
  ASSUME NEW C, NEW a \in C, NEW b \in C, NEW c \in C
  PROVE  /\ <<a, b>> \o <<c>> = <<a, b, c>>
         /\ Append(<<a>> \o <<b>>, c) = <<a, b, c>>
<1>1. <<a, b>> \o <<c>> = <<a, b, c>>
  <2>. DEFINE x == <<a, b>> \o <<c>>
              y == <<a, b, c>>
  <2>1. x \in Seq(C) /\ Len(x) = 3 /\ x[1] = a /\ x[2] = b /\ x[3] = c
    OBVIOUS
  <2>2. y \in Seq(C) /\ Len(y) = 3 /\ y[1] = a /\ y[2] = b /\ y[3] = c
    OBVIOUS
  <2>3. 1..3 = {1, 2, 3}
    OBVIOUS
  <2>. HIDE DEF x, y
  <2>4. Len(x) = Len(y) /\ \A i \in 1..Len(x) : x[i] = y[i]
    BY <2>1, <2>2, <2>3, Zenon
  <2>5. x = y
    BY <2>1, <2>2, <2>4, SeqEqual
  <2>. QED  BY <2>5 DEF x, y
<1>2. Append(<<a>> \o <<b>>, c) = <<a, b, c>>
  <2>. DEFINE x == Append(<<a>> \o <<b>>, c)
              y == <<a, b, c>>
  <2>1. x \in Seq(C) /\ Len(x) = 3 /\ x[1] = a /\ x[2] = b /\ x[3] = c
    OBVIOUS
  <2>2. y \in Seq(C) /\ Len(y) = 3 /\ y[1] = a /\ y[2] = b /\ y[3] = c
    OBVIOUS
  <2>3. 1..3 = {1, 2, 3}
    OBVIOUS
  <2>. HIDE DEF x, y
  <2>4. Len(x) = Len(y) /\ \A i \in 1..Len(x) : x[i] = y[i]
    BY <2>1, <2>2, <2>3, Zenon
  <2>5. x = y
    BY <2>1, <2>2, <2>4, SeqEqual
  <2>. QED  BY <2>5 DEF x, y
<1>. QED  BY <1>1, <1>2

(* Values of one word are read as they were written. *)
LEMMA ValuesRead ==
  ASSUME NEW C, Words(C), NEW first, NEW D \in SUBSET Names,
         NEW h \in [D -> Seq(C)], NEW L, HasLines(L, C, first, h, D, D),
         \A n \in D : /\ h[n] # <<>>
                      /\ \A k \in 1..Len(h[n]) : h[n][k] # Space
  PROVE  HeadersIn(L) = [error |-> -1, headers |-> h]
<1>1. ASSUME NEW n \in D
      PROVE  h[n][1] # Space /\ trimEx(<<Space>> \o h[n]) = h[n]
  <2>. DEFINE v == h[n]
  <2>1. v \in Seq(C) /\ v # <<>> /\ \A k \in 1..Len(v) : v[k] # Space
    OBVIOUS
  <2>. HIDE DEF v
  <2>2. 1 \in 1..Len(v)
    BY <2>1
  <2>3. v[1] # Space
    BY <2>1, <2>2
  <2>4. Space \in C
    BY Zenon DEF Words, Space
  <2>5. trimEx(<<Space>> \o v) = v
    BY <2>1, <2>3, <2>4, TrimsValue, Zenon DEF Space
  <2>. QED  BY <2>3, <2>5 DEF v
<1>2. \A n \in D : h[n] # <<>> /\ h[n][1] # Space
  BY <1>1
<1>3. HeadersIn(L) = [error |-> -1,
                      headers |-> [n \in D |-> trimEx(<<Space>> \o h[n])]]
  BY <1>2, HeadersRead
<1>4. [n \in D |-> trimEx(<<Space>> \o h[n])] = [n \in D |-> h[n]]
  BY <1>1, Zenon
<1>5. [n \in D |-> h[n]] = h
  OBVIOUS
<1>. QED  BY <1>3, <1>4, <1>5, Zenon

(* The server reads the request that the client has made. *)
LEMMA RequestRead ==
  ASSUME NEW C, Words(C), NEW r, PlainRequest(r, C)
  PROVE  ServerRequest(RequestLines(r)) =
            IF Len(split(r.image)) = 1
            THEN [error |-> -1, url |-> split(r.image)[1], headers |-> r.headers]
            ELSE NoRequest(0)
<1>. DEFINE image == r.image
            h == r.headers
            D == DOMAIN h
            first == RequestLine(image)
            L == RequestLines(r)
            get == "GET"
            rs == "RS/1.0"
            w == split(image)
<1>1. /\ image \in Seq(C) /\ D \in SUBSET Names /\ D # {} /\ h \in [D -> Seq(C)]
      /\ \A n \in D : /\ h[n] # <<>>
                      /\ \A k \in 1..Len(h[n]) : h[n][k] # Space
  BY Zenon DEF PlainRequest
<1>2. /\ get \in C /\ rs \in C /\ Space \in C
      /\ get \notin Blanks /\ rs \notin Blanks /\ Space \in Blanks
  BY Zenon DEF Words, Blanks, Space
<1>3. first = <<get, Space>> \o image \o <<Space, rs>>
  BY Zenon DEF RequestLine, Space
<1>4. L = getLines(first, h)
  BY Zenon DEF RequestLines
<1>5. ServerRequest(L) =
         IF Len(L) < 2 THEN NoRequest(2)
         ELSE IF \/ Len(split(L[1])) # 3 \/ split(L[1])[1] # <<get>>
                 \/ split(L[1])[3] # <<rs>>
         THEN NoRequest(0)
         ELSE [error |-> HeadersIn(L).error, url |-> split(L[1])[2],
               headers |-> HeadersIn(L).headers]
  BY Zenon DEF ServerRequest
<1>. HIDE DEF image, h, D, first, L, get, rs
<1>6. first \in Seq(C)
  BY <1>1, <1>2, <1>3
<1>7. HasLines(L, C, first, h, D, D)
  BY <1>1, <1>4, <1>6, LinesMade, Zenon
<1>8. HeadersIn(L) = [error |-> -1, headers |-> h]
  BY <1>1, <1>7, ValuesRead
<1>9. L[1] = first /\ ~ (Len(L) < 2)
  <2>1. /\ Len(L) \in Nat /\ L[1] = first
        /\ \A n \in D : \E i \in 2..Len(L) : L[i] = HeaderLine(h, n)
    BY <1>7 DEF HasLines
  <2>2. PICK n \in D : TRUE
    BY <1>1
  <2>3. PICK i \in 2..Len(L) : TRUE
    BY <2>1, <2>2
  <2>. QED  BY <2>1, <2>3
<1>10. /\ w \in Seq(Seq(C))
       /\ split(first) = Append(<<<<get>>>> \o w, <<rs>>)
  <2>1. /\ split(image) \in Seq(Seq(C))
        /\ split(<<get, Space>> \o image \o <<Space, rs>>)
              = Append(<<<<get>>>> \o split(image), <<rs>>)
    <3>. DEFINE space == Space
    <3>1. /\ get \in C /\ rs \in C /\ space \in C /\ image \in Seq(C)
          /\ get \notin Blanks /\ rs \notin Blanks /\ space \in Blanks
      BY <1>1, <1>2
    <3>. HIDE DEF space, w
    <3>2. /\ split(image) \in Seq(Seq(C))
          /\ split(<<get, space>> \o image \o <<space, rs>>)
                = Append(<<<<get>>>> \o split(image), <<rs>>)
      BY <3>1, SplitAround
    <3>. QED  BY <3>2 DEF space
  <2>. QED  BY <1>3, <2>1, Zenon
<1>. HIDE DEF w
<1>11. CASE Len(w) = 1
  <2>. DEFINE x == w[1]
  <2>0. x \in Seq(C) /\ w = <<x>>
    <3>. DEFINE T == Seq(C)
                v == <<x>>
    <3>1. w \in Seq(T) /\ Len(w) = 1 /\ 1 \in 1..Len(w)
      BY <1>10, <1>11
    <3>. HIDE DEF T
    <3>2. x \in T
      BY <3>1
    <3>3. v \in Seq(T) /\ Len(v) = 1 /\ v[1] = x
      BY <3>2
    <3>. HIDE DEF v
    <3>4. \A i \in 1..Len(w) : w[i] = v[i]
      BY <3>1, <3>3
    <3>5. w = v
      BY <3>1, <3>3, <3>4, SeqEqual
    <3>. QED  BY <3>2, <3>5 DEF v, T
  <2>. HIDE DEF x
  <2>1. split(first) = <<<<get>>, x, <<rs>>>>
    <3>1. <<get>> \in Seq(C) /\ <<rs>> \in Seq(C)
      BY <1>2
    <3>2. Append(<<<<get>>>> \o <<x>>, <<rs>>) = <<<<get>>, x, <<rs>>>>
      BY <2>0, <3>1, Joins
    <3>. QED  BY <1>10, <2>0, <3>2, Zenon
  <2>. DEFINE s == split(first)
  <2>2. s[1] = <<get>> /\ s[2] = x /\ s[3] = <<rs>> /\ Len(s) = 3
    BY <2>1
  <2>. HIDE DEF s
  <2>3. HeadersIn(L).error = -1 /\ HeadersIn(L).headers = h
    BY <1>8
  <2>4. ServerRequest(L) = [error |-> -1, url |-> x, headers |-> h]
    BY <1>5, <1>9, <2>2, <2>3, Zenon DEF s
  <2>. QED  BY <1>11, <2>4, Zenon DEF L, image, h, w, x
<1>12. CASE Len(w) # 1
  <2>1. Len(w) # 1 /\ Len(w) \in Nat
    BY <1>10, <1>12
  <2>2. Len(split(first)) # 3
    <3>. DEFINE c == <<<<get>>>> \o w
                T == Seq(C)
    <3>1. <<get>> \in T /\ <<rs>> \in T /\ w \in Seq(T)
      BY <1>2, <1>10
    <3>. DEFINE x == <<get>>
                y == <<rs>>
    <3>. HIDE DEF T, x, y
    <3>2. Len(Append(<<x>> \o w, y)) = Len(w) + 2
      BY <3>1 DEF x, y
    <3>3. Len(w) + 2 # 3
      <4>. DEFINE n == Len(w)
      <4>. SUFFICES n + 2 # 3
        OBVIOUS
      <4>1. n \in Nat /\ n # 1
        BY <2>1
      <4>. HIDE DEF n
      <4>. QED  BY <4>1
    <3>. QED  BY <1>10, <3>2, <3>3, Zenon DEF x, y
  <2>3. ServerRequest(L) = NoRequest(0)
    BY <1>5, <1>9, <2>2, Zenon
  <2>. QED  BY <1>12, <2>3, Zenon DEF L, image, w
<1>. QED  BY <1>11, <1>12

(* The client reads the status of the response and its headers. *)
LEMMA StatusRead ==
  ASSUME NEW C, Words(C), NEW s \in C, NEW t \in C, s # Space,
         NEW L, L # <<>>, L[1] = ResponseLine(s, t)
  PROVE  ClientResponse(L) =
            [error |-> HeadersIn(L).error, status |-> <<s>>,
             headers |-> HeadersIn(L).headers]
<1>. DEFINE rs == "RS/1.0"
            first == splitByEx(" ", L[1])
            second == splitByEx(" ", first[2])
            empty == [error |-> 0, status |-> <<>>, headers |-> NoHeaders]
<1>1. rs \in C /\ Space \in C /\ rs # Space
  BY Zenon DEF Words, Space
<1>2. L[1] = <<rs, Space, s, Space, t>>
  BY Zenon DEF ResponseLine, Space
<1>3. ClientResponse(L) =
         IF L = <<>> THEN [empty EXCEPT !.error = 2]
         ELSE IF Len(first) # 2 \/ first[1] # <<rs>> THEN empty
         ELSE IF Len(second) # 2 THEN empty
         ELSE [error |-> HeadersIn(L).error, status |-> second[1],
               headers |-> HeadersIn(L).headers]
  BY Zenon DEF ClientResponse
<1>. HIDE DEF rs, first, second, empty
<1>4. splitByEx(Space, <<rs, Space>> \o <<s, Space, t>>) = <<<<rs>>, <<s, Space, t>>>>
  <2>1. <<s, Space, t>> \in Seq(C)
    BY <1>1
  <2>. QED  BY <1>1, <2>1, CutsAfter
<1>5. splitByEx(Space, <<s, Space>> \o <<t>>) = <<<<s>>, <<t>>>>
  <2>1. <<t>> \in Seq(C)
    OBVIOUS
  <2>. QED  BY <1>1, <2>1, CutsAfter
<1>6. /\ <<rs, Space>> \o <<s, Space, t>> = <<rs, Space, s, Space, t>>
      /\ <<s, Space>> \o <<t>> = <<s, Space, t>>
  <2>. DEFINE d == Space
  <2>1. rs \in C /\ d \in C /\ s \in C /\ t \in C
    BY <1>1
  <2>. HIDE DEF d
  <2>2. <<rs, d>> \o <<s, d, t>> = <<rs, d, s, d, t>>
    <3>. DEFINE u == <<rs, d>> \o <<s, d, t>>
                v == <<rs, d, s, d, t>>
    <3>1. /\ u \in Seq(C) /\ Len(u) = 5 /\ u[1] = rs /\ u[2] = d
          /\ u[3] = s /\ u[4] = d /\ u[5] = t
      BY <2>1
    <3>2. /\ v \in Seq(C) /\ Len(v) = 5 /\ v[1] = rs /\ v[2] = d
          /\ v[3] = s /\ v[4] = d /\ v[5] = t
      BY <2>1
    <3>3. 1..5 = {1, 2, 3, 4, 5}
      OBVIOUS
    <3>. HIDE DEF u, v
    <3>4. Len(u) = Len(v) /\ \A i \in 1..Len(u) : u[i] = v[i]
      BY <3>1, <3>2, <3>3, Zenon
    <3>5. u = v
      BY <3>1, <3>2, <3>4, SeqEqual
    <3>. QED  BY <3>5 DEF u, v
  <2>3. <<s, d>> \o <<t>> = <<s, d, t>>
    BY <2>1, Joins, Zenon
  <2>. QED  BY <2>2, <2>3, Zenon DEF d
<1>7. first = <<<<rs>>, <<s, Space, t>>>>
  BY <1>2, <1>4, <1>6, Zenon DEF first, Space
<1>8. first[1] = <<rs>> /\ first[2] = <<s, Space, t>> /\ Len(first) = 2
  BY <1>7
<1>9. second = <<<<s>>, <<t>>>>
  BY <1>5, <1>6, <1>8, Zenon DEF second, Space
<1>10. second[1] = <<s>> /\ Len(second) = 2
  BY <1>9
<1>. QED  BY <1>3, <1>8, <1>10, Zenon
\* the values of these headers can be sent
Values(h, D, C) ==
    /\ D \in SUBSET Names /\ h \in [D -> Seq(C)]
    /\ \A n \in D : /\ h[n] # <<>> /\ h[n][1] # Space
                    /\ \A k \in 1..Len(h[n]) : h[n][k] \notin {CR, LF, NUL}

\* L can be sent, and is read as a response with this status and these headers
Answers(L, C, s, h, D) ==
    /\ Plain(L, C) /\ (D # {} => Len(L) > 1)
    /\ ClientResponse(L) =
          [error |-> -1, status |-> <<s>>,
           headers |-> [n \in D |-> trimEx(<<Space>> \o h[n])]]

(* A response is made of lines that can be sent, and is read as it was made. *)
LEMMA AnswerMade ==
  ASSUME NEW C, Words(C), NEW s \in C \ {CR, LF, NUL},
         NEW t \in C \ {CR, LF, NUL}, s # Space,
         NEW D, NEW h, Values(h, D, C),
         NEW L, L = getLines(ResponseLine(s, t), h)
  PROVE  Answers(L, C, s, h, D)
<1>. DEFINE first == ResponseLine(s, t)
            rs == "RS/1.0"
            Odd == {CR, LF, NUL}
            colon == ":"
<1>0. /\ D \in SUBSET Names /\ h \in [D -> Seq(C)]
      /\ \A n \in D : /\ h[n] # <<>> /\ h[n][1] # Space
                      /\ \A k \in 1..Len(h[n]) : h[n][k] \notin Odd
  BY Zenon DEF Values
<1>1. /\ rs \in C /\ Space \in C /\ colon \in C
      /\ rs \notin Odd /\ Space \notin Odd /\ colon \notin Odd
  BY Zenon DEF Words, Space, CR, LF, NUL
<1>2. first = <<rs, Space, s, Space, t>>
  BY Zenon DEF ResponseLine, Space
<1>. HIDE DEF first, rs, colon
<1>3. /\ first \in Seq(C) /\ Len(first) = 5 /\ first # <<>>
      /\ first[1] = rs /\ first[2] = Space /\ first[3] = s
      /\ first[4] = Space /\ first[5] = t
  BY <1>1, <1>2
<1>4. \A k \in 1..Len(first) : first[k] \notin Odd
  <2>1. 1..5 = {1, 2, 3, 4, 5}
    OBVIOUS
  <2>2. s \notin Odd /\ t \notin Odd
    OBVIOUS
  <2>. HIDE DEF Odd
  <2>. QED  BY <1>1, <1>3, <2>1, <2>2, Zenon
<1>5. HasLines(L, C, first, h, D, D)
  <2>1. L = getLines(first, h)
    BY Zenon DEF first
  <2>2. /\ Words(C) /\ first \in Seq(C) /\ D \in SUBSET Names
        /\ h \in [D -> Seq(C)]
    BY <1>0, <1>3, Zenon
  <2>3. HasLines(getLines(first, h), C, first, h, D, D)
    BY <2>2, LinesMade, Zenon
  <2>. QED  BY <2>1, <2>3, Zenon
<1>6. /\ L \in Seq(Seq(C)) /\ Len(L) >= 1 /\ L[1] = first
      /\ \A i \in 2..Len(L) : \E n \in D : L[i] = HeaderLine(h, n)
      /\ \A n \in D : \E i \in 2..Len(L) : L[i] = HeaderLine(h, n)
  BY <1>5 DEF HasLines
<1>7. L # <<>> /\ (D # {} => Len(L) > 1)
  <2>1. ASSUME D # {} PROVE Len(L) > 1
    <3>1. PICK n \in D : TRUE
      BY <2>1
    <3>2. PICK i \in 2..Len(L) : TRUE
      BY <1>6, <3>1
    <3>. QED  BY <1>6, <3>2
  <2>. QED  BY <1>6, <2>1
<1>8. ASSUME NEW n \in D
      PROVE  /\ HeaderLine(h, n) # <<>>
             /\ \A k \in 1..Len(HeaderLine(h, n)) : HeaderLine(h, n)[k] \notin Odd
  <2>. DEFINE v == h[n]
              x == HeaderLine(h, n)
  <2>1. v \in Seq(C) /\ \A k \in 1..Len(v) : v[k] \notin Odd
    BY <1>0
  <2>2. PICK w \in C : n = <<w>> /\ w \notin Odd
    BY <1>0, NamesAre
  <2>3. x = n \o <<colon, Space>> \o v
    BY Zenon DEF HeaderLine, colon
  <2>. HIDE DEF v, x, Odd
  <2>4. /\ x \in Seq(C) /\ Len(x) = Len(v) + 3
        /\ x[1] = w /\ x[2] = colon /\ x[3] = Space
        /\ \A k \in 1..Len(v) : x[k + 3] = v[k]
    BY <1>1, <2>1, <2>2, <2>3
  <2>5. ASSUME NEW k \in 1..Len(x) PROVE x[k] \notin Odd
    <3>1. k = 1 \/ k = 2 \/ k = 3 \/ (k - 3 \in 1..Len(v) /\ (k - 3) + 3 = k)
      BY <2>1, <2>4
    <3>2. CASE k - 3 \in 1..Len(v) /\ (k - 3) + 3 = k
      <4>1. x[(k - 3) + 3] = v[k - 3]
        BY <2>4, <3>2, Zenon
      <4>. QED  BY <2>1, <3>2, <4>1
    <3>3. CASE k = 1 \/ k = 2 \/ k = 3
      BY <1>1, <2>2, <2>4, <3>3, Zenon
    <3>. QED  BY <3>1, <3>2, <3>3
  <2>6. x # <<>>
    BY <2>1, <2>4
  <2>. QED  BY <2>5, <2>6 DEF x
<1>9. ASSUME NEW k \in 1..Len(L)
      PROVE  L[k] # <<>> /\ \A i \in 1..Len(L[k]) : L[k][i] \notin Odd
  <2>. HIDE DEF Odd
  <2>1. k = 1 \/ k \in 2..Len(L)
    BY <1>6
  <2>2. CASE k = 1
    BY <1>3, <1>4, <1>6, <2>2, Zenon
  <2>3. CASE k \in 2..Len(L)
    BY <1>6, <1>8, <2>3, Zenon
  <2>. QED  BY <2>1, <2>2, <2>3
<1>10. Plain(L, C)
  BY <1>6, <1>7, <1>9, Zenon DEF Plain
<1>11. HeadersIn(L) = [error |-> -1,
                       headers |-> [n \in D |-> trimEx(<<Space>> \o h[n])]]
  <2>1. /\ Words(C) /\ D \in SUBSET Names /\ h \in [D -> Seq(C)]
        /\ HasLines(L, C, first, h, D, D)
        /\ \A n \in D : h[n] # <<>> /\ h[n][1] # Space
    BY <1>0, <1>5, Zenon
  <2>. QED  BY <2>1, HeadersRead
<1>12. ClientResponse(L) =
          [error |-> HeadersIn(L).error, status |-> <<s>>,
           headers |-> HeadersIn(L).headers]
  <2>1. s \in C /\ t \in C /\ s # Space /\ L # <<>> /\ L[1] = ResponseLine(s, t)
    BY <1>6, <1>7 DEF first
  <2>. QED  BY <2>1, StatusRead
<1>. DEFINE trimmed == [n \in D |-> trimEx(<<Space>> \o h[n])]
<1>. HIDE DEF trimmed
<1>13. HeadersIn(L).error = -1 /\ HeadersIn(L).headers = trimmed
  BY <1>11 DEF trimmed
<1>. QED  BY <1>7, <1>10, <1>12, <1>13, Zenon DEF trimmed, Answers

\* what the server can find
Verdicts == {OK} \cup Errors \cup {InvalidRequest(e) : e \in 0..2}

(* An error is a text of three words, of which the first is not empty. *)
LEMMA ErrorsAre ==
  ASSUME NEW C, Words(C), NEW v \in Verdicts, v # OK
  PROVE  \E a, b, c \in C \ {CR, LF, NUL} : v = <<a, b, c>> /\ a # Space
<1>. DEFINE Odd == {CR, LF, NUL}
            W == {"Image", "not found", "found but", "Value",
                  "of 'from' or 'to'", "of 'from'", "of 'to'", "Request",
                  "equest", "quest", "is invalid"}
            Is(x) == \E a, b, c \in C \ Odd : x = <<a, b, c>> /\ a # Space
<1>1. \A w \in W : w \in C /\ w \notin Odd /\ w # Space
  BY Zenon DEF Words, Space, CR, LF, NUL
<1>2. Space \in C /\ Space \notin Odd
  BY Zenon DEF Words, Space, CR, LF, NUL
<1>. HIDE DEF Odd
<1>3. \A w, x \in W : Is(<<w, Space, x>>)
  BY <1>1, <1>2
<1>4. ASSUME v \in Errors PROVE Is(v)
  <2>1. \E w, x \in W : v = <<w, Space, x>>
    BY <1>4, Zenon DEF Errors, Space
  <2>. HIDE DEF W, Is
  <2>. QED  BY <1>3, <2>1, Zenon
<1>5. ASSUME NEW e \in 0..2, v = InvalidRequest(e) PROVE Is(v)
  <2>. DEFINE words == <<"Request", "equest", "quest">>
  <2>1. words[1] = "Request" /\ words[2] = "equest" /\ words[3] = "quest"
    OBVIOUS
  <2>2. e + 1 = 1 \/ e + 1 = 2 \/ e + 1 = 3
    OBVIOUS
  <2>3. v = <<words[e + 1], Space, "is invalid">>
    BY <1>5, Zenon DEF InvalidRequest, Space
  <2>. HIDE DEF words
  <2>4. words[e + 1] \in W
    BY <2>1, <2>2, Zenon
  <2>5. "is invalid" \in W
    BY Zenon
  <2>. HIDE DEF W, Is
  <2>. QED  BY <1>3, <2>3, <2>4, <2>5, Zenon
<1>. HIDE DEF Is
<1>6. Is(v)
  BY <1>4, <1>5, Zenon DEF Verdicts
<1>. QED  BY <1>6, Zenon DEF Is, Odd

(* The client accepts what the server has accepted, and only that; if the
   server has not, there is a second line and the headers have an error. *)
LEMMA AnswerRead ==
  ASSUME NEW C, Words(C), NEW v \in Verdicts, NEW L, L = ResponseLines(v)
  PROVE  /\ Plain(L, C)
         /\ ClientResponse(L).status = <<"200">> <=> v = OK
         /\ v # OK => /\ Len(L) > 1
                      /\ getHeader(ClientResponse(L).headers, <<"error">>, <<>>)
                            # <<>>
<1>. DEFINE error == <<"error">>
            good == "200"
            bad == "400"
            fine == "OK"
            problem == "Problem with request"
            Odd == {CR, LF, NUL}
<1>1. /\ good \in C \ Odd /\ bad \in C \ Odd /\ fine \in C \ Odd
      /\ problem \in C \ Odd /\ good # Space /\ bad # Space /\ good # bad
  BY Zenon DEF Words, Space, CR, LF, NUL
<1>2. CASE v = OK
  <2>. DEFINE D == {}
              h == NoHeaders
  <2>1. D \in SUBSET Names /\ h \in [D -> Seq(C)]
    BY DEF NoHeaders
  <2>2. L = getLines(ResponseLine(good, fine), h)
    BY <1>2, Zenon DEF ResponseLines
  <2>3. Values(h, D, C)
    BY <2>1 DEF Values
  <2>. HIDE DEF h, D, good, fine, Odd, error, bad, problem
  <2>4. Answers(L, C, good, h, D)
    <3>1. /\ good \in C \ {CR, LF, NUL} /\ fine \in C \ {CR, LF, NUL}
          /\ good # Space
      BY <1>1 DEF Odd
    <3>. QED  BY <2>2, <2>3, <3>1, AnswerMade, Zenon
  <2>5. ClientResponse(L).status = <<good>>
    <3>. DEFINE x == [n \in D |-> trimEx(<<Space>> \o h[n])]
    <3>. HIDE DEF x
    <3>1. ClientResponse(L) = [error |-> -1, status |-> <<good>>, headers |-> x]
      BY <2>4, Zenon DEF x, Answers
    <3>. QED  BY <3>1
  <2>. QED  BY <1>2, <2>4, <2>5, Zenon DEF good, Answers
<1>3. CASE v # OK
  <2>1. PICK a, b, c \in C \ Odd : v = <<a, b, c>> /\ a # Space
    BY <1>3, ErrorsAre
  <2>. DEFINE D == {error}
              h == setHeader(NoHeaders, error, v)
  <2>2. D \in SUBSET Names
    <3>1. 2 \in 1..Len(HeaderOrder) /\ HeaderOrder[2] = error
      BY DEF HeaderOrder
    <3>. QED  BY <3>1 DEF Names
  <2>3. h = [n \in D |-> v]
    <3>1. DOMAIN NoHeaders \cup {error} = D
      BY DEF NoHeaders
    <3>. HIDE DEF error
    <3>2. h = [n \in DOMAIN NoHeaders \cup {error} |->
                  IF n = error THEN v ELSE NoHeaders[n]]
      BY Zenon DEF setHeader
    <3>. QED  BY <3>1, <3>2
  <2>4. L = getLines(ResponseLine(bad, problem), h)
    BY <1>3, Zenon DEF ResponseLines
  <2>5. /\ v \in Seq(C) /\ v # <<>> /\ v[1] # Space
        /\ \A k \in 1..Len(v) : v[k] \notin Odd
    BY <2>1
  <2>. HIDE DEF error, D, h
  <2>6. h \in [D -> Seq(C)] /\ \A n \in D : h[n] = v
    BY <2>3, <2>5
  <2>7. Values(h, D, C)
    BY <2>2, <2>5, <2>6, Zenon DEF Values
  <2>. HIDE DEF good, bad, problem, fine, Odd
  <2>8. Answers(L, C, bad, h, D)
    <3>1. /\ bad \in C \ {CR, LF, NUL} /\ problem \in C \ {CR, LF, NUL}
          /\ bad # Space
      BY <1>1 DEF Odd
    <3>. QED  BY <2>4, <2>7, <3>1, AnswerMade, Zenon
  <2>. DEFINE x == [n \in D |-> trimEx(<<Space>> \o h[n])]
  <2>9. error \in DOMAIN x /\ x[error] # <<>>
    <3>1. error \in D
      BY DEF D
    <3>2. x[error] = trimEx(<<Space>> \o v) /\ error \in DOMAIN x
      BY <2>6, <3>1
    <3>3. Space \in C
      BY Zenon DEF Words, Space
    <3>4. trimEx(<<Space>> \o v) # <<>>
      BY <2>5, <3>3, TrimsValue
    <3>. QED  BY <3>2, <3>4
  <2>. HIDE DEF x
  <2>10. ClientResponse(L).status = <<bad>> /\ ClientResponse(L).headers = x
    <3>1. ClientResponse(L) = [error |-> -1, status |-> <<bad>>, headers |-> x]
      BY <2>8, Zenon DEF x, Answers
    <3>. QED  BY <3>1
  <2>11. <<bad>> # <<good>>
    BY <1>1
  <2>12. getHeader(x, error, <<>>) # <<>>
    BY <2>9, Zenon DEF getHeader
  <2>13. D # {}
    BY DEF D
  <2>. QED  BY <1>3, <2>8, <2>10, <2>11, <2>12, <2>13, Zenon DEF error, good,
           Answers
<1>. QED  BY <1>2, <1>3
(* A request of at most three lines is read, or has an error in one of them. *)
LEMMA LineInError ==
  ASSUME NEW L, Len(L) \in 1..3
  PROVE  ServerRequest(L).error \in {-1} \cup 0..2
<1>. DEFINE z == Len(L)
            bad == {i \in 2..z : ~ IsHeader(L[i])}
            Is(e) == /\ bad \cap 2..(e - 1) = {}
                     /\ e <= z => e \in bad
            end == CHOOSE e \in 2..(z + 1) : Is(e)
            name(i) == trimEx(splitByEx(":", L[i])[1])
            last(n) == CHOOSE i \in 2..(end - 1) :
                          /\ name(i) = n
                          /\ \A j \in (i + 1)..(end - 1) : name(j) # n
            headers == [n \in {name(i) : i \in 2..(end - 1)} |->
                           trimEx(splitByEx(":", L[last(n)])[2])]
            error == IF end > z THEN -1 ELSE end - 1
            words == split(L[1])
            Not == \/ Len(words) # 3 \/ words[1] # <<"GET">>
                   \/ words[3] # <<"RS/1.0">>
<1>1. HeadersIn(L) = [error |-> error, headers |-> headers]
  BY Zenon DEF HeadersIn
<1>2. ServerRequest(L) =
         IF z < 2 THEN NoRequest(2)
         ELSE IF Not THEN NoRequest(0)
         ELSE [error |-> HeadersIn(L).error, url |-> words[2],
               headers |-> HeadersIn(L).headers]
  BY Zenon DEF ServerRequest
<1>3. z \in 1..3
  OBVIOUS
<1>. HIDE DEF z, headers, words, Not
<1>4. \E e \in 2..(z + 1) : Is(e)
  <2>. DEFINE S == {e \in 2..(z + 1) : e \in bad \/ e = z + 1}
  <2>1. S \in SUBSET Nat /\ z + 1 \in S
    BY <1>3
  <2>2. S # {}
    BY <2>1
  <2>3. PICK e \in S : \A j \in S : e <= j
    <3>. HIDE DEF S
    <3>. QED  BY <2>1, <2>2, HasFirst
  <2>4. bad \subseteq S
    BY <1>3
  <2>. HIDE DEF bad
  <2>5. /\ e \in 2..(z + 1) /\ \A j \in bad : e <= j
        /\ e <= z => e \in bad
    BY <1>3, <2>3, <2>4
  <2>6. bad \cap 2..(e - 1) = {}
    BY <2>5
  <2>. QED  BY <2>5, <2>6
<1>5. end \in 2..(z + 1)
  <2>. HIDE DEF Is
  <2>. QED  BY <1>4, Zenon
<1>. HIDE DEF end
<1>6. error \in {-1} \cup 0..2
  BY <1>3, <1>5
<1>. HIDE DEF error
<1>7. HeadersIn(L).error = error
  BY <1>1
<1>8. /\ NoRequest(2).error \in {-1} \cup 0..2
      /\ NoRequest(0).error \in {-1} \cup 0..2
  BY DEF NoRequest
<1>9. ASSUME NEW u, NEW h
      PROVE  [error |-> HeadersIn(L).error, url |-> u, headers |-> h].error
                \in {-1} \cup 0..2
  BY <1>6, <1>7
<1>. QED  BY <1>2, <1>8, <1>9, Zenon
-----------------------------------------------------------------------------
(* The exchange *)

\* a parser that has read nothing
Fresh == /\ pos = 0 /\ lines = <<>> /\ pc = "read" /\ retval = 1
         /\ helper = NewHelper

(* Cutting holds of a new parser. *)
LEMMA FreshCutting ==
  ASSUME NEW C, Alphabet(C)
  PROVE  Fresh /\ Plain(header, C) /\ body \in Seq(C) => Text(C) /\ Cutting
<1>. USE ParserAssumption
<1>. SUFFICES ASSUME Fresh, Plain(header, C), body \in Seq(C)
              PROVE  Text(C) /\ Cutting
  OBVIOUS
<1>1. /\ pos = 0 /\ lines = <<>> /\ pc = "read" /\ retval = 1
      /\ helper = NewHelper
  BY DEF Fresh
<1>2. /\ IsHelper(NewHelper, C) /\ NewHelper.offset = 0
      /\ NewHelper.offset_eol = 0 /\ ~ NewHelper.hasEOL
      /\ NewHelper.posEOL = 0 /\ ~ NewHelper.normalEOL
      /\ NewHelper.tempString = <<>>
  BY DEF NewHelper, IsHelper, Alphabet
<1>3. header \in Seq(Seq(C)) /\ Len(header) \in Nat /\ 0 \in 0..Len(header)
  BY DEF Plain
<1>4. Text(C)
  BY <1>1, <1>2 DEF Text
<1>5. /\ Len(Encoded(header)) \in Nat /\ EndAt(header, 0) <= Len(Encoded(header))
      /\ Len(LineAt(header, 0)) \in Nat /\ Ended(header, 0) = <<>>
  BY <1>3, LinesLie
<1>6. EndAt(header, 0) >= 2 /\ Len(Ended(header, 0)) = 0
  BY <1>5 DEF EndAt
<1>7. /\ Len(Input) \in Nat
  <2>1. Input \in Seq(C)
    BY <1>3, InputLies
  <2>. QED  BY <2>1
<1>. HIDE DEF NewHelper
<1>8. TypeOK
  BY <1>1, <1>2, <1>7 DEF TypeOK
<1>9. LineByLine
  BY <1>1 DEF LineByLine
<1>10. NothingLeftBehind
  <2>. DEFINE e == Len(Encoded(header))
              z == EndAt(header, 0)
  <2>1. e \in Nat /\ z <= e /\ z >= 2 /\ z \in Nat
    <3>1. z \in Nat
      BY <1>5, <1>6 DEF EndAt
    <3>. QED  BY <1>5, <1>6, <3>1
  <2>. HIDE DEF e, z
  <2>2. pos < e
    BY <1>1, <2>1
  <2>3. pc # "done"
    BY <1>1
  <2>. QED  BY <2>2, <2>3, Zenon DEF NothingLeftBehind, e
<1>11. pos = Start + helper.offset
  BY <1>1, <1>2, <1>6 DEF Start
<1>. QED  BY <1>1, <1>2, <1>4, <1>8, <1>9, <1>10, <1>11 DEF Cutting

\* b is what is in the input after e
Ends(input, e, b, C) ==
    /\ input \in Seq(C) /\ b \in Seq(C) /\ e \in Nat
    /\ Len(input) = e + Len(b) /\ \A i \in 1..Len(b) : input[e + i] = b[i]

\* what is after e up to p, and from there up to n, begins b
Begins(input, e, b, p, n) ==
    SubSeq(input, e + 1, p) \o SubSeq(input, p + 1, n) = SubSeq(b, 1, n - e)

(* What the parser has left and what is read after it are the body. *)
LEMMA BodyTaken ==
  ASSUME NEW C, NEW input, NEW b, NEW e, Ends(input, e, b, C),
         NEW p \in e..Len(input), NEW n \in p..Len(input)
  PROVE  Begins(input, e, b, p, n)
<1>. DEFINE x == SubSeq(input, e + 1, p)
            y == SubSeq(input, p + 1, n)
            z == SubSeq(b, 1, n - e)
            j == p - e
            k == n - p
            m == n - e
            w == x \o y
<1>0. /\ input \in Seq(C) /\ b \in Seq(C) /\ e \in Nat
      /\ Len(input) = e + Len(b) /\ \A i \in 1..Len(b) : input[e + i] = b[i]
  BY DEF Ends
<1>1. /\ j \in Nat /\ k \in Nat /\ m \in Nat /\ m <= Len(b) /\ Len(b) \in Nat
      /\ p \in Nat /\ j + k = m /\ p = e + j
  BY <1>0
<1>2. x \in Seq(C) /\ Len(x) = j /\ \A i \in 1..j : x[i] = input[e + i]
  BY <1>0, <1>1
<1>3. y \in Seq(C) /\ Len(y) = k /\ \A i \in 1..k : y[i] = input[p + i]
  BY <1>0, <1>1
<1>4. z \in Seq(C) /\ Len(z) = m /\ \A i \in 1..m : z[i] = b[i]
  BY <1>0, <1>1
<1>. HIDE DEF x, y, z, j, k, m
<1>5. /\ w \in Seq(C) /\ Len(w) = j + k /\ \A i \in 1..j : w[i] = x[i]
      /\ \A i \in 1..k : w[j + i] = y[i]
  <2>1. w \in Seq(C) /\ Len(w) = j + k
    BY <1>2, <1>3, ConcatProperties
  <2>4. \A i \in 1..(j + k) : w[i] = IF i <= j THEN x[i] ELSE y[i - j]
    <3>1. \A i \in 1..(Len(x) + Len(y)) :
             (x \o y)[i] = IF i <= Len(x) THEN x[i] ELSE y[i - Len(x)]
      BY <1>2, <1>3, ConcatProperties, Zenon
    <3>. QED  BY <1>2, <1>3, <3>1
  <2>2. ASSUME NEW i \in 1..j PROVE w[i] = x[i]
    <3>1. i \in 1..(j + k) /\ i <= j
      BY <1>1
    <3>. QED  BY <2>4, <3>1, Zenon
  <2>3. ASSUME NEW i \in 1..k PROVE w[j + i] = y[i]
    <3>1. j + i \in 1..(j + k) /\ ~ (j + i <= j) /\ (j + i) - j = i
      BY <1>1
    <3>2. w[j + i] = y[(j + i) - j]
      BY <2>4, <3>1, Zenon
    <3>. QED  BY <3>1, <3>2
  <2>. QED  BY <2>1, <2>2, <2>3
<1>. HIDE DEF w
<1>6. ASSUME NEW i \in 1..m PROVE w[i] = z[i]
  <2>1. i \in 1..Len(b)
    BY <1>1
  <2>2. input[e + i] = b[i] /\ z[i] = b[i]
    BY <1>0, <1>4, <2>1
  <2>3. i \in 1..j \/ (i - j \in 1..k /\ j + (i - j) = i /\ p + (i - j) = e + i)
    BY <1>0, <1>1
  <2>4. CASE i \in 1..j
    BY <1>2, <1>5, <2>2, <2>4, Zenon
  <2>5. CASE i - j \in 1..k /\ j + (i - j) = i /\ p + (i - j) = e + i
    <3>1. w[j + (i - j)] = y[i - j] /\ y[i - j] = input[p + (i - j)]
      BY <1>3, <1>5, <2>5, Zenon
    <3>. QED  BY <2>2, <2>5, <3>1, Zenon
  <2>. QED  BY <2>3, <2>4, <2>5
<1>7. w = z
  <2>1. Len(w) = Len(z) /\ \A i \in 1..Len(w) : w[i] = z[i]
    BY <1>1, <1>4, <1>5, <1>6
  <2>. QED  BY <1>4, <1>5, <2>1, SeqEqual
<1>. QED  BY <1>7, Zenon DEF w, x, y, z, m, Begins
\* what the theorems about RSParser assume of what the peer sends: lines that
\* are not empty and have no end of line within, of characters in C
PlainInput(C) ==
    /\ Alphabet(C) /\ ~ CutAnywhere
    /\ \A ls \in Headers : Plain(ls, C)
    /\ Bodies \in SUBSET Seq(C)

\* and those about RSExchange, where InvalidRequest knows three lines
PlainExchange(C) ==
    /\ PlainInput(C) /\ Words(C)
    /\ \A ls \in Headers : Len(ls) <= 3
    /\ \A r \in Requests : PlainRequest(r, C)

\* the inductive invariant of the exchange
XInv(C) ==
    /\ Text(C) /\ Cutting
    /\ hop \in {"request", "response", "over"} /\ sent \in Headers
    /\ hop = "request" => header = sent
    /\ hop # "request" => /\ request = ServerRequest(sent)
                          /\ verdict \in Verdicts
                          /\ header = ResponseLines(verdict)
    /\ hop = "over" => /\ pc = "done" /\ response = ClientResponse(lines)
                       /\ \E n \in 0..Len(body) : data = SubSeq(body, 1, n)

(* The parser changes nothing of what is sent, and rests when it is done. *)
LEMMA NextKeeps ==
  ASSUME Next
  PROVE  header' = header /\ body' = body /\ pc # "done"
BY DEF Next, fail, takeLine, finish, read

(* A header that has been cut is the one that was sent. *)
LEMMA DoneIs ==
  ASSUME NEW C, Text(C), Cutting, pc = "done"
  PROVE  lines = header
BY Zenon DEF Cutting, LineByLine

LEMMA ParserStarts ==
  ASSUME NEW C, PlainInput(C)
  PROVE  Init => Text(C) /\ Cutting
<1>. SUFFICES ASSUME Init PROVE Text(C) /\ Cutting
  OBVIOUS
<1>1. Fresh /\ Plain(header, C) /\ body \in Seq(C) /\ Alphabet(C)
  BY DEF Init, Fresh, PlainInput
<1>. QED  BY <1>1, FreshCutting

(* A new parser for the next header is like one that Init describes. *)
LEMMA FreshNext ==
  ASSUME NEW C, Alphabet(C)
  PROVE  (Fresh /\ Plain(header, C) /\ body \in Seq(C))' => (Text(C) /\ Cutting)'
<1>1. Fresh /\ Plain(header, C) /\ body \in Seq(C) => Text(C) /\ Cutting
  BY FreshCutting
<1>. QED  BY <1>1, PTL

LEMMA ExchangeStarts ==
  ASSUME NEW C, PlainExchange(C), XInit
  PROVE  XInv(C)
<1>1. Init /\ hop = "request" /\ sent = header
  BY DEF XInit
<1>2. Text(C) /\ Cutting
  BY <1>1, ParserStarts DEF PlainExchange
<1>3. header \in Headers
  BY <1>1 DEF Init
<1>. QED  BY <1>1, <1>2, <1>3 DEF XInv

LEMMA ParseStep ==
  ASSUME NEW C, PlainExchange(C), XInv(C), Parse
  PROVE  XInv(C)'
<1>1. Text(C) /\ Cutting /\ Alphabet(C) /\ ~ CutAnywhere
  BY DEF XInv, PlainExchange, PlainInput
<1>2. Next /\ UNCHANGED talk
  BY DEF Parse
<1>3. Text(C)' /\ Cutting'
  BY <1>1, <1>2, CuttingKept
<1>4. header' = header /\ body' = body /\ pc # "done"
  BY <1>2, NextKeeps
<1>5. /\ hop' = hop /\ sent' = sent /\ request' = request /\ verdict' = verdict
      /\ response' = response /\ data' = data
  BY <1>2 DEF talk
<1>6. hop # "over"
  BY <1>4, Zenon DEF XInv
<1>. QED  BY <1>3, <1>4, <1>5, <1>6, Zenon DEF XInv

LEMMA AnswerStep ==
  ASSUME NEW C, PlainExchange(C), XInv(C), answer
  PROVE  XInv(C)'
<1>1. /\ hop = "request" /\ pc = "done" /\ hop' = "response"
      /\ request' = ServerRequest(lines)
      /\ verdict' \in IF request'.error # -1
                      THEN {InvalidRequest(request'.error)}
                      ELSE {OK} \cup Errors
      /\ header' = ResponseLines(verdict')
      /\ body' \in Bodies \cup {<<>>}
      /\ Fresh' /\ sent' = sent
  BY Zenon DEF answer, Fresh
<1>2. lines = sent /\ sent \in Headers
  <2>1. lines = header
    BY <1>1, DoneIs DEF XInv
  <2>. QED  BY <1>1, <2>1, Zenon DEF XInv
<1>3. ServerRequest(sent).error \in {-1} \cup 0..2
  <2>1. sent \in Seq(Seq(C)) /\ sent # <<>> /\ Len(sent) <= 3
    BY <1>2, Zenon DEF PlainExchange, PlainInput, Plain
  <2>2. Len(sent) \in 1..3
    <3>1. \A L \in Seq(Seq(C)) : L # <<>> => Len(L) \in Nat /\ Len(L) # 0
      OBVIOUS
    <3>2. Len(sent) \in Nat /\ Len(sent) # 0
      BY <2>1, <3>1, Zenon
    <3>. DEFINE z == Len(sent)
    <3>3. z \in Nat /\ z # 0 /\ z <= 3
      BY <2>1, <3>2, Zenon
    <3>. HIDE DEF z
    <3>4. z \in 1..3
      BY <3>3
    <3>. QED  BY <3>4 DEF z
  <2>. QED  BY <2>2, LineInError
<1>4. verdict' \in Verdicts
  <2>. DEFINE e == request'.error
  <2>1. e = -1 \/ e \in 0..2
    BY <1>1, <1>2, <1>3, Zenon
  <2>2. verdict' \in IF e # -1 THEN {InvalidRequest(e)} ELSE {OK} \cup Errors
    BY <1>1, Zenon
  <2>. HIDE DEF e
  <2>. QED  BY <2>1, <2>2, Zenon DEF Verdicts
<1>5. Plain(header', C)
  <2>1. Words(C)
    BY DEF PlainExchange
  <2>. QED  BY <1>1, <1>4, <2>1, AnswerRead, Zenon
<1>6. body' \in Seq(C)
  <2>1. Bodies \in SUBSET Seq(C)
    BY DEF PlainExchange, PlainInput
  <2>2. <<>> \in Seq(C)
    OBVIOUS
  <2>. QED  BY <1>1, <2>1, <2>2, Zenon
<1>7. (Fresh /\ Plain(header, C) /\ body \in Seq(C))'
  BY <1>1, <1>5, <1>6, Zenon
<1>8. Text(C)' /\ Cutting'
  <2>1. Alphabet(C)
    BY DEF PlainExchange, PlainInput
  <2>. QED  BY <1>7, <2>1, FreshNext
<1>9. /\ hop' \in {"request", "response", "over"} /\ hop' # "request"
      /\ hop' # "over" /\ sent' \in Headers
      /\ request' = ServerRequest(sent')
  BY <1>1, <1>2
<1>. QED  BY <1>1, <1>4, <1>8, <1>9, Zenon DEF XInv

LEMMA ReceiveStep ==
  ASSUME NEW C, PlainExchange(C), XInv(C), receive
  PROVE  XInv(C)'
<1>1. /\ hop = "response" /\ pc = "done" /\ hop' = "over"
      /\ response' = ClientResponse(lines)
      /\ \/ \E n \in pos..Len(Input) : data' = Taken(n)
         \/ data' = <<>>
      /\ UNCHANGED vars /\ sent' = sent /\ request' = request
      /\ verdict' = verdict
  BY Zenon DEF receive
<1>2. /\ pc' = pc /\ header' = header /\ body' = body /\ lines' = lines
  BY <1>1 DEF vars
<1>3. Text(C) /\ Cutting /\ Alphabet(C) /\ Plain(header, C) /\ body \in Seq(C)
  BY DEF XInv, PlainExchange, PlainInput, Text
<1>4. Text(C)' /\ Cutting'
  BY <1>1, <1>3, RestsStep
<1>5. \E n \in 0..Len(body) : data' = SubSeq(body, 1, n)
  <2>1. CASE data' = <<>>
    <3>1. SubSeq(body, 1, 0) = <<>> /\ 0 \in 0..Len(body)
      BY <1>3
    <3>. QED  BY <2>1, <3>1
  <2>2. ASSUME NEW n \in pos..Len(Input), data' = Taken(n)
        PROVE  \E m \in 0..Len(body) : data' = SubSeq(body, 1, m)
    <3>. DEFINE e == Len(Encoded(header))
    <3>1. /\ getRemainingData = SubSeq(Input, e + 1, pos)
          /\ pos >= e /\ pos \in 0..Len(Input)
      BY <1>1, <1>3, Zenon DEF Cutting, NothingLeftBehind, TypeOK
    <3>2. /\ Input \in Seq(C) /\ Len(Input) = e + Len(body)
          /\ e \in Nat /\ Len(body) \in Nat
          /\ \A i \in 1..Len(body) : Input[e + i] = body[i]
      <4>1. header \in Seq(Seq(C)) /\ 0 \in 0..Len(header)
        BY <1>3 DEF Plain
      <4>. QED  BY <1>3, <4>1, InputLies, Zenon
    <3>3. data' = SubSeq(Input, e + 1, pos) \o SubSeq(Input, pos + 1, n)
      BY <2>2, <3>1, Zenon DEF Taken
    <3>. HIDE DEF e
    <3>4. pos \in e..Len(Input) /\ n - e \in 0..Len(body)
      BY <3>1, <3>2
    <3>5. SubSeq(Input, e + 1, pos) \o SubSeq(Input, pos + 1, n)
             = SubSeq(body, 1, n - e)
      <4>. DEFINE all == Input
                  b == body
                  p == pos
      <4>1. Ends(all, e, b, C) /\ p \in e..Len(all) /\ n \in p..Len(all)
        BY <1>3, <3>2, <3>4, Zenon DEF Ends
      <4>. HIDE DEF all, b, p
      <4>2. Begins(all, e, b, p, n)
        BY <4>1, BodyTaken, Zenon
      <4>. QED  BY <4>2, Zenon DEF all, b, p, Begins
    <3>. QED  BY <3>3, <3>4, <3>5, Zenon
  <2>. QED  BY <1>1, <2>1, <2>2, Zenon
<1>6. hop' \in {"request", "response", "over"} /\ hop' # "request" /\ pc' = "done"
  BY <1>1, <1>2
<1>7. /\ sent \in Headers /\ request = ServerRequest(sent)
      /\ verdict \in Verdicts /\ header = ResponseLines(verdict)
  <2>1. hop # "request"
    BY <1>1
  <2>. QED  BY <2>1, Zenon DEF XInv
<1>8. \E n \in 0..Len(body') : data' = SubSeq(body', 1, n)
  BY <1>2, <1>5, Zenon
<1>. QED  BY <1>1, <1>2, <1>4, <1>6, <1>7, <1>8, Zenon DEF XInv

LEMMA ExchangeRests ==
  ASSUME NEW C, PlainExchange(C), XInv(C), UNCHANGED allVars
  PROVE  XInv(C)'
<1>1. UNCHANGED vars /\ UNCHANGED talk
  BY DEF allVars
<1>2. Text(C)' /\ Cutting'
  BY <1>1, RestsStep DEF XInv
<1>3. /\ hop' = hop /\ sent' = sent /\ request' = request /\ verdict' = verdict
      /\ response' = response /\ data' = data
  BY <1>1 DEF talk
<1>4. pc' = pc /\ header' = header /\ body' = body /\ lines' = lines
  BY <1>1 DEF vars
<1>. QED  BY <1>2, <1>3, <1>4, Zenon DEF XInv

(* The exchange keeps its invariant. *)
LEMMA ExchangeInvariant ==
  ASSUME NEW C, PlainExchange(C)
  PROVE  XSpec => []XInv(C)
<1>1. XInit => XInv(C)
  BY ExchangeStarts
<1>2. XInv(C) /\ [XNext]_allVars => XInv(C)'
  BY ParseStep, AnswerStep, ReceiveStep, ExchangeRests DEF XNext
<1>. QED  BY <1>1, <1>2, PTL DEF XSpec-----------------------------------------------------------------------------
(* The theorems *)

(* Whatever the lines of the header and the body are, and however the reads
   divide them at the places EndsWell allows, the parser relies on what is true:
   the buffer holds what has come since Start, and the end of the line that has
   been found is where it is.  (A header of any number of lines, in RSParser
   alone: both servers and the client.) *)
THEOREM ParserRelies ==
  ASSUME NEW C, PlainInput(C)
  PROVE  Spec => []Cutting
<1>1. Init => Text(C) /\ Cutting
  BY ParserStarts
<1>2. (Text(C) /\ Cutting) /\ [Next]_vars => (Text(C) /\ Cutting)'
  BY CuttingKept DEF PlainInput
<1>3. Text(C) /\ Cutting => Cutting
  OBVIOUS
<1>. QED  BY <1>1, <1>2, <1>3, PTL DEF Spec

(* The same of the request and of the response of an exchange. *)
THEOREM ExchangeRelies ==
  ASSUME NEW C, PlainExchange(C)
  PROVE  XSpec => []Cutting
<1>1. XInv(C) => Cutting
  BY DEF XInv
<1>. QED  BY <1>1, ExchangeInvariant, PTL

(* No length of the parser is negative or greater than the buffer. *)
THEOREM OffsetsInBuffer ==
  ASSUME NEW C, PlainExchange(C)
  PROVE  XSpec => []TypeOK
<1>1. XInv(C) => TypeOK
  BY DEF XInv, Cutting
<1>. QED  BY <1>1, ExchangeInvariant, PTL

(* Request and response are cut into the lines that were sent, no more and no
   fewer. *)
THEOREM HeaderCutIntoLines ==
  ASSUME NEW C, PlainExchange(C)
  PROVE  XSpec => []LineByLine
<1>1. XInv(C) => LineByLine
  BY DEF XInv, Cutting
<1>. QED  BY <1>1, ExchangeInvariant, PTL

(* What was read beyond the header is kept for getRemainingData, and the parser
   never waits for a header that has come. *)
THEOREM RestIsKept ==
  ASSUME NEW C, PlainExchange(C)
  PROVE  XSpec => []NothingLeftBehind
<1>1. XInv(C) => NothingLeftBehind
  BY DEF XInv, Cutting
<1>. QED  BY <1>1, ExchangeInvariant, PTL

(* The server reads the image and the headers that the client has asked for,
   or finds an error in line 0 if the name of the image is not one word. *)
THEOREM ServerUnderstands ==
  ASSUME NEW C, PlainExchange(C)
  PROVE  XSpec => []RequestUnderstood
<1>1. XInv(C) => RequestUnderstood
  <2>. SUFFICES ASSUME XInv(C), hop # "request", NEW r \in Requests,
                       sent = RequestLines(r)
                PROVE  IF Len(split(r.image)) = 1
                       THEN request = [error |-> -1, url |-> split(r.image)[1],
                                       headers |-> r.headers]
                       ELSE request = NoRequest(0)
    BY Zenon DEF RequestUnderstood
  <2>1. request = ServerRequest(RequestLines(r))
    BY Zenon DEF XInv
  <2>2. Words(C) /\ PlainRequest(r, C)
    BY DEF PlainExchange
  <2>3. ServerRequest(RequestLines(r)) =
           IF Len(split(r.image)) = 1
           THEN [error |-> -1, url |-> split(r.image)[1],
                 headers |-> r.headers]
           ELSE NoRequest(0)
    BY <2>2, RequestRead, Zenon
  <2>. QED  BY <2>1, <2>3, Zenon
<1>. QED  BY <1>1, ExchangeInvariant, PTL

(* The client goes on if and only if the server has accepted the request, with
   a beginning of what the server sent after the response; otherwise it has a
   second line and an error to print. *)
THEOREM ClientUnderstands ==
  ASSUME NEW C, PlainExchange(C)
  PROVE  XSpec => []AnswerUnderstood
<1>1. XInv(C) => AnswerUnderstood
  <2>. SUFFICES ASSUME XInv(C), hop = "over" PROVE AnswerUnderstood
    BY Zenon DEF AnswerUnderstood
  <2>1. /\ verdict \in Verdicts /\ header = ResponseLines(verdict)
        /\ pc = "done" /\ response = ClientResponse(lines)
        /\ \E n \in 0..Len(body) : data = SubSeq(body, 1, n)
    <3>1. hop # "request"
      OBVIOUS
    <3>. QED  BY <3>1, Zenon DEF XInv
  <2>2. lines = header
    BY <2>1, DoneIs DEF XInv
  <2>3. Words(C)
    BY DEF PlainExchange
  <2>4. /\ ClientResponse(header).status = <<"200">> <=> verdict = OK
        /\ verdict # OK =>
              /\ Len(header) > 1
              /\ getHeader(ClientResponse(header).headers, <<"error">>, <<>>)
                    # <<>>
    BY <2>1, <2>3, AnswerRead, Zenon
  <2>. QED  BY <2>1, <2>2, <2>4, Zenon DEF AnswerUnderstood
<1>. QED  BY <1>1, ExchangeInvariant, PTL
=============================================================================

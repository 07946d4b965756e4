----------------------------- MODULE RWLockProofs -----------------------------
(***************************************************************************)
(* Proofs about RWLock for any finite set of threads.  The counters are    *)
(* assumed to start at 0 (ZeroCounters): the code relies on it without     *)
(* making sure of it, and with other values a Writer is not alone.         *)
(*                                                                         *)
(* IInv is inductive.  A step moves one thread, and what matters of it is  *)
(* how it crosses the borders of the label sets IInv talks about: Crosses  *)
(* for a semaphore one thread holds, Counts for a counter, Passes for a    *)
(* gate a group holds.  Every step of the lock is classified once per      *)
(* semaphore and counter (the ...Steps lemmas); what each class preserves  *)
(* is proved once (the ...Kept lemmas).                                    *)
(***************************************************************************)
EXTENDS RWLock, FiniteSetTheorems, TLAPS

ZeroCounters == InitCounts = {0}

\* the thread steps of Next
Act(t) == getReader(t) \/ getWriter(t) \/ Step(t)

\* t moves, nobody else does
Moves(t) == /\ pc \in [Threads -> Labels]
            /\ pc' \in [Threads -> Labels]
            /\ \A u \in Threads : u # t => pc'[u] = pc[u]

\* t takes s_i when it enters L and gives it back when it leaves L
Crosses(t, i, L) ==
    \/ (pc[t] \in L <=> pc'[t] \in L) /\ sem'[i] = sem[i]
    \/ pc[t] \notin L /\ pc'[t] \in L /\ sem[i] > 0 /\ sem'[i] = sem[i] - 1
    \/ pc[t] \in L /\ pc'[t] \notin L /\ sem'[i] = sem[i] + 1

\* the threads of M, one at a time, count those at L; the first goes to
\* take, the last to give
Counts(t, c, L, M, take, give) ==
    \/ /\ pc[t] \in L <=> pc'[t] \in L
       /\ pc'[t] \notin {take, give}
       /\ cnt'[c] = cnt[c]
    \/ /\ pc[t] \in M /\ pc[t] \notin L \cup {take, give} /\ pc'[t] \in L
       /\ pc'[t] # give
       /\ cnt'[c] = cnt[c] + 1
       /\ pc'[t] = take <=> cnt'[c] = 1
    \/ /\ pc[t] \in M /\ pc[t] \in L \ {take, give} /\ pc'[t] \notin L
       /\ pc'[t] # take
       /\ cnt'[c] = cnt[c] - 1
       /\ pc'[t] = give <=> cnt'[c] = 0

\* how the gate s_i is passed on between its single owners and the group
Passes(t, i, Own, take, give) ==
    \/ pc[t] \notin {take, give} /\ Crosses(t, i, Own)
    \/ /\ pc[t] = take /\ pc'[t] \notin {take, give} \cup Own
       /\ sem[i] > 0 /\ sem'[i] = sem[i] - 1
    \/ /\ pc[t] = give /\ pc'[t] \notin {take, give} \cup Own
       /\ sem'[i] = sem[i] + 1
-----------------------------------------------------------------------------
(* The semaphores and counters keep their types and only the thread that
   takes the step moves. *)
LEMMA TypeKept ==
  ASSUME TypeOK, NEW t \in Threads, Act(t)
  PROVE  TypeOK' /\ Moves(t)
BY DEF TypeOK, Act, Moves, getReader, getWriter, Step, EndScope, requestRead,
       endRead, requestWrite, endWrite, OpenRead, OpenRead2, OpenWrite, P, V,
       Inc, Dec, Goto, Labels, ReadEntry, ReadExit, WriteEntry, WriteExit

(* s1 is held exactly from s1.P() to s1.V() of requestRead and requestWrite. *)
LEMMA S1Steps ==
  ASSUME TypeOK, NEW t \in Threads, Act(t)
  PROVE  Crosses(t, 1, S1Held)
BY DEF TypeOK, Act, Crosses, S1Held, getReader, getWriter, Step, EndScope,
       requestRead, endRead, requestWrite, endWrite, OpenRead, OpenRead2,
       OpenWrite, P, V, Inc, Dec, Goto

(* s3 is held exactly inside PP and VV of c1. *)
LEMMA S3Steps ==
  ASSUME TypeOK, NEW t \in Threads, Act(t)
  PROVE  Crosses(t, 3, S3Held)
BY DEF TypeOK, Act, Crosses, S3Held, getReader, getWriter, Step, EndScope,
       requestRead, endRead, requestWrite, endWrite, OpenRead, OpenRead2,
       OpenWrite, P, V, Inc, Dec, Goto

(* s5 is held exactly inside PP and VV of c2. *)
LEMMA S5Steps ==
  ASSUME TypeOK, NEW t \in Threads, Act(t)
  PROVE  Crosses(t, 5, S5Held)
BY DEF TypeOK, Act, Crosses, S5Held, getReader, getWriter, Step, EndScope,
       requestRead, endRead, requestWrite, endWrite, OpenRead, OpenRead2,
       OpenWrite, P, V, Inc, Dec, Goto

(* c1 counts the writers between PP and VV, under s3. *)
LEMMA C1Steps ==
  ASSUME TypeOK, NEW t \in Threads, Act(t)
  PROVE  Counts(t, 1, CountedWriter, S3Held, "wp_s2", "wv_v2")
BY DEF TypeOK, Act, Counts, CountedWriter, S3Held, getReader, getWriter, Step,
       EndScope, requestRead, endRead, requestWrite, endWrite, OpenRead,
       OpenRead2, OpenWrite, P, V, Inc, Dec, Goto

(* c2 counts the readers between PP and VV, under s5. *)
LEMMA C2Steps ==
  ASSUME TypeOK, NEW t \in Threads, Act(t)
  PROVE  Counts(t, 2, CountedReader, S5Held, "rp_s4", "rv_v4")
BY DEF TypeOK, Act, Counts, CountedReader, S5Held, getReader, getWriter, Step,
       EndScope, requestRead, endRead, requestWrite, endWrite, OpenRead,
       OpenRead2, OpenWrite, P, V, Inc, Dec, Goto

(* s2 is taken and given by one reader or, at "wp_s2" and "wv_v2", by the
   writers as a group. *)
LEMMA S2Steps ==
  ASSUME TypeOK, NEW t \in Threads, Act(t)
  PROVE  Passes(t, 2, S2Held, "wp_s2", "wv_v2")
BY DEF TypeOK, Act, Passes, Crosses, S2Held, getReader, getWriter, Step,
       EndScope, requestRead, endRead, requestWrite, endWrite, OpenRead,
       OpenRead2, OpenWrite, P, V, Inc, Dec, Goto

(* s4 is taken and given by one writer or, at "rp_s4" and "rv_v4", by the
   readers as a group. *)
LEMMA S4Steps ==
  ASSUME TypeOK, NEW t \in Threads, Act(t)
  PROVE  Passes(t, 4, S4Held, "rp_s4", "rv_v4")
BY DEF TypeOK, Act, Passes, Crosses, S4Held, getReader, getWriter, Step,
       EndScope, requestRead, endRead, requestWrite, endWrite, OpenRead,
       OpenRead2, OpenWrite, P, V, Inc, Dec, Goto
-----------------------------------------------------------------------------
(* One thread at a time keeps holding s_i, and s_i is free when nobody does. *)
LEMMA PrivateKept ==
  ASSUME NEW t \in Threads, Moves(t), NEW i \in 1..5, NEW L,
         sem \in [1..5 -> Nat], Crosses(t, i, L), Private(i, L)
  PROVE  Private(i, L)'
<1>1. AtMostOne(L)'
  BY DEF Moves, Crosses, Private, AtMostOne, At
<1>2. (sem[i] = IF At(L) = {} THEN 1 ELSE 0)'
  BY DEF Moves, Crosses, Private, AtMostOne, At
<1>. QED  BY <1>1, <1>2 DEF Private

(* A step changes the number of threads at L by the mover's crossing. *)
LEMMA AtChanges ==
  ASSUME NEW t \in Threads, Moves(t), NEW L
  PROVE  /\ IsFiniteSet(At(L)) /\ IsFiniteSet(At(L)')
         /\ Cardinality(At(L)) \in Nat
         /\ (pc[t] \in L <=> pc'[t] \in L) => At(L)' = At(L)
         /\ pc[t] \notin L /\ pc'[t] \in L =>
              Cardinality(At(L)') = Cardinality(At(L)) + 1
         /\ pc[t] \in L /\ pc'[t] \notin L =>
              Cardinality(At(L)') = Cardinality(At(L)) - 1
<1>1. IsFiniteSet(At(L)) /\ IsFiniteSet(At(L)')
  <2>1. At(L) \in SUBSET Threads /\ At(L)' \in SUBSET Threads
    BY DEF At
  <2>. QED  BY <2>1, FS_Subset, RWLockAssumption
<1>2. Cardinality(At(L)) \in Nat
  BY <1>1, FS_CardinalityType
<1>3. (pc[t] \in L <=> pc'[t] \in L) => At(L)' = At(L)
  BY DEF Moves, At
<1>4. ASSUME pc[t] \notin L, pc'[t] \in L
      PROVE  Cardinality(At(L)') = Cardinality(At(L)) + 1
  <2>1. At(L)' = At(L) \cup {t} /\ t \notin At(L)
    BY <1>4 DEF Moves, At
  <2>. QED  BY <2>1, <1>1, FS_AddElement
<1>5. ASSUME pc[t] \in L, pc'[t] \notin L
      PROVE  Cardinality(At(L)') = Cardinality(At(L)) - 1
  <2>1. At(L)' = At(L) \ {t} /\ t \in At(L)
    BY <1>5 DEF Moves, At
  <2>. QED  BY <2>1, <1>1, FS_RemoveElement
<1>. QED  BY <1>1, <1>2, <1>3, <1>4, <1>5

(* The counter stays the number of threads at L; M, which one thread holds,
   keeps the others from counting between the test and take or give. *)
LEMMA CounterKept ==
  ASSUME NEW t \in Threads, Moves(t), NEW c \in 1..2, NEW L, NEW M,
         NEW take, NEW give, {take, give} \subseteq M,
         cnt \in [1..2 -> Int], AtMostOne(M),
         Counts(t, c, L, M, take, give), CounterExact(c, L, take, give)
  PROVE  CounterExact(c, L, take, give)'
<1>1. cnt'[c] = Cardinality(At(L)')
  BY AtChanges DEF Counts, CounterExact
<1>2. (At({take}) # {} => cnt[c] = 1)'
  BY DEF Counts, CounterExact, Moves, AtMostOne, At
<1>3. (At({give}) # {} => cnt[c] = 0)'
  BY DEF Counts, CounterExact, Moves, AtMostOne, At
<1>. QED  BY <1>1, <1>2, <1>3 DEF CounterExact

(* The group holds the gate before a step iff it does after it, unless the
   step is the group's own take or give. *)
LEMMA GroupKept ==
  ASSUME NEW t \in Threads, Moves(t), NEW c \in 1..2, NEW L, NEW M,
         NEW take \in L \cap M, NEW give \in M \ L,
         cnt \in [1..2 -> Int], AtMostOne(M),
         Counts(t, c, L, M, take, give),
         CounterExact(c, L, take, give), CounterExact(c, L, take, give)',
         pc[t] \notin {take, give}
  PROVE  GroupHolds(L, take, give)' <=> GroupHolds(L, take, give)
<1>0. /\ At(L) = {} <=> cnt[c] = 0
      /\ At(L)' = {} <=> cnt'[c] = 0
  BY AtChanges, FS_EmptySet DEF CounterExact
<1>1. CASE /\ pc[t] \in L <=> pc'[t] \in L
           /\ pc'[t] \notin {take, give}
  <2>1. /\ At(L)' = At(L)
        /\ At({take})' = At({take})
        /\ At({give})' = At({give})
    BY <1>1 DEF Moves, At
  <2>. QED  BY <2>1 DEF GroupHolds
<1>2. CASE /\ pc[t] \in M /\ pc'[t] \in L
           /\ cnt'[c] = cnt[c] + 1
           /\ pc'[t] = take <=> cnt'[c] = 1
  <2>1. At({take}) = {} /\ At({give}) = {}
    BY <1>2 DEF AtMostOne, At
  <2>2. At({give})' = {} /\ (At({take})' = {} <=> pc'[t] # take)
    BY <1>2, <2>1 DEF Moves, At
  <2>3. At(L)' # {}
    BY <1>2 DEF Moves, At
  <2>4. GroupHolds(L, take, give) <=> cnt[c] # 0
    BY <1>0, <2>1 DEF GroupHolds
  <2>5. GroupHolds(L, take, give)' <=> pc'[t] # take
    BY <2>2, <2>3 DEF GroupHolds
  <2>6. cnt'[c] = 1 <=> cnt[c] = 0
    BY <1>2
  <2>. QED  BY <1>2, <2>4, <2>5, <2>6
<1>3. CASE /\ pc[t] \in M /\ pc[t] \in L /\ pc'[t] \notin L
           /\ cnt'[c] = cnt[c] - 1
           /\ pc'[t] = give <=> cnt'[c] = 0
  <2>1. At({take}) = {} /\ At({give}) = {}
    BY <1>3 DEF AtMostOne, At
  <2>2. At({take})' = {} /\ (At({give})' = {} <=> pc'[t] # give)
    BY <1>3, <2>1 DEF Moves, At
  <2>3. At(L) # {}
    BY <1>3 DEF At
  <2>4. GroupHolds(L, take, give)
    BY <2>1, <2>3 DEF GroupHolds
  <2>5. GroupHolds(L, take, give)'
    <3>1. CASE cnt'[c] = 0
      BY <1>3, <2>2, <3>1 DEF GroupHolds
    <3>2. CASE cnt'[c] # 0
      BY <1>0, <2>2, <3>2 DEF GroupHolds
    <3>. QED  BY <3>1, <3>2
  <2>. QED  BY <2>4, <2>5
<1>. QED  BY <1>1, <1>2, <1>3 DEF Counts

(* A gate has one owner, a single thread or the group, before and after. *)
LEMMA GateKept ==
  ASSUME NEW t \in Threads, Moves(t), NEW i \in 1..5, NEW c \in 1..2,
         NEW Own, NEW L, NEW M,
         NEW take \in L \cap M, NEW give \in M \ L,
         take \notin Own, give \notin Own,
         cnt \in [1..2 -> Int], sem \in [1..5 -> Nat], AtMostOne(M),
         Counts(t, c, L, M, take, give), Passes(t, i, Own, take, give),
         CounterExact(c, L, take, give), CounterExact(c, L, take, give)',
         Gate(i, Own, L, take, give)
  PROVE  Gate(i, Own, L, take, give)'
<1>1. CASE pc[t] \notin {take, give}
  <2>1. GroupHolds(L, take, give)' <=> GroupHolds(L, take, give)
    BY <1>1, GroupKept
  <2>2. Crosses(t, i, Own)
    BY <1>1 DEF Passes
  <2>3. AtMostOne(Own)'
    BY <2>2 DEF Moves, Crosses, Gate, AtMostOne, At
  <2>4. (~ (At(Own) # {} /\ GroupHolds(L, take, give)))'
    BY <2>1, <2>2 DEF Moves, Crosses, Gate, AtMostOne, At
  <2>5. (sem[i] = IF At(Own) = {} /\ ~ GroupHolds(L, take, give)
                  THEN 1 ELSE 0)'
    BY <2>1, <2>2 DEF Moves, Crosses, Gate, AtMostOne, At
  <2>. QED  BY <2>3, <2>4, <2>5 DEF Gate
<1>2. CASE pc[t] = take
  <2>1. /\ pc'[t] \in L
        /\ pc'[t] \notin {take, give} \cup Own
        /\ sem[i] > 0 /\ sem'[i] = sem[i] - 1
    BY <1>2 DEF Counts, Passes
  <2>2. At(Own) = {} /\ ~ GroupHolds(L, take, give) /\ sem[i] = 1
    BY <2>1 DEF Gate
  <2>3. At({take})' = {} /\ At(L)' # {} /\ At(Own)' = {}
    BY <1>2, <2>1, <2>2 DEF Moves, AtMostOne, At
  <2>. QED  BY <2>1, <2>2, <2>3 DEF Gate, GroupHolds, AtMostOne, At
<1>3. CASE pc[t] = give
  <2>1. /\ pc'[t] \notin {take, give} \cup Own
        /\ pc'[t] \notin L /\ cnt'[c] = cnt[c]
        /\ sem'[i] = sem[i] + 1
    BY <1>3 DEF Counts, Passes
  <2>2. GroupHolds(L, take, give) /\ cnt[c] = 0
    BY <1>3 DEF GroupHolds, CounterExact, At
  <2>3. At(Own) = {} /\ sem[i] = 0
    BY <2>2 DEF Gate
  <2>4. At(L)' = {}
    BY <2>1, <2>2, AtChanges, FS_EmptySet DEF CounterExact
  <2>5. At({give})' = {} /\ At(Own)' = {}
    BY <1>3, <2>1, <2>3 DEF Moves, AtMostOne, At
  <2>. QED  BY <2>1, <2>3, <2>4, <2>5 DEF Gate, GroupHolds, AtMostOne, At
<1>. QED  BY <1>1, <1>2, <1>3

(* While a reader that has left OpenRead has not released s1, no writer is
   counted: it found the door s2 open, and s1 keeps new writers out. *)
LEMMA EntryKept ==
  ASSUME IInv, NEW t \in Threads, Act(t)
  PROVE  (At({"rr_v1"}) # {} => cnt[1] = 0)'
<1>. SUFFICES ASSUME NEW r \in Threads, pc'[r] = "rr_v1"
              PROVE  cnt'[1] = 0
  BY DEF At
<1>1. Moves(t) /\ Counts(t, 1, CountedWriter, S3Held, "wp_s2", "wv_v2")
  BY TypeKept, C1Steps DEF IInv
<1>2. CASE r = t /\ pc[t] # "rr_v1"
  <2>1. pc[t] = "or_v2" /\ cnt' = cnt
    BY <1>2 DEF IInv, TypeOK, getReader, getWriter, Act, Step, EndScope,
           requestRead, endRead, requestWrite, endWrite, OpenRead, OpenRead2,
           OpenWrite, P, V, Inc, Dec, Goto
  <2>2. ~ GroupHolds(CountedWriter, "wp_s2", "wv_v2")
    BY <2>1 DEF IInv, Gate, S2Held, At
  <2>3. At({"wp_s2"}) = {}
    BY <2>1 DEF IInv, Private, AtMostOne, S1Held, At
  <2>4. At(CountedWriter) = {}
    BY <2>2, <2>3 DEF GroupHolds
  <2>. QED  BY <2>1, <2>4, FS_EmptySet DEF IInv, CounterExact
<1>3. CASE pc[r] = "rr_v1"
  <2>1. cnt[1] = 0
    BY <1>3 DEF IInv, At
  <2>2. At(CountedWriter) = {}
    BY <2>1, <1>1, AtChanges, FS_EmptySet DEF IInv, CounterExact
  <2>3. pc[t] \notin CountedWriter
    BY <2>2 DEF At
  <2>4. CASE pc[t] = "wp_inc"
    BY <1>3, <2>4 DEF IInv, Private, AtMostOne, S1Held
  <2>5. CASE pc[t] # "wp_inc"
    <3>1. cnt'[1] = cnt[1]
      BY <2>3, <2>5 DEF CountedWriter, IInv, TypeOK, getReader, getWriter, Act,
             Step, EndScope, requestRead, endRead, requestWrite, endWrite,
             OpenRead, OpenRead2, OpenWrite, P, V, Inc, Dec, Goto
    <3>. QED  BY <2>1, <3>1
  <2>. QED  BY <2>4, <2>5
<1>. QED  BY <1>1, <1>2, <1>3 DEF Moves
-----------------------------------------------------------------------------
(* IInv holds of the new lock. *)
LEMMA InitIInv ==
  ASSUME ZeroCounters, Init
  PROVE  IInv
<1>1. TypeOK
  BY DEF ZeroCounters, Init, TypeOK, Labels
<1>2. \A L : "idle" \notin L => At(L) = {}
  BY DEF Init, At
<1>3. /\ At(S1Held) = {} /\ At(S2Held) = {} /\ At(S3Held) = {}
      /\ At(S4Held) = {} /\ At(S5Held) = {}
      /\ At(CountedWriter) = {} /\ At(CountedReader) = {}
      /\ At({"wp_s2"}) = {} /\ At({"wv_v2"}) = {}
      /\ At({"rp_s4"}) = {} /\ At({"rv_v4"}) = {} /\ At({"rr_v1"}) = {}
  BY <1>2 DEF S1Held, S2Held, S3Held, S4Held, S5Held, CountedWriter,
              CountedReader
<1>4. cnt[1] = 0 /\ cnt[2] = 0 /\ \A i \in 1..5 : sem[i] = 1
  BY DEF ZeroCounters, Init
<1>5. \A L : At(L) = {} => AtMostOne(L)
  BY DEF At, AtMostOne
<1>. QED  BY <1>1, <1>3, <1>4, <1>5, FS_EmptySet
          DEF IInv, Private, CounterExact, Gate, GroupHolds

(* Every step of every thread preserves IInv. *)
LEMMA StepIInv ==
  ASSUME IInv, NEW t \in Threads, Act(t)
  PROVE  IInv'
<1>1. TypeOK /\ TypeOK' /\ Moves(t)
  BY TypeKept DEF IInv
<1>2. /\ Crosses(t, 1, S1Held) /\ Crosses(t, 3, S3Held)
      /\ Crosses(t, 5, S5Held)
  BY <1>1, S1Steps, S3Steps, S5Steps
<1>3. Private(1, S1Held)' /\ Private(3, S3Held)' /\ Private(5, S5Held)'
  BY <1>1, <1>2, PrivateKept DEF IInv, TypeOK
<1>4. /\ Counts(t, 1, CountedWriter, S3Held, "wp_s2", "wv_v2")
      /\ Counts(t, 2, CountedReader, S5Held, "rp_s4", "rv_v4")
  BY <1>1, C1Steps, C2Steps
<1>5. CounterExact(1, CountedWriter, "wp_s2", "wv_v2")'
  BY <1>1, <1>4, CounterKept DEF IInv, TypeOK, Private, S3Held
<1>6. CounterExact(2, CountedReader, "rp_s4", "rv_v4")'
  BY <1>1, <1>4, CounterKept DEF IInv, TypeOK, Private, S5Held
<1>7. Gate(2, S2Held, CountedWriter, "wp_s2", "wv_v2")'
  <2>1. Passes(t, 2, S2Held, "wp_s2", "wv_v2")
    BY <1>1, S2Steps
  <2>2. /\ "wp_s2" \in CountedWriter \cap S3Held
        /\ "wv_v2" \in S3Held \ CountedWriter
        /\ "wp_s2" \notin S2Held /\ "wv_v2" \notin S2Held
    BY DEF CountedWriter, S3Held, S2Held
  <2>. QED  BY <1>1, <1>4, <1>5, <2>1, <2>2, GateKept
            DEF IInv, TypeOK, Private
<1>8. Gate(4, S4Held, CountedReader, "rp_s4", "rv_v4")'
  <2>1. Passes(t, 4, S4Held, "rp_s4", "rv_v4")
    BY <1>1, S4Steps
  <2>2. /\ "rp_s4" \in CountedReader \cap S5Held
        /\ "rv_v4" \in S5Held \ CountedReader
        /\ "rp_s4" \notin S4Held /\ "rv_v4" \notin S4Held
    BY DEF CountedReader, S5Held, S4Held
  <2>. QED  BY <1>1, <1>4, <1>6, <2>1, <2>2, GateKept
            DEF IInv, TypeOK, Private
<1>9. (At({"rr_v1"}) # {} => cnt[1] = 0)'
  BY EntryKept
<1>. QED  BY <1>1, <1>3, <1>5, <1>6, <1>7, <1>8, <1>9 DEF IInv

(* A step of the specification preserves IInv. *)
LEMMA NextIInv ==
  ASSUME IInv, [Next]_vars
  PROVE  IInv'
<1>1. CASE Next
  BY <1>1, StepIInv DEF Next, Act
<1>2. CASE UNCHANGED vars
  BY <1>2 DEF vars, IInv, TypeOK, Private, CounterExact, Gate, GroupHolds,
              AtMostOne, At
<1>. QED  BY <1>1, <1>2

(* The accounting of every semaphore and counter holds in every reachable
   state, with any number of threads. *)
THEOREM Accounting ==
  ASSUME ZeroCounters
  PROVE  Spec => []IInv
<1>1. Init => IInv
  BY InitIInv
<1>2. IInv /\ [Next]_vars => IInv'
  BY NextIInv
<1>. QED  BY <1>1, <1>2, PTL DEF Spec

(* No semaphore goes below 0, and every thread stays on the labels of the
   code. *)
THEOREM Typed ==
  ASSUME ZeroCounters
  PROVE  Spec => []TypeOK
<1>1. IInv => TypeOK
  BY DEF IInv
<1>. QED  BY <1>1, Accounting, PTL

(* A writer that has the lock is the only thread that has it. *)
LEMMA IInvExclusive ==
  ASSUME IInv
  PROVE  MutualExclusion
<1>. SUFFICES ASSUME NEW t \in Threads, pc[t] = "write"
              PROVE  Writing = {t} /\ Reading = {}
  BY DEF MutualExclusion, Writing
<1>1. Writing = {t}
  BY DEF IInv, Gate, AtMostOne, S4Held, Writing
<1>2. ~ GroupHolds(CountedReader, "rp_s4", "rv_v4")
  BY DEF IInv, Gate, S4Held, At
<1>3. ASSUME NEW r \in Threads, pc[r] = "read"
      PROVE  FALSE
  <2>1. r \in At(CountedReader)
    BY <1>3 DEF At, CountedReader
  <2>2. PICK u \in Threads : pc[u] = "rp_s4"
    BY <1>2, <2>1 DEF GroupHolds, At
  <2>3. Cardinality(At(CountedReader)) = 1 /\ u \in At(CountedReader)
    BY <2>2 DEF IInv, CounterExact, At, CountedReader
  <2>4. IsFiniteSet(At(CountedReader))
    BY FS_Subset, RWLockAssumption DEF At
  <2>. QED  BY <1>3, <2>1, <2>2, <2>3, <2>4, FS_Singleton
<1>. QED  BY <1>1, <1>3 DEF Reading

(* No second Writer and no Reader is ever alive with a Writer. *)
THEOREM Exclusive ==
  ASSUME ZeroCounters
  PROVE  Spec => []MutualExclusion
BY Accounting, IInvExclusive, PTL

(* Whoever enters "read" does so by requestRead's last step, whoever leaves
   it by its EndScope; the same for "write". *)
LEMMA Borders ==
  ASSUME TypeOK, NEW t \in Threads, Act(t)
  PROVE  /\ pc[t] # "read" /\ pc'[t] = "read" => pc[t] = "rr_v1"
         /\ pc[t] # "write" /\ pc'[t] = "write" => pc[t] = "rw_v1"
         /\ pc[t] = "read" => pc'[t] # "write"
         /\ pc[t] = "write" => pc'[t] # "read"
         /\ pc'[t] # pc[t]
BY DEF TypeOK, getReader, getWriter, Act, Step, EndScope, requestRead,
       endRead, requestWrite, endWrite, OpenRead, OpenRead2, OpenWrite, P,
       V, Inc, Dec, Goto

(* A reader is let in only when no writer is counted. *)
THEOREM WritersTogether ==
  ASSUME ZeroCounters
  PROVE  Spec => WritersServedTogether
<1>1. IInv /\ [Next]_vars =>
        [\A t \in Threads : pc[t] # "read" /\ pc'[t] = "read"
                              => cnt[1] = 0]_vars
  <2>. SUFFICES ASSUME IInv, Next, NEW u \in Threads,
                       pc[u] # "read", pc'[u] = "read"
                PROVE  cnt[1] = 0
    OBVIOUS
  <2>1. PICK t \in Threads : Act(t)
    BY DEF Next, Act
  <2>2. u = t
    BY <2>1, TypeKept DEF IInv, Moves
  <2>3. pc[u] = "rr_v1"
    BY <2>1, <2>2, Borders DEF IInv
  <2>. QED  BY <2>3 DEF IInv, At
<1>. QED  BY <1>1, Accounting, PTL DEF Spec, WritersServedTogether

(* No writer is alive or counted when a reader is about to be let in, and
   nobody is alive when a writer is. *)
LEMMA EntryClear ==
  ASSUME IInv, NEW t \in Threads
  PROVE  /\ pc[t] = "rr_v1" => Writing = {}
         /\ pc[t] = "rw_v1" => Writing = {} /\ Reading = {}
<1>1. ASSUME pc[t] = "rr_v1"
      PROVE  Writing = {}
  <2>1. At(CountedWriter) = {}
    <3>1. cnt[1] = 0
      BY <1>1 DEF IInv, At
    <3>2. IsFiniteSet(At(CountedWriter))
      BY FS_Subset, RWLockAssumption DEF At
    <3>. QED  BY <3>1, <3>2, FS_EmptySet DEF IInv, CounterExact
  <2>. QED  BY <2>1 DEF At, CountedWriter, Writing
<1>2. ASSUME pc[t] = "rw_v1"
      PROVE  Writing = {} /\ Reading = {}
  <2>1. Writing = {}
    BY <1>2 DEF IInv, Gate, AtMostOne, S4Held, Writing
  <2>2. ~ GroupHolds(CountedReader, "rp_s4", "rv_v4")
    BY <1>2 DEF IInv, Gate, S4Held, At
  <2>3. At({"rp_s4"}) = {}
    BY <1>2 DEF IInv, Private, AtMostOne, S1Held, At
  <2>. QED  BY <2>1, <2>2, <2>3 DEF GroupHolds, At, CountedReader, Reading
<1>. QED  BY <1>1, <1>2

(* Every step of the lock is a step of the abstract lock or leaves its
   readers and writers as they are. *)
LEMMA StepRefines ==
  ASSUME IInv, [Next]_vars
  PROVE  [RW!RWNext]_<<Reading, Writing>>
<1>1. CASE UNCHANGED vars
  BY <1>1 DEF vars, Reading, Writing
<1>2. ASSUME NEW t \in Threads, Act(t)
      PROVE  [RW!RWNext]_<<Reading, Writing>>
  <2>1. Moves(t) /\ TypeOK
    BY <1>2, TypeKept DEF IInv
  <2>2. CASE pc'[t] = "read"
    <3>1. pc[t] = "rr_v1"
      BY <1>2, <2>1, <2>2, Borders
    <3>2. Reading' = Reading \cup {t} /\ Writing' = Writing
          /\ t \notin Reading
      BY <2>1, <2>2, <3>1 DEF Moves, Reading, Writing
    <3>. QED  BY <3>1, <3>2, EntryClear DEF RW!RWNext, RW!BeginRead
  <2>3. CASE pc[t] = "read" /\ pc'[t] # "read"
    <3>1. pc'[t] # "write"
      BY <1>2, <2>1, <2>3, Borders
    <3>2. Reading' = Reading \ {t} /\ Writing' = Writing /\ t \in Reading
      BY <2>1, <2>3, <3>1 DEF Moves, Reading, Writing
    <3>. QED  BY <3>2 DEF RW!RWNext, RW!EndRead
  <2>4. CASE pc'[t] = "write"
    <3>1. pc[t] = "rw_v1"
      BY <1>2, <2>1, <2>4, Borders
    <3>2. Writing' = Writing \cup {t} /\ Reading' = Reading
      BY <2>1, <2>4, <3>1 DEF Moves, Reading, Writing
    <3>. QED  BY <3>1, <3>2, EntryClear DEF RW!RWNext, RW!BeginWrite
  <2>5. CASE pc[t] = "write" /\ pc'[t] # "write"
    <3>1. pc'[t] # "read"
      BY <1>2, <2>1, <2>5, Borders
    <3>2. Writing' = Writing \ {t} /\ Reading' = Reading /\ t \in Writing
      BY <2>1, <2>5, <3>1 DEF Moves, Reading, Writing
    <3>. QED  BY <3>2 DEF RW!RWNext, RW!EndWrite
  <2>6. CASE {pc[t], pc'[t]} \cap {"read", "write"} = {}
    BY <2>1, <2>6 DEF Moves, Reading, Writing
  <2>. QED  BY <2>2, <2>3, <2>4, <2>5, <2>6
<1>. QED  BY <1>1, <1>2 DEF Next, Act

(* The five semaphores and two counters implement the abstract
   readers-writers lock. *)
THEOREM Implements ==
  ASSUME ZeroCounters
  PROVE  Spec => ImplementsReadersWriters
<1>1. Init => RW!RWInit
  BY DEF Init, RW!RWInit, Reading, Writing
<1>2. IInv /\ [Next]_vars => [RW!RWNext]_<<Reading, Writing>>
  BY StepRefines
<1>. QED  BY <1>1, <1>2, Accounting, PTL
          DEF Spec, ImplementsReadersWriters, RW!RWSpec, RW!rwVars
-----------------------------------------------------------------------------
(* Nobody waits for ever on everybody else *)

\* the next operation of t is a P that cannot be done now
Waits(t, i, L) == pc[t] \in L /\ sem[i] = 0
Blocked(t) == \/ Waits(t, 1, {"rr_s1", "rw_s1"})
              \/ Waits(t, 2, {"or_s2", "wp_s2"})
              \/ Waits(t, 3, {"wp_s3", "wv_s3"})
              \/ Waits(t, 4, {"rp_s4", "ow_s4"})
              \/ Waits(t, 5, {"rp_s5", "rv_s5"})

\* t is inside the lock or holds it, and nothing keeps it from going on
Able(t) == pc[t] # "idle" /\ ~ Blocked(t)

NoDeadlock == (\E t \in Threads : pc[t] # "idle") => \E t \in Threads : Able(t)

(* Whoever takes a step was able to. *)
LEMMA StepsAreAble ==
  ASSUME TypeOK, NEW t \in Threads, Step(t)
  PROVE  Able(t)
BY DEF TypeOK, Able, Blocked, Waits, Step, EndScope, requestRead, endRead,
       requestWrite, endWrite, OpenRead, OpenRead2, OpenWrite, P, V, Inc, Dec,
       Goto

(* The locks cannot wait on each other in a circle: s4 is taken under s1, s2
   and s5, or s1 alone, and given without any of them; s2 under s1 and s3. *)
LEMMA SomebodyIsAble ==
  ASSUME IInv
  PROVE  NoDeadlock
<1>. SUFFICES ASSUME \A t \in Threads : ~ Able(t)
              PROVE  \A t \in Threads : pc[t] = "idle"
  BY DEF NoDeadlock
<1>. DEFINE Waiting == {"rr_s1", "rw_s1", "or_s2", "wp_s2", "wp_s3", "wv_s3",
                        "rp_s4", "ow_s4", "rp_s5", "rv_s5"}
<1>1. \A t \in Threads : pc[t] = "idle" \/ (Blocked(t) /\ pc[t] \in Waiting)
  BY DEF Able, Blocked, Waits
<1>2. At({"rp_s4"}) = {}
  <2>. SUFFICES ASSUME NEW t \in Threads, pc[t] = "rp_s4" PROVE FALSE
    BY DEF At
  <2>1. sem[4] = 0
    BY <1>1 DEF Blocked, Waits
  <2>2. At(S4Held) = {} /\ At({"rv_v4"}) = {} /\ At({"rp_s4"}) # {}
    BY <1>1 DEF At, S4Held
  <2>. QED  BY <2>1, <2>2 DEF IInv, Gate, GroupHolds
<1>3. At({"wp_s2"}) = {}
  <2>. SUFFICES ASSUME NEW t \in Threads, pc[t] = "wp_s2" PROVE FALSE
    BY DEF At
  <2>1. sem[2] = 0
    BY <1>1 DEF Blocked, Waits
  <2>2. \A u \in Threads : pc[u] # "rp_s5"
    BY DEF IInv, Private, AtMostOne, S1Held
  <2>3. At(S2Held) = {} /\ At({"wv_v2"}) = {} /\ At({"wp_s2"}) # {}
    BY <1>1, <1>2, <2>2 DEF At, S2Held
  <2>. QED  BY <2>1, <2>3 DEF IInv, Gate, GroupHolds
<1>4. \A t \in Threads : pc[t] \notin {"rp_s5", "rv_s5"}
  <2>1. At(S5Held) = {}
    BY <1>1, <1>2 DEF At, S5Held
  <2>2. sem[5] = 1
    BY <2>1 DEF IInv, Private
  <2>. QED  BY <1>1, <2>2 DEF Blocked, Waits
<1>5. \A t \in Threads : pc[t] \notin {"wp_s3", "wv_s3"}
  <2>1. At(S3Held) = {}
    BY <1>1, <1>3 DEF At, S3Held
  <2>2. sem[3] = 1
    BY <2>1 DEF IInv, Private
  <2>. QED  BY <1>1, <2>2 DEF Blocked, Waits
<1>6. \A t \in Threads : pc[t] # "ow_s4"
  <2>1. At(S4Held) = {} /\ At({"rv_v4"}) = {} /\ At(CountedReader) = {}
    BY <1>1, <1>2, <1>4 DEF At, S4Held, CountedReader
  <2>2. sem[4] = 1
    BY <2>1 DEF IInv, Gate, GroupHolds
  <2>. QED  BY <1>1, <2>2 DEF Blocked, Waits
<1>7. \A t \in Threads : pc[t] # "or_s2"
  <2>1. At(S2Held) = {} /\ At({"wv_v2"}) = {} /\ At(CountedWriter) = {}
    BY <1>1, <1>2, <1>3, <1>4, <1>5, <1>6 DEF At, S2Held, CountedWriter
  <2>2. sem[2] = 1
    BY <2>1 DEF IInv, Gate, GroupHolds
  <2>. QED  BY <1>1, <2>2 DEF Blocked, Waits
<1>8. \A t \in Threads : pc[t] \notin {"rr_s1", "rw_s1"}
  <2>1. At(S1Held) = {}
    BY <1>1, <1>2, <1>3, <1>4, <1>5, <1>6, <1>7 DEF At, S1Held
  <2>2. sem[1] = 1
    BY <2>1 DEF IInv, Private
  <2>. QED  BY <1>1, <2>2 DEF Blocked, Waits
<1>. QED  BY <1>1, <1>2, <1>3, <1>4, <1>5, <1>6, <1>7, <1>8 DEF At

(* As long as any thread is inside the lock or holds it, one of them can go on,
   with any number of threads: the five semaphores never deadlock. *)
THEOREM NeverStuck ==
  ASSUME ZeroCounters
  PROVE  Spec => []NoDeadlock
<1>1. IInv => NoDeadlock
  BY SomebodyIsAble
<1>. QED  BY <1>1, Accounting, PTL
=============================================================================

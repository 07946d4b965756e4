--------------------------- MODULE SemaphoreProofs ---------------------------
(***************************************************************************)
(* Proofs about Semaphore for any finite set of threads, any initial and   *)
(* maximal count and any mix of timed and untimed waits: _waiters is       *)
(* exact, no wakeup is lost, and the implementation refines the atomic     *)
(* semaphore (its safety part; liveness is left to the model checker).     *)
(***************************************************************************)
EXTENDS Semaphore, FiniteSetTheorems, TLAPS

\* threads that are awake inside wait()
Awake == In("woken") \cup In("expired")

(* A set of threads is finite; adding or removing one counts as expected. *)
LEMMA Counting ==
  ASSUME NEW S \in SUBSET Threads, NEW t \in Threads
  PROVE  /\ Cardinality(S) \in Nat
         /\ t \notin S => Cardinality(S \cup {t}) = Cardinality(S) + 1
         /\ t \in S => Cardinality(S \ {t}) = Cardinality(S) - 1
         /\ t \in S => Cardinality(S) > 0
<1>1. IsFiniteSet(S)
  BY FS_Subset, SemaphoreAssumption
<1>2. Cardinality(S) \in Nat
  BY <1>1, FS_CardinalityType
<1>3. t \in S => Cardinality(S) # 0
  BY <1>1, FS_EmptySet
<1>4. t \notin S => Cardinality(S \cup {t}) = Cardinality(S) + 1
  BY <1>1, FS_AddElement
<1>5. t \in S => Cardinality(S \ {t}) = Cardinality(S) - 1
  BY <1>1, FS_RemoveElement
<1>. QED  BY <1>2, <1>3, <1>4, <1>5

(* What leaving wait() does to the set of waiting threads. *)
LEMMA LeaveStep ==
  ASSUME TypeOK, NEW t \in Threads, NEW result \in BOOLEAN,
         Leave(t, result), pc[t] \in {"woken", "expired"}
  PROVE  TypeOK' /\ Waiting' = Waiting \ {t} /\ t \in Waiting
<1>1. Waiting' = Waiting \ {t} /\ t \in Waiting
  BY DEF Leave, TypeOK, Waiting
<1>2. waiters' = Cardinality(Waiting')
  BY <1>1, Counting DEF Leave, TypeOK, Waiting
<1>3. count' \in 0..MaxCount
  BY SemaphoreAssumption DEF Leave, TypeOK
<1>4. /\ pc' \in [Threads -> States]
      /\ timed' \subseteq TimedCallers
      /\ In("expired")' \subseteq timed' /\ flag' \in [Threads -> BOOLEAN]
  BY DEF Leave, TypeOK, States, In
<1>. QED  BY <1>1, <1>2, <1>3, <1>4 DEF TypeOK

(* Every step keeps the types and the exact number of waiters. *)
LEMMA StepType ==
  ASSUME TypeOK, [Next]_vars
  PROVE  TypeOK'
<1>. USE SemaphoreAssumption
<1>1. ASSUME NEW t \in Threads, WaitPasses(t)
      PROVE  TypeOK'
  BY <1>1 DEF WaitPasses, TypeOK, Waiting, In
<1>2. ASSUME NEW t \in Threads, WaitBlocks(t)
      PROVE  TypeOK'
  <2>1. Waiting' = Waiting \cup {t} /\ t \notin Waiting
    BY <1>2 DEF WaitBlocks, TypeOK, Waiting
  <2>2. waiters' = Cardinality(Waiting')
    BY <1>2, <2>1, Counting DEF WaitBlocks, TypeOK, Waiting
  <2>3. /\ timed' \subseteq TimedCallers
        /\ timed \ {t} \subseteq timed'
    BY <1>2 DEF WaitBlocks, TypeOK
  <2>4. In("expired")' \subseteq timed'
    BY <1>2, <2>3 DEF WaitBlocks, TypeOK, In
  <2>. QED  BY <1>2, <2>2, <2>3, <2>4 DEF WaitBlocks, TypeOK, States
<1>3. ASSUME NEW t \in Threads, Resume(t)
      PROVE  TypeOK'
  <2>1. CASE count > 0 /\ Leave(t, TRUE)
    BY <1>3, <2>1, LeaveStep DEF Resume
  <2>2. CASE count = 0 /\ pc' = [pc EXCEPT ![t] = "blocked"]
    <3>1. Waiting' = Waiting
      BY <1>3, <2>2 DEF Resume, TypeOK, Waiting
    <3>. QED  BY <1>3, <2>2, <3>1
              DEF Resume, Leave, TypeOK, States, In
  <2>. QED  BY <1>3, <2>1, <2>2 DEF Resume
<1>4. ASSUME NEW t \in Threads, ResumeTimed(t)
      PROVE  TypeOK'
  <2>1. (count > 0) \in BOOLEAN
    OBVIOUS
  <2>. QED  BY <1>4, <2>1, LeaveStep DEF ResumeTimed
<1>5. ASSUME NEW t \in Threads, SpuriousWake(t) \/ Expire(t)
      PROVE  TypeOK'
  <2>1. Waiting' = Waiting
    BY <1>5 DEF SpuriousWake, Expire, TypeOK, Waiting
  <2>. QED  BY <1>5, <2>1 DEF SpuriousWake, Expire, TypeOK, States, In
<1>6. ASSUME NEW t \in Threads, post(t)
      PROVE  TypeOK'
  <2>1. CASE pc' = pc
    BY <1>6, <2>1 DEF post, TypeOK, Waiting, In
  <2>2. CASE \E u \in In("blocked") : pc' = [pc EXCEPT ![u] = "woken"]
    <3>1. Waiting' = Waiting
      BY <2>2 DEF TypeOK, Waiting, In
    <3>. QED  BY <1>6, <2>2, <3>1 DEF post, TypeOK, States, In
  <2>. QED  BY <1>6, <2>1, <2>2 DEF post, Signal
<1>7. CASE UNCHANGED vars
  BY <1>7 DEF vars, TypeOK, Waiting, In
<1>. QED  BY <1>1, <1>2, <1>3, <1>4, <1>5, <1>6, <1>7 DEF Next

(* A thread that blocks finds no unit; one that leaves takes a unit if there
   is one; a post wakes one thread for the unit it adds. *)
LEMMA StepNoLostWakeup ==
  ASSUME IInv, [Next]_vars
  PROVE  NoLostWakeup'
<1>. USE SemaphoreAssumption
<1>. SUFFICES ASSUME In("blocked")' # {}
              PROVE  count' <= Cardinality(Awake')
  BY DEF NoLostWakeup, Awake
<1>0. /\ TypeOK
      /\ In("blocked") # {} => count <= Cardinality(Awake)
      /\ Awake \in SUBSET Threads /\ Awake' \in SUBSET Threads
      /\ Cardinality(Awake) \in Nat /\ Cardinality(Awake') \in Nat
  <2>1. Awake \in SUBSET Threads /\ Awake' \in SUBSET Threads
    BY DEF Awake, In
  <2>2. PICK t \in Threads : TRUE
    BY DEF In
  <2>. QED  BY <2>1, <2>2, Counting DEF IInv, NoLostWakeup, Awake
<1>1. ASSUME NEW t \in Threads, WaitPasses(t)
      PROVE  count' <= Cardinality(Awake')
  <2>1. In("blocked")' = In("blocked") /\ Awake' = Awake
    BY <1>1 DEF WaitPasses, In, Awake
  <2>. QED  BY <1>0, <1>1, <2>1 DEF WaitPasses, TypeOK
<1>2. ASSUME NEW t \in Threads, count' = 0
      PROVE  count' <= Cardinality(Awake')
  BY <1>0, <1>2
<1>3. ASSUME NEW t \in Threads, NEW result \in BOOLEAN,
             Leave(t, result), pc[t] \in {"woken", "expired"}
      PROVE  count' <= Cardinality(Awake')
  <2>1. /\ In("blocked")' = In("blocked")
        /\ Awake' = Awake \ {t} /\ t \in Awake
    BY <1>0, <1>3 DEF Leave, TypeOK, In, Awake
  <2>2. Cardinality(Awake') = Cardinality(Awake) - 1
    BY <1>0, <2>1, Counting
  <2>. QED  BY <1>0, <1>3, <2>1, <2>2 DEF Leave, TypeOK
<1>4. ASSUME NEW t \in Threads, SpuriousWake(t) \/ Expire(t)
      PROVE  count' <= Cardinality(Awake')
  <2>1. /\ t \in In("blocked") /\ count' = count
        /\ Awake' = Awake \cup {t} /\ t \notin Awake
    BY <1>0, <1>4 DEF SpuriousWake, Expire, TypeOK, In, Awake
  <2>2. Cardinality(Awake') = Cardinality(Awake) + 1
    BY <1>0, <2>1, Counting
  <2>. QED  BY <1>0, <2>1, <2>2 DEF TypeOK
<1>5. ASSUME NEW t \in Threads, post(t)
      PROVE  count' <= Cardinality(Awake')
  <2>1. waiters > 0
    <3>1. PICK u \in Threads : pc'[u] = "blocked"
      BY DEF In
    <3>2. pc[u] = "blocked"
      BY <1>0, <1>5, <3>1 DEF post, Signal, TypeOK, In
    <3>3. u \in Waiting /\ Waiting \in SUBSET Threads
      BY <3>2 DEF Waiting
    <3>. QED  BY <1>0, <3>3, Counting DEF TypeOK
  <2>2. PICK u \in In("blocked") : pc' = [pc EXCEPT ![u] = "woken"]
    BY <1>5, <2>1 DEF post, Signal, In
  <2>3. Awake' = Awake \cup {u} /\ u \notin Awake /\ u \in Threads
    BY <1>0, <2>2 DEF TypeOK, In, Awake
  <2>4. Cardinality(Awake') = Cardinality(Awake) + 1
    BY <1>0, <2>3, Counting
  <2>. QED  BY <1>0, <1>5, <2>2, <2>4 DEF post, TypeOK
<1>6. CASE UNCHANGED vars
  BY <1>0, <1>6 DEF vars, In, Awake
<1>7. ASSUME NEW t \in Threads, WaitBlocks(t)
      PROVE  count' = 0
  BY <1>7 DEF WaitBlocks
<1>8. ASSUME NEW t \in Threads, Resume(t) \/ ResumeTimed(t)
      PROVE  count' <= Cardinality(Awake')
  <2>1. (count > 0) \in BOOLEAN
    OBVIOUS
  <2>. QED  BY <1>2, <1>3, <1>8, <2>1 DEF Resume, ResumeTimed
<1>. QED  BY <1>1, <1>2, <1>4, <1>5, <1>6, <1>7, <1>8 DEF Next

(* IInv is an invariant of the semaphore: no wakeup is lost. *)
THEOREM SemaphoreSafe == Spec => []IInv
<1>1. Init => IInv
  <2>1. ASSUME Init
        PROVE  Waiting = {} /\ In("blocked") = {} /\ In("expired") = {}
    BY <2>1 DEF Init, Waiting, In
  <2>. QED  BY <2>1, FS_EmptySet, SemaphoreAssumption
            DEF Init, IInv, TypeOK, NoLostWakeup, States
<1>2. IInv /\ [Next]_vars => IInv'
  BY StepType, StepNoLostWakeup DEF IInv
<1>. QED  BY <1>1, <1>2, PTL DEF Spec

(* While a thread sleeps in cond_wait, nobody leaves a unit that no awake
   thread is about to take: post() always finds a sleeper to signal. *)
THEOREM NoWakeupIsLost == Spec => []NoLostWakeup
<1>1. IInv => NoLostWakeup
  BY DEF IInv
<1>. QED  BY <1>1, SemaphoreSafe, PTL

(* waiters counts the threads between waiters++ and waiters--, whichever way
   each of them leaves. *)
THEOREM WaitersCounted == Spec => []TypeOK
<1>1. IInv => TypeOK
  BY DEF IInv
<1>. QED  BY <1>1, SemaphoreSafe, PTL

(* Every step is a step of the atomic semaphore or changes neither its value
   nor who waits. *)
LEMMA StepAtomic ==
  ASSUME TypeOK, [Next]_vars
  PROVE  [A!ANext]_<<count, Waiting>>
<1>. USE SemaphoreAssumption DEF A!ANext
<1>1. ASSUME NEW t \in Threads, WaitPasses(t)
      PROVE  A!Pass(t)
  BY <1>1 DEF WaitPasses, A!Pass, Waiting
<1>2. ASSUME NEW t \in Threads, WaitBlocks(t)
      PROVE  A!Call(t)
  <2>1. Waiting' = Waiting \cup {t} /\ t \notin Waiting /\ count' = count
    BY <1>2 DEF WaitBlocks, TypeOK, Waiting
  <2>. QED  BY <2>1 DEF A!Call
<1>3. ASSUME NEW t \in Threads, NEW result \in BOOLEAN,
             Leave(t, result), pc[t] \in {"woken", "expired"}
      PROVE  IF count > 0 THEN A!Take(t)
             ELSE /\ Waiting' = Waiting \ {t} /\ t \in Waiting
                  /\ count' = count
  <2>1. Waiting' = Waiting \ {t} /\ t \in Waiting
    BY <1>3, LeaveStep
  <2>2. /\ count > 0 => count' = count - 1
        /\ ~ (count > 0) => count' = count
    BY <1>3 DEF Leave, TypeOK
  <2>. QED  BY <2>1, <2>2 DEF A!Take
<1>4. ASSUME NEW t \in Threads, Resume(t)
      PROVE  A!Take(t) \/ UNCHANGED <<count, Waiting>>
  <2>1. CASE count > 0 /\ Leave(t, TRUE)
    BY <1>3, <1>4, <2>1 DEF Resume
  <2>2. CASE count' = count /\ pc' = [pc EXCEPT ![t] = "blocked"]
    BY <1>4, <2>2 DEF Resume, TypeOK, Waiting
  <2>. QED  BY <1>4, <2>1, <2>2 DEF Resume
<1>5. ASSUME NEW t \in Threads, ResumeTimed(t)
      PROVE  A!Take(t) \/ A!GiveUp(t)
  <2>0. (count > 0) \in BOOLEAN
    OBVIOUS
  <2>1. t \in TimedCallers
    <3>1. t \in timed
      BY <1>5 DEF ResumeTimed, TypeOK, In
    <3>. QED  BY <3>1 DEF TypeOK
  <2>2. IF count > 0 THEN A!Take(t)
        ELSE /\ Waiting' = Waiting \ {t} /\ t \in Waiting
             /\ count' = count
    BY <1>3, <1>5, <2>0 DEF ResumeTimed
  <2>. QED  BY <2>1, <2>2 DEF A!GiveUp
<1>6. ASSUME NEW t \in Threads, SpuriousWake(t) \/ Expire(t)
      PROVE  UNCHANGED <<count, Waiting>>
  BY <1>6 DEF SpuriousWake, Expire, TypeOK, Waiting
<1>7. ASSUME NEW t \in Threads, post(t)
      PROVE  A!Add
  BY <1>7 DEF post, Signal, TypeOK, A!Add, Waiting, In
<1>8. CASE UNCHANGED vars
  BY <1>8 DEF vars, Waiting
<1>. QED  BY <1>1, <1>2, <1>4, <1>5, <1>6, <1>7, <1>8 DEF Next

(* The semaphore implements the atomic one. *)
THEOREM SemaphoreAtomic == Spec => ImplementsAtomic
<1>1. Init => A!AInit
  BY DEF Init, A!AInit, Waiting
<1>2. IInv /\ [Next]_vars => [A!ANext]_<<count, Waiting>>
  BY StepAtomic DEF IInv
<1>. QED  BY <1>1, <1>2, SemaphoreSafe, PTL
          DEF Spec, ImplementsAtomic, A!ASafe, A!avars
=============================================================================

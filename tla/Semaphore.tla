------------------------------ MODULE Semaphore ------------------------------
(***************************************************************************)
(* Semaphore (src/common/types/semaphore.cpp): a counter, a number of      *)
(* waiters, a mutex and a condition variable.  What runs between the       *)
(* locking of the mutex and its release, in unlock or in cond_wait, is one *)
(* step.  A condition variable may wake a thread nobody signalled.         *)
(***************************************************************************)
EXTENDS Naturals, FiniteSets

CONSTANTS Threads,
          Resource,    \* constructor argument
          MaxCount,    \* bound: post() is not called at this count
          TimedCallers \* threads that may call wait(timeout) as well as wait()

ASSUME SemaphoreAssumption ==
    /\ IsFiniteSet(Threads)
    /\ Resource \in Nat /\ MaxCount \in Nat /\ Resource <= MaxCount
    /\ TimedCallers \subseteq Threads

VARIABLES count,     \* _count
          waiters,   \* _waiters
          pc,        \* where each thread is, see States
          timed,     \* threads whose current wait has a timeout
          flag       \* what each thread's last wait returned

vars == <<count, waiters, pc, timed, flag>>

\* blocked: inside cond_wait; woken: signalled, or woken for no reason, and
\* about to reacquire the mutex; expired: timedwait is about to return an error
States == {"idle", "blocked", "woken", "expired"}

In(s) == {t \in Threads : pc[t] = s}

Init == /\ count = Resource /\ waiters = 0
        /\ pc = [t \in Threads |-> "idle"]
        /\ timed = {}
        /\ flag = [t \in Threads |-> TRUE]

-----------------------------------------------------------------------------
\* wait() finds a unit: ++_waiters and --_waiters cancel out
WaitPasses(t) == /\ pc[t] = "idle" /\ count > 0
                 /\ count' = count - 1
                 /\ flag' = [flag EXCEPT ![t] = TRUE]
                 /\ UNCHANGED <<waiters, pc, timed>>

WaitBlocks(t) == /\ pc[t] = "idle" /\ count = 0
                 /\ waiters' = waiters + 1
                 /\ pc' = [pc EXCEPT ![t] = "blocked"]
                 /\ \/ timed' = timed \ {t}
                    \/ t \in TimedCallers /\ timed' = timed \cup {t}
                 /\ UNCHANGED <<count, flag>>

BadLeave(t, result) == /\ waiters' = waiters       \* no --_waiters
                       /\ count' = IF count > 0 THEN count - 1 ELSE 0
                       /\ pc' = [pc EXCEPT ![t] = "idle"]
                       /\ flag' = [flag EXCEPT ![t] = result]
                       /\ UNCHANGED timed

\* the exit of wait(): the unit is taken if there is one, whatever flag is
Leave(t, result) == /\ waiters' = waiters - 1
                    /\ count' = IF count > 0 THEN count - 1 ELSE 0
                    /\ pc' = [pc EXCEPT ![t] = "idle"]
                    /\ flag' = [flag EXCEPT ![t] = result]
                    /\ UNCHANGED timed

BadResume(t) == pc[t] = "woken" /\ Leave(t, TRUE)    \* if for while

\* the loop around cond_wait
Resume(t) == /\ pc[t] = "woken" /\ t \notin timed
             /\ \/ count > 0 /\ Leave(t, TRUE)
                \/ /\ count = 0
                   /\ pc' = [pc EXCEPT ![t] = "blocked"]
                   /\ UNCHANGED <<count, waiters, timed, flag>>

\* one cond_timedwait, no loop: rc # 0 when expired
ResumeTimed(t) == \/ /\ pc[t] = "woken" /\ t \in timed
                     /\ Leave(t, count > 0)
                  \/ /\ pc[t] = "expired"
                     /\ Leave(t, FALSE)

SpuriousWake(t) == /\ pc[t] = "blocked"
                   /\ pc' = [pc EXCEPT ![t] = "woken"]
                   /\ UNCHANGED <<count, waiters, timed, flag>>

Expire(t) == /\ pc[t] = "blocked" /\ t \in timed
             /\ pc' = [pc EXCEPT ![t] = "expired"]
             /\ UNCHANGED <<count, waiters, timed, flag>>

\* wakes one of the threads inside cond_wait, if there is one
Signal == \/ \E u \in In("blocked") : pc' = [pc EXCEPT ![u] = "woken"]
          \/ In("blocked") = {} /\ pc' = pc

BadPost(t) == /\ pc[t] = "idle" /\ count < MaxCount
              /\ IF waiters > 1 THEN Signal ELSE pc' = pc
              /\ count' = count + 1
              /\ UNCHANGED <<waiters, timed, flag>>

post(t) == /\ pc[t] = "idle" /\ count < MaxCount
           /\ IF waiters > 0 THEN Signal ELSE pc' = pc
           /\ count' = count + 1
           /\ UNCHANGED <<waiters, timed, flag>>

Next == \E t \in Threads :
           \/ WaitPasses(t) \/ WaitBlocks(t)
           \/ Resume(t) \/ ResumeTimed(t)
           \/ SpuriousWake(t) \/ Expire(t)
           \/ post(t)

Spec == Init /\ [][Next]_vars

\* A woken thread gets the mutex and returns from cond_wait.
FairSpec == Spec /\ \A t \in Threads : WF_vars(Resume(t) \/ ResumeTimed(t))

-----------------------------------------------------------------------------
Waiting == {t \in Threads : pc[t] # "idle"}

(* _waiters is the number of threads inside wait(), so post() signals
   whenever there is somebody to wake. *)
TypeOK == /\ count \in 0..MaxCount
          /\ waiters = Cardinality(Waiting)
          /\ pc \in [Threads -> States]
          /\ timed \subseteq TimedCallers
          /\ In("expired") \subseteq timed
          /\ flag \in [Threads -> BOOLEAN]

(* No wakeup is lost: while a thread sleeps in cond_wait, every unit of the
   count is about to be taken by a thread that is already awake. *)
NoLostWakeup ==
    In("blocked") # {} => count <= Cardinality(In("woken") \cup In("expired"))

IInv == TypeOK /\ NoLostWakeup

A == INSTANCE AtomicSemaphore WITH value <- count, waiting <- Waiting,
                                   MayGiveUp <- TimedCallers

(* Mutex, condition variable and counter behave as the atomic semaphore. *)
ImplementsAtomic == A!ASafe

(* And with a count that is 0 or 1, as all of the lock's are, the unit a
   thread waits for does not stay untaken for ever. *)
ImplementsFairAtomic == A!ASpec
=============================================================================

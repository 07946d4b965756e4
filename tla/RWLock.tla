-------------------------------- MODULE RWLock --------------------------------
(***************************************************************************)
(* RWLock::SemaphoreSet (src/common/rwlock.cpp): five semaphores and two   *)
(* counters that implement the path expressions of the readers-writers     *)
(* lock.  Each P, V and counter update of each thread is a step of its     *)
(* own.  P and V are atomic here; Semaphore.tla shows that the mutex and   *)
(* condition variable behind them behave as if they were.                  *)
(***************************************************************************)
EXTENDS Integers, FiniteSets

CONSTANTS Threads,      \* the threads that use this lock
          InitCounts    \* values c1 and c2 may hold when the lock is created

\* SemaphoreSet has no constructor and c1, c2 no initializer: InitCounts is
\* the set of values the allocated memory may contain.
ASSUME RWLockAssumption == IsFiniteSet(Threads) /\ InitCounts \subseteq Int

VARIABLES sem,   \* sem[i]: the count of semaphore s_i
          cnt,   \* cnt[1] = c1 (writers), cnt[2] = c2 (readers)
          pc     \* pc[t]: the next operation of thread t

vars == <<sem, cnt, pc>>

\* Labels: rr requestRead, or OpenRead, rp PP(c2,s5,s4), rv VV(c2,s5,s4);
\*         rw requestWrite, ow OpenWrite, wp PP(c1,s3,s2), ew endWrite,
\*         wv VV(c1,s3,s2).  _sN: before sN.P(); _vN: before sN.V().
ReadEntry  == {"rr_s1", "or_s2", "rp_s5", "rp_inc", "rp_s4", "rp_v5",
               "or_v2", "rr_v1"}
ReadExit   == {"rv_s5", "rv_dec", "rv_v4", "rv_v5"}
WriteEntry == {"rw_s1", "wp_s3", "wp_inc", "wp_s2", "wp_v3", "ow_s4", "rw_v1"}
WriteExit  == {"ew_v4", "wv_s3", "wv_dec", "wv_v2", "wv_v3"}
Labels == {"idle", "read", "write"} \cup ReadEntry \cup ReadExit
             \cup WriteEntry \cup WriteExit

Init == /\ sem = [i \in 1..5 |-> 1]
        /\ cnt \in [1..2 -> InitCounts]
        /\ pc = [t \in Threads |-> "idle"]

-----------------------------------------------------------------------------
Goto(t, from, to) == pc[t] = from /\ pc' = [pc EXCEPT ![t] = to]

\* Definitions named Bad_X are X with a plausible bug; no run uses them but
\* the mutants that show X's properties can fail.
Bad_P(t, i, from, to) == /\ Goto(t, from, to)      \* does not wait
                         /\ sem' = [sem EXCEPT ![i] = @ - 1]
                         /\ UNCHANGED cnt

P(t, i, from, to) == /\ Goto(t, from, to)
                     /\ sem[i] > 0
                     /\ sem' = [sem EXCEPT ![i] = @ - 1]
                     /\ UNCHANGED cnt

V(t, i, from, to) == /\ Goto(t, from, to)
                     /\ sem' = [sem EXCEPT ![i] = @ + 1]
                     /\ UNCHANGED cnt

Bad_Inc(t, c, from, gate, skip) ==                  \* every entrant locks
    /\ Goto(t, from, gate)
    /\ cnt' = [cnt EXCEPT ![c] = @ + 1]
    /\ UNCHANGED sem

\* ++counter; the thread that makes it 1 goes on to lock the gate
Inc(t, c, from, gate, skip) ==
    /\ Goto(t, from, IF cnt[c] + 1 = 1 THEN gate ELSE skip)
    /\ cnt' = [cnt EXCEPT ![c] = @ + 1]
    /\ UNCHANGED sem

Bad_Dec(t, c, from, gate, skip) ==                  \* nobody reopens
    /\ Goto(t, from, skip)
    /\ cnt' = [cnt EXCEPT ![c] = @ - 1]
    /\ UNCHANGED sem

\* --counter; the thread that makes it 0 goes on to open the gate
Dec(t, c, from, gate, skip) ==
    /\ Goto(t, from, IF cnt[c] - 1 = 0 THEN gate ELSE skip)
    /\ cnt' = [cnt EXCEPT ![c] = @ - 1]
    /\ UNCHANGED sem

-----------------------------------------------------------------------------
\* OpenRead2: the first reader in takes s4 for all of them
OpenRead2(t) == \/ P(t, 5, "rp_s5", "rp_inc")
                \/ Inc(t, 2, "rp_inc", "rp_s4", "rp_v5")
                \/ P(t, 4, "rp_s4", "rp_v5")
                \/ V(t, 5, "rp_v5", "or_v2")

Bad_OpenRead(t) == \/ Goto(t, "or_s2", "rp_s5") /\ UNCHANGED <<sem, cnt>>
                   \/ OpenRead2(t)                  \* ignores the door s2
                   \/ Goto(t, "or_v2", "rr_v1") /\ UNCHANGED <<sem, cnt>>

OpenRead(t) == \/ P(t, 2, "or_s2", "rp_s5")
               \/ OpenRead2(t)
               \/ V(t, 2, "or_v2", "rr_v1")

requestRead(t) == \/ P(t, 1, "rr_s1", "or_s2")
                  \/ OpenRead(t)
                  \/ V(t, 1, "rr_v1", "read")

Bad_endRead(t) == \/ P(t, 5, "rv_s5", "rv_dec")    \* every reader gives s4
                  \/ /\ Goto(t, "rv_dec", "rv_v4")
                     /\ cnt' = [cnt EXCEPT ![2] = @ - 1]
                     /\ UNCHANGED sem
                  \/ V(t, 4, "rv_v4", "rv_v5")
                  \/ V(t, 5, "rv_v5", "idle")

\* the last reader out gives s4 back
endRead(t) == \/ P(t, 5, "rv_s5", "rv_dec")
              \/ Dec(t, 2, "rv_dec", "rv_v4", "rv_v5")
              \/ V(t, 4, "rv_v4", "rv_v5")
              \/ V(t, 5, "rv_v5", "idle")

Bad_OpenWrite(t) == \/ P(t, 3, "wp_s3", "wp_inc")  \* no s4.P()
                    \/ Inc(t, 1, "wp_inc", "wp_s2", "wp_v3")
                    \/ P(t, 2, "wp_s2", "wp_v3")
                    \/ V(t, 3, "wp_v3", "rw_v1")

\* the first writer shuts the readers' door s2, then every writer takes s4
OpenWrite(t) == \/ P(t, 3, "wp_s3", "wp_inc")
                \/ Inc(t, 1, "wp_inc", "wp_s2", "wp_v3")
                \/ P(t, 2, "wp_s2", "wp_v3")
                \/ V(t, 3, "wp_v3", "ow_s4")
                \/ P(t, 4, "ow_s4", "rw_v1")

requestWrite(t) == \/ P(t, 1, "rw_s1", "wp_s3")
                   \/ OpenWrite(t)
                   \/ V(t, 1, "rw_v1", "write")

endWrite(t) == \/ V(t, 4, "ew_v4", "wv_s3")
               \/ P(t, 3, "wv_s3", "wv_dec")
               \/ Dec(t, 1, "wv_dec", "wv_v2", "wv_v3")
               \/ V(t, 2, "wv_v2", "wv_v3")
               \/ V(t, 3, "wv_v3", "idle")

getReader(t) == Goto(t, "idle", "rr_s1") /\ UNCHANGED <<sem, cnt>>
getWriter(t) == Goto(t, "idle", "rw_s1") /\ UNCHANGED <<sem, cnt>>

\* the scope of the Reader or Writer object ends: its destructor runs
EndScope(t) == \/ Goto(t, "read", "rv_s5") /\ UNCHANGED <<sem, cnt>>
               \/ Goto(t, "write", "ew_v4") /\ UNCHANGED <<sem, cnt>>

Step(t) == \/ requestRead(t) \/ endRead(t)
           \/ requestWrite(t) \/ endWrite(t) \/ EndScope(t)

Next == \E t \in Threads : getReader(t) \/ getWriter(t) \/ Step(t)

Spec == Init /\ [][Next]_vars

\* A thread inside the lock code or inside a critical section keeps running
\* as long as it can; nothing makes a thread ask for the lock again.  A
\* semaphore that is free only now and then owes nobody anything: weak
\* fairness, since Semaphore::wait() queues no one.
FairSpec == Spec /\ \A t \in Threads : WF_vars(Step(t))

-----------------------------------------------------------------------------
Reading == {t \in Threads : pc[t] = "read"}
Writing == {t \in Threads : pc[t] = "write"}

(* No semaphore's value goes below zero, and threads are where the code is. *)
TypeOK == /\ sem \in [1..5 -> Nat]
          /\ cnt \in [1..2 -> Int]
          /\ pc \in [Threads -> Labels]

(* The thread that owns a Writer is alone: no second Writer and no Reader
   is alive at the same time (rwlock.hh: "only one writer allowed"). *)
MutualExclusion == \A t \in Writing : Writing = {t} /\ Reading = {}

\* Who holds what, read off the program counters.
S1Held == {"or_s2", "rp_s5", "rp_inc", "rp_s4", "rp_v5", "or_v2", "rr_v1",
           "wp_s3", "wp_inc", "wp_s2", "wp_v3", "ow_s4", "rw_v1"}
S2Held == {"rp_s5", "rp_inc", "rp_s4", "rp_v5", "or_v2"}
S3Held == {"wp_inc", "wp_s2", "wp_v3", "wv_dec", "wv_v2", "wv_v3"}
S4Held == {"rw_v1", "write", "ew_v4"}
S5Held == {"rp_inc", "rp_s4", "rp_v5", "rv_dec", "rv_v4", "rv_v5"}
At(L)  == {t \in Threads : pc[t] \in L}

\* Between the ++ of PP and the -- of VV.
CountedReader == {"rp_s4", "rp_v5", "or_v2", "rr_v1", "read", "rv_s5",
                  "rv_dec"}
CountedWriter == {"wp_s2", "wp_v3", "ow_s4", "rw_v1", "write", "ew_v4",
                  "wv_s3", "wv_dec"}

\* The threads counted at L hold a gate semaphore as a group: from the take
\* of the first one in to the give of the last one out.
GroupHolds(L, take, give) == \/ At(L) # {} /\ At({take}) = {}
                             \/ At({give}) # {}

AtMostOne(L) == \A t, u \in Threads : pc[t] \in L /\ pc[u] \in L => t = u

CounterExact(c, L, take, give) == /\ cnt[c] = Cardinality(At(L))
                                  /\ At({take}) # {} => cnt[c] = 1
                                  /\ At({give}) # {} => cnt[c] = 0

Private(i, L) == AtMostOne(L) /\ (sem[i] = IF At(L) = {} THEN 1 ELSE 0)

Gate(i, Own, L, take, give) ==
    /\ AtMostOne(Own)
    /\ ~ (At(Own) # {} /\ GroupHolds(L, take, give))
    /\ sem[i] = IF At(Own) = {} /\ ~ GroupHolds(L, take, give) THEN 1 ELSE 0

(* Every unit of every semaphore is accounted for by exactly one holder: s1,
   s3 and s5 by one thread, s2 by one reader or by the writers together, s4
   by one writer or by the readers together; c1 and c2 are exactly the
   number of threads between PP and VV; a reader about to be let in shares
   the lock with no counted writer.  Inductive. *)
IInv == /\ TypeOK
        /\ Private(1, S1Held)
        /\ Private(3, S3Held)
        /\ Private(5, S5Held)
        /\ CounterExact(1, CountedWriter, "wp_s2", "wv_v2")
        /\ CounterExact(2, CountedReader, "rp_s4", "rv_v4")
        /\ Gate(2, S2Held, CountedWriter, "wp_s2", "wv_v2")
        /\ Gate(4, S4Held, CountedReader, "rp_s4", "rv_v4")
        /\ At({"rr_v1"}) # {} => cnt[1] = 0

(* No reader is let in from the moment a writer is counted in c1 until the
   last counted writer has left endWrite: writers whose requests overlap are
   served without a reader between them. *)
WritersServedTogether ==
    [][\A t \in Threads : pc[t] # "read" /\ pc'[t] = "read" => cnt[1] = 0]_vars

(* The thread that has passed s1 is let in whatever the others do: nobody
   can request past it, and the threads inside drain. *)
GateHolderAdmitted ==
    \A t \in Threads : pc[t] \in S1Held ~> pc[t] \in {"read", "write"}

RW == INSTANCE ReadersWriters WITH readers <- Reading, writers <- Writing

(* The lock implements the abstract readers-writers lock. *)
ImplementsReadersWriters == RW!RWSpec
=============================================================================

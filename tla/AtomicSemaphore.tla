--------------------------- MODULE AtomicSemaphore ---------------------------
(***************************************************************************)
(* The semaphore its users think of: wait() blocks until the value is      *)
(* positive and takes a unit in one step, post() adds one.  RWLock.tla     *)
(* uses each of the lock's semaphores this way.                            *)
(***************************************************************************)
EXTENDS Naturals

CONSTANTS Threads,
          Resource,   \* the initial value
          MayGiveUp   \* threads whose wait may end without a unit (a timeout)

VARIABLES value,      \* units left
          waiting     \* threads inside wait()

avars == <<value, waiting>>

AInit == value = Resource /\ waiting = {}

Call(t) == /\ t \notin waiting
           /\ waiting' = waiting \cup {t}
           /\ UNCHANGED value

Take(t) == /\ t \in waiting /\ value > 0
           /\ waiting' = waiting \ {t}
           /\ value' = value - 1

\* a wait that finds a unit at once
Pass(t) == /\ t \notin waiting /\ value > 0
           /\ value' = value - 1
           /\ UNCHANGED waiting

GiveUp(t) == /\ t \in waiting \cap MayGiveUp
             /\ waiting' = waiting \ {t}
             /\ UNCHANGED value

Add == value' = value + 1 /\ UNCHANGED waiting

ANext == Add \/ \E t \in Threads : Call(t) \/ Take(t) \/ Pass(t) \/ GiveUp(t)

ASafe == AInit /\ [][ANext]_avars

\* the fairness RWLock.tla assumes of P
ASpec == ASafe /\ \A t \in Threads : WF_avars(Take(t))
=============================================================================

--------------------------------- MODULE Runs ---------------------------------
(***************************************************************************)
(* Runs of consecutive block numbers: what the interval searches of        *)
(* BitVector and BitVectorEx are documented to return.                     *)
(***************************************************************************)
EXTENDS Integers, FiniteSetsExt

\* the last number of the run of S that starts at x
RunEnd(S, x) == CHOOSE y \in S : x..y \subseteq S /\ x <= y /\ y + 1 \notin S

\* the first run of S, a subset of 0..n-1; to = -1 if there is none
FirstRun(S, n) == IF S = {} THEN [from |-> n, to |-> -1]
                  ELSE [from |-> Min(S), to |-> RunEnd(S, Min(S))]

\* the first run of numbers below n that S leaves out
FirstGap(S, n) == FirstRun(0..(n - 1) \ S, n)
=============================================================================

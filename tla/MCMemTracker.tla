---------------------------- MODULE MCMemTracker -----------------------------
(* A small instance of MemTracker for TLC.                                 *)
EXTENDS MemTracker, TLC

CONSTANTS g, h

\* One id with a limit below the root's, one without a limit.
MCLimitOf == [n \in Name |-> IF n = g THEN 1 ELSE -1]

\* The states whose successors are explored.  A charge does not depend on who made
\* a child of the root: where FindOrCreateGlobalTracker may have made it, it has.
\* The accounts are lost with the first charge that misses them: what follows is
\* explored as long as somebody still has a tracker that is not initialized.
Explored ==
  /\ SomeCharge /\ ~missed =>
       \A t \in Tracker :
         tree[t].parent = Root /\ tree[t].id \in GlobalName => tree[t].global
  /\ missed => \E th \in Thread : handle[th] # None /\ ~IsWhole(th)

Symmetry == Permutations(Thread) \cup Permutations(Tracker)
=============================================================================

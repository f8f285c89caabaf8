---------------------------- MODULE MC_LinkedList ----------------------------
(* Three heap nodes, two data values; the implementation checked against  *)
(* ListSpec through the refinement mapping Abs between calls.              *)
EXTENDS LinkedList, TLC

CONSTANTS n1, n2, n3

MCNodes == {n1, n2, n3}
MCVals == {0, 1}

\* The abstract list: the values reachable from head when no call is
\* running, the list the running call started from otherwise.
Lst == IF pc = "idle" THEN Abs ELSE snap

List == INSTANCE ListSpec WITH lst <- Lst, ret <- ret, Vals <- MCVals,
                               Chains <- {vs \in BoundedSeq(MCVals, MaxChain) : vs # <<>>}

\* list.hpp implements ListSpec: every call is one step of the sequence
\* specification and the loop iterations in between change nothing it
\* can see.
ListRefinesSpec == List!Spec
=============================================================================

------------------------------ MODULE ListSpec ------------------------------
(***************************************************************************)
(* What the operations of src/oslibc/list.hpp promise, on the sequence of  *)
(* data values reachable from the list head: each one is a single atomic   *)
(* change of the sequence, the removals return how many items went, and  *)
(* size and contains_object read it without changing it.                  *)
(* Predicates are "data equals v" (remove_object and the destructors'      *)
(* filters).                                                               *)
(***************************************************************************)
EXTENDS Naturals, Sequences, SequencesExt

CONSTANTS Vals, Chains   \* Chains: the value sequences prepend is given

VARIABLES lst, ret

vars == <<lst, ret>>

Init == lst = <<>> /\ ret = 0

AppendItem(v) == lst' = Append(lst, v) /\ UNCHANGED ret

PrependChain(vs) == lst' = vs \o lst /\ UNCHANGED ret

\* The first item equal to v is gone; ret is 1 if there was one.
RemoveOne(v) ==
  IF \E k \in 1..Len(lst) : lst[k] = v
  THEN LET k == CHOOSE k \in 1..Len(lst) :
                  lst[k] = v /\ \A j \in 1..k-1 : lst[j] # v
       IN lst' = RemoveAt(lst, k) /\ ret' = 1
  ELSE lst' = lst /\ ret' = 0

RemoveAll(v) ==
  /\ lst' = SelectSeq(lst, LAMBDA x : x # v)
  /\ ret' = Len(lst) - Len(lst')

Clear == lst' = <<>> /\ ret' = Len(lst)

\* The read-only calls: the list is unchanged.
Size == lst' = lst /\ ret' = Len(lst)

ContainsObject(v) == lst' = lst /\ ret' = IF v \in ToSet(lst) THEN 1 ELSE 0

Next ==
  \/ \E v \in Vals : AppendItem(v) \/ RemoveOne(v) \/ RemoveAll(v) \/ ContainsObject(v)
  \/ Size
  \/ \E vs \in Chains : PrependChain(vs)
  \/ Clear

Spec == Init /\ [][Next]_vars
=============================================================================

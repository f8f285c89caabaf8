----------------------------- MODULE LinkedList -----------------------------
(***************************************************************************)
(* The intrusive singly linked list of src/oslibc/list.hpp at the level of *)
(* its pointers: a heap of nodes with next and data fields, the list head  *)
(* pointer, and the loops of append, prepend, remove_one, remove_all,      *)
(* clear, size and contains_object (through find) one iteration per step.  Items are allocated by the caller, as in *)
(* unixsock and ifstoresock, and freed by the default deallocator.         *)
(* The operations are shown to implement ListSpec: between calls the       *)
(* values reachable from the head are the abstract sequence.               *)
(***************************************************************************)
EXTENDS Naturals, Sequences, FiniteSets, SequencesExt

CONSTANTS Nodes, Vals, Null, MaxChain

ASSUME Null \notin Nodes /\ MaxChain \in 1..Cardinality(Nodes)

VARIABLES
  head,     \* *list
  next,     \* next[n]: linked_list::next
  data,     \* data[n]: linked_list::data
  alloc,    \* the nodes currently allocated
  pc,       \* the function being run, or "idle"
  arg,      \* its entry (append, prepend) or the value it removes
  i,        \* the loop pointer (tail in prepend)
  prev,     \* remove_one / remove_all: the last kept node
  removed,  \* remove_all / clear: the count so far; size: s
  ret,      \* what the last remove_one, remove_all, clear, size or
            \* contains_object returned
  snap      \* ghost: the abstract list when the running call started

vars == <<head, next, data, alloc, pc, arg, i, prev, removed, ret, snap>>

Ptr == Nodes \cup {Null}

\* The nodes reachable from h, at most fuel of them.
RECURSIVE Chain(_, _, _)
Chain(h, nx, fuel) ==
  IF h = Null \/ fuel = 0 THEN <<>> ELSE <<h>> \o Chain(nx[h], nx, fuel - 1)

Reach(h, nx) == Chain(h, nx, Cardinality(Nodes) + 1)
Values(h, nx, d) == [k \in 1..Len(Reach(h, nx)) |-> d[Reach(h, nx)[k]]]

Abs == Values(head, next, data)

\* Caller-side allocation of the items in ns: linked_list(T&) with
\* next = nullptr, except that a prepended chain is linked in order.
Position(ns, n) == CHOOSE k \in 1..Len(ns) : ns[k] = n
Fresh(ns) == ToSet(ns) \cap alloc = {} /\ Len(ns) = Cardinality(ToSet(ns))

-----------------------------------------------------------------------------
(* Calls: the prologue of each function, up to its loop.                   *)

Start(f, a, x, pv) ==
  /\ pc' = f /\ arg' = a /\ i' = x /\ prev' = pv /\ removed' = 0
  /\ snap' = Abs

\* An early return before the loop: *list was empty.
ReturnEmpty(r) ==
  /\ ret' = r
  /\ UNCHANGED <<head, next, data, alloc, pc, arg, i, prev, removed, snap>>

CallAppend(n, v) ==
  /\ pc = "idle" /\ Fresh(<<n>>)
  /\ alloc' = alloc \cup {n}
  /\ data' = [data EXCEPT ![n] = v]
  /\ next' = [next EXCEPT ![n] = Null]
  /\ IF head = Null
     THEN /\ head' = n
          /\ UNCHANGED <<pc, arg, i, prev, removed, ret, snap>>
     ELSE /\ Start("append", n, head, Null)
          /\ UNCHANGED <<head, ret>>

CallPrepend(ns, vs) ==
  /\ pc = "idle" /\ Fresh(ns)
  /\ alloc' = alloc \cup ToSet(ns)
  /\ data' = [n \in Nodes |-> IF n \in ToSet(ns) THEN vs[Position(ns, n)] ELSE data[n]]
  /\ next' = [n \in Nodes |-> IF n \in ToSet(ns)
                              THEN IF Position(ns, n) < Len(ns) THEN ns[Position(ns, n) + 1] ELSE Null
                              ELSE next[n]]
  /\ Start("prepend", ns[1], ns[1], Null)
  /\ UNCHANGED <<head, ret>>

CallRemoveOne(v) ==
  /\ pc = "idle"
  /\ IF head = Null THEN ReturnEmpty(0)
     ELSE Start("remove_one", v, head, Null) /\ UNCHANGED <<head, next, data, alloc, ret>>

CallRemoveAll(v) ==
  /\ pc = "idle"
  /\ IF head = Null THEN ReturnEmpty(0)
     ELSE Start("remove_all", v, head, Null) /\ UNCHANGED <<head, next, data, alloc, ret>>

CallClear ==
  /\ pc = "idle"
  /\ IF head = Null THEN ReturnEmpty(0)
     ELSE Start("clear", Null, head, Null) /\ UNCHANGED <<head, next, data, alloc, ret>>

\* size and contains_object have no early return: their loops test i.
CallSize ==
  /\ pc = "idle"
  /\ Start("size", Null, head, Null)
  /\ UNCHANGED <<head, next, data, alloc, ret>>

CallContains(v) ==
  /\ pc = "idle"
  /\ Start("contains", v, head, Null)
  /\ UNCHANGED <<head, next, data, alloc, ret>>

-----------------------------------------------------------------------------
(* Loop iterations                                                         *)

Done == pc' = "idle" /\ UNCHANGED <<arg, snap>>

\* Variant of the append loop whose increment never moves i.
AppendStepNoAdvance ==
  /\ pc = "append"
  /\ IF next[i] = Null
     THEN next' = [next EXCEPT ![i] = arg] /\ Done /\ UNCHANGED i
     ELSE UNCHANGED <<pc, arg, snap, next, i>>
  /\ UNCHANGED <<head, data, alloc, prev, removed, ret>>

\* append: for(i = *list; i; i = i->next) if(i->next == nullptr) link.
AppendStep ==
  /\ pc = "append"
  /\ IF next[i] = Null
     THEN next' = [next EXCEPT ![i] = arg] /\ Done /\ UNCHANGED i
     ELSE i' = next[i] /\ UNCHANGED <<pc, arg, snap, next>>
  /\ UNCHANGED <<head, data, alloc, prev, removed, ret>>

\* prepend: walk tail to the entry's last item, then tail->next = *list.
PrependStep ==
  /\ pc = "prepend"
  /\ IF next[i] # Null
     THEN i' = next[i] /\ UNCHANGED <<pc, arg, snap, next, head>>
     ELSE /\ next' = [next EXCEPT ![i] = head]
          /\ head' = arg
          /\ Done /\ UNCHANGED i
  /\ UNCHANGED <<data, alloc, prev, removed, ret>>

\* Variant that always relinks through the predecessor, even at the head.
UnlinkedIgnoresHead(h, nx, p, x) == [head |-> h, next |-> [nx EXCEPT ![p] = nx[x]]]
\* Unlinking node x whose predecessor is p: *list = x->next when p is
\* null, else p->next = x->next.
Unlinked(h, nx, p, x) ==
  IF p = Null THEN [head |-> nx[x], next |-> nx]
  ELSE [head |-> h, next |-> [nx EXCEPT ![p] = nx[x]]]

\* Variant of the else branch that forgets prev = i.
SkipNoPrev == prev' = prev /\ i' = next[i]
\* The else branch of the remove loops: prev = i; i = i->next.
Skip == prev' = i /\ i' = next[i]

RemoveOneStep ==
  LET u == Unlinked(head, next, prev, i)
  IN /\ pc = "remove_one"
     /\ IF i = Null
        THEN ret' = 0 /\ Done /\ UNCHANGED <<head, next, alloc, i, prev>>
        ELSE IF data[i] = arg
        THEN /\ head' = u.head /\ next' = u.next
             /\ alloc' = alloc \ {i}                    \* d(i)
             /\ ret' = 1 /\ Done /\ UNCHANGED <<i, prev>>
        ELSE Skip /\ UNCHANGED <<head, next, alloc, ret, pc, arg, snap>>
     /\ UNCHANGED <<data, removed>>

\* Variant of the remove_all loop without ++removed.
RemoveAllStepNoCount ==
  LET u == Unlinked(head, next, prev, i)
  IN /\ pc = "remove_all"
     /\ IF i = Null
        THEN ret' = removed /\ Done /\ UNCHANGED <<head, next, alloc, i, prev, removed>>
        ELSE IF data[i] = arg
        THEN /\ head' = u.head
             /\ next' = [u.next EXCEPT ![i] = Null]
             /\ alloc' = alloc \ {i}
             /\ i' = u.next[i]
             /\ UNCHANGED <<prev, ret, pc, arg, snap, removed>>
        ELSE Skip /\ UNCHANGED <<head, next, alloc, ret, removed, pc, arg, snap>>
     /\ UNCHANGED data

RemoveAllStep ==
  LET u == Unlinked(head, next, prev, i)
  IN /\ pc = "remove_all"
     /\ IF i = Null
        THEN ret' = removed /\ Done /\ UNCHANGED <<head, next, alloc, i, prev, removed>>
        ELSE IF data[i] = arg
        THEN /\ head' = u.head
             /\ next' = [u.next EXCEPT ![i] = Null]    \* i->next = nullptr
             /\ alloc' = alloc \ {i}                    \* d(i)
             /\ i' = u.next[i]
             /\ removed' = removed + 1
             /\ UNCHANGED <<prev, ret, pc, arg, snap>>
        ELSE Skip /\ UNCHANGED <<head, next, alloc, ret, removed, pc, arg, snap>>
     /\ UNCHANGED data

\* clear: next = i->next; d(i); i = next; then *list = nullptr.
ClearStep ==
  /\ pc = "clear"
  /\ IF i = Null
     THEN head' = Null /\ ret' = removed /\ Done /\ UNCHANGED <<alloc, i, removed>>
     ELSE /\ alloc' = alloc \ {i}
          /\ i' = next[i]
          /\ removed' = removed + 1
          /\ UNCHANGED <<head, ret, pc, arg, snap>>
  /\ UNCHANGED <<next, data, prev>>

\* size: for(; list; list = list->next, ++s) {} return s.
SizeStep ==
  /\ pc = "size"
  /\ IF i = Null
     THEN ret' = removed /\ Done /\ UNCHANGED <<i, removed>>
     ELSE i' = next[i] /\ removed' = removed + 1 /\ UNCHANGED <<ret, pc, arg, snap>>
  /\ UNCHANGED <<head, next, data, alloc, prev>>

\* find with contains_object's functor item->data == data; contains
\* returns whether find returned an item.
ContainsStep ==
  /\ pc = "contains"
  /\ IF i = Null
     THEN ret' = 0 /\ Done /\ UNCHANGED i
     ELSE IF data[i] = arg
     THEN ret' = 1 /\ Done /\ UNCHANGED i
     ELSE i' = next[i] /\ UNCHANGED <<ret, pc, arg, snap>>
  /\ UNCHANGED <<head, next, data, alloc, prev, removed>>

-----------------------------------------------------------------------------

Init ==
  /\ head = Null
  /\ next = [n \in Nodes |-> Null]
  /\ data = [n \in Nodes |-> CHOOSE v \in Vals : TRUE]
  /\ alloc = {}
  /\ pc = "idle" /\ arg = Null /\ i = Null /\ prev = Null
  /\ removed = 0 /\ ret = 0 /\ snap = <<>>

Step == AppendStep \/ PrependStep \/ RemoveOneStep \/ RemoveAllStep \/ ClearStep
          \/ SizeStep \/ ContainsStep

\* Chains of fresh items a caller may prepend.
ChainsOf(S) == {ns \in BoundedSeq(S, MaxChain) : ns # <<>>}

Next ==
  \/ \E n \in Nodes, v \in Vals : CallAppend(n, v)
  \/ \E ns \in ChainsOf(Nodes), vs \in BoundedSeq(Vals, MaxChain) :
       Len(vs) = Len(ns) /\ CallPrepend(ns, vs)
  \/ \E v \in Vals : CallRemoveOne(v) \/ CallRemoveAll(v)
  \/ CallClear
  \/ CallSize
  \/ \E v \in Vals : CallContains(v)
  \/ Step

\* The caller's thread keeps running the loop it is in.
Spec == Init /\ [][Next]_vars /\ WF_vars(Step)

-----------------------------------------------------------------------------
(* Properties                                                              *)

\* Between calls the list is a null-terminated chain through exactly the
\* allocated items: no item is freed while still linked (use after free),
\* none is unlinked and not freed (leak), and no call leaves a cycle.
HeapConsistent ==
  pc = "idle" =>
    /\ Len(Reach(head, next)) <= Cardinality(Nodes)
    /\ ToSet(Reach(head, next)) = alloc

\* Every call returns: the loops of append, prepend, remove_one,
\* remove_all, clear, size and find terminate.
CallReturns == pc # "idle" ~> pc = "idle"

=============================================================================

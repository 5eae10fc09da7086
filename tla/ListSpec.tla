------------------------------- MODULE ListSpec -------------------------------
(***************************************************************************)
(* What PTP::List (src/ptp/include/ptp/list.h) promises its users: a       *)
(* sequence of distinct entries, head first, that Insert extends at the    *)
(* head, Append at the tail, and Remove shortens by exactly the entry it   *)
(* is given, whatever walkers are reading it.                              *)
(***************************************************************************)
EXTENDS Integers, Sequences

CONSTANT Elems        \* the entries that may ever be linked

VARIABLE elems        \* the list from m_head.m_next to m_head.m_prev

Members == {elems[k] : k \in DOMAIN elems}

Init == elems = <<>>

Insert(x) == x \in Elems \ Members /\ elems' = <<x>> \o elems

AppendTail(x) == x \in Elems \ Members /\ elems' = elems \o <<x>>

Remove(k) == k \in DOMAIN elems /\ elems' = SubSeq(elems, 1, k - 1) \o SubSeq(elems, k + 1, Len(elems))

Next == \E x \in Elems : Insert(x) \/ AppendTail(x) \/ \E k \in DOMAIN elems : Remove(k)

Spec == Init /\ [][Next]_elems

=============================================================================

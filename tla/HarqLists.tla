----------------------------- MODULE HarqLists ------------------------------
(***************************************************************************)
(* The NR_list_t of HARQ process ids: a sequence without duplicates.       *)
(* add_tail_nr_list() is Append, remove_front_nr_list() Head and Tail.     *)
(***************************************************************************)
EXTENDS Integers, Sequences

Elems(s) == {s[i] : i \in 1 .. Len(s)}

Once(s) == \A i, j \in 1 .. Len(s) : s[i] = s[j] => i = j

\* p stands before q.
Before(s, p, q) == \E i, j \in 1 .. Len(s) : i < j /\ s[i] = p /\ s[j] = q
=============================================================================

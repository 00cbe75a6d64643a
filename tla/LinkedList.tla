----------------------------- MODULE LinkedList -----------------------------
(* The circular doubly linked list that list_3.c and the queue of            *)
(* tree_7_breadth_first_search.c share.  The heap h maps every allocated     *)
(* node to its fields; a list is the node in front of its first element (in  *)
(* the programs a local variable, here a negative number).  An operation     *)
(* with the name of a function is the heap after its call.                   *)
EXTENDS Integers, Sequences, TLC

CONSTANT MaxNodes          \* bound: nodes that malloc() can give out

EmptyHeap == [n \in {} |-> 0]

\* An address nobody uses; the address that was freed last may come again.
malloc(h) == CHOOSE n \in 1 .. MaxNodes : n \notin DOMAIN h
free(h, n) == [m \in DOMAIN h \ {n} |-> h[m]]
NewNode(h, d) == (malloc(h) :> [next |-> 0, prev |-> 0, data |-> d]) @@ h

list_init(h, list) == (list :> [next |-> list, prev |-> list, data |-> 0]) @@ h

list_insert(h, list, t) ==
    LET next == h[list].next
    IN  [h EXCEPT ![t].prev = list, ![t].next = next,
                  ![list].next = t, ![next].prev = t]

\* Bug: the list's own pointer to its last element is forgotten.
InsertBeforeHalf(h, list, t) ==
    LET prev == h[list].prev
    IN  [h EXCEPT ![t].prev = prev, ![t].next = list, ![prev].next = t]

list_insert_before(h, list, t) ==
    LET prev == h[list].prev
    IN  [h EXCEPT ![t].prev = prev, ![t].next = list,
                  ![prev].next = t, ![list].prev = t]

list_remove(h, t) ==
    LET prev == h[t].prev
        next == h[t].next
    IN  [h EXCEPT ![prev].next = next, ![next].prev = prev]

list_push_front(h, list, d) == list_insert(NewNode(h, d), list, malloc(h))
list_push_back(h, list, d) == list_insert_before(NewNode(h, d), list, malloc(h))

list_delete(h, t) == free(list_remove(h, t), t)
list_pop_front(h, list) == list_delete(h, h[list].next)
list_pop_back(h, list) == list_delete(h, h[list].prev)

list_is_empty(h, list) == h[list].prev = list /\ h[list].next = list

\* What list_foreach() hands to its callback, in order.
list_foreach(h, list) ==
    LET from[cur \in DOMAIN h] ==
            IF cur = list THEN <<>> ELSE <<h[cur].data>> \o from[h[cur].next]
    IN  from[h[list].next]

\* The elements' nodes, in order.
Elements(h, list) ==
    LET from[cur \in DOMAIN h] ==
            IF cur = list THEN {} ELSE {cur} \cup from[h[cur].next]
    IN  from[h[list].next]

list_clear(h, list) ==
    list_init([m \in DOMAIN h \ Elements(h, list) |-> h[m]], list)

-----------------------------------------------------------------------------
\* Both directions agree, and no field points to freed memory.
Linked(h) ==
    \A n \in DOMAIN h :
        /\ h[n].next \in DOMAIN h /\ h[h[n].next].prev = n
        /\ h[n].prev \in DOMAIN h /\ h[h[n].prev].next = n

\* The heap consists of these lists: none runs into another, none lost a node.
SoundLists(h, lists) ==
    /\ Linked(h)
    /\ lists \subseteq DOMAIN h
    /\ \A a, b \in lists : a # b => b \notin Elements(h, a)
    /\ DOMAIN h = lists \cup UNION {Elements(h, l) : l \in lists}
=============================================================================

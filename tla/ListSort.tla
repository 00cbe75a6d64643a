------------------------------ MODULE ListSort ------------------------------
(* list_sort() of data_dlist_sort.c: the maximum of what is left moves to    *)
(* the front of the sorted list; what is equal to the front is freed.        *)
EXTENDS Integers, Sequences, FiniteSets, TLC

CONSTANTS Values, MaxLen          \* bound: length of the list

VARIABLES pc, input, heap, list, sorted_list

NULL == 0
Stub == -1                        \* src_list, on the stack

Linked(s) == [i \in 1 .. Len(s) |->
                 [prev |-> i - 1, val |-> s[i],
                  next |-> IF i = Len(s) THEN NULL ELSE i + 1]]

Init == /\ input \in UNION {[1 .. n -> Values] : n \in 0 .. MaxLen}
        /\ pc = "call" /\ heap = Linked(input) /\ sorted_list = NULL
        /\ list = IF input = <<>> THEN NULL ELSE 1

list_link_two(h, a, b) ==
    LET forth == IF a # NULL THEN [h EXCEPT ![a].next = b] ELSE h
    IN  IF b # NULL THEN [forth EXCEPT ![b].prev = a] ELSE forth

list_link_three(h, a, b, c) == list_link_two(list_link_two(h, a, b), b, c)

NothingToSort == list \in {NULL} \cup {n \in DOMAIN heap : heap[n].next = NULL}

ReturnAtOnce == /\ pc = "call" /\ NothingToSort
                /\ pc' = "done"
                /\ UNCHANGED <<input, heap, list, sorted_list>>

Begin ==
    /\ pc = "call" /\ ~NothingToSort
    /\ heap' = list_link_three((Stub :> [prev |-> NULL, val |-> 0, next |-> NULL]) @@ heap,
                               NULL, Stub, list)
    /\ pc' = "sort"
    /\ UNCHANGED <<input, list, sorted_list>>

\* The first of the greatest elements after cur.
FirstMax(h) ==
    LET from[m \in DOMAIN h, cur \in DOMAIN h \cup {NULL}] ==
            IF cur = NULL THEN m
            ELSE from[IF h[cur].val > h[m].val THEN cur ELSE m, h[cur].next]
    IN  from[h[Stub].next, h[h[Stub].next].next]

Move ==
    /\ pc = "sort" /\ heap[Stub].next # NULL
    /\ LET tmp == FirstMax(heap)
           h == list_link_two(heap, heap[tmp].prev, heap[tmp].next)
       IN  IF sorted_list = NULL \/ heap[tmp].val # heap[sorted_list].val
           THEN heap' = list_link_three(h, NULL, tmp, sorted_list) /\ sorted_list' = tmp
           ELSE /\ heap' = [n \in DOMAIN h \ {tmp} |-> h[n]]
                /\ UNCHANGED sorted_list
    /\ UNCHANGED <<pc, input, list>>

Finish ==
    /\ pc = "sort" /\ heap[Stub].next = NULL
    /\ list' = sorted_list /\ pc' = "done"
    /\ heap' = [n \in DOMAIN heap \ {Stub} |-> heap[n]]
    /\ UNCHANGED <<input, sorted_list>>

Next == ReturnAtOnce \/ Begin \/ Move \/ Finish

-----------------------------------------------------------------------------
\* Forwards and backwards agree; only allocated nodes are pointed to.
LinksSound ==
    \A n \in DOMAIN heap :
        /\ heap[n].next # NULL =>
            heap[n].next \in DOMAIN heap /\ heap[heap[n].next].prev = n
        /\ heap[n].prev # NULL =>
            heap[n].prev \in DOMAIN heap /\ heap[heap[n].prev].next = n

\* In the end the list is ascending, has every value once, and nothing else
\* is allocated.
Sorted ==
    pc = "done" =>
        /\ {heap[n].val : n \in DOMAIN heap} = {input[i] : i \in DOMAIN input}
        /\ Cardinality(DOMAIN heap) = Cardinality({input[i] : i \in DOMAIN input})
        /\ list = NULL <=> DOMAIN heap = {}
        /\ \A n \in DOMAIN heap :
            /\ heap[n].prev = NULL <=> n = list
            /\ heap[n].next # NULL => heap[n].val < heap[heap[n].next].val
=============================================================================

------------------------------ MODULE ListCalls -----------------------------
(* Every sequence of calls of the list functions of list_3.c on one list,    *)
(* next to the sequence the list stands for.                                 *)
EXTENDS LinkedList

CONSTANTS Values, MaxCalls      \* bound: calls after one another

VARIABLES pc, heap, seq, pos

List == -1

Init == /\ pc = "calls" /\ pos = 0
        /\ heap = list_init(EmptyHeap, List)
        /\ seq = <<>>

Call(h, s) == /\ pc = "calls" /\ pos < MaxCalls
              /\ heap' = h /\ seq' = s /\ pos' = pos + 1
              /\ UNCHANGED pc

PushFront(d) == Call(list_push_front(heap, List, d), <<d>> \o seq)
PushBack(d)  == Call(list_push_back(heap, List, d), Append(seq, d))
PopFront     == seq # <<>> /\ Call(list_pop_front(heap, List), Tail(seq))
PopBack      == /\ seq # <<>>
                /\ Call(list_pop_back(heap, List), SubSeq(seq, 1, Len(seq) - 1))
Clear        == Call(list_clear(heap, List), <<>>)

Next == \/ \E d \in Values : PushFront(d) \/ PushBack(d)
        \/ PopFront \/ PopBack \/ Clear

\* The list is sound, and forwards, backwards and in the test for emptiness
\* it is the sequence.
IsSequence ==
    /\ SoundLists(heap, {List})
    /\ list_foreach(heap, List) = seq
    /\ list_is_empty(heap, List) <=> seq = <<>>
=============================================================================

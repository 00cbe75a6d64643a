------------------------------ MODULE Josephus ------------------------------
(* joseph.c: children in a circle count off, with as many words as the rhyme *)
(* has; whom the last word falls on leaves. Who were the last three to go?   *)
(* The circle is a list whose head is passed over.                           *)
EXTENDS LinkedList

CONSTANTS MaxPeople, MaxWords     \* bounds of the input

VARIABLES pc, input, pos, heap, ptr, out

list == -1
Nobody == 0            \* what is printed from last_removed if nobody was stored

people == input[1]
words  == input[2]

Init == /\ input \in (0 .. MaxPeople) \X (0 .. MaxWords)
        /\ pc = "fill" /\ pos = 0
        /\ heap = list_init(EmptyHeap, list) /\ ptr = list
        /\ out = [i \in 0 .. 2 |-> Nobody]

Fill ==
    /\ pc = "fill"
    /\ IF pos < people
       THEN /\ heap' = list_push_back(heap, list, pos + 1)
            /\ pos' = pos + 1 /\ UNCHANGED <<pc, ptr>>
       ELSE pc' = "count" /\ ptr' = heap[list].next /\ UNCHANGED <<heap, pos>>
    /\ UNCHANGED <<input, out>>

advance(p) == LET next == heap[p].next
              IN  IF next = list THEN heap[next].next ELSE next

\* The node the last word falls on.
Counted == LET upTo[i \in 0 .. MaxWords] ==
                   IF i = 0 THEN ptr ELSE advance(upTo[i - 1])
           IN  upTo[IF words > 1 THEN words - 1 ELSE 0]

\* pos is list_size. The successor is taken before the node is freed; that of
\* the last node is the node itself.
Leave ==
    /\ pc = "count" /\ ~list_is_empty(heap, list)
    /\ ptr' = advance(Counted)
    /\ heap' = list_delete(heap, Counted)
    /\ pos' = pos - 1
    /\ out' = IF pos' < 3 THEN [out EXCEPT ![pos'] = heap[Counted].data] ELSE out
    /\ UNCHANGED <<pc, input>>

Write ==
    /\ pc = "count" /\ list_is_empty(heap, list) /\ pc' = "done"
    /\ UNCHANGED <<input, pos, heap, ptr, out>>

Next == Fill \/ Leave \/ Write

-----------------------------------------------------------------------------
\* The pointer leads to a node of the circle as long as there is one.
CircleSound ==
    /\ SoundLists(heap, {list})
    /\ pc = "count" /\ pos > 0 => ptr \in Elements(heap, list)
    /\ pos = Len(list_foreach(heap, list))

\* Of n children numbered from 0 the last to go, of two the last but one and so
\* on: after the first has gone, n - 1 are left and count from the next one.
Last(k) ==
    LET of[n \in k .. MaxPeople] ==
            LET first == IF words > 0 THEN words ELSE 1
            IN  IF n = k THEN (first - 1) % k ELSE (of[n - 1] + first) % n
    IN  of[people] + 1

\* The last three to go are those of the recurrence; with fewer children not
\* all of what is printed was ever stored.
LastThreeRight ==
    pc = "done" => \A i \in 0 .. 2 : i < people => out[i] = Last(i + 1)
=============================================================================

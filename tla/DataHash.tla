------------------------------ MODULE DataHash ------------------------------
(* data_hash.c: what followed the last number of the input when it occurred  *)
(* before?  A hash table maps each number to its latest successor; a pointer *)
(* to the pair of the number read last is kept from one turn to the next.    *)
EXTENDS Integers, Sequences

CONSTANTS Numbers, BUCKETS, MaxInput     \* BUCKETS is 100003 in the program

VARIABLES pc, input, pos, buckets, obj, out

\* A bucket's array has a new address, at, whenever realloc() moved it.
NULL == [hash |-> -1, i |-> 0, at |-> 0]
NoBucket == [data |-> <<>>, allocated |-> 0, at |-> 0]

Init == /\ input \in UNION {[1 .. n -> Numbers] : n \in 0 .. MaxInput}
        /\ pc = "read" /\ pos = 0 /\ out = <<>>
        /\ buckets = [b \in 0 .. BUCKETS - 1 |-> NoBucket]
        /\ obj = NULL

\* Adding BUCKETS until a number is not negative, and then the remainder.
Hash(k) == k % BUCKETS

Grow(b) == IF Len(b.data) >= b.allocated
           THEN [b EXCEPT !.allocated = 2 * (IF @ = 0 THEN 1 ELSE @),
                          !.at = @ + 1]
           ELSE b

\* The table and the pointer after the call.
hash_find_or_add(t, k, v) ==
    LET b == t[Hash(k)]
        found == {i \in DOMAIN b.data : b.data[i].key = k}
        grown == Grow(b)
        added == [grown EXCEPT !.data = Append(@, [key |-> k, value |-> v])]
    IN  IF found # {}
        THEN [table |-> t,
              obj |-> [hash |-> Hash(k), i |-> CHOOSE i \in found : TRUE, at |-> b.at]]
        ELSE [table |-> [t EXCEPT ![Hash(k)] = added],
              obj |-> [hash |-> Hash(k), i |-> Len(added.data), at |-> added.at]]

StoreNext(t, value) ==
    IF obj = NULL THEN t ELSE [t EXCEPT ![obj.hash].data[obj.i].value = value]

Read ==
    /\ pc = "read" /\ pos < Len(input)
    /\ LET value == input[pos + 1]
           r == hash_find_or_add(StoreNext(buckets, value), value, -1)
       IN  buckets' = r.table /\ obj' = r.obj
    /\ pos' = pos + 1
    /\ UNCHANGED <<pc, input, out>>

\* At the end of the input the pointer is followed, also if nothing was read.
Answer ==
    /\ pc = "read" /\ pos = Len(input)
    /\ IF obj = NULL THEN pc' = "crash" /\ UNCHANGED out
       ELSE pc' = "done" /\ out' = <<buckets[obj.hash].data[obj.i].value>>
    /\ UNCHANGED <<input, pos, buckets, obj>>

Next == Read \/ Answer

-----------------------------------------------------------------------------
\* The kept pointer leads to the current array of its bucket, to the pair of
\* the number read last, and no array is written behind its end.
PointerSound ==
    /\ obj # NULL =>
        /\ obj.at = buckets[obj.hash].at
        /\ obj.i \in DOMAIN buckets[obj.hash].data
        /\ buckets[obj.hash].data[obj.i].key = input[pos]
    /\ \A b \in DOMAIN buckets : Len(buckets[b].data) <= buckets[b].allocated

\* The answer is the number after the last earlier occurrence, or -1.
SuccessorRight ==
    LET n == Len(input)
        Earlier == {i \in 1 .. n - 1 : input[i] = input[n]}
    IN  /\ pc = "done" =>
            IF Earlier = {} THEN out = <<-1>>
            ELSE \E i \in Earlier : /\ \A j \in Earlier : j <= i
                                    /\ out = <<input[i + 1]>>
        /\ pc = "crash" => n = 0
=============================================================================

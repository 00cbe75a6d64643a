------------------------------ MODULE RecordBag ------------------------------
(***************************************************************************)
(* What database.c promises to somebody who sees neither the pool nor the  *)
(* hash tables: a bag of records, the number of a record's copies printed  *)
(* when one is added, and the number of records with a given key in one of *)
(* their fields printed when they are counted or deleted.                  *)
(***************************************************************************)
EXTENDS Naturals, FiniteSetsExt

CONSTANTS Fields, Values

Keys(f) == {v[f] : v \in Values}

VARIABLES
    bag,     \* how many copies of each record there are
    answer   \* the number printed last

AInit ==
    /\ bag = [v \in Values |-> 0]
    /\ answer = 0

With(f, k) == {v \in Values : v[f] = k}
Copies(records) == MapThenSumSet(LAMBDA v : bag[v], records)

AAdd(v) ==
    /\ bag' = [bag EXCEPT ![v] = @ + 1]
    /\ answer' = bag'[v]

ACount(f, k) ==
    /\ answer' = Copies(With(f, k))
    /\ UNCHANGED bag

ADelete(f, k) ==
    /\ answer' = Copies(With(f, k))
    /\ bag' = [v \in Values |-> IF v[f] = k THEN 0 ELSE bag[v]]

ANext ==
    \/ \E v \in Values : AAdd(v)
    \/ \E f \in Fields : \E k \in Keys(f) : ACount(f, k) \/ ADelete(f, k)

ASpec == AInit /\ [][ANext]_<<bag, answer>>
=============================================================================

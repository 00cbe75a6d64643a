------------------------------ MODULE Database -------------------------------
(***************************************************************************)
(* course1-1/12-seminar-datacenter/database.c: records with two fields are *)
(* added, counted and deleted. The records are items of one growing pool,  *)
(* each with the number of its copies; a hash table per field holds, in    *)
(* its buckets, the places of the items in the pool. An item deleted by    *)
(* one field gives its slot in that field's table back, and stays in the   *)
(* other table, with no copies.                                            *)
(*                                                                         *)
(* One command of the input is one step.                                   *)
(*                                                                         *)
(* A slot is made with bucket_get(b, bucket_add(b)), which indexes b->data *)
(* with the result of a call that reallocates it. C leaves open which of   *)
(* the two comes first, and a compiler that reads b->data first lets the   *)
(* program write to what was there before: nothing, in an empty bucket.    *)
(***************************************************************************)
EXTENDS Integers, Sequences, FiniteSets, FiniteSetsExt

CONSTANTS
    Values,     \* the records of the input, by field
    Buckets,    \* BUCKETS
    MaxItems,   \* bound: items in the pool
    MaxCopies   \* bound: copies of one record

Fields == {"A", "B"}

ASSUME DatabaseAssumption ==
    /\ Values \subseteq [Fields -> Int]
    /\ Buckets \in Nat \ {0}

NO_ITEM == 0
NoTable == "NULL"

\* The values of a field.
Keys(f) == {v[f] : v \in Values}

VARIABLES
    pool,     \* the items: struct Item, in the order of pool_add()
    tables,   \* the buckets of each table, with places in the pool
    answer,   \* the number printed last
    baseFirst,   \* the build reads b->data before it calls bucket_add(b)
    running      \* the program has not crashed

vars == <<pool, tables, answer, baseFirst, running>>

-----------------------------------------------------------------------------
(* The tables *)

\* HASH(k) % BUCKETS, made non-negative.
Hash(k) == k % Buckets

\* hash_get_bucket()
Bucket(f, k) == tables[f][Hash(k)]

Live(i) == i # NO_ITEM /\ pool[i].count > 0

First(S) == CHOOSE n \in S : \A m \in S : n <= m

\* Mutant of Holding: the first slot that was given back ends the search.
HoldingBeforeFree(b, v) ==
    {n \in DOMAIN b : /\ Live(b[n]) /\ pool[b[n]].value = v
                      /\ \A m \in 1 .. n : b[m] # NO_ITEM}

\* Mutant of Holding: an item without copies will do.
HoldingDead(b, v) ==
    {n \in DOMAIN b : b[n] # NO_ITEM /\ pool[b[n]].value = v}

\* The slots of a bucket that hold the record v, and those given back.
Holding(b, v) == {n \in DOMAIN b : Live(b[n]) /\ pool[b[n]].value = v}
Free(b)       == {n \in DOMAIN b : b[n] = NO_ITEM}

\* Mutant of Matching: everything in the bucket has the key.
MatchingHash(f, k) ==
    {n \in DOMAIN Bucket(f, k) : Live(Bucket(f, k)[n])}

\* The slots hash_iterate_by_key() stops at.
Matching(f, k) ==
    {n \in DOMAIN Bucket(f, k) :
        Live(Bucket(f, k)[n]) /\ pool[Bucket(f, k)[n]].value[f] = k}

\* The number it returns.
Total(f, k) ==
    MapThenSumSet(LAMBDA n : pool[Bucket(f, k)[n]].count, Matching(f, k))

\* pick_smallest(): the first of the tables with the shortest bucket, none when
\* a bucket is empty.
PickSmallest(v) ==
    LET length(f) == Len(Bucket(f, v[f])) IN
    IF \E f \in Fields : length(f) = 0 THEN NoTable
    ELSE IF length("A") <= length("B") THEN "A" ELSE "B"

\* Whether hash_find_add() in that table finds the record.
Finds(v) ==
    LET h == PickSmallest(v)
    IN  h # NoTable /\ Holding(Bucket(h, v[h]), v) # {}

\* pool_add()
NewIndex == Len(pool) + 1

\* Mutant of Placed: the record is added to every table, found a place or not.
PlacedTwice(b, reuse) ==
    IF reuse /\ Free(b) # {}
      THEN Append([b EXCEPT ![First(Free(b))] = NewIndex], NewIndex)
      ELSE Append(b, NewIndex)

\* A bucket with the new item: in the table that was searched, in the first
\* slot given back; in the others, and when there is none, at the end.
Placed(b, reuse) ==
    IF reuse /\ Free(b) # {} THEN [b EXCEPT ![First(Free(b))] = NewIndex]
                             ELSE Append(b, NewIndex)

-----------------------------------------------------------------------------
(* The commands *)

\* add, of a record that is there.
AddCopy(v) ==
    LET h == PickSmallest(v)
        b == Bucket(h, v[h])
        i == b[First(Holding(b, v))]
    IN
    /\ running
    /\ Finds(v)
    /\ pool[i].count < MaxCopies
    /\ pool' = [pool EXCEPT ![i].count = @ + 1]
    /\ answer' = pool[i].count + 1
    /\ UNCHANGED <<tables, baseFirst, running>>

\* pool_add() and the assignments to the new item.
NewItem(v) ==
    /\ running
    /\ ~ Finds(v)
    /\ Len(pool) < MaxItems
    /\ pool' = Append(pool, [value |-> v, count |-> 1])

\* add, of a new record.
AddItem(v) ==
    /\ NewItem(v)
    /\ ~ baseFirst
    /\ tables' = [f \in Fields |->
                    [tables[f] EXCEPT ![Hash(v[f])] =
                       Placed(@, f = PickSmallest(v))]]
    /\ answer' = 1
    /\ UNCHANGED <<baseFirst, running>>

\* The same in the other builds: buckets begin with a null pointer, so the first
\* slot that is made is written there. No bucket ever has more.
Crash(v) ==
    /\ NewItem(v)
    /\ baseFirst
    /\ running' = FALSE
    /\ UNCHANGED <<tables, answer, baseFirst>>

Count(f, k) ==
    /\ running
    /\ answer' = Total(f, k)
    /\ UNCHANGED <<pool, tables, baseFirst, running>>

\* Mutant of Bury: the item keeps its count.
BuryNothing(items) == pool

\* The items deleted have no copies any more.
Bury(items) == [i \in DOMAIN pool |->
                  IF i \in items THEN [pool[i] EXCEPT !.count = 0] ELSE pool[i]]

Delete(f, k) ==
    LET b == Bucket(f, k) IN
    /\ running
    /\ answer' = Total(f, k)
    /\ pool' = Bury({b[n] : n \in Matching(f, k)})
    /\ tables' = [tables EXCEPT ![f][Hash(k)] =
                    [n \in DOMAIN b |->
                       IF n \in Matching(f, k) THEN NO_ITEM ELSE b[n]]]
    /\ UNCHANGED <<baseFirst, running>>

-----------------------------------------------------------------------------
Init ==
    /\ pool = << >>
    /\ tables = [f \in Fields |-> [b \in 0 .. Buckets - 1 |-> << >>]]
    /\ answer = 0
    /\ baseFirst \in BOOLEAN
    /\ running = TRUE

Next ==
    \/ \E v \in Values : AddCopy(v) \/ AddItem(v) \/ Crash(v)
    \/ \E f \in Fields : \E k \in Keys(f) : Count(f, k) \/ Delete(f, k)

Spec == Init /\ [][Next]_vars

-----------------------------------------------------------------------------
(* Properties *)

\* What is in memory keeps its type, and slots hold places that are in the pool.
StoredOK ==
    /\ pool \in Seq([value : Values, count : Nat])
    /\ tables \in [Fields -> [0 .. Buckets - 1 -> Seq(0 .. Len(pool))]]
    /\ baseFirst \in BOOLEAN
    /\ running \in BOOLEAN

\* The type invariant of database.c: the above, and natural numbers are printed.
TypeOK == StoredOK /\ answer \in Nat

\* An item sits in the bucket of its key, and in one slot of it, also when it
\* has no copies any more.
SlotsSound ==
    \A f \in Fields, h \in 0 .. Buckets - 1 :
        LET b == tables[f][h] IN
        \A n \in DOMAIN b : b[n] # NO_ITEM =>
            /\ Hash(pool[b[n]].value[f]) = h
            /\ \A m \in DOMAIN b : b[m] = b[n] => m = n

InAllTables(i) ==
    \A f \in Fields :
        LET b == Bucket(f, pool[i].value[f]) IN \E n \in DOMAIN b : b[n] = i

\* While the program runs, each item that has copies is found through both
\* tables, whatever was deleted through one of them only, and whichever slots
\* were used again.
Indexed == running => \A i \in DOMAIN pool : Live(i) => InAllTables(i)

\* A record has one item: add finds it in the table it picks, although the
\* tables have different slots in use.
LiveOnce ==
    \A i, j \in DOMAIN pool :
        Live(i) /\ Live(j) /\ pool[i].value = pool[j].value => i = j

\* An item without copies stays so, which makes its slots in the other tables
\* harmless; and no item becomes another record.
DeadStayDead ==
    [][\A i \in DOMAIN pool :
          /\ i \in DOMAIN pool'
          /\ pool'[i].value = pool[i].value
          /\ ~ Live(i) => pool'[i].count = 0]_vars

\* The copies of a record that the table of A leads to.
CopiesOf(v) ==
    LET b == Bucket("A", v["A"])
    IN  MapThenSumSet(LAMBDA n : pool[b[n]].count, Holding(b, v))

\* The program is a bag of records, and prints the numbers of the bag, by
\* whichever table it counts and deletes.
Records == INSTANCE RecordBag WITH
    bag <- [v \in Values |-> CopiesOf(v)]

BagSpec == Records!ASpec
=============================================================================

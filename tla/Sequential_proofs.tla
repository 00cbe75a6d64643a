-------------------------- MODULE Sequential_proofs --------------------------
(***************************************************************************)
(* Theorems about programs of one process.                                 *)
(*                                                                         *)
(* Database, for every set of records and number of buckets: what the pool *)
(* and the two tables know of each other stays consistent, the pool holds  *)
(* each record once, and the program is a bag of records. The last rests   *)
(* on what MapThenSumSet() computes: of two sums over finite sets, one     *)
(* that goes over the slots of a bucket and one that goes over the         *)
(* records, it is shown that they agree.                                   *)
(*                                                                         *)
(* DataHash, the other table of that seminar: for every input and number   *)
(* of buckets its pointer is good and its answer is right.                 *)
(*                                                                         *)
(* ShortestPaths: for every graph the answers are the distances.           *)
(***************************************************************************)
EXTENDS Database, SequenceTheorems, FiniteSetTheorems, WellFoundedInduction, TLAPS

CONSTANTS
    HashKeys,      \* the numbers an input of data_hash.c may have
    MaxInput,      \* the greatest length of an input
    Vertices, Roads, MaxRoads, UINT_MAX

VARIABLES
    pc, input, pos, out,
    buckets, obj,            \* of DataHash
    answers, marked          \* of ShortestPaths

Successor == INSTANCE DataHash WITH Numbers <- HashKeys, BUCKETS <- Buckets
Paths == INSTANCE ShortestPaths WITH answer <- answers

\* The inductive invariant. That a record has one item rests on the tables:
\* an item with copies is in the bucket that is searched.
DInv == StoredOK /\ SlotsSound /\ Indexed /\ LiveOnce

-----------------------------------------------------------------------------
(* Hashing, slots and buckets *)

\* hash_get_bucket() gives a bucket of the table, for negative keys too.
LEMMA HashRange == ASSUME NEW k \in Int PROVE Hash(k) \in 0 .. Buckets - 1
BY DatabaseAssumption DEF Hash

\* The keys of records are integers.
LEMMA KeyInt == ASSUME NEW v \in Values, NEW f \in Fields PROVE v[f] \in Int
BY DatabaseAssumption

\* Every set of natural numbers has a least one.
LEMMA LeastOf == ASSUME NEW S \in SUBSET Nat, S # {} PROVE \E n \in S : \A m \in S : n <= m
<1>1. PICK n \in S : \A m \in S : ~ (<<m, n>> \in OpToRel(<, Nat))
  BY NatLessThanWellFounded, WFMin
<1>2. \A m \in S : ~ (m < n)
  BY <1>1 DEF OpToRel
<1>3. \A m \in S : n <= m
  BY <1>2
<1> QED BY <1>3

\* The first of a set of slots is one of them.
LEMMA FirstIn == ASSUME NEW S \in SUBSET Nat, S # {} PROVE First(S) \in S
BY LeastOf DEF First

\* What a bucket is after it was given a new item: the item is in one slot, and
\* the other slots are as before, but for one that was free at most.
LEMMA PlacedOnce ==
    ASSUME NEW L \in Nat, NEW b \in Seq(0 .. L), NEW reuse \in BOOLEAN,
           NewIndex = L + 1
    PROVE  /\ Placed(b, reuse) \in Seq(0 .. L + 1)
           /\ \E n \in DOMAIN Placed(b, reuse) :
                /\ Placed(b, reuse)[n] = L + 1
                /\ \A m \in DOMAIN Placed(b, reuse) \ {n} :
                     m \in DOMAIN b /\ Placed(b, reuse)[m] = b[m]
           /\ \A m \in DOMAIN b : b[m] # NO_ITEM =>
                m \in DOMAIN Placed(b, reuse) /\ Placed(b, reuse)[m] = b[m]
<1>1. b \in Seq(0 .. L + 1)
  BY SeqMonotonic
<1>2. Len(b) \in Nat /\ DOMAIN b = 1 .. Len(b) /\ \A m \in DOMAIN b : b[m] \in 0 .. L
  BY LenProperties, ElementOfSeq
<1>3. L + 1 \in 0 .. L + 1
  OBVIOUS
<1>4. CASE reuse /\ Free(b) # {}
  <2>0. Free(b) \in SUBSET Nat
    BY <1>2 DEF Free
  <2>1. First(Free(b)) \in Free(b)
    BY <2>0, <1>4, FirstIn
  <2>2. PICK n \in DOMAIN b : n = First(Free(b)) /\ b[n] = NO_ITEM
    BY <2>1 DEF Free
  <2>3. Placed(b, reuse) = [b EXCEPT ![n] = L + 1]
    BY <1>4, <2>2 DEF Placed
  <2>4. /\ Placed(b, reuse) \in Seq(0 .. L + 1)
        /\ Len(Placed(b, reuse)) = Len(b)
        /\ \A m \in 1 .. Len(b) :
             Placed(b, reuse)[m] = IF m = n THEN L + 1 ELSE b[m]
    BY <1>1, <1>2, <1>3, <2>2, <2>3, ExceptSeq
  <2>5. DOMAIN Placed(b, reuse) = DOMAIN b
    BY <2>3
  <2> QED BY <1>2, <2>2, <2>4, <2>5
<1>5. CASE ~ (reuse /\ Free(b) # {})
  <2>1. Placed(b, reuse) = Append(b, L + 1)
    BY <1>5 DEF Placed
  <2>2. /\ Placed(b, reuse) \in Seq(0 .. L + 1)
        /\ Len(Placed(b, reuse)) = Len(b) + 1
        /\ \A m \in 1 .. Len(b) : Placed(b, reuse)[m] = b[m]
        /\ Placed(b, reuse)[Len(b) + 1] = L + 1
    BY <1>1, <1>3, <2>1, AppendProperties
  <2>3. DOMAIN Placed(b, reuse) = 1 .. Len(b) + 1
    BY <2>2, LenProperties
  <2> QED BY <1>2, <2>2, <2>3, SMTT(30)
<1> QED BY <1>4, <1>5

\* The items and the buckets, as the steps below use them.
LEMMA Stored ==
    ASSUME StoredOK
    PROVE  /\ Len(pool) \in Nat
           /\ DOMAIN pool = 1 .. Len(pool)
           /\ \A i \in DOMAIN pool : pool[i] \in [value : Values, count : Nat]
           /\ \A f \in Fields, h \in 0 .. Buckets - 1 :
                /\ tables[f][h] \in Seq(0 .. Len(pool))
                /\ Len(tables[f][h]) \in Nat
                /\ DOMAIN tables[f][h] = 1 .. Len(tables[f][h])
                /\ \A n \in DOMAIN tables[f][h] : tables[f][h][n] \in 0 .. Len(pool)
<1>1. /\ Len(pool) \in Nat
      /\ DOMAIN pool = 1 .. Len(pool)
      /\ \A i \in DOMAIN pool : pool[i] \in [value : Values, count : Nat]
  BY LenProperties, ElementOfSeq DEF StoredOK
<1>2. ASSUME NEW f \in Fields, NEW h \in 0 .. Buckets - 1
      PROVE  tables[f][h] \in Seq(0 .. Len(pool))
  BY DEF StoredOK
<1>3. ASSUME NEW f \in Fields, NEW h \in 0 .. Buckets - 1
      PROVE  /\ Len(tables[f][h]) \in Nat
             /\ DOMAIN tables[f][h] = 1 .. Len(tables[f][h])
             /\ \A n \in DOMAIN tables[f][h] : tables[f][h][n] \in 0 .. Len(pool)
  BY <1>2, LenProperties, ElementOfSeq
<1> QED BY <1>1, <1>2, <1>3

\* An item that has copies is found: the tables answer for its record as long as
\* they hold all items. So a record that is not found has no item with copies.
LEMMA FindsLive ==
    ASSUME DInv, running, NEW v \in Values, ~ Finds(v),
           NEW i \in DOMAIN pool, Live(i)
    PROVE  pool[i].value # v
<1> SUFFICES ASSUME pool[i].value = v PROVE FALSE
  OBVIOUS
<1>1. \A f \in Fields : \E n \in DOMAIN Bucket(f, v[f]) : Bucket(f, v[f])[n] = i
  BY DEF DInv, Indexed, InAllTables
<1>2. ASSUME NEW f \in Fields PROVE Len(Bucket(f, v[f])) # 0
  <2>1. Hash(v[f]) \in 0 .. Buckets - 1
    BY KeyInt, HashRange
  <2>2. DOMAIN Bucket(f, v[f]) = 1 .. Len(Bucket(f, v[f]))
    BY <2>1, Stored DEF Bucket, DInv
  <2> QED BY <1>1, <2>2
<1>3. PickSmallest(v) \in Fields
  BY <1>2 DEF PickSmallest, Fields
<1>4. PickSmallest(v) # NoTable
  BY <1>3 DEF Fields, NoTable
<1>5. Holding(Bucket(PickSmallest(v), v[PickSmallest(v)]), v) # {}
  BY <1>1, <1>3 DEF Holding
<1> QED BY <1>4, <1>5 DEF Finds

-----------------------------------------------------------------------------
(* Steps *)

\* Nothing is stored at first.
LEMMA InitInv == Init => DInv
<1> SUFFICES ASSUME Init PROVE DInv
  OBVIOUS
<1>1. StoredOK
  BY EmptySeq, LenProperties DEF Init, StoredOK, Fields
<1>2. DOMAIN pool = {}
  BY DEF Init
<1>3. SlotsSound
  BY DEF Init, SlotsSound
<1>4. Indexed /\ LiveOnce
  BY <1>2 DEF Indexed, LiveOnce
<1> QED BY <1>1, <1>3, <1>4 DEF DInv

\* A step that makes no record, and forgets a slot only when its item is left
\* without copies, preserves the invariant. add of another copy and delete are
\* such steps.
LEMMA Rewrite ==
    ASSUME DInv, StoredOK', running' = running,
           DOMAIN pool' = DOMAIN pool,
           \A i \in DOMAIN pool : /\ pool'[i].value = pool[i].value
                                  /\ Live(i)' => Live(i),
           \A f \in Fields, h \in 0 .. Buckets - 1 :
              /\ DOMAIN tables'[f][h] = DOMAIN tables[f][h]
              /\ \A n \in DOMAIN tables[f][h] :
                   \/ tables'[f][h][n] = tables[f][h][n]
                   \/ /\ tables'[f][h][n] = NO_ITEM
                      /\ \A i \in DOMAIN pool : tables[f][h][n] = i => ~ Live(i)'
    PROVE  DInv'
<1>1. SlotsSound'
  <2> SUFFICES ASSUME NEW f \in Fields, NEW h \in 0 .. Buckets - 1,
                      NEW n \in DOMAIN tables'[f][h],
                      tables'[f][h][n] # NO_ITEM
               PROVE  /\ Hash(pool'[tables'[f][h][n]].value[f]) = h
                      /\ \A m \in DOMAIN tables'[f][h] :
                           tables'[f][h][m] = tables'[f][h][n] => m = n
    BY DEF SlotsSound, Hash
  <2>1. n \in DOMAIN tables[f][h] /\ tables'[f][h][n] = tables[f][h][n]
    OBVIOUS
  <2>2. /\ Hash(pool[tables[f][h][n]].value[f]) = h
        /\ \A m \in DOMAIN tables[f][h] :
             tables[f][h][m] = tables[f][h][n] => m = n
    BY <2>1 DEF DInv, SlotsSound
  <2>3. tables[f][h][n] \in DOMAIN pool
    BY <2>1, Stored DEF DInv, NO_ITEM
  <2>4. \A m \in DOMAIN tables'[f][h] :
          tables'[f][h][m] = tables'[f][h][n] => m = n
    BY <2>1, <2>2
  <2> QED BY <2>1, <2>2, <2>3, <2>4
<1>2. Indexed'
  <2> SUFFICES ASSUME running', NEW i \in DOMAIN pool', Live(i)',
                      NEW f \in Fields
               PROVE  \E n \in DOMAIN Bucket(f, pool[i].value[f])' :
                        Bucket(f, pool[i].value[f])'[n] = i
    BY DEF Indexed, InAllTables, Bucket, Hash
  <2>1. i \in DOMAIN pool /\ Live(i) /\ pool'[i].value = pool[i].value
    OBVIOUS
  <2>2. PICK n \in DOMAIN Bucket(f, pool[i].value[f]) :
          Bucket(f, pool[i].value[f])[n] = i
    BY <2>1 DEF DInv, Indexed, InAllTables
  <2>3. Hash(pool[i].value[f]) \in 0 .. Buckets - 1
    BY <2>1, Stored, KeyInt, HashRange DEF DInv
  <2> DEFINE h == Hash(pool[i].value[f])
  <2>4. n \in DOMAIN tables[f][h] /\ tables[f][h][n] = i
    BY <2>2 DEF Bucket
  <2>5. n \in DOMAIN tables'[f][h] /\ tables'[f][h][n] = i
    BY <2>1, <2>3, <2>4
  <2>6. Bucket(f, pool[i].value[f])' = tables'[f][h]
    BY <2>1 DEF Bucket, Hash
  <2> QED BY <2>5, <2>6
<1>3. LiveOnce'
  BY DEF DInv, LiveOnce
<1> QED BY <1>1, <1>2, <1>3 DEF DInv

\* delete leaves every item where it is, or without copies.
LEMMA DeleteInv ==
    ASSUME DInv, NEW f \in Fields, NEW k \in Keys(f), Delete(f, k)
    PROVE  DInv'
<1> DEFINE b == Bucket(f, k)
           items == {b[n] : n \in Matching(f, k)}
<1>1. k \in Int /\ Hash(k) \in 0 .. Buckets - 1
  BY KeyInt, HashRange DEF Keys
<1>2. /\ b \in Seq(0 .. Len(pool))
      /\ DOMAIN b = 1 .. Len(b) /\ Len(b) \in Nat
      /\ \A n \in DOMAIN b : b[n] \in 0 .. Len(pool)
  BY <1>1, Stored DEF Bucket, DInv
<1>3. /\ pool' = [i \in DOMAIN pool |->
                    IF i \in items THEN [pool[i] EXCEPT !.count = 0] ELSE pool[i]]
      /\ tables' = [tables EXCEPT ![f][Hash(k)] =
                      [n \in DOMAIN b |->
                         IF n \in Matching(f, k) THEN NO_ITEM ELSE b[n]]]
      /\ running' = running /\ baseFirst' = baseFirst
  BY DEF Delete, Bury
<1>4. /\ pool' \in Seq([value : Values, count : Nat])
      /\ Len(pool') = Len(pool) /\ DOMAIN pool' = DOMAIN pool
  <2>1. \A i \in 1 .. Len(pool) : pool'[i] \in [value : Values, count : Nat]
    BY <1>3, Stored DEF DInv
  <2> QED BY <1>3, <2>1, Stored, IsASeq, LenProperties DEF DInv
<1>5. \A i \in DOMAIN pool : /\ pool'[i].value = pool[i].value
                             /\ Live(i)' => Live(i) /\ i \notin items
  BY <1>3, Stored DEF DInv, Live
<1>6. \A g \in Fields, h \in 0 .. Buckets - 1 :
        tables'[g][h] = IF g = f /\ h = Hash(k)
                          THEN [n \in DOMAIN b |->
                                 IF n \in Matching(f, k) THEN NO_ITEM ELSE b[n]]
                          ELSE tables[g][h]
  BY <1>1, <1>3 DEF DInv, StoredOK
<1>7. [n \in DOMAIN b |-> IF n \in Matching(f, k) THEN NO_ITEM ELSE b[n]]
        \in Seq(0 .. Len(pool))
  BY <1>2, IsASeq, Stored DEF NO_ITEM, DInv
<1>8. StoredOK'
  <2>1. tables' \in [Fields -> [0 .. Buckets - 1 -> Seq(0 .. Len(pool))]]
    BY <1>1, <1>3, <1>7 DEF DInv, StoredOK
  <2> QED BY <1>3, <1>4, <2>1 DEF DInv, StoredOK
<1>9. \A n \in Matching(f, k), i \in DOMAIN pool : b[n] = i => ~ Live(i)'
  BY <1>5
<1>10. \A g \in Fields, h \in 0 .. Buckets - 1 :
        /\ DOMAIN tables'[g][h] = DOMAIN tables[g][h]
        /\ \A n \in DOMAIN tables[g][h] :
             \/ tables'[g][h][n] = tables[g][h][n]
             \/ /\ tables'[g][h][n] = NO_ITEM
                /\ \A i \in DOMAIN pool : tables[g][h][n] = i => ~ Live(i)'
  <2> SUFFICES ASSUME NEW g \in Fields, NEW h \in 0 .. Buckets - 1
               PROVE  /\ DOMAIN tables'[g][h] = DOMAIN tables[g][h]
                      /\ \A n \in DOMAIN tables[g][h] :
                           \/ tables'[g][h][n] = tables[g][h][n]
                           \/ /\ tables'[g][h][n] = NO_ITEM
                              /\ \A i \in DOMAIN pool :
                                   tables[g][h][n] = i => ~ Live(i)'
    OBVIOUS
  <2>1. CASE g = f /\ h = Hash(k)
    <3>1. tables[g][h] = b
      BY <2>1 DEF Bucket
    <3>2. tables'[g][h] = [n \in DOMAIN b |->
                             IF n \in Matching(f, k) THEN NO_ITEM ELSE b[n]]
      BY <1>6, <2>1
    <3> HIDE DEF b
    <3> QED BY <3>1, <3>2, <1>9
  <2>2. CASE ~ (g = f /\ h = Hash(k))
    BY <1>6, <2>2
  <2> QED BY <2>1, <2>2
<1> QED BY <1>3, <1>4, <1>5, <1>8, <1>10, Rewrite

\* The item that gets another copy has some.
LEMMA CopyLive ==
    ASSUME DInv, NEW v \in Values, AddCopy(v)
    PROVE  LET h == PickSmallest(v)
               b == Bucket(h, v[h])
               i == b[First(Holding(b, v))]
           IN  i \in DOMAIN pool /\ Live(i) /\ pool[i].value = v
<1> DEFINE h == PickSmallest(v)
           b == Bucket(h, v[h])
           i == b[First(Holding(b, v))]
<1>1. h \in Fields
  BY DEF AddCopy, Finds, PickSmallest, Fields
<1>2. /\ DOMAIN b = 1 .. Len(b) /\ Len(b) \in Nat
      /\ \A n \in DOMAIN b : b[n] \in 0 .. Len(pool)
  <2>1. Hash(v[h]) \in 0 .. Buckets - 1
    BY <1>1, KeyInt, HashRange
  <2> QED BY <1>1, <2>1, Stored DEF Bucket, DInv
<1>3. First(Holding(b, v)) \in Holding(b, v)
  <2>1. Holding(b, v) # {}
    BY DEF AddCopy, Finds
  <2>2. Holding(b, v) \in SUBSET Nat
    BY <1>2 DEF Holding
  <2> QED BY <2>1, <2>2, FirstIn
<1>4. i \in DOMAIN pool /\ Live(i) /\ pool[i].value = v
  <2>1. PICK n \in DOMAIN b : n = First(Holding(b, v)) /\ Live(b[n])
                             /\ pool[b[n]].value = v
    BY <1>3 DEF Holding
  <2>2. i = b[n] /\ b[n] \in 0 .. Len(pool) /\ b[n] # 0
    BY <1>2, <2>1 DEF Live, NO_ITEM
  <2>3. i \in DOMAIN pool
    BY <2>2, Stored DEF DInv
  <2> QED BY <2>1, <2>2, <2>3
<1> QED BY <1>4

\* One more copy of a record leaves its item where it is.
LEMMA CopyInv ==
    ASSUME DInv, NEW v \in Values, AddCopy(v)
    PROVE  DInv'
<1> DEFINE h == PickSmallest(v)
           b == Bucket(h, v[h])
           i == b[First(Holding(b, v))]
<1>1. i \in DOMAIN pool /\ Live(i)
  BY CopyLive
<1>2. /\ pool' = [pool EXCEPT ![i].count = @ + 1]
      /\ UNCHANGED <<tables, baseFirst, running>>
  BY DEF AddCopy
<1> HIDE DEF i
<1>3. /\ DOMAIN pool' = DOMAIN pool
      /\ \A j \in DOMAIN pool : /\ pool'[j].value = pool[j].value
                                /\ Live(j)' => Live(j)
                                /\ pool'[j] \in [value : Values, count : Nat]
  BY <1>1, <1>2, Stored DEF Live, DInv
<1>4. pool' \in Seq([value : Values, count : Nat]) /\ Len(pool') = Len(pool)
  <2>1. pool \in Seq([value : Values, count : Nat]) /\ i \in 1 .. Len(pool)
    BY <1>1, Stored DEF DInv, StoredOK
  <2>2. [pool[i] EXCEPT !.count = @ + 1] \in [value : Values, count : Nat]
    BY <1>1, Stored DEF DInv
  <2>3. pool' = [pool EXCEPT ![i] = [pool[i] EXCEPT !.count = @ + 1]]
    BY <1>2
  <2> QED BY <2>1, <2>2, <2>3, ExceptSeq
<1>5. StoredOK'
  BY <1>2, <1>4 DEF StoredOK, DInv
<1> QED BY <1>2, <1>3, <1>5, Rewrite

\* What the two steps that make an item do to the pool.
LEMMA Made ==
    ASSUME DInv, NEW v \in Values, NewItem(v)
    PROVE  /\ pool' \in Seq([value : Values, count : Nat])
           /\ Len(pool') = Len(pool) + 1
           /\ DOMAIN pool' = 1 .. Len(pool) + 1
           /\ \A i \in 1 .. Len(pool) : pool'[i] = pool[i]
           /\ pool'[Len(pool) + 1] = [value |-> v, count |-> 1]
           /\ LiveOnce'
<1>1. /\ pool' \in Seq([value : Values, count : Nat])
      /\ Len(pool') = Len(pool) + 1
      /\ \A i \in 1 .. Len(pool) : pool'[i] = pool[i]
      /\ pool'[Len(pool) + 1] = [value |-> v, count |-> 1]
  BY AppendProperties DEF NewItem, DInv, StoredOK
<1>2. DOMAIN pool' = 1 .. Len(pool) + 1
  BY <1>1, LenProperties
<1>3. LiveOnce'
  <2> SUFFICES ASSUME NEW i \in DOMAIN pool', NEW j \in DOMAIN pool',
                      Live(i)', Live(j)', pool'[i].value = pool'[j].value
               PROVE  i = j
    BY DEF LiveOnce
  <2>1. running /\ ~ Finds(v)
    BY DEF NewItem
  <2>2. \A n \in 1 .. Len(pool) : Live(n)' => Live(n) /\ pool[n].value # v
    BY <1>1, <2>1, FindsLive, Stored DEF Live, DInv
  <2>3. i \in 1 .. Len(pool) <=> j \in 1 .. Len(pool)
    BY <1>1, <1>2, <2>2, Stored DEF DInv
  <2>4. CASE i \in 1 .. Len(pool)
    BY <1>1, <2>2, <2>3, <2>4, Stored DEF LiveOnce, DInv
  <2>5. CASE i \notin 1 .. Len(pool)
    BY <1>2, <2>3, <2>5, Stored DEF DInv
  <2> QED BY <2>4, <2>5
<1> QED BY <1>1, <1>2, <1>3

\* A new item is placed once in each table, and nothing else moves.
LEMMA ItemInv ==
    ASSUME DInv, NEW v \in Values, AddItem(v)
    PROVE  DInv'
<1> DEFINE L == Len(pool)
           old(f, h) == tables[f][h]
           new(f, h) == tables'[f][h]
<1>1. /\ pool' \in Seq([value : Values, count : Nat])
      /\ Len(pool') = L + 1
      /\ DOMAIN pool' = 1 .. L + 1
      /\ \A i \in 1 .. L : pool'[i] = pool[i]
      /\ pool'[L + 1] = [value |-> v, count |-> 1]
      /\ LiveOnce'
  BY Made DEF AddItem
<1>2. L \in Nat /\ DOMAIN pool = 1 .. L
  BY Stored DEF DInv
<1>3. \A f \in Fields : Hash(v[f]) \in 0 .. Buckets - 1
  BY KeyInt, HashRange
<1>4. \A f \in Fields, h \in 0 .. Buckets - 1 :
        new(f, h) = IF h = Hash(v[f]) THEN Placed(old(f, h), f = PickSmallest(v))
                                      ELSE old(f, h)
  BY <1>3 DEF AddItem, DInv, StoredOK
<1>5. ASSUME NEW f \in Fields, NEW h \in 0 .. Buckets - 1
      PROVE  /\ new(f, h) \in Seq(0 .. L + 1)
             /\ h = Hash(v[f]) =>
                  \E n \in DOMAIN new(f, h) :
                    /\ new(f, h)[n] = L + 1
                    /\ \A m \in DOMAIN new(f, h) \ {n} :
                         m \in DOMAIN old(f, h) /\ new(f, h)[m] = old(f, h)[m]
             /\ h # Hash(v[f]) => new(f, h) = old(f, h)
             /\ \A m \in DOMAIN old(f, h) : old(f, h)[m] # NO_ITEM =>
                  m \in DOMAIN new(f, h) /\ new(f, h)[m] = old(f, h)[m]
  <2>1. old(f, h) \in Seq(0 .. L)
    BY Stored DEF DInv
  <2>2. CASE h = Hash(v[f])
    <3>1. PICK reuse \in BOOLEAN : new(f, h) = Placed(old(f, h), reuse)
      BY <1>4, <2>2 DEF Placed
    <3>2. NewIndex = L + 1
      BY DEF NewIndex
    <3> HIDE DEF L, old, new
    <3> QED BY <1>2, <2>1, <2>2, <3>1, <3>2, PlacedOnce
  <2>3. CASE h # Hash(v[f])
    <3>1. new(f, h) = old(f, h)
      BY <1>4, <2>3
    <3>2. 0 .. L \subseteq 0 .. L + 1
      BY <1>2
    <3>3. old(f, h) \in Seq(0 .. L + 1)
      BY <2>1, <3>2, SeqMonotonic
    <3> QED BY <2>3, <3>1, <3>3
  <2> QED BY <2>2, <2>3
<1>6. UNCHANGED <<baseFirst, running>>
  BY DEF AddItem
<1>7. StoredOK'
  <2>1. tables' = [f \in Fields |->
                     [tables[f] EXCEPT ![Hash(v[f])] =
                        Placed(@, f = PickSmallest(v))]]
    BY DEF AddItem
  <2>2. ASSUME NEW f \in Fields
        PROVE  tables'[f] \in [0 .. Buckets - 1 -> Seq(0 .. L + 1)]
    <3>1. tables[f] \in [0 .. Buckets - 1 -> Seq(0 .. L)]
      BY DEF DInv, StoredOK
    <3>2. tables'[f] = [h \in 0 .. Buckets - 1 |-> tables'[f][h]]
      BY <2>1, <3>1
    <3>3. \A h \in 0 .. Buckets - 1 : tables'[f][h] \in Seq(0 .. L + 1)
      BY <1>5
    <3> QED BY <3>2, <3>3
  <2>3. tables' \in [Fields -> [0 .. Buckets - 1 -> Seq(0 .. L + 1)]]
    BY <2>1, <2>2
  <2> QED BY <1>1, <1>6, <2>3 DEF DInv, StoredOK
<1>8. SlotsSound'
  <2> SUFFICES ASSUME NEW f \in Fields, NEW h \in 0 .. Buckets - 1,
                      NEW n \in DOMAIN new(f, h), new(f, h)[n] # NO_ITEM
               PROVE  /\ Hash(pool'[new(f, h)[n]].value[f]) = h
                      /\ \A m \in DOMAIN new(f, h) :
                           new(f, h)[m] = new(f, h)[n] => m = n
    BY DEF SlotsSound, Hash
  <2>1. \A m \in DOMAIN old(f, h) : old(f, h)[m] \in 0 .. L
    BY Stored DEF DInv
  <2>2. \A m \in DOMAIN old(f, h) : old(f, h)[m] # NO_ITEM =>
          /\ old(f, h)[m] \in 1 .. L
          /\ Hash(pool[old(f, h)[m]].value[f]) = h
          /\ \A j \in DOMAIN old(f, h) : old(f, h)[j] = old(f, h)[m] => j = m
    BY <1>2, <2>1 DEF DInv, SlotsSound, NO_ITEM
  <2>3. CASE h # Hash(v[f])
    <3>1. new(f, h) = old(f, h)
      BY <1>5, <2>3
    <3>2. old(f, h)[n] \in 1 .. L /\ pool'[old(f, h)[n]] = pool[old(f, h)[n]]
      BY <1>1, <2>2, <3>1
    <3> HIDE DEF new, old, L
    <3> QED BY <2>2, <3>1, <3>2
  <2>4. CASE h = Hash(v[f])
    <3>1. PICK p \in DOMAIN new(f, h) :
            /\ new(f, h)[p] = L + 1
            /\ \A m \in DOMAIN new(f, h) \ {p} :
                 m \in DOMAIN old(f, h) /\ new(f, h)[m] = old(f, h)[m]
      BY <1>5, <2>4, SMTT(30)
    <3>2. L + 1 \notin 0 .. L
      BY <1>2
    <3>3. CASE n = p
      <4>1. pool'[new(f, h)[n]].value = v
        BY <1>1, <3>1, <3>3
      <4> HIDE DEF new, old, L
      <4> QED BY <2>1, <2>4, <3>1, <3>2, <3>3, <4>1
    <3>4. CASE n # p
      <4>1. /\ new(f, h)[n] = old(f, h)[n]
            /\ n \in DOMAIN old(f, h)
            /\ old(f, h)[n] \in 1 .. L
        BY <2>2, <3>1, <3>4
      <4>2. pool'[new(f, h)[n]].value = pool[old(f, h)[n]].value
        BY <1>1, <4>1
      <4> HIDE DEF new, old, L
      <4> QED BY <2>1, <2>2, <3>1, <3>2, <3>4, <4>1, <4>2
    <3> QED BY <3>3, <3>4
  <2> QED BY <2>3, <2>4
<1>9. Indexed'
  <2> SUFFICES ASSUME NEW i \in DOMAIN pool', Live(i)', NEW f \in Fields
               PROVE  \E n \in DOMAIN new(f, Hash(pool'[i].value[f])) :
                        new(f, Hash(pool'[i].value[f]))[n] = i
    BY DEF Indexed, InAllTables, Bucket, Hash
  <2>1. CASE i \in 1 .. L
    <3>1. pool'[i] = pool[i] /\ i \in DOMAIN pool /\ i # NO_ITEM
      BY <1>1, <1>2, <2>1 DEF NO_ITEM
    <3>2. Live(i)
      BY <3>1 DEF Live
    <3>3. running
      BY DEF AddItem, NewItem
    <3>4. PICK n \in DOMAIN Bucket(f, pool[i].value[f]) :
            Bucket(f, pool[i].value[f])[n] = i
      BY <3>1, <3>2, <3>3 DEF DInv, Indexed, InAllTables
    <3>5. Hash(pool[i].value[f]) \in 0 .. Buckets - 1
      BY <3>1, Stored, KeyInt, HashRange DEF DInv
    <3>6. /\ n \in DOMAIN old(f, Hash(pool[i].value[f]))
          /\ old(f, Hash(pool[i].value[f]))[n] = i
      BY <3>4 DEF Bucket
    <3> HIDE DEF old, new
    <3> QED BY <1>5, <3>1, <3>5, <3>6
  <2>2. CASE i = L + 1
    <3>1. pool'[i].value = v
      BY <1>1, <2>2
    <3> QED BY <1>3, <1>5, <2>2, <3>1
  <2> QED BY <1>1, <1>2, <2>1, <2>2
<1> QED BY <1>1, <1>7, <1>8, <1>9 DEF DInv

\* A program that crashes leaves its tables as they were.
LEMMA CrashInv ==
    ASSUME DInv, NEW v \in Values, Crash(v)
    PROVE  DInv'
<1>1. /\ pool' \in Seq([value : Values, count : Nat])
      /\ Len(pool') = Len(pool) + 1
      /\ \A i \in 1 .. Len(pool) : pool'[i] = pool[i]
      /\ LiveOnce'
  BY Made DEF Crash
<1>2. UNCHANGED <<tables, baseFirst>> /\ running' = FALSE
  BY DEF Crash
<1>3. StoredOK'
  <2>1. 0 .. Len(pool) \subseteq 0 .. Len(pool) + 1
    BY Stored DEF DInv
  <2>2. ASSUME NEW f \in Fields, NEW h \in 0 .. Buckets - 1
        PROVE  tables[f][h] \in Seq(0 .. Len(pool) + 1)
    BY <2>1, Stored, SeqMonotonic DEF DInv
  <2>3. tables \in [Fields -> [0 .. Buckets - 1 -> Seq(0 .. Len(pool) + 1)]]
    BY <2>2 DEF DInv, StoredOK
  <2> QED BY <1>1, <1>2, <2>3 DEF DInv, StoredOK
<1>4. SlotsSound'
  <2>1. \A f \in Fields, h \in 0 .. Buckets - 1 :
          \A n \in DOMAIN tables[f][h] : tables[f][h][n] # NO_ITEM =>
            tables[f][h][n] \in 1 .. Len(pool)
    BY Stored DEF DInv, NO_ITEM
  <2>2. ASSUME NEW f \in Fields, NEW h \in 0 .. Buckets - 1,
               NEW n \in DOMAIN tables[f][h], tables[f][h][n] # NO_ITEM
        PROVE  /\ Hash(pool'[tables[f][h][n]].value[f]) = h
               /\ \A m \in DOMAIN tables[f][h] : tables[f][h][m] = tables[f][h][n] => m = n
    <3>1. pool'[tables[f][h][n]] = pool[tables[f][h][n]]
      BY <1>1, <2>1, <2>2
    <3> QED BY <2>2, <3>1 DEF DInv, SlotsSound
  <2> QED BY <1>2, <2>2 DEF SlotsSound, Hash
<1>5. Indexed'
  BY <1>2 DEF Indexed
<1> QED BY <1>1, <1>3, <1>4, <1>5 DEF DInv

\* Every step preserves the invariant.
LEMMA NextInv == DInv /\ [Next]_vars => DInv'
<1> SUFFICES ASSUME DInv, [Next]_vars PROVE DInv'
  OBVIOUS
<1>1. ASSUME UNCHANGED <<pool, tables, baseFirst, running>> PROVE DInv'
  <2>1. StoredOK'
    BY <1>1 DEF DInv, StoredOK
  <2>2. SlotsSound'
    BY <1>1 DEF DInv, SlotsSound, Hash
  <2>3. Indexed'
    BY <1>1 DEF DInv, Indexed, InAllTables, Live, Bucket, Hash
  <2>4. LiveOnce'
    BY <1>1 DEF DInv, LiveOnce, Live
  <2> QED BY <2>1, <2>2, <2>3, <2>4 DEF DInv
<1>2. ASSUME NEW v \in Values, AddCopy(v) PROVE DInv'
  BY <1>2, CopyInv
<1>3. ASSUME NEW v \in Values, AddItem(v) PROVE DInv'
  BY <1>3, ItemInv
<1>4. ASSUME NEW v \in Values, Crash(v) PROVE DInv'
  BY <1>4, CrashInv
<1>5. ASSUME NEW f \in Fields, NEW k \in Keys(f), Count(f, k) PROVE DInv'
  BY <1>1, <1>5 DEF Count
<1>6. ASSUME NEW f \in Fields, NEW k \in Keys(f), Delete(f, k) PROVE DInv'
  BY <1>6, DeleteInv
<1>7. CASE UNCHANGED vars
  BY <1>1, <1>7 DEF vars
<1> QED BY <1>2, <1>3, <1>4, <1>5, <1>6, <1>7 DEF Next

-----------------------------------------------------------------------------
(* Theorems *)

\* database.c keeps the pool and the tables consistent, always.
THEOREM Consistent == Spec => []DInv
<1> QED BY InitInv, NextInv, PTL DEF Spec

\* An item is in the right bucket, and in one slot of it.
THEOREM Slots == Spec => []SlotsSound
<1>1. DInv => SlotsSound
  BY DEF DInv
<1> QED BY <1>1, Consistent, PTL

\* An item with copies is found through both tables.
THEOREM FoundByBoth == Spec => []Indexed
<1>1. DInv => Indexed
  BY DEF DInv
<1> QED BY <1>1, Consistent, PTL

\* No record has two items with copies.
THEOREM OneItem == Spec => []LiveOnce
<1>1. DInv => LiveOnce
  BY DEF DInv
<1> QED BY <1>1, Consistent, PTL

\* No step brings an item back that has no copies, or turns it into another.
LEMMA StayDead ==
    ASSUME DInv, Next
    PROVE  \A i \in DOMAIN pool :
             /\ i \in DOMAIN pool'
             /\ pool'[i].value = pool[i].value
             /\ ~ Live(i) => pool'[i].count = 0
<1> SUFFICES ASSUME NEW i \in DOMAIN pool
             PROVE  /\ i \in DOMAIN pool'
                    /\ pool'[i].value = pool[i].value
                    /\ ~ Live(i) => pool'[i].count = 0
  OBVIOUS
<1>1. /\ i \in 1 .. Len(pool) /\ DOMAIN pool = 1 .. Len(pool) /\ Len(pool) \in Nat
      /\ pool[i] \in [value : Values, count : Nat]
      /\ ~ Live(i) => pool[i].count = 0
  BY Stored DEF Live, NO_ITEM, DInv
<1>2. ASSUME NEW v \in Values, AddCopy(v)
      PROVE  /\ i \in DOMAIN pool'
             /\ pool'[i].value = pool[i].value
             /\ ~ Live(i) => pool'[i].count = 0
  <2> DEFINE j == Bucket(PickSmallest(v), v[PickSmallest(v)])
                    [First(Holding(Bucket(PickSmallest(v), v[PickSmallest(v)]), v))]
  <2>1. pool' = [pool EXCEPT ![j].count = @ + 1]
    BY <1>2 DEF AddCopy
  <2>2. Live(j)
    BY <1>2, CopyLive
  <2> HIDE DEF j
  <2> QED BY <1>1, <2>1, <2>2
<1>3. ASSUME NEW v \in Values, NewItem(v)
      PROVE  i \in DOMAIN pool' /\ pool'[i] = pool[i]
  <2>1. /\ DOMAIN pool' = 1 .. Len(pool) + 1
        /\ \A n \in 1 .. Len(pool) : pool'[n] = pool[n]
    BY <1>3, Made
  <2> QED BY <1>1, <2>1
<1>4. ASSUME NEW f \in Fields, NEW k \in Keys(f), Delete(f, k)
      PROVE  /\ i \in DOMAIN pool'
             /\ pool'[i].value = pool[i].value
             /\ ~ Live(i) => pool'[i].count = 0
  BY <1>1, <1>4 DEF Delete, Bury
<1> QED BY <1>1, <1>2, <1>3, <1>4 DEF Next, AddItem, Crash, Count

\* Deleted items are gone for good, whatever tables still lead to them.
THEOREM GoneForGood == Spec => DeadStayDead
<1>1. DInv /\ [Next]_vars =>
        [\A i \in DOMAIN pool :
           /\ i \in DOMAIN pool'
           /\ pool'[i].value = pool[i].value
           /\ ~ Live(i) => pool'[i].count = 0]_vars
  BY StayDead
<1> QED BY <1>1, Consistent, PTL DEF Spec, DeadStayDead

-----------------------------------------------------------------------------
(* Sums over finite sets: what MapThenSumSet() computes *)

One(s) == CHOOSE x \in s : TRUE

\* The recursion of MapThenSumSet() over the subsets of S, and its result.
Solves(i, S, g) ==
    i = [s \in SUBSET S |-> IF s = {} THEN 0 ELSE g[One(s)] + i[s \ {One(s)}]]
Sums(t, S, g) == \E i : Solves(i, S, g) /\ t = i[S]

LEMMA OneIn == ASSUME NEW s, s # {} PROVE One(s) \in s
BY DEF One

\* Of a collection of subsets, one from which nothing can be taken away.
LEMMA LeastSubset ==
    ASSUME NEW S, IsFiniteSet(S), NEW D \in SUBSET (SUBSET S), D # {}
    PROVE  \E s \in D : \A x \in s : s \ {x} \notin D
<1>1. IsWellFoundedOn(StrictSubsetOrdering(S), SUBSET S)
  BY FS_StrictSubsetOrderingWellFounded, FS_FiniteSubsetsOfFinite
<1> DEFINE R == StrictSubsetOrdering(S)
<1> HIDE DEF R
<1>2. PICK s \in D : \A r \in D : ~ (<<r, s>> \in R)
  BY <1>1, WFMin DEF R
<1>3. \A x \in s : <<s \ {x}, s>> \in R
  BY DEF R, StrictSubsetOrdering
<1> QED BY <1>2, <1>3

\* The recursion has a solution: as far as the sets have at most n elements,
\* and so for all of them.
LEMMA SumSolved ==
    ASSUME NEW S, IsFiniteSet(S), NEW g \in [S -> Nat]
    PROVE  \E i : Solves(i, S, g)
<1> DEFINE Body(i, s) == IF s = {} THEN 0 ELSE g[One(s)] + i[s \ {One(s)}]
           UpTo(n) == \E i \in [SUBSET S -> Nat] :
                         \A s \in SUBSET S : Cardinality(s) <= n => i[s] = Body(i, s)
           D == {n \in Nat : ~ UpTo(n)}
<1>1. \A s \in SUBSET S : /\ IsFiniteSet(s) /\ Cardinality(s) \in Nat
                          /\ Cardinality(s) <= Cardinality(S)
                          /\ Cardinality(s) = 0 <=> s = {}
  BY FS_Subset, FS_EmptySet, FS_CardinalityType
<1>2. \A s \in SUBSET S : s # {} =>
        /\ One(s) \in S /\ s \ {One(s)} \in SUBSET S
        /\ Cardinality(s \ {One(s)}) = Cardinality(s) - 1
  BY <1>1, OneIn, FS_RemoveElement
<1>3. UpTo(0)
  <2> DEFINE z == [s \in SUBSET S |-> 0]
  <2>1. z \in [SUBSET S -> Nat]
    OBVIOUS
  <2>2. \A s \in SUBSET S : Cardinality(s) <= 0 => z[s] = Body(z, s)
    BY <1>1
  <2> QED BY <2>1, <2>2
<1>4. ASSUME NEW n \in Nat, UpTo(n) PROVE UpTo(n + 1)
  <2>1. PICK i \in [SUBSET S -> Nat] :
           \A s \in SUBSET S : Cardinality(s) <= n => i[s] = Body(i, s)
    BY <1>4
  <2> DEFINE j == [s \in SUBSET S |-> Body(i, s)]
  <2>2. j \in [SUBSET S -> Nat]
    BY <1>2
  <2>3. \A s \in SUBSET S : Cardinality(s) <= n => j[s] = i[s]
    BY <2>1
  <2>4. ASSUME NEW s \in SUBSET S, Cardinality(s) <= n + 1 PROVE j[s] = Body(j, s)
    <3>1. CASE s = {}
      BY <3>1
    <3>2. CASE s # {}
      <4>1. /\ s \ {One(s)} \in SUBSET S /\ Cardinality(s \ {One(s)}) <= n
        BY <1>1, <1>2, <2>4, <3>2
      <4>2. j[s \ {One(s)}] = i[s \ {One(s)}]
        BY <2>3, <4>1
      <4> QED BY <3>2, <4>2
    <3> QED BY <3>1, <3>2
  <2> HIDE DEF j
  <2> QED BY <2>2, <2>4
<1> HIDE DEF UpTo
<1>5. D = {}
  <2> SUFFICES ASSUME D # {} PROVE FALSE
    OBVIOUS
  <2>1. PICK n \in D : \A m \in D : ~ (<<m, n>> \in OpToRel(<, Nat))
    BY NatLessThanWellFounded, WFMin
  <2>2. n # 0 /\ n - 1 \in Nat /\ n - 1 < n /\ (n - 1) + 1 = n
    BY <1>3
  <2>3. n - 1 \notin D
    BY <2>1, <2>2 DEF OpToRel
  <2> QED BY <1>4, <2>2, <2>3
<1>6. UpTo(Cardinality(S))
  BY <1>1, <1>5
<1>7. PICK i \in [SUBSET S -> Nat] :
         \A s \in SUBSET S : Cardinality(s) <= Cardinality(S) => i[s] = Body(i, s)
  BY <1>6 DEF UpTo
<1>8. i = [s \in SUBSET S |-> Body(i, s)]
  BY <1>1, <1>7
<1> QED BY <1>8 DEF Solves

\* It is a sum: the order in which the elements are taken does not matter.
LEMMA SumAnyOrder ==
    ASSUME NEW S, IsFiniteSet(S), NEW g \in [S -> Nat], NEW i, Solves(i, S, g)
    PROVE  /\ i[{}] = 0
           /\ \A s \in SUBSET S : i[s] \in Nat
           /\ \A s \in SUBSET S : \A x \in s : i[s] = g[x] + i[s \ {x}]
<1>1. \A s \in SUBSET S : i[s] = IF s = {} THEN 0 ELSE g[One(s)] + i[s \ {One(s)}]
  BY DEF Solves
<1>2. i[{}] = 0
  BY <1>1
<1>3. \A s \in SUBSET S : s # {} =>
        /\ One(s) \in s /\ g[One(s)] \in Nat /\ s \ {One(s)} \in SUBSET S
        /\ i[s] = g[One(s)] + i[s \ {One(s)}]
  BY <1>1, OneIn
<1>0. \A s \in SUBSET S : i[s] \in Nat
  <2> DEFINE D == {s \in SUBSET S : i[s] \notin Nat}
  <2> SUFFICES ASSUME D # {} PROVE FALSE
    OBVIOUS
  <2>1. D \in SUBSET (SUBSET S)
    OBVIOUS
  <2> HIDE DEF D
  <2>2. PICK s \in D : \A x \in s : s \ {x} \notin D
    BY <2>1, LeastSubset
  <2>3. s \in SUBSET S /\ i[s] \notin Nat
    BY DEF D
  <2>4. s # {}
    BY <1>2, <2>3
  <2>5. s \ {One(s)} \notin D
    BY <1>3, <2>2, <2>3, <2>4
  <2>6. i[s \ {One(s)}] \in Nat
    BY <1>3, <2>3, <2>4, <2>5 DEF D
  <2> QED BY <1>3, <2>3, <2>4, <2>6
<1> DEFINE D == {s \in SUBSET S : ~ \A x \in s : i[s] = g[x] + i[s \ {x}]}
<1>4. ASSUME NEW s \in SUBSET S, \A x \in s : s \ {x} \notin D PROVE s \notin D
  <2>1. CASE s = {}
    BY <1>2, <2>1
  <2>2. CASE s # {}
    <3>1. PICK y \in s : g[y] \in Nat /\ i[s] = g[y] + i[s \ {y}]
      BY <1>3, <2>2
    <3>2. \A x \in s \ {y} : i[s \ {y}] = g[x] + i[(s \ {y}) \ {x}]
      BY <1>4, <3>1
    <3>3. ASSUME NEW x \in s PROVE i[s] = g[x] + i[s \ {x}]
      <4>1. CASE x = y
        BY <3>1, <4>1
      <4>2. CASE x # y
        <5>1. i[s \ {x}] = g[y] + i[(s \ {x}) \ {y}]
          BY <1>4, <4>2
        <5>2. (s \ {x}) \ {y} = (s \ {y}) \ {x} /\ (s \ {y}) \ {x} \in SUBSET S
          OBVIOUS
        <5>3. i[s \ {y}] = g[x] + i[(s \ {y}) \ {x}]
          BY <3>2, <4>2
        <5>4. i[(s \ {y}) \ {x}] \in Nat
          BY <1>0, <5>2
        <5> QED BY <3>1, <5>1, <5>2, <5>3, <5>4
      <4> QED BY <4>1, <4>2
    <3> QED BY <3>3
  <2> QED BY <2>1, <2>2
<1>5. D = {}
  <2> SUFFICES ASSUME D # {} PROVE FALSE
    OBVIOUS
  <2>1. D \in SUBSET (SUBSET S)
    OBVIOUS
  <2> HIDE DEF D
  <2>2. PICK s \in D : \A x \in s : s \ {x} \notin D
    BY <2>1, LeastSubset
  <2>3. s \in SUBSET S
    BY <2>1
  <2> QED BY <1>4, <2>2, <2>3
<1> QED BY <1>0, <1>2, <1>5

\* The sum over no element, and over one.
LEMMA SumFew ==
    ASSUME NEW S, IsFiniteSet(S), NEW g \in [S -> Nat], NEW t, Sums(t, S, g)
    PROVE  /\ t \in Nat
           /\ S = {} => t = 0
           /\ \A x : S = {x} => t = g[x]
<1>1. PICK i : Solves(i, S, g) /\ t = i[S]
  BY DEF Sums
<1>2. /\ i[{}] = 0 /\ i[S] \in Nat
      /\ \A x \in S : i[S] = g[x] + i[S \ {x}]
  BY <1>1, SumAnyOrder
<1>3. ASSUME NEW x, S = {x} PROVE t = g[x]
  <2>1. S \ {x} = {} /\ g[x] \in Nat
    BY <1>3
  <2> QED BY <1>1, <1>2, <1>3, <2>1
<1> QED BY <1>1, <1>2, <1>3

\* Two sums agree when the terms of one are those of the other, and zeros.
LEMMA SumsAgree ==
    ASSUME NEW S, IsFiniteSet(S), NEW g \in [S -> Nat], NEW t, Sums(t, S, g),
           NEW T, IsFiniteSet(T), NEW h \in [T -> Nat], NEW u, Sums(u, T, h),
           NEW phi \in [S -> T],
           \A x, y \in S : phi[x] = phi[y] => x = y,
           \A x \in S : h[phi[x]] = g[x],
           \A y \in T : (\A x \in S : phi[x] # y) => h[y] = 0
    PROVE  t = u
<1>1. PICK i : Solves(i, S, g) /\ t = i[S]
  BY DEF Sums
<1>2. PICK j : Solves(j, T, h) /\ u = j[T]
  BY DEF Sums
<1>3. /\ i[{}] = 0 /\ \A s \in SUBSET S : \A x \in s : i[s] = g[x] + i[s \ {x}]
  BY <1>1, SumAnyOrder
<1>4. /\ j[{}] = 0
      /\ \A s \in SUBSET T : j[s] \in Nat
      /\ \A s \in SUBSET T : \A y \in s : j[s] = h[y] + j[s \ {y}]
  <2> HIDE DEF Solves
  <2>1. Solves(j, T, h)
    BY <1>2
  <2>2. j[{}] = 0
    BY <2>1, SumAnyOrder
  <2>3. \A s \in SUBSET T : j[s] \in Nat
    BY <2>1, SumAnyOrder
  <2>4. \A s \in SUBSET T : \A y \in s : j[s] = h[y] + j[s \ {y}]
    BY <2>1, SumAnyOrder, ZenonT(30)
  <2> QED BY <2>2, <2>3, <2>4
<1> DEFINE Img(s) == {phi[x] : x \in s}
<1>5. \A s \in SUBSET S : i[s] = j[Img(s)]
  <2> DEFINE D == {s \in SUBSET S : i[s] # j[Img(s)]}
  <2> SUFFICES ASSUME D # {} PROVE FALSE
    OBVIOUS
  <2>1. D \in SUBSET (SUBSET S)
    OBVIOUS
  <2> HIDE DEF D
  <2>2. PICK s \in D : \A x \in s : s \ {x} \notin D
    BY <2>1, LeastSubset
  <2>3. s \in SUBSET S /\ i[s] # j[Img(s)]
    BY DEF D
  <2>4. s # {}
    <3>1. Img({}) = {}
      OBVIOUS
    <3> QED BY <1>3, <1>4, <2>3, <3>1
  <2>5. PICK x \in s : TRUE
    BY <2>4
  <2>6. s \ {x} \in SUBSET S /\ i[s \ {x}] = j[Img(s \ {x})]
    BY <2>2, <2>3, <2>5 DEF D
  <2>7. /\ phi[x] \in Img(s) /\ Img(s) \in SUBSET T
        /\ Img(s) \ {phi[x]} = Img(s \ {x})
    BY <2>3, <2>5
  <2> HIDE DEF Img
  <2>8. i[s] = g[x] + i[s \ {x}]
    BY <1>3, <2>3, <2>5
  <2>9. j[Img(s)] = h[phi[x]] + j[Img(s \ {x})]
    <3>1. j[Img(s)] = h[phi[x]] + j[Img(s) \ {phi[x]}]
      BY <1>4, <2>7
    <3> QED BY <2>7, <3>1
  <2>10. h[phi[x]] = g[x]
    BY <2>3, <2>5
  <2> QED BY <2>3, <2>6, <2>8, <2>9, <2>10
<1>6. \A s \in SUBSET T : Img(S) \subseteq s => j[s] = j[Img(S)]
  <2> DEFINE D == {s \in SUBSET T : Img(S) \subseteq s /\ j[s] # j[Img(S)]}
  <2> SUFFICES ASSUME D # {} PROVE FALSE
    OBVIOUS
  <2>1. D \in SUBSET (SUBSET T)
    OBVIOUS
  <2> HIDE DEF D
  <2>2. PICK s \in D : \A x \in s : s \ {x} \notin D
    BY <2>1, LeastSubset
  <2>3. s \in SUBSET T /\ Img(S) \subseteq s /\ j[s] # j[Img(S)]
    BY DEF D
  <2>4. PICK y \in s : y \notin Img(S)
    BY <2>3
  <2>5. y \in T /\ h[y] = 0
    BY <2>3, <2>4
  <2> HIDE DEF Img
  <2>6. s \ {y} \in SUBSET T /\ Img(S) \subseteq s \ {y}
    BY <2>3, <2>4
  <2>7. j[s \ {y}] = j[Img(S)]
    BY <2>2, <2>6 DEF D
  <2>8. j[s] = h[y] + j[s \ {y}] /\ j[s \ {y}] \in Nat
    BY <1>4, <2>3, <2>6
  <2> QED BY <2>3, <2>5, <2>7, <2>8
<1>7. Img(S) \subseteq T
  OBVIOUS
<1> HIDE DEF Img
<1> QED BY <1>1, <1>2, <1>5, <1>6, <1>7

-----------------------------------------------------------------------------
(* The bag: how many copies of each record there are *)

\* The sums that are printed and that the bag is made of.
LEMMA TotalSum ==
    ASSUME StoredOK, NEW f \in Fields, NEW k \in Int
    PROVE  LET S == Matching(f, k)
               g == [n \in S |-> pool[Bucket(f, k)[n]].count]
           IN  IsFiniteSet(S) /\ g \in [S -> Nat] /\ Sums(Total(f, k), S, g)
<1> DEFINE S == Matching(f, k)
           b == Bucket(f, k)
           g == [n \in S |-> pool[b[n]].count]
           Is(i) == i = [s \in SUBSET S |->
                           IF s = {} THEN 0 ELSE pool[b[One(s)]].count + i[s \ {One(s)}]]
<1>1. Total(f, k) = (CHOOSE i : Is(i))[S]
  BY DEF Total, MapThenSumSet, MapThenFoldSet, One
<1>2. /\ Len(b) \in Nat /\ DOMAIN b = 1 .. Len(b)
      /\ \A n \in DOMAIN b : b[n] \in 0 .. Len(pool)
  BY HashRange, Stored DEF Bucket
<1>3. S \in SUBSET (1 .. Len(b)) /\ \A n \in S : Live(b[n])
  BY <1>2 DEF Matching
<1>4. IsFiniteSet(S)
  <2>1. IsFiniteSet(1 .. Len(b))
    BY <1>2, FS_Interval
  <2> QED BY <1>3, <2>1, FS_Subset
<1>5. g \in [S -> Nat]
  <2>1. \A n \in S : b[n] \in DOMAIN pool
    BY <1>2, <1>3, Stored DEF Live, NO_ITEM
  <2> QED BY <2>1, Stored
<1> HIDE DEF S, b
<1>6. ASSUME NEW i PROVE Is(i) <=> Solves(i, S, g)
  <2>1. \A s \in SUBSET S : s # {} => g[One(s)] = pool[b[One(s)]].count
    BY OneIn
  <2>2. [s \in SUBSET S |-> IF s = {} THEN 0 ELSE pool[b[One(s)]].count + i[s \ {One(s)}]]
          = [s \in SUBSET S |-> IF s = {} THEN 0 ELSE g[One(s)] + i[s \ {One(s)}]]
    BY <2>1
  <2> QED BY <2>2 DEF Solves
<1> HIDE DEF g
<1>7. \E i : Is(i)
  <2> HIDE DEF Is
  <2> QED BY <1>4, <1>5, <1>6, SumSolved
<1> DEFINE c == CHOOSE i : Is(i)
<1>8. Is(c)
  BY <1>7, Zenon
<1>9. Total(f, k) = c[S]
  BY <1>1
<1> HIDE DEF c, Is
<1>10. Sums(Total(f, k), S, g)
  BY <1>6, <1>8, <1>9 DEF Sums
<1> QED BY <1>4, <1>5, <1>10 DEF S, g, b

LEMMA CopiesSum ==
    ASSUME StoredOK, NEW v \in Values
    PROVE  LET b == Bucket("A", v["A"])
               S == Holding(b, v)
               g == [n \in S |-> pool[b[n]].count]
           IN  IsFiniteSet(S) /\ g \in [S -> Nat] /\ Sums(CopiesOf(v), S, g)
<1> DEFINE b == Bucket("A", v["A"])
           S == Holding(b, v)
           g == [n \in S |-> pool[b[n]].count]
           Is(i) == i = [s \in SUBSET S |->
                           IF s = {} THEN 0 ELSE pool[b[One(s)]].count + i[s \ {One(s)}]]
<1>1. CopiesOf(v) = (CHOOSE i : Is(i))[S]
  BY DEF CopiesOf, MapThenSumSet, MapThenFoldSet, One
<1>2. /\ Len(b) \in Nat /\ DOMAIN b = 1 .. Len(b)
      /\ \A n \in DOMAIN b : b[n] \in 0 .. Len(pool)
  BY KeyInt, HashRange, Stored DEF Bucket, Fields
<1>3. S \in SUBSET (1 .. Len(b)) /\ \A n \in S : Live(b[n])
  BY <1>2 DEF Holding
<1>4. IsFiniteSet(S)
  <2>1. IsFiniteSet(1 .. Len(b))
    BY <1>2, FS_Interval
  <2> QED BY <1>3, <2>1, FS_Subset
<1>5. g \in [S -> Nat]
  <2>1. \A n \in S : b[n] \in DOMAIN pool
    BY <1>2, <1>3, Stored DEF Live, NO_ITEM
  <2> QED BY <2>1, Stored
<1> HIDE DEF S, b
<1>6. ASSUME NEW i PROVE Is(i) <=> Solves(i, S, g)
  <2>1. \A s \in SUBSET S : s # {} => g[One(s)] = pool[b[One(s)]].count
    BY OneIn
  <2>2. [s \in SUBSET S |-> IF s = {} THEN 0 ELSE pool[b[One(s)]].count + i[s \ {One(s)}]]
          = [s \in SUBSET S |-> IF s = {} THEN 0 ELSE g[One(s)] + i[s \ {One(s)}]]
    BY <2>1
  <2> QED BY <2>2 DEF Solves
<1> HIDE DEF g
<1>7. \E i : Is(i)
  <2> HIDE DEF Is
  <2> QED BY <1>4, <1>5, <1>6, SumSolved
<1> DEFINE c == CHOOSE i : Is(i)
<1>8. Is(c)
  BY <1>7, Zenon
<1>9. CopiesOf(v) = c[S]
  BY <1>1
<1> HIDE DEF c, Is
<1>10. Sums(CopiesOf(v), S, g)
  BY <1>6, <1>8, <1>9 DEF Sums
<1> QED BY <1>4, <1>5, <1>10 DEF S, g, b

LEMMA RecordsSum ==
    ASSUME IsFiniteSet(Values), NEW f \in Fields, NEW k \in Int,
           \A v \in Values : CopiesOf(v) \in Nat
    PROVE  LET R == Records!With(f, k)
               h == [v \in R |-> CopiesOf(v)]
           IN  IsFiniteSet(R) /\ h \in [R -> Nat] /\ Sums(Records!Copies(R), R, h)
<1> DEFINE R == Records!With(f, k)
           h == [v \in R |-> CopiesOf(v)]
           Is(i) == i = [s \in SUBSET R |->
                           IF s = {} THEN 0 ELSE CopiesOf(One(s)) + i[s \ {One(s)}]]
<1>1. R \in SUBSET Values /\ IsFiniteSet(R) /\ h \in [R -> Nat]
  BY FS_Subset DEF Records!With
<1> HIDE DEF R
<1>2. Records!Copies(R) = (CHOOSE i : Is(i))[R]
  BY <1>1, ZenonT(30) DEF Records!Copies, Records!MapThenSumSet, Records!MapThenFoldSet, One
<1>3. ASSUME NEW i PROVE Is(i) <=> Solves(i, R, h)
  <2>1. \A s \in SUBSET R : s # {} => h[One(s)] = CopiesOf(One(s))
    BY OneIn
  <2>2. [s \in SUBSET R |-> IF s = {} THEN 0 ELSE CopiesOf(One(s)) + i[s \ {One(s)}]]
          = [s \in SUBSET R |-> IF s = {} THEN 0 ELSE h[One(s)] + i[s \ {One(s)}]]
    BY <2>1
  <2> QED BY <2>2 DEF Solves
<1> HIDE DEF h
<1>4. \E i : Is(i)
  <2> HIDE DEF Is
  <2> QED BY <1>1, <1>3, SumSolved
<1> DEFINE c == CHOOSE i : Is(i)
<1>5. Is(c)
  BY <1>4, Zenon
<1>6. Records!Copies(R) = c[R]
  BY <1>2
<1> HIDE DEF c, Is
<1>7. Sums(Records!Copies(R), R, h)
  BY <1>3, <1>5, <1>6 DEF Sums
<1> QED BY <1>1, <1>7 DEF R, h

\* While the program runs, the bag has the copies of the items; a record that
\* has no item with copies is not in it.
BagKnown == \A v \in Values :
    /\ CopiesOf(v) \in Nat
    /\ \A i \in DOMAIN pool : Live(i) /\ pool[i].value = v => CopiesOf(v) = pool[i].count
    /\ (\A i \in DOMAIN pool : ~ (Live(i) /\ pool[i].value = v)) => CopiesOf(v) = 0

LEMMA BagIsKnown == DInv /\ running => BagKnown
<1> SUFFICES ASSUME DInv, running, NEW v \in Values
             PROVE  /\ CopiesOf(v) \in Nat
                    /\ \A i \in DOMAIN pool : Live(i) /\ pool[i].value = v
                          => CopiesOf(v) = pool[i].count
                    /\ (\A i \in DOMAIN pool : ~ (Live(i) /\ pool[i].value = v))
                          => CopiesOf(v) = 0
  BY DEF BagKnown
<1> DEFINE b == Bucket("A", v["A"])
           S == Holding(b, v)
           g == [n \in S |-> pool[b[n]].count]
<1>0. StoredOK /\ SlotsSound /\ Indexed /\ LiveOnce
  BY DEF DInv
<1>1. IsFiniteSet(S) /\ g \in [S -> Nat] /\ Sums(CopiesOf(v), S, g)
  BY <1>0, CopiesSum
<1>2. /\ CopiesOf(v) \in Nat
      /\ S = {} => CopiesOf(v) = 0
      /\ \A x : S = {x} => CopiesOf(v) = g[x]
  <2> HIDE DEF S, g
  <2> QED BY <1>1, SumFew
<1>3. /\ Hash(v["A"]) \in 0 .. Buckets - 1 /\ "A" \in Fields
      /\ \A n \in DOMAIN b : b[n] \in 0 .. Len(pool)
      /\ DOMAIN pool = 1 .. Len(pool) /\ Len(pool) \in Nat
  BY <1>0, KeyInt, HashRange, Stored DEF Bucket, Fields
<1>4. \A n \in S : b[n] \in DOMAIN pool /\ Live(b[n]) /\ pool[b[n]].value = v /\ n \in DOMAIN b
  BY <1>3 DEF Holding, Live, NO_ITEM
<1>5. ASSUME NEW i \in DOMAIN pool, Live(i), pool[i].value = v
      PROVE  CopiesOf(v) = pool[i].count
  <2>1. PICK n \in DOMAIN b : b[n] = i
    BY <1>0, <1>3, <1>5 DEF Indexed, InAllTables
  <2>2. n \in S
    BY <1>5, <2>1 DEF Holding
  <2>3. \A m \in S : m = n
    <3> SUFFICES ASSUME NEW m \in S PROVE m = n
      OBVIOUS
    <3>1. b[m] = i
      BY <1>0, <1>4, <1>5 DEF LiveOnce
    <3>2. \A x, y \in DOMAIN b : b[x] # NO_ITEM /\ b[y] = b[x] => y = x
      BY <1>0, <1>3 DEF SlotsSound, Bucket
    <3>3. b[n] # NO_ITEM
      BY <1>3, <2>1 DEF NO_ITEM
    <3> QED BY <1>4, <2>1, <3>1, <3>2, <3>3
  <2>4. S = {n}
    BY <2>2, <2>3
  <2>5. g[n] = pool[i].count
    BY <2>1, <2>2
  <2> QED BY <1>2, <2>4, <2>5
<1>6. ASSUME \A i \in DOMAIN pool : ~ (Live(i) /\ pool[i].value = v)
      PROVE  CopiesOf(v) = 0
  BY <1>2, <1>4, <1>6
<1> QED BY <1>2, <1>5, <1>6

LEMMA BagStillKnown == (DInv /\ running => BagKnown)'
BY BagIsKnown, PTL

\* The number that is printed is that of the bag, whichever field is asked for.
LEMMA TotalIsCopies ==
    ASSUME IsFiniteSet(Values), DInv, running, NEW f \in Fields, NEW k \in Keys(f)
    PROVE  Total(f, k) = Records!Copies(Records!With(f, k))
<1> DEFINE S == Matching(f, k)
           b == Bucket(f, k)
           g == [n \in S |-> pool[b[n]].count]
           R == Records!With(f, k)
           h == [v \in R |-> CopiesOf(v)]
           phi == [n \in S |-> pool[b[n]].value]
<1>0. StoredOK /\ SlotsSound /\ Indexed /\ LiveOnce /\ BagKnown
  BY BagIsKnown DEF DInv
<1>1. k \in Int /\ Hash(k) \in 0 .. Buckets - 1
  BY KeyInt, HashRange DEF Keys
<1>2. IsFiniteSet(S) /\ g \in [S -> Nat] /\ Sums(Total(f, k), S, g)
  BY <1>0, <1>1, TotalSum
<1>3. IsFiniteSet(R) /\ h \in [R -> Nat] /\ Sums(Records!Copies(R), R, h)
  BY <1>0, <1>1, RecordsSum DEF BagKnown
<1>4. /\ \A n \in DOMAIN b : b[n] \in 0 .. Len(pool)
      /\ DOMAIN pool = 1 .. Len(pool) /\ Len(pool) \in Nat
      /\ \A i \in DOMAIN pool : pool[i].value \in Values
  BY <1>0, <1>1, Stored DEF Bucket
<1>5. \A n \in S : /\ n \in DOMAIN b /\ b[n] \in DOMAIN pool /\ Live(b[n])
                   /\ pool[b[n]].value \in Values /\ pool[b[n]].value[f] = k
  BY <1>4 DEF Matching, Live, NO_ITEM
<1>6. phi \in [S -> R]
  BY <1>5 DEF Records!With
<1>7. \A m, n \in S : phi[m] = phi[n] => m = n
  <2> SUFFICES ASSUME NEW m \in S, NEW n \in S, phi[m] = phi[n] PROVE m = n
    OBVIOUS
  <2>1. b[m] = b[n]
    BY <1>0, <1>5 DEF LiveOnce
  <2>2. \A x, y \in DOMAIN b : b[x] # NO_ITEM /\ b[y] = b[x] => y = x
    BY <1>0, <1>1 DEF SlotsSound, Bucket
  <2>3. b[n] # NO_ITEM
    BY <1>5 DEF Live
  <2> QED BY <1>5, <2>1, <2>2, <2>3
<1>8. \A n \in S : h[phi[n]] = g[n]
  BY <1>0, <1>5, <1>6 DEF BagKnown
<1>9. ASSUME NEW v \in R, \A n \in S : phi[n] # v PROVE h[v] = 0
  <2>1. v \in Values /\ v[f] = k
    BY DEF Records!With
  <2>2. ASSUME NEW i \in DOMAIN pool, Live(i), pool[i].value = v PROVE FALSE
    <3>1. PICK n \in DOMAIN b : b[n] = i
      BY <1>0, <2>1, <2>2 DEF Indexed, InAllTables
    <3>2. n \in S
      BY <2>1, <2>2, <3>1 DEF Matching
    <3> QED BY <1>9, <2>2, <3>1, <3>2
  <2>3. CopiesOf(v) = 0
    BY <1>0, <2>1, <2>2 DEF BagKnown
  <2> QED BY <2>3
<1> HIDE DEF S, g, R, h, phi
<1> QED BY <1>2, <1>3, <1>6, <1>7, <1>8, <1>9, SumsAgree DEF R

\* The bag after a step that keeps the program running.
LEMMA BagAfter ==
    ASSUME DInv', running', NEW v \in Values
    PROVE  /\ CopiesOf(v)' \in Nat
           /\ \A i \in DOMAIN pool' : i # 0 /\ pool'[i].count > 0 /\ pool'[i].value = v
                 => CopiesOf(v)' = pool'[i].count
           /\ (\A i \in DOMAIN pool' : i # 0 /\ pool'[i].count > 0 => pool'[i].value # v)
                 => CopiesOf(v)' = 0
<1>1. BagKnown'
  BY BagStillKnown
<1> QED BY <1>1 DEF BagKnown, Live, NO_ITEM

\* The same before it.
LEMMA BagBefore ==
    ASSUME DInv, running, NEW v \in Values
    PROVE  /\ CopiesOf(v) \in Nat
           /\ \A i \in DOMAIN pool : i # 0 /\ pool[i].count > 0 /\ pool[i].value = v
                 => CopiesOf(v) = pool[i].count
           /\ (\A i \in DOMAIN pool : i # 0 /\ pool[i].count > 0 => pool[i].value # v)
                 => CopiesOf(v) = 0
<1>1. BagKnown
  BY BagIsKnown
<1> QED BY <1>1 DEF BagKnown, Live, NO_ITEM

\* Records whose items do not change keep their copies.
LEMMA BagSame ==
    ASSUME DInv, DInv', running, running', NEW v \in Values,
           \A i \in DOMAIN pool : i # 0 /\ pool[i].count > 0 /\ pool[i].value = v
              => i \in DOMAIN pool' /\ pool'[i] = pool[i],
           \A i \in DOMAIN pool' : i # 0 /\ pool'[i].count > 0 /\ pool'[i].value = v
              => i \in DOMAIN pool /\ pool'[i] = pool[i]
    PROVE  CopiesOf(v)' = CopiesOf(v)
<1>1. CASE \E i \in DOMAIN pool : i # 0 /\ pool[i].count > 0 /\ pool[i].value = v
  BY <1>1, BagAfter, BagBefore
<1>2. CASE \A i \in DOMAIN pool : i # 0 /\ pool[i].count > 0 => pool[i].value # v
  <2>1. \A i \in DOMAIN pool' : i # 0 /\ pool'[i].count > 0 => pool'[i].value # v
    BY <1>2
  <2> QED BY <1>2, <2>1, BagAfter, BagBefore
<1> QED BY <1>1, <1>2

\* add adds one to the bag and prints what there is of the record now.
LEMMA CopyAdds ==
    ASSUME DInv, DInv', NEW v \in Values, AddCopy(v)
    PROVE  /\ CopiesOf(v)' = CopiesOf(v) + 1 /\ answer' = CopiesOf(v)'
           /\ \A w \in Values : w # v => CopiesOf(w)' = CopiesOf(w)
<1>1. PICK i \in DOMAIN pool :
         /\ Live(i) /\ pool[i].value = v
         /\ pool' = [pool EXCEPT ![i].count = @ + 1] /\ answer' = pool[i].count + 1
  BY CopyLive DEF AddCopy
<1>2. running /\ running'
  BY DEF AddCopy
<1>3. /\ i # 0 /\ pool[i].count > 0 /\ pool[i].count \in Nat
      /\ DOMAIN pool' = DOMAIN pool
      /\ pool'[i].count = pool[i].count + 1 /\ pool'[i].value = v
      /\ \A j \in DOMAIN pool : j # i => pool'[j] = pool[j]
  BY <1>1, Stored DEF Live, NO_ITEM, DInv
<1>4. CopiesOf(v) = pool[i].count /\ CopiesOf(v)' = pool'[i].count
  BY <1>1, <1>2, <1>3, BagBefore, BagAfter
<1>5. ASSUME NEW w \in Values, w # v PROVE CopiesOf(w)' = CopiesOf(w)
  <2>1. /\ \A j \in DOMAIN pool : pool[j].value = w => j # i
        /\ \A j \in DOMAIN pool : pool'[j].value = w => j # i
    BY <1>1, <1>3, <1>5
  <2> QED BY <1>2, <1>3, <2>1, BagSame
<1> QED BY <1>1, <1>3, <1>4, <1>5

LEMMA ItemAdds ==
    ASSUME DInv, DInv', NEW v \in Values, AddItem(v)
    PROVE  /\ CopiesOf(v)' = CopiesOf(v) + 1 /\ answer' = CopiesOf(v)'
           /\ \A w \in Values : w # v => CopiesOf(w)' = CopiesOf(w)
<1>1. running /\ running' /\ answer' = 1 /\ ~ Finds(v) /\ pool' = Append(pool, [value |-> v, count |-> 1])
  BY DEF AddItem, NewItem
<1> DEFINE n == Len(pool) + 1
<1>2. /\ n # 0 /\ n \in DOMAIN pool' /\ pool'[n] = [value |-> v, count |-> 1]
      /\ DOMAIN pool = 1 .. Len(pool) /\ Len(pool) \in Nat
      /\ DOMAIN pool' = 1 .. n /\ \A j \in DOMAIN pool : j \in DOMAIN pool' /\ pool'[j] = pool[j]
      /\ \A j \in DOMAIN pool' : j = n \/ j \in DOMAIN pool
  <2>1. pool \in Seq([value : Values, count : Nat]) /\ DOMAIN pool = 1 .. Len(pool) /\ Len(pool) \in Nat
    BY Stored DEF DInv, StoredOK
  <2>2. [value |-> v, count |-> 1] \in [value : Values, count : Nat]
    OBVIOUS
  <2> HIDE DEF n
  <2>3. /\ Len(pool') = n /\ pool'[n] = [value |-> v, count |-> 1]
        /\ \A j \in 1 .. Len(pool) : pool'[j] = pool[j]
        /\ pool' \in Seq([value : Values, count : Nat])
    BY <1>1, <2>1, <2>2, AppendProperties DEF n
  <2>4. DOMAIN pool' = 1 .. n
    BY <2>3
  <2>5. n \in 1 .. n /\ n # 0 /\ \A j \in 1 .. n : j = n \/ j \in 1 .. Len(pool)
    BY <2>1 DEF n
  <2>6. \A j \in 1 .. Len(pool) : j \in 1 .. n
    BY <2>1 DEF n
  <2> QED BY <2>1, <2>3, <2>4, <2>5, <2>6
<1> HIDE DEF n
<1>3. \A j \in DOMAIN pool : j # 0 /\ pool[j].count > 0 => pool[j].value # v
  BY <1>1, FindsLive DEF Live, NO_ITEM
<1>4. CopiesOf(v) = 0
  BY <1>1, <1>3, BagBefore
<1>5. CopiesOf(v)' = 1
  BY <1>1, <1>2, BagAfter
<1>6. ASSUME NEW w \in Values, w # v PROVE CopiesOf(w)' = CopiesOf(w)
  <2>1. pool'[n].value # w
    BY <1>2, <1>6
  <2> QED BY <1>1, <1>2, <2>1, BagSame
<1> QED BY <1>1, <1>4, <1>5, <1>6

\* delete takes the records with the key out of the bag, and no others.
LEMMA DeleteTakes ==
    ASSUME DInv, DInv', NEW f \in Fields, NEW k \in Keys(f), Delete(f, k)
    PROVE  \A w \in Values : CopiesOf(w)' = IF w[f] = k THEN 0 ELSE CopiesOf(w)
<1> DEFINE b == Bucket(f, k)
           items == {b[n] : n \in Matching(f, k)}
<1>0. StoredOK /\ Indexed
  BY DEF DInv
<1>1. /\ running /\ running' /\ DOMAIN pool' = DOMAIN pool
      /\ \A i \in DOMAIN pool : pool'[i] = IF i \in items THEN [pool[i] EXCEPT !.count = 0]
                                                          ELSE pool[i]
  BY DEF Delete, Bury
<1>2. /\ \A i \in DOMAIN pool : pool[i] \in [value : Values, count : Nat]
      /\ \A n \in Matching(f, k) : pool[b[n]].value[f] = k
  BY <1>0, Stored DEF Matching
<1>3. \A i \in DOMAIN pool : /\ pool'[i].value = pool[i].value
                             /\ i \in items => ~ (pool'[i].count > 0) /\ pool[i].value[f] = k
                             /\ i \notin items => pool'[i] = pool[i]
  BY <1>1, <1>2
<1>4. \A i \in DOMAIN pool : Live(i) /\ pool[i].value[f] = k => i \in items
  <2> SUFFICES ASSUME NEW i \in DOMAIN pool, Live(i), pool[i].value[f] = k PROVE i \in items
    OBVIOUS
  <2>1. PICK n \in DOMAIN b : b[n] = i
    BY <1>0, <1>1 DEF Indexed, InAllTables
  <2>2. n \in Matching(f, k)
    BY <2>1 DEF Matching
  <2> QED BY <2>1, <2>2
<1> HIDE DEF items
<1>5. ASSUME NEW w \in Values, w[f] = k PROVE CopiesOf(w)' = 0
  <2>1. \A i \in DOMAIN pool' : i # 0 /\ pool'[i].count > 0 => pool'[i].value # w
    BY <1>1, <1>3, <1>4, <1>5 DEF Live, NO_ITEM
  <2> QED BY <1>1, <2>1, BagAfter
<1>6. ASSUME NEW w \in Values, w[f] # k PROVE CopiesOf(w)' = CopiesOf(w)
  <2>1. \A i \in DOMAIN pool : pool[i].value = w => pool'[i] = pool[i]
    BY <1>3, <1>6
  <2> QED BY <1>1, <1>3, <2>1, BagSame
<1> QED BY <1>5, <1>6

\* A crash leaves the bag alone: no slot leads to the new item.
CopiesAreSums == \A v \in Values :
    LET b == Bucket("A", v["A"])
        S == Holding(b, v)
        g == [n \in S |-> pool[b[n]].count]
    IN  IsFiniteSet(S) /\ g \in [S -> Nat] /\ Sums(CopiesOf(v), S, g)

LEMMA CopiesStillSums == StoredOK' => CopiesAreSums'
<1>1. StoredOK => CopiesAreSums
  BY CopiesSum DEF CopiesAreSums
<1> QED BY <1>1, PTL

LEMMA BagStays ==
    ASSUME DInv, DInv', NEW w \in Values, tables' = tables,
           \A i \in DOMAIN pool : pool'[i] = pool[i]
    PROVE  CopiesOf(w)' = CopiesOf(w)
<1> DEFINE b == Bucket("A", w["A"])
           S == Holding(b, w)
           g == [n \in S |-> pool[b[n]].count]
           phi == [n \in S |-> n]
<1>1. /\ \A n \in DOMAIN b : b[n] \in 0 .. Len(pool)
      /\ DOMAIN pool = 1 .. Len(pool) /\ Len(pool) \in Nat
  BY KeyInt, HashRange, Stored DEF Bucket, Fields, DInv
<1>2. Bucket("A", w["A"])' = b
  BY DEF Bucket, Hash
<1>3. IsFiniteSet(S) /\ g \in [S -> Nat] /\ Sums(CopiesOf(w), S, g)
  BY CopiesSum DEF DInv
<1>4. \A n \in DOMAIN b : /\ Live(b[n]) <=> b[n] # NO_ITEM /\ pool'[b[n]].count > 0
                          /\ Live(b[n]) => pool'[b[n]] = pool[b[n]]
  BY <1>1 DEF Live, NO_ITEM
<1>5. Holding(b, w)' = S
  BY <1>2, <1>4 DEF Holding, Live
<1>6. PICK T, h : /\ T = Holding(b, w)' /\ h = [n \in T |-> pool'[b[n]].count]
                  /\ IsFiniteSet(T) /\ h \in [T -> Nat] /\ Sums(CopiesOf(w)', T, h)
  BY <1>2, CopiesStillSums DEF CopiesAreSums, DInv
<1>7. T = S /\ \A n \in S : h[n] = g[n]
  BY <1>4, <1>5, <1>6 DEF Holding
<1> HIDE DEF S, g
<1>8. /\ phi \in [S -> T]
      /\ \A x, y \in S : phi[x] = phi[y] => x = y
      /\ \A x \in S : h[phi[x]] = g[x]
      /\ \A y \in T : ~ (\A x \in S : phi[x] # y)
  BY <1>7
<1> HIDE DEF phi
<1>9. PICK t, u : t = CopiesOf(w) /\ u = CopiesOf(w)'
  OBVIOUS
<1>10. t = u
  <2>1. Sums(t, S, g) /\ Sums(u, T, h)
    BY <1>3, <1>6, <1>9
  <2> HIDE DEF Sums, b
  <2>2. IsFiniteSet(S) /\ g \in [S -> Nat] /\ IsFiniteSet(T) /\ h \in [T -> Nat]
    BY <1>3, <1>6
  <2>3. \A y \in T : (\A x \in S : phi[x] # y) => h[y] = 0
    BY <1>8
  <2> QED BY <1>8, <2>1, <2>2, <2>3, SumsAgree
<1> QED BY <1>9, <1>10

\* A step is one of the bag, or changes neither it nor what was printed.
LEMMA BagStep ==
    ASSUME IsFiniteSet(Values), DInv, DInv', [Next]_vars
    PROVE  [Records!ANext]_<<[v \in Values |-> CopiesOf(v)], answer>>
<1> DEFINE bag == [v \in Values |-> CopiesOf(v)]
<1>1. ASSUME NEW v \in Values, AddCopy(v) \/ AddItem(v) PROVE Records!AAdd(v)
  <2>1. /\ CopiesOf(v)' = CopiesOf(v) + 1 /\ answer' = CopiesOf(v)'
        /\ \A w \in Values : w # v => CopiesOf(w)' = CopiesOf(w)
    BY <1>1, CopyAdds, ItemAdds
  <2>2. bag' = [bag EXCEPT ![v] = @ + 1] /\ answer' = (bag')[v]
    BY <2>1
  <2> QED BY <2>2 DEF Records!AAdd
<1>2. ASSUME tables' = tables, \A i \in DOMAIN pool : pool'[i] = pool[i] PROVE bag' = bag
  BY <1>2, BagStays
<1>3. ASSUME NEW v \in Values, Crash(v) PROVE UNCHANGED <<bag, answer>>
  <2>1. \A i \in DOMAIN pool : pool'[i] = pool[i]
    BY <1>3, Made, Stored DEF Crash, DInv
  <2> QED BY <1>2, <1>3, <2>1 DEF Crash
<1>4. ASSUME NEW f \in Fields, NEW k \in Keys(f), Count(f, k) PROVE Records!ACount(f, k)
  <2>1. answer' = Records!Copies(Records!With(f, k))
    BY <1>4, TotalIsCopies DEF Count
  <2>2. bag' = bag
    BY <1>2, <1>4 DEF Count
  <2> QED BY <2>1, <2>2 DEF Records!ACount
<1>5. ASSUME NEW f \in Fields, NEW k \in Keys(f), Delete(f, k) PROVE Records!ADelete(f, k)
  <2>1. answer' = Records!Copies(Records!With(f, k))
    BY <1>5, TotalIsCopies DEF Delete
  <2>2. bag' = [v \in Values |-> IF v[f] = k THEN 0 ELSE bag[v]]
    BY <1>5, DeleteTakes
  <2> QED BY <2>1, <2>2 DEF Records!ADelete
<1>6. ASSUME UNCHANGED vars PROVE UNCHANGED <<bag, answer>>
  BY <1>2, <1>6 DEF vars
<1>7. \A f : Records!Keys(f) = Keys(f)
  BY DEF Keys, Records!Keys
<1> HIDE DEF bag
<1>8. ASSUME Next PROVE Records!ANext \/ UNCHANGED <<bag, answer>>
  BY <1>1, <1>3, <1>4, <1>5, <1>7, <1>8 DEF Next, Records!ANext
<1>9. [Records!ANext]_<<bag, answer>>
  BY <1>6, <1>8
<1> QED BY <1>9 DEF bag

LEMMA BagInit == Init => Records!AInit
<1> SUFFICES ASSUME Init PROVE Records!AInit
  OBVIOUS
<1>1. DInv /\ running /\ DOMAIN pool = {} /\ answer = 0
  BY InitInv DEF Init
<1>2. \A v \in Values : CopiesOf(v) = 0
  BY <1>1, BagBefore
<1> QED BY <1>1, <1>2 DEF Records!AInit

\* The program is a bag of records: what is printed when one is added, counted
\* or deleted is what the bag says, whichever of the tables is searched. (The
\* fields are C ints, so there are only so many records.)
THEOREM BagTheorem == ASSUME IsFiniteSet(Values) PROVE Spec => BagSpec
<1>1. DInv /\ DInv' /\ [Next]_vars
        => [Records!ANext]_<<[v \in Values |-> CopiesOf(v)], answer>>
  BY BagStep
<1> QED BY <1>1, BagInit, Consistent, PTL DEF Spec, BagSpec, Records!ASpec

\* Natural numbers are printed.
LEMMA AnswerStep ==
    ASSUME DInv, [Next]_vars, answer \in Nat
    PROVE  answer' \in Nat
<1>1. ASSUME NEW f \in Fields, NEW k \in Keys(f) PROVE Total(f, k) \in Nat
  <2>1. k \in Int
    BY KeyInt DEF Keys
  <2>2. PICK S, g, t : t = Total(f, k) /\ IsFiniteSet(S) /\ g \in [S -> Nat] /\ Sums(t, S, g)
    BY <2>1, TotalSum DEF DInv
  <2>3. t \in Nat
    BY <2>2, SumFew
  <2> QED BY <2>2, <2>3
<1>2. ASSUME NEW v \in Values, AddCopy(v) PROVE answer' \in Nat
  <2>1. PICK i \in DOMAIN pool : answer' = pool[i].count + 1
    BY <1>2, CopyLive DEF AddCopy
  <2> QED BY <2>1, Stored DEF DInv
<1>3. ASSUME NEW v \in Values, AddItem(v) \/ Crash(v) PROVE answer' \in Nat
  BY <1>3 DEF AddItem, Crash
<1>4. ASSUME NEW f \in Fields, NEW k \in Keys(f), Count(f, k) \/ Delete(f, k)
      PROVE  answer' \in Nat
  BY <1>1, <1>4 DEF Count, Delete
<1>5. ASSUME UNCHANGED vars PROVE answer' \in Nat
  BY <1>5 DEF vars
<1> QED BY <1>2, <1>3, <1>4, <1>5 DEF Next

\* What is in memory keeps its type, and natural numbers are printed.
THEOREM Types == Spec => []TypeOK
<1>1. Init => answer \in Nat
  BY DEF Init
<1>2. DInv /\ [Next]_vars /\ answer \in Nat => (answer \in Nat)'
  BY AnswerStep
<1>3. Spec => [](answer \in Nat)
  BY <1>1, <1>2, Consistent, PTL DEF Spec
<1>4. DInv /\ answer \in Nat => TypeOK
  BY DEF DInv, TypeOK
<1> QED BY <1>3, <1>4, Consistent, PTL
-----------------------------------------------------------------------------
(* DataHash: the pairs of the table are those of the numbers read so far,    *)
(* each with what followed it last.                                          *)

HashSetting == HashKeys \subseteq Int /\ Buckets \in Nat \ {0}

Pairs == [key : Int, value : Int]
Tables == [0 .. Buckets - 1 -> [data : Seq(Pairs), allocated : Nat, at : Nat]]
Pointers == [hash : Int, i : Nat, at : Nat]

\* What is known of a table t when n numbers were read: a key is in its bucket,
\* once, no array is written behind its end, and every number read has a pair.
Keyed(t) == \A b \in 0 .. Buckets - 1 : \A i \in 1 .. Len(t[b].data) :
    /\ Successor!Hash(t[b].data[i].key) = b
    /\ \A j \in 1 .. Len(t[b].data) : t[b].data[j].key = t[b].data[i].key => j = i
Room(t) == \A b \in 0 .. Buckets - 1 : Len(t[b].data) <= t[b].allocated
HasPair(t, k) == \E i \in 1 .. Len(t[Successor!Hash(k)].data) :
    t[Successor!Hash(k)].data[i].key = k
Known(t, n) == \A m \in 1 .. n : HasPair(t, input[m])

\* The number v followed k when it occurred last among the first n - 1 numbers.
Follows(k, v, n) ==
    \/ \E m \in 1 .. n - 1 :
          /\ input[m] = k /\ v = input[m + 1]
          /\ \A j \in 1 .. n - 1 : input[j] = k => j <= m
    \/ v = -1 /\ \A j \in 1 .. n - 1 : input[j] # k
Latest(t, n) == \A b \in 0 .. Buckets - 1 : \A i \in 1 .. Len(t[b].data) :
    Follows(t[b].data[i].key, t[b].data[i].value, n)

\* The pointer leads to the pair of k.
LeadsTo(t, o, k) ==
    /\ o.hash \in 0 .. Buckets - 1 /\ o.at = t[o.hash].at
    /\ o.i \in 1 .. Len(t[o.hash].data) /\ t[o.hash].data[o.i].key = k

TableRight(t, n) == t \in Tables /\ Keyed(t) /\ Room(t) /\ Known(t, n)

\* The inductive invariant.
HashInv ==
    /\ input \in Seq(HashKeys) /\ pos \in 0 .. Len(input)
    /\ obj \in Pointers /\ (pos = 0 <=> obj = Successor!NULL)
    /\ pos > 0 => LeadsTo(buckets, obj, input[pos])
    /\ TableRight(buckets, pos) /\ Latest(buckets, pos)
    /\ pc \in {"read", "done", "crash"}
    /\ pc = "crash" => pos = Len(input) /\ pos = 0
    /\ pc = "done" => /\ pos = Len(input) /\ pos # 0
                      /\ \E v : out = <<v>> /\ Follows(input[pos], v, pos)

\* Every bucket of a table is one.
LEMMA TableBucket ==
    ASSUME NEW t \in Tables, NEW b \in 0 .. Buckets - 1
    PROVE  /\ t[b] \in [data : Seq(Pairs), allocated : Nat, at : Nat]
           /\ t[b].data \in Seq(Pairs) /\ Len(t[b].data) \in Nat
           /\ DOMAIN t[b].data = 1 .. Len(t[b].data)
           /\ t[b].allocated \in Nat /\ t[b].at \in Nat
           /\ \A i \in 1 .. Len(t[b].data) : t[b].data[i] \in Pairs
<1>1. t[b] \in [data : Seq(Pairs), allocated : Nat, at : Nat]
  BY DEF Tables
<1>2. t[b].data \in Seq(Pairs)
  BY <1>1
<1> QED BY <1>1, <1>2

LEMMA BucketOf == ASSUME HashSetting, NEW k \in Int PROVE Successor!Hash(k) \in 0 .. Buckets - 1
BY DEF HashSetting, Successor!Hash

\* The next number changes what is known of the number before it only.
LEMMA FollowsOn ==
    ASSUME NEW n \in Nat, NEW k, NEW v, Follows(k, v, n), k # input[n]
    PROVE  Follows(k, v, n + 1)
<1>1. \A j \in 1 .. (n + 1) - 1 : j = n \/ j \in 1 .. n - 1
  OBVIOUS
<1>2. \A j \in 1 .. n - 1 : j \in 1 .. (n + 1) - 1
  OBVIOUS
<1>3. CASE v = -1 /\ \A j \in 1 .. n - 1 : input[j] # k
  BY <1>1, <1>3 DEF Follows
<1>4. CASE ~ (v = -1 /\ \A j \in 1 .. n - 1 : input[j] # k)
  <2>1. PICK m \in 1 .. n - 1 : /\ input[m] = k /\ v = input[m + 1]
                               /\ \A j \in 1 .. n - 1 : input[j] = k => j <= m
    BY <1>4 DEF Follows
  <2>2. \A j \in 1 .. (n + 1) - 1 : input[j] = k => j <= m
    BY <1>1, <2>1
  <2> QED BY <1>2, <2>1, <2>2 DEF Follows
<1> QED BY <1>3, <1>4

LEMMA FollowsHere ==
    ASSUME NEW n \in Nat, n > 0 PROVE Follows(input[n], input[n + 1], n + 1)
<1>1. n \in 1 .. (n + 1) - 1 /\ \A j \in 1 .. (n + 1) - 1 : j <= n
  OBVIOUS
<1> QED BY <1>1 DEF Follows

\* obj->value = value
LEMMA NextStored ==
    ASSUME HashSetting, NEW t \in Tables, NEW o \in Pointers, NEW n \in Nat, n > 0,
           input \in Seq(HashKeys), n <= Len(input), NEW value \in Int, value = input[n + 1], LeadsTo(t, o, input[n]),
           TableRight(t, n), Latest(t, n)
    PROVE  LET u == [t EXCEPT ![o.hash].data[o.i].value = value]
           IN  TableRight(u, n) /\ Latest(u, n + 1)
<1> DEFINE h == o.hash
           d == [t[h].data EXCEPT ![o.i].value = value]
           u == [t EXCEPT ![o.hash].data[o.i].value = value]
<1>1. /\ h \in 0 .. Buckets - 1 /\ o.i \in 1 .. Len(t[h].data)
      /\ t[h].data[o.i].key = input[n]
  BY DEF LeadsTo
<1>2. /\ t[h] \in [data : Seq(Pairs), allocated : Nat, at : Nat]
      /\ t[h].data \in Seq(Pairs) /\ t[h].data[o.i] \in Pairs
      /\ \A i \in 1 .. Len(t[h].data) : t[h].data[i] \in Pairs
  BY <1>1, TableBucket
<1>3. /\ d \in Seq(Pairs) /\ Len(d) = Len(t[h].data)
      /\ \A i \in 1 .. Len(d) : d[i] = IF i = o.i THEN [key |-> input[n], value |-> value]
                                                  ELSE t[h].data[i]
  <2>1. [t[h].data[o.i] EXCEPT !.value = value] = [key |-> input[n], value |-> value]
    <3>1. PICK p \in Pairs : p = t[h].data[o.i]
      BY <1>2
    <3>2. [p EXCEPT !.value = value] = [key |-> p.key, value |-> value]
      BY DEF Pairs
    <3> QED BY <1>1, <3>1, <3>2
  <2>2. [key |-> input[n], value |-> value] \in Pairs
    BY <1>1, <1>2 DEF Pairs
  <2>3. d = [t[h].data EXCEPT ![o.i] = [key |-> input[n], value |-> value]]
    BY <2>1
  <2>4. PICK p \in Pairs, s \in Seq(Pairs) : /\ p = [key |-> input[n], value |-> value]
                                            /\ s = t[h].data
    BY <1>2, <2>2
  <2>5. d = [s EXCEPT ![o.i] = p] /\ o.i \in 1 .. Len(s)
    BY <1>1, <2>3, <2>4
  <2> HIDE DEF d
  <2>6. /\ d \in Seq(Pairs) /\ Len(d) = Len(s)
        /\ \A i \in 1 .. Len(s) : d[i] = IF i = o.i THEN p ELSE s[i]
    BY <2>4, <2>5, ExceptSeq
  <2> QED BY <2>4, <2>6
<1>4. /\ u \in Tables
      /\ u[h] = [t[h] EXCEPT !.data = d]
      /\ \A b \in 0 .. Buckets - 1 : b # h => u[b] = t[b]
  <2>1. [t[h] EXCEPT !.data = d] \in [data : Seq(Pairs), allocated : Nat, at : Nat]
    BY <1>2, <1>3
  <2>2. u = [t EXCEPT ![h] = [t[h] EXCEPT !.data = d]]
    OBVIOUS
  <2> QED BY <1>1, <2>1, <2>2 DEF Tables
<1>5. u[h].data = d /\ u[h].allocated = t[h].allocated
  BY <1>2, <1>4
<1> HIDE DEF u, d, h
<1>6. \A b \in 0 .. Buckets - 1 :
         /\ Len(u[b].data) = Len(t[b].data) /\ u[b].allocated = t[b].allocated
         /\ \A i \in 1 .. Len(t[b].data) : u[b].data[i].key = t[b].data[i].key
  <2>1. ASSUME NEW b \in 0 .. Buckets - 1, b = h
        PROVE  /\ Len(u[b].data) = Len(t[b].data) /\ u[b].allocated = t[b].allocated
               /\ \A i \in 1 .. Len(t[b].data) : u[b].data[i].key = t[b].data[i].key
    <3>1. \A i \in 1 .. Len(d) : d[i].key = t[h].data[i].key
      BY <1>1, <1>3, SMTT(30)
    <3> QED BY <1>3, <1>5, <2>1, <3>1
  <2>2. ASSUME NEW b \in 0 .. Buckets - 1, b # h PROVE u[b] = t[b]
    BY <1>4, <2>2
  <2> QED BY <2>1, <2>2
<1>7. Keyed(u) /\ Room(u)
  <2>1. Keyed(t) /\ Room(t)
    BY DEF TableRight
  <2>2. Room(u)
    BY <1>6, <2>1 DEF Room
  <2>3. ASSUME NEW b \in 0 .. Buckets - 1, NEW i \in 1 .. Len(u[b].data)
        PROVE  /\ Successor!Hash(u[b].data[i].key) = b
               /\ \A j \in 1 .. Len(u[b].data) :
                    u[b].data[j].key = u[b].data[i].key => j = i
    <3>1. /\ Len(u[b].data) = Len(t[b].data)
          /\ \A j \in 1 .. Len(t[b].data) : u[b].data[j].key = t[b].data[j].key
      BY <1>6
    <3>2. /\ Successor!Hash(t[b].data[i].key) = b
          /\ \A j \in 1 .. Len(t[b].data) : t[b].data[j].key = t[b].data[i].key => j = i
      BY <2>1, <3>1 DEF Keyed
    <3> QED BY <3>1, <3>2
  <2> QED BY <2>2, <2>3 DEF Keyed
<1>8. Known(u, n)
  <2> SUFFICES ASSUME NEW m \in 1 .. n PROVE HasPair(u, input[m])
    BY DEF Known
  <2>1. HasPair(t, input[m])
    BY DEF TableRight, Known
  <2>2. PICK i \in 1 .. Len(t[Successor!Hash(input[m])].data) :
           t[Successor!Hash(input[m])].data[i].key = input[m]
    BY <2>1 DEF HasPair
  <2>3. Successor!Hash(input[m]) \in 0 .. Buckets - 1
    <3>1. input[m] \in HashKeys
      BY DEF TableRight
    <3> QED BY <3>1, BucketOf DEF HashSetting
  <2> QED BY <1>6, <2>2, <2>3 DEF HasPair
<1>9. Latest(u, n + 1)
  <2> SUFFICES ASSUME NEW b \in 0 .. Buckets - 1, NEW i \in 1 .. Len(u[b].data)
               PROVE  Follows(u[b].data[i].key, u[b].data[i].value, n + 1)
    BY DEF Latest
  <2>1. CASE b = h /\ i = o.i
    <3>1. u[b].data[i].key = input[n] /\ u[b].data[i].value = input[n + 1]
      BY <1>3, <1>5, <2>1, SMTT(30)
    <3> QED BY <3>1, FollowsHere
  <2>2. CASE ~ (b = h /\ i = o.i)
    <3>1. u[b].data[i] = t[b].data[i] /\ i \in 1 .. Len(t[b].data)
      BY <1>3, <1>4, <1>5, <1>6, <2>2
    <3>2. t[b].data[i].key # input[n]
      <4> SUFFICES ASSUME t[b].data[i].key = input[n] PROVE FALSE
        OBVIOUS
      <4>0. Keyed(t) /\ h \in 0 .. Buckets - 1 /\ o.i \in 1 .. Len(t[h].data)
        BY <1>1 DEF TableRight
      <4>1. b = h
        <5>1. Successor!Hash(t[b].data[i].key) = b
          BY <3>1, <4>0 DEF Keyed
        <5>2. Successor!Hash(t[h].data[o.i].key) = h
          BY <4>0 DEF Keyed
        <5> QED BY <1>1, <5>1, <5>2
      <4>2. i = o.i
        BY <1>1, <3>1, <4>0, <4>1 DEF Keyed
      <4> QED BY <2>2, <4>1, <4>2
    <3>3. Follows(t[b].data[i].key, t[b].data[i].value, n)
      BY <3>1 DEF Latest
    <3> QED BY <3>1, <3>2, <3>3, FollowsOn
  <2> QED BY <2>1, <2>2
<1> QED BY <1>4, <1>7, <1>8, <1>9 DEF TableRight, u

\* The bucket with a new pair, after realloc() if there was no room.
LEMMA PairAdded ==
    ASSUME NEW b \in [data : Seq(Pairs), allocated : Nat, at : Nat], NEW new \in Pairs,
           Len(b.data) <= b.allocated
    PROVE  LET a == [Successor!Grow(b) EXCEPT !.data = Append(@, new)]
               n == Len(b.data)
           IN  /\ a \in [data : Seq(Pairs), allocated : Nat, at : Nat]
               /\ Len(a.data) = n + 1 /\ a.data[n + 1] = new
               /\ \A i \in 1 .. n : a.data[i] = b.data[i]
               /\ n + 1 <= a.allocated
<1> DEFINE n == Len(b.data)
           d == Append(b.data, new)
           g == Successor!Grow(b)
           a == [g EXCEPT !.data = Append(@, new)]
<1>1. b.data \in Seq(Pairs) /\ n \in Nat /\ b.allocated \in Nat /\ b.at \in Nat
  OBVIOUS
<1>2. /\ d \in Seq(Pairs) /\ Len(d) = n + 1 /\ d[n + 1] = new
      /\ \A i \in 1 .. n : d[i] = b.data[i]
  BY <1>1, AppendProperties
<1>3. PICK m \in Nat, w \in Nat : g = [data |-> b.data, allocated |-> m, at |-> w] /\ n < m
  <2>1. CASE n >= b.allocated
    <3> DEFINE m == 2 * (IF b.allocated = 0 THEN 1 ELSE b.allocated)
    <3>1. m \in Nat /\ n < m
      BY <1>1, <2>1
    <3>2. g = [data |-> b.data, allocated |-> m, at |-> b.at + 1]
      BY <2>1 DEF Successor!Grow
    <3> HIDE DEF m, g
    <3> QED BY <1>1, <3>1, <3>2
  <2>2. CASE ~ (n >= b.allocated)
    <3>1. g = [data |-> b.data, allocated |-> b.allocated, at |-> b.at]
      BY <2>2 DEF Successor!Grow
    <3> HIDE DEF g
    <3> QED BY <1>1, <2>2, <3>1
  <2> QED BY <2>1, <2>2
<1> HIDE DEF g
<1>4. a = [data |-> d, allocated |-> m, at |-> w]
  <2>1. Append(g.data, new) = d /\ a = [g EXCEPT !.data = Append(g.data, new)]
    BY <1>3
  <2> HIDE DEF a, d
  <2>2. a = [g EXCEPT !.data = d]
    BY <2>1
  <2> QED BY <1>3, <2>2
<1>5. n + 1 <= m
  BY <1>1, <1>3
<1> HIDE DEF a, d
<1> QED BY <1>2, <1>3, <1>4, <1>5 DEF a, g

\* hash_find_or_add(): the pair of k is there afterwards, and no other changed.
LEMMA FoundOrAdded ==
    ASSUME HashSetting, input \in Seq(HashKeys), NEW n \in Nat, n < Len(input),
           NEW t \in Tables, TableRight(t, n), Latest(t, n + 1),
           NEW k \in Int, k = input[n + 1]
    PROVE  LET r == Successor!hash_find_or_add(t, k, -1)
           IN  /\ TableRight(r.table, n + 1) /\ Latest(r.table, n + 1)
               /\ r.obj \in Pointers /\ LeadsTo(r.table, r.obj, k)
<1> DEFINE h == Successor!Hash(k)
           b == t[h]
           found == {i \in DOMAIN b.data : b.data[i].key = k}
           grown == Successor!Grow(b)
           new == [key |-> k, value |-> -1]
           added == [grown EXCEPT !.data = Append(@, new)]
           r == Successor!hash_find_or_add(t, k, -1)
<1>1. /\ h \in 0 .. Buckets - 1
      /\ b \in [data : Seq(Pairs), allocated : Nat, at : Nat]
      /\ b.data \in Seq(Pairs) /\ Len(b.data) \in Nat /\ DOMAIN b.data = 1 .. Len(b.data)
      /\ b.allocated \in Nat /\ b.at \in Nat
  BY BucketOf, TableBucket
<1>2. CASE found # {}
  <2>1. /\ r.table = t
        /\ r.obj = [hash |-> h, i |-> CHOOSE i \in found : TRUE, at |-> b.at]
    BY <1>2 DEF Successor!hash_find_or_add
  <2> HIDE DEF found
  <2>2. PICK i \in found : i = CHOOSE j \in found : TRUE
    BY <1>2
  <2>3. i \in 1 .. Len(b.data) /\ b.data[i].key = k /\ i \in Nat
    BY <1>1 DEF found
  <2>4. r.obj \in Pointers /\ LeadsTo(t, r.obj, k)
    <3>1. r.obj = [hash |-> h, i |-> i, at |-> b.at] /\ b = t[h] /\ h \in Int
      <4>1. b = t[h] /\ h \in Int
        BY <1>1
      <4> HIDE DEF r, b, h
      <4> QED BY <2>1, <2>2, <4>1
    <3> HIDE DEF r, b, h
    <3> QED BY <1>1, <2>3, <3>1 DEF Pointers, LeadsTo
  <2>5. Known(t, n + 1)
    <3>1. HasPair(t, k)
      BY <2>3 DEF HasPair
    <3>2. \A m \in 1 .. n + 1 : m = n + 1 \/ m \in 1 .. n
      OBVIOUS
    <3> QED BY <3>1, <3>2 DEF TableRight, Known
  <2> QED BY <2>1, <2>4, <2>5 DEF TableRight
<1>3. CASE found = {}
  <2> DEFINE u == [t EXCEPT ![h] = added]
             L == Len(b.data)
             d == added.data
  <2>1. new \in Pairs
    BY DEF Pairs
  <2>2. L <= b.allocated
    BY <1>1 DEF TableRight, Room
  <2>3. /\ added \in [data : Seq(Pairs), allocated : Nat, at : Nat]
        /\ Len(added.data) = L + 1 /\ added.data[L + 1] = new
        /\ \A i \in 1 .. L : added.data[i] = b.data[i]
        /\ L + 1 <= added.allocated
    <3> HIDE DEF b, new
    <3> QED BY <1>1, <2>1, <2>2, PairAdded
  <2>4. /\ r.table = u
        /\ r.obj = [hash |-> h, i |-> Len(added.data), at |-> added.at]
    BY <1>3 DEF Successor!hash_find_or_add
  <2>5. /\ u \in Tables /\ u[h] = added
        /\ \A c \in 0 .. Buckets - 1 : c # h => u[c] = t[c]
    <3> HIDE DEF added
    <3> QED BY <1>1, <2>3 DEF Tables
  <2>6. added.data = d /\ d \in Seq(Pairs)
    BY <2>3
  <2>7. new.key = k /\ new.value = -1 /\ L \in Nat
        /\ \A i \in 1 .. L : b.data[i].key # k
    BY <1>1, <1>3
  <2>8. b = t[h]
    OBVIOUS
  <2> HIDE DEF u, d, L, added, grown, new, b, h
  <2>9. \A i \in 1 .. L + 1 : i = L + 1 \/ i \in 1 .. L
    BY <2>7
  <2>10. r.obj \in Pointers /\ LeadsTo(u, r.obj, k)
    <3>1. L + 1 \in 1 .. L + 1 /\ L + 1 \in Nat /\ h \in Int
      BY <1>1, <2>7
    <3>2. r.obj = [hash |-> h, i |-> L + 1, at |-> added.at] /\ added.at \in Nat
      BY <2>3, <2>4
    <3>3. u[h] = added /\ Len(added.data) = L + 1 /\ added.data[L + 1].key = k
      BY <1>1, <2>3, <2>5, <2>7
    <3> HIDE DEF r
    <3>4. PICK o : o = r.obj
      OBVIOUS
    <3>5. o.hash = h /\ o.i = L + 1 /\ o.at = added.at
      BY <3>2, <3>4
    <3>6. o \in Pointers
      BY <3>1, <3>2, <3>4 DEF Pointers
    <3>7. LeadsTo(u, o, k)
      <4>1. h \in 0 .. Buckets - 1 /\ L + 1 \in 1 .. Len(u[h].data)
        BY <1>1, <3>1, <3>3
      <4>2. u[h].at = added.at /\ u[h].data[L + 1].key = k
        BY <3>3
      <4> QED BY <3>5, <4>1, <4>2 DEF LeadsTo
    <3> QED BY <3>4, <3>6, <3>7
  <2>11. Keyed(u)
    <3> SUFFICES ASSUME NEW c \in 0 .. Buckets - 1, NEW i \in 1 .. Len(u[c].data)
                 PROVE  /\ Successor!Hash(u[c].data[i].key) = c
                        /\ \A j \in 1 .. Len(u[c].data) :
                              u[c].data[j].key = u[c].data[i].key => j = i
      BY DEF Keyed
    <3>1. CASE c # h
      <4>1. u[c] = t[c]
        BY <2>5, <3>1
      <4>2. Keyed(t)
        BY DEF TableRight
      <4>3. PICK q : q = t[c]
        OBVIOUS
      <4>4. \A g \in 1 .. Len(q.data) :
               /\ Successor!Hash(q.data[g].key) = c
               /\ \A j \in 1 .. Len(q.data) : q.data[j].key = q.data[g].key => j = g
        BY <4>2, <4>3 DEF Keyed
      <4>5. u[c] = q
        BY <4>1, <4>3
      <4> QED BY <4>4, <4>5
    <3>2. CASE c = h
      <4>1. u[c].data = d /\ Len(u[c].data) = L + 1
        BY <2>3, <2>5, <2>6, <3>2
      <4>2. \A j \in 1 .. L : /\ Successor!Hash(d[j].key) = h
                              /\ d[j].key # k
                              /\ \A m \in 1 .. L : d[m].key = d[j].key => m = j
        <5>1. L = Len(t[h].data)
          BY <2>8 DEF L
        <5>2. \A j \in 1 .. L : d[j] = t[h].data[j] /\ d[j].key # k
          BY <2>3, <2>6, <2>7, <2>8
        <5>3. \A j \in 1 .. L :
                 /\ Successor!Hash(t[h].data[j].key) = h
                 /\ \A m \in 1 .. L : t[h].data[m].key = t[h].data[j].key => m = j
          <6>1. Keyed(t) /\ h \in 0 .. Buckets - 1
            BY <1>1 DEF TableRight
          <6> QED BY <5>1, <6>1 DEF Keyed
        <5> QED BY <5>2, <5>3
      <4>3. d[L + 1].key = k /\ Successor!Hash(k) = h
        BY <2>3, <2>6, <2>7 DEF h
      <4>4. i = L + 1 \/ i \in 1 .. L
        BY <2>9, <4>1
      <4>5. \A j \in 1 .. L + 1 : d[j].key = d[i].key => j = i
        BY <2>9, <4>2, <4>3, <4>4
      <4> QED BY <3>2, <4>1, <4>2, <4>3, <4>4, <4>5
    <3> QED BY <3>1, <3>2
  <2>12. Room(u)
    <3>1. Len(u[h].data) <= u[h].allocated
      BY <2>3, <2>5, <2>6
    <3> QED BY <2>5, <3>1 DEF TableRight, Room
  <2>13. Known(u, n + 1)
    <3>1. HasPair(u, k)
      <4>1. L + 1 \in 1 .. Len(u[h].data) /\ u[h].data[L + 1].key = k
        <5>1. Len(u[h].data) = L + 1 /\ u[h].data[L + 1] = new
          BY <2>3, <2>5
        <5> QED BY <2>7, <5>1
      <4> QED BY <4>1 DEF HasPair, h
    <3>2. ASSUME NEW m \in 1 .. n PROVE HasPair(u, input[m])
      <4>1. HasPair(t, input[m])
        BY DEF TableRight, Known
      <4> DEFINE g == Successor!Hash(input[m])
      <4>2. PICK i \in 1 .. Len(t[g].data) : t[g].data[i].key = input[m]
        BY <4>1 DEF HasPair
      <4>3. g \in 0 .. Buckets - 1
        <5>1. input[m] \in HashKeys
          OBVIOUS
        <5> QED BY <5>1, BucketOf DEF HashSetting
      <4>4. i \in 1 .. Len(u[g].data) /\ u[g].data[i].key = input[m]
        <5>1. CASE g = h
          <6>1. i \in 1 .. L /\ i \in 1 .. L + 1 /\ b.data[i].key = input[m]
            BY <2>7, <2>8, <4>2, <5>1 DEF L
          <6> QED BY <2>3, <2>6, <2>5, <2>6, <5>1, <6>1
        <5>2. CASE g # h
          BY <2>5, <4>2, <4>3, <5>2
        <5> QED BY <5>1, <5>2
      <4> QED BY <4>4 DEF HasPair
    <3>3. \A m \in 1 .. n + 1 : m = n + 1 \/ m \in 1 .. n
      OBVIOUS
    <3> QED BY <3>1, <3>2, <3>3 DEF Known
  <2>14. Latest(u, n + 1)
    <3>1. Follows(k, -1, n + 1)
      <4>1. \A j \in 1 .. (n + 1) - 1 : input[j] # k
        <5> SUFFICES ASSUME NEW j \in 1 .. n, input[j] = k PROVE FALSE
          OBVIOUS
        <5>1. HasPair(t, k)
          BY DEF TableRight, Known
        <5>2. PICK i \in 1 .. Len(b.data) : b.data[i].key = k
          BY <2>8, <5>1 DEF HasPair, h
        <5> QED BY <2>7, <5>2 DEF L
      <4> QED BY <4>1 DEF Follows
    <3>2. ASSUME NEW c \in 0 .. Buckets - 1, NEW i \in 1 .. Len(u[c].data)
          PROVE  Follows(u[c].data[i].key, u[c].data[i].value, n + 1)
      <4>1. CASE c # h
        BY <2>5, <4>1 DEF Latest
      <4>2. CASE c = h
        <5>1. u[c].data = d /\ (i = L + 1 \/ i \in 1 .. L)
          BY <2>3, <2>6, <2>5, <2>6, <2>9, <4>2
        <5>2. \A j \in 1 .. L : Follows(d[j].key, d[j].value, n + 1)
          BY <1>1, <2>3, <2>6, <2>8 DEF Latest, L
        <5>3. d[L + 1].key = k /\ d[L + 1].value = -1
          BY <2>3, <2>6, <2>7
        <5> QED BY <3>1, <5>1, <5>2, <5>3
      <4> QED BY <4>1, <4>2
    <3> QED BY <3>2 DEF Latest
  <2> QED BY <2>4, <2>5, <2>10, <2>11, <2>12, <2>13, <2>14 DEF TableRight
<1> QED BY <1>2, <1>3

\* Init, Read and Answer.
LEMMA HashStart == ASSUME HashSetting, Successor!Init PROVE HashInv
<1>1. /\ input \in Seq(HashKeys) /\ Len(input) \in Nat
      /\ pc = "read" /\ pos = 0 /\ obj = Successor!NULL
      /\ buckets = [b \in 0 .. Buckets - 1 |-> Successor!NoBucket]
  BY DEF Successor!Init
<1>2. obj \in Pointers
  BY <1>1 DEF Successor!NULL, Pointers
<1>3. buckets \in Tables /\ \A b \in 0 .. Buckets - 1 : Len(buckets[b].data) = 0
  BY <1>1 DEF Successor!NoBucket, Tables
<1>4. Keyed(buckets) /\ Latest(buckets, pos) /\ Known(buckets, pos)
  BY <1>1, <1>3 DEF Keyed, Latest, Known
<1>5. Room(buckets)
  BY <1>1, <1>3 DEF Room, Successor!NoBucket
<1> QED BY <1>1, <1>2, <1>3, <1>4, <1>5 DEF HashInv, TableRight

HashVars == <<pc, input, pos, buckets, obj, out>>

\* The input stays the same.
LEMMA InputStays ==
    ASSUME input' = input, NEW t, NEW n
    PROVE  /\ TableRight(t, n) => TableRight(t, n)'
           /\ Latest(t, n) => Latest(t, n)'
BY DEF TableRight, Keyed, Room, Known, HasPair, Latest, Follows

LEMMA HashKeeps ==
    ASSUME HashSetting, HashInv, [Successor!Next]_HashVars
    PROVE  HashInv'
<1>0. /\ input \in Seq(HashKeys) /\ pos \in Nat /\ Len(input) \in Nat /\ pos <= Len(input)
      /\ obj \in Pointers /\ (pos = 0 <=> obj = Successor!NULL)
      /\ pos > 0 => LeadsTo(buckets, obj, input[pos])
      /\ TableRight(buckets, pos) /\ Latest(buckets, pos)
  BY DEF HashInv
<1>1. CASE Successor!Read
  <2> DEFINE value == input[pos + 1]
             t == Successor!StoreNext(buckets, value)
             r == Successor!hash_find_or_add(t, value, -1)
  <2>1. /\ pc = "read" /\ pos < Len(input)
        /\ buckets' = r.table /\ obj' = r.obj /\ pos' = pos + 1
        /\ UNCHANGED <<pc, input, out>>
    BY <1>1 DEF Successor!Read
  <2>2. value \in HashKeys /\ value \in Int
    <3>1. pos + 1 \in 1 .. Len(input)
      BY <1>0, <2>1
    <3>2. value \in HashKeys
      BY <1>0, <3>1
    <3> QED BY <3>2 DEF HashSetting
  <2>3. TableRight(t, pos) /\ Latest(t, pos + 1)
    <3>1. CASE pos = 0
      <4>1. t = buckets
        BY <1>0, <3>1 DEF Successor!StoreNext
      <4>2. Latest(buckets, pos + 1)
        BY <1>0, <3>1 DEF Latest, Follows
      <4> QED BY <1>0, <4>1, <4>2
    <3>2. CASE pos # 0
      <4>1. obj # Successor!NULL /\ pos > 0
        BY <1>0, <3>2
      <4>2. t = [buckets EXCEPT ![obj.hash].data[obj.i].value = value]
        BY <4>1 DEF Successor!StoreNext
      <4>3. buckets \in Tables /\ LeadsTo(buckets, obj, input[pos])
        BY <1>0, <4>1 DEF TableRight
      <4>4. value = input[pos + 1]
        OBVIOUS
      <4> HIDE DEF t, value
      <4>5. LET u == [buckets EXCEPT ![obj.hash].data[obj.i].value = value]
            IN  TableRight(u, pos) /\ Latest(u, pos + 1)
        BY <1>0, <2>1, <2>2, <4>1, <4>3, <4>4, NextStored
      <4> QED BY <4>2, <4>5
    <3> QED BY <3>1, <3>2
  <2>4. t \in Tables
    BY <2>3 DEF TableRight
  <2>5. value = input[pos + 1]
    OBVIOUS
  <2> HIDE DEF t, value
  <2>6. /\ TableRight(r.table, pos + 1) /\ Latest(r.table, pos + 1)
        /\ r.obj \in Pointers /\ LeadsTo(r.table, r.obj, value)
    BY <1>0, <2>1, <2>2, <2>3, <2>4, <2>5, FoundOrAdded
  <2>7. r.obj # Successor!NULL
    BY <2>6 DEF LeadsTo, Successor!NULL
  <2>8. PICK u, o, n : /\ u = r.table /\ o = r.obj /\ n = pos + 1
    OBVIOUS
  <2> HIDE DEF r
  <2>9. TableRight(u, n)' /\ Latest(u, n)'
    BY <2>1, <2>6, <2>8, InputStays
  <2>10. n \in 0 .. Len(input) /\ n > 0 /\ n # 0 /\ value = input[n]
    BY <1>0, <2>1, <2>5, <2>8
  <2>11. LeadsTo(u, o, input[n])'
    BY <2>1, <2>6, <2>8, <2>10 DEF LeadsTo
  <2>12. buckets' = u /\ obj' = o /\ pos' = n /\ input' = input /\ pc' = "read"
    BY <2>1, <2>8
  <2> QED BY <1>0, <2>6, <2>7, <2>8, <2>9, <2>10, <2>11, <2>12 DEF HashInv
<1>2. ASSUME UNCHANGED <<input, pos, buckets, obj>>
      PROVE  /\ TableRight(buckets, pos)' /\ Latest(buckets, pos)'
             /\ (pos > 0 => LeadsTo(buckets, obj, input[pos]))'
             /\ (input \in Seq(HashKeys) /\ pos \in 0 .. Len(input))'
             /\ (obj \in Pointers /\ (pos = 0 <=> obj = Successor!NULL))'
             /\ \A v : Follows(input[pos], v, pos) => Follows(input[pos], v, pos)'
  <2>1. PICK t, n, o : t = buckets /\ n = pos /\ o = obj
    OBVIOUS
  <2>2. buckets' = t /\ pos' = n /\ obj' = o /\ input' = input
    BY <1>2, <2>1
  <2>3. TableRight(t, n)' /\ Latest(t, n)'
    BY <1>0, <2>1, <2>2, InputStays
  <2>4. TableRight(buckets, pos)' /\ Latest(buckets, pos)'
    BY <2>2, <2>3 DEF TableRight, Keyed, Room, Known, HasPair, Latest, Follows
  <2>5. (pos > 0 => LeadsTo(buckets, obj, input[pos]))'
    BY <1>0, <2>1, <2>2 DEF LeadsTo
  <2>6. \A v : Follows(input[pos], v, pos) => Follows(input[pos], v, pos)'
    BY <1>2 DEF Follows
  <2>7. /\ (input \in Seq(HashKeys) /\ pos \in 0 .. Len(input))'
        /\ (obj \in Pointers /\ (pos = 0 <=> obj = Successor!NULL))'
    BY <1>0, <2>1, <2>2
  <2> QED BY <2>4, <2>5, <2>6, <2>7
<1>3. CASE Successor!Answer
  <2>1. UNCHANGED <<input, pos, buckets, obj>> /\ pos = Len(input)
    BY <1>3 DEF Successor!Answer
  <2>2. pos' = Len(input') /\ (pos' = 0 <=> pos = 0)
    BY <2>1
  <2>3. CASE obj = Successor!NULL
    <3>1. pc' = "crash" /\ pos = 0
      BY <1>0, <1>3, <2>3 DEF Successor!Answer
    <3> QED BY <1>2, <2>1, <2>2, <3>1 DEF HashInv
  <2>4. CASE obj # Successor!NULL
    <3> DEFINE v == buckets[obj.hash].data[obj.i].value
    <3>1. pc' = "done" /\ out' = <<v>> /\ pos > 0
      BY <1>0, <1>3, <2>4 DEF Successor!Answer
    <3>2. Follows(input[pos], v, pos)
      <4>1. LeadsTo(buckets, obj, input[pos])
        BY <1>0, <3>1
      <4> QED BY <1>0, <4>1 DEF LeadsTo, Latest
    <3>3. PICK w : w = v
      OBVIOUS
    <3>4. out' = <<w>> /\ Follows(input[pos], w, pos)
      BY <3>1, <3>2, <3>3
    <3>5. Follows(input[pos], w, pos)'
      BY <1>2, <2>1, <3>4
    <3>6. pos' # 0
      BY <2>2, <3>1
    <3> HIDE DEF v
    <3> QED BY <1>2, <2>1, <2>2, <3>1, <3>4, <3>5, <3>6 DEF HashInv
  <2> QED BY <2>3, <2>4
<1>4. CASE UNCHANGED HashVars
  <2>1. UNCHANGED <<input, pos, buckets, obj>> /\ UNCHANGED <<pc, out>>
    BY <1>4 DEF HashVars
  <2>2. pc' \in {"read", "done", "crash"} /\ (pc' = "crash" => pos' = Len(input') /\ pos' = 0)
    BY <1>0, <2>1 DEF HashInv
  <2>3. ASSUME pc' = "done"
        PROVE  /\ pos' = Len(input') /\ pos' # 0
               /\ \E v : out' = <<v>> /\ Follows(input[pos], v, pos)'
    <3>1. PICK v : out = <<v>> /\ Follows(input[pos], v, pos)
      BY <2>1, <2>3 DEF HashInv
    <3>2. Follows(input[pos], v, pos)'
      BY <1>2, <2>1, <3>1
    <3> QED BY <2>1, <2>3, <3>1, <3>2 DEF HashInv
  <2> QED BY <1>2, <2>1, <2>2, <2>3 DEF HashInv
<1> QED BY <1>1, <1>3, <1>4 DEF Successor!Next

\* The kept pointer leads to the pair of the number read last, in the present
\* array of its bucket, and no array is written behind its end.
LEMMA HashPointer == HashInv => Successor!PointerSound
BY DEF HashInv, TableRight, Room, LeadsTo, Successor!PointerSound, Tables

\* The answer is what followed the last number when it occurred before, or -1.
LEMMA HashAnswer == HashInv => Successor!SuccessorRight
BY DEF HashInv, Follows, Successor!SuccessorRight

\* data_hash.c: the pointer kept across insertions leads to the pair of the
\* number read last, wherever realloc() moved it, and the program prints what
\* followed the last number when it occurred before, or -1.
THEOREM SuccessorTheorem ==
    ASSUME HashSetting
    PROVE  Successor!Init /\ [][Successor!Next]_HashVars
              => []Successor!PointerSound /\ []Successor!SuccessorRight
BY HashStart, HashKeeps, HashPointer, HashAnswer, PTL

-----------------------------------------------------------------------------
(* ShortestPaths: the answers of the marked vertices are their distances.    *)

PathsSetting ==
    /\ \E n \in Nat : Vertices = 0 .. n - 1
    /\ Roads \subseteq [a : Vertices, b : Vertices, l : Nat]
    /\ UINT_MAX \in Nat \ {0}

Order == Cardinality(Vertices)
Edges == Seq([a : Vertices, b : Vertices, l : Nat])

\* An edge of length l joins v and w.
Joined(E, v, w, l) == \E i \in 1 .. Len(E) :
    /\ E[i].l = l
    /\ \/ E[i].a = v /\ E[i].b = w
       \/ E[i].a = w /\ E[i].b = v

\* u[n][v] has the length of the shortest way of at most n edges from t to v.
Levels(u, E, t) ==
    /\ u \in [0 .. Order -> [Vertices -> SUBSET Nat]]
    /\ \A v \in Vertices : u[0][v] = IF v = t THEN {0} ELSE {}
    /\ \A n \in 1 .. Order, v \in Vertices :
         /\ \A x, y \in u[n][v] : x = y
         /\ \A x \in u[n - 1][v] : \E y \in u[n][v] : y <= x
         /\ \A w \in Vertices, l \in Nat : Joined(E, v, w, l) =>
              \A x \in u[n - 1][w] : \E y \in u[n][v] : y <= x + l
         /\ \A y \in u[n][v] :
              \/ y \in u[n - 1][v]
              \/ \E w \in Vertices, l \in Nat :
                   Joined(E, v, w, l) /\ \E x \in u[n - 1][w] : y = x + l

NoWrap(d, E) == \A v, w \in Vertices, l \in Nat :
    Joined(E, v, w, l) => \A x \in d[v] : x + l < UINT_MAX

\* What holds of the answers a when the vertices m were marked, k of them.
Settled(u, a, m) == \A v \in m : u[Order][v] = {a[v]}
Reached(u, a, k) == \A v \in Vertices : a[v] # UINT_MAX => \E x \in u[k][v] : x <= a[v]
AllRelaxed(E, a, m) == \A v \in m, w \in Vertices, l \in Nat :
    Joined(E, v, w, l) => a[w] <= a[v] + l
InOrder(a, m) == \A v \in m, w \in Vertices \ m : a[v] <= a[w]
Right(u, E, t, a, m, k) ==
    /\ Settled(u, a, m) /\ Reached(u, a, k) /\ a[t] = 0
    /\ AllRelaxed(E, a, m) /\ InOrder(a, m)

\* No way leads to the vertices that were not marked.
Cut(u, a, m) == \A v \in Vertices \ m : u[Order][v] = {} /\ a[v] = UINT_MAX

\* The inductive invariant.
PathsInv ==
    /\ input.edges \in Edges /\ input.target \in Vertices
    /\ marked \in SUBSET Vertices /\ pos \in 0 .. Order /\ Cardinality(marked) = pos
    /\ answers \in [Vertices -> 0 .. UINT_MAX]
    /\ pc \in {"mark", "write", "done"}
    /\ \E u : /\ Levels(u, input.edges, input.target) /\ u[Order] = Paths!Distance
              /\ NoWrap(u[Order], input.edges) =>
                   /\ Right(u, input.edges, input.target, answers, marked, pos)
                   /\ pc = "write" => Cut(u, answers, marked)
                   /\ pc = "done" => /\ Cut(u, answers, marked)
                                     /\ \A v \in Vertices : out[v + 1] = answers[v]

LEMMA OrderOf == ASSUME PathsSetting PROVE
    /\ Order \in Nat /\ Vertices = 0 .. Order - 1 /\ IsFiniteSet(Vertices)
    /\ Cardinality(Vertices) = Order
<1>1. PICK n \in Nat : Vertices = 0 .. n - 1
  BY DEF PathsSetting
<1>2. IsFiniteSet(0 .. n - 1) /\ Cardinality(0 .. n - 1) = n
  BY FS_Interval
<1> QED BY <1>1, <1>2 DEF Order

\* The sum of unsigned numbers is one, and the sum of the numbers if it fits.
LEMMA SumWraps ==
    ASSUME PathsSetting, NEW x \in Nat, NEW y \in Nat
    PROVE  /\ Paths!Sum(x, y) \in 0 .. UINT_MAX
           /\ x + y <= UINT_MAX => Paths!Sum(x, y) = x + y
<1>1. UINT_MAX + 1 \in Nat /\ UINT_MAX + 1 > 0 /\ x + y \in Nat
  BY DEF PathsSetting
<1>2. \A m, n \in Nat : n > 0 => m % n \in 0 .. n - 1 /\ (m < n => m % n = m)
  OBVIOUS
<1>3. Paths!Sum(x, y) = (x + y) % (UINT_MAX + 1)
  BY DEF Paths!Sum
<1>4. UINT_MAX \in Nat
  BY DEF PathsSetting
<1> QED BY <1>1, <1>2, <1>3, <1>4

\* A function that is defined by what it is at 0 and by steps exists.
Iterates(f, N, S, s, g) ==
    f \in [0 .. N -> S] /\ f[0] = s /\ \A n \in 1 .. N : f[n] = g[n][f[n - 1]]

LEMMA Iterated ==
    ASSUME NEW N \in Nat, NEW S, NEW s \in S, NEW g \in [1 .. N -> [S -> S]]
    PROVE  \E f : Iterates(f, N, S, s, g)
<1> DEFINE UpTo(n) == \E f \in [0 .. N -> S] :
                         f[0] = s /\ \A k \in 1 .. N : k <= n => f[k] = g[k][f[k - 1]]
           D == {n \in Nat : ~ UpTo(n)}
<1>1. UpTo(0)
  <2> DEFINE z == [k \in 0 .. N |-> s]
  <2>1. z \in [0 .. N -> S] /\ z[0] = s
    OBVIOUS
  <2>2. \A k \in 1 .. N : k <= 0 => z[k] = g[k][z[k - 1]]
    OBVIOUS
  <2> HIDE DEF z
  <2> QED BY <2>1, <2>2
<1>2. ASSUME NEW n \in Nat, UpTo(n) PROVE UpTo(n + 1)
  <2>1. PICK f \in [0 .. N -> S] :
           f[0] = s /\ \A k \in 1 .. N : k <= n => f[k] = g[k][f[k - 1]]
    BY <1>2
  <2>2. CASE n + 1 > N
    <3>1. \A k \in 1 .. N : k <= n
      BY <2>2
    <3> QED BY <2>1, <3>1
  <2>3. CASE n + 1 <= N
    <3> DEFINE h == [f EXCEPT ![n + 1] = g[n + 1][f[n]]]
    <3>1. g[n + 1][f[n]] \in S
      <4>1. n + 1 \in 1 .. N /\ n \in 0 .. N
        BY <2>3
      <4> QED BY <4>1
    <3>2. h \in [0 .. N -> S] /\ h[0] = s
      <4>1. h \in [0 .. N -> S]
        BY <3>1
      <4>2. n + 1 # 0 /\ 0 \in 0 .. N
        OBVIOUS
      <4>3. h[0] = f[0]
        BY <4>2
      <4> QED BY <2>1, <4>1, <4>3
    <3>3. ASSUME NEW k \in 1 .. N, k <= n + 1 PROVE h[k] = g[k][h[k - 1]]
      <4>1. h[k - 1] = f[k - 1]
        BY <3>3
      <4>2. CASE k = n + 1
        BY <2>3, <4>1, <4>2
      <4>3. CASE k # n + 1
        <5>1. k <= n /\ h[k] = f[k]
          BY <3>3, <4>3
        <5> QED BY <2>1, <4>1, <5>1
      <4> QED BY <4>2, <4>3
    <3> HIDE DEF h
    <3> QED BY <3>2, <3>3
  <2> QED BY <2>2, <2>3
<1> HIDE DEF UpTo
<1>3. D = {}
  <2> SUFFICES ASSUME D # {} PROVE FALSE
    OBVIOUS
  <2>1. PICK n \in D : \A m \in D : n <= m
    BY LeastOf
  <2>2. n # 0 /\ n - 1 \in Nat
    BY <1>1
  <2>3. UpTo(n - 1)
    BY <2>1, <2>2
  <2>4. UpTo(n)
    BY <1>2, <2>2, <2>3
  <2> QED BY <2>4
<1>4. UpTo(N)
  BY <1>3
<1>5. \E f \in [0 .. N -> S] : f[0] = s /\ \A n \in 1 .. N : f[n] = g[n][f[n - 1]]
  BY <1>4 DEF UpTo
<1> QED BY <1>5 DEF Iterates

\* The neighbours that the definition of the distances goes over.
LEMMA BesideJoined ==
    ASSUME input.edges \in Edges, NEW v \in Vertices
    PROVE  /\ \A r \in Paths!Beside(v) : \E w \in Vertices, l \in Nat :
                r = <<w, l>> /\ Joined(input.edges, v, w, l)
           /\ \A w \in Vertices, l \in Nat :
                Joined(input.edges, v, w, l) => <<w, l>> \in Paths!Beside(v)
<1> DEFINE E == input.edges
<1>1. /\ Len(E) \in Nat /\ DOMAIN E = 1 .. Len(E)
      /\ \A i \in 1 .. Len(E) : E[i] \in [a : Vertices, b : Vertices, l : Nat]
  BY LenProperties, ElementOfSeq DEF Edges
<1>2. Paths!ToSet(E) = {E[i] : i \in 1 .. Len(E)}
  BY <1>1 DEF Paths!ToSet
<1>3. ASSUME NEW r \in Paths!Beside(v)
      PROVE  \E w \in Vertices, l \in Nat : r = <<w, l>> /\ Joined(E, v, w, l)
  <2>1. \/ \E e \in Paths!ToSet(E) : e.b = v /\ r = <<e.a, e.l>>
        \/ \E e \in Paths!ToSet(E) : e.a = v /\ r = <<e.b, e.l>>
    BY <1>3 DEF Paths!Beside
  <2>2. PICK i \in 1 .. Len(E) : \/ E[i].b = v /\ r = <<E[i].a, E[i].l>>
                                 \/ E[i].a = v /\ r = <<E[i].b, E[i].l>>
    BY <1>2, <2>1
  <2>3. E[i].a \in Vertices /\ E[i].b \in Vertices /\ E[i].l \in Nat
    BY <1>1
  <2> HIDE DEF E
  <2> QED BY <2>2, <2>3 DEF Joined
<1>4. ASSUME NEW w \in Vertices, NEW l \in Nat, Joined(E, v, w, l)
      PROVE  <<w, l>> \in Paths!Beside(v)
  <2>1. PICK i \in 1 .. Len(E) : /\ E[i].l = l
                                 /\ \/ E[i].a = v /\ E[i].b = w
                                    \/ E[i].a = w /\ E[i].b = v
    BY <1>4 DEF Joined
  <2>2. E[i] \in Paths!ToSet(E)
    BY <1>2
  <2> QED BY <2>1, <2>2 DEF Paths!Beside
<1> QED BY <1>3, <1>4

Best(S) == IF S = {} THEN {} ELSE {Paths!Min(S)}
Ways(p, v) == p[v] \cup UNION {{x + r[2] : x \in p[r[1]]} : r \in Paths!Beside(v)}

LEMMA BestIsLeast ==
    ASSUME NEW S \in SUBSET Nat
    PROVE  /\ Best(S) \in SUBSET S /\ Best(S) \in SUBSET Nat
           /\ \A x, y \in Best(S) : x = y
           /\ \A x \in S : \E y \in Best(S) : y <= x
<1>1. CASE S = {}
  BY <1>1 DEF Best
<1>2. CASE S # {}
  <2>1. \E n \in S : \A m \in S : n <= m
    BY <1>2, LeastOf
  <2>2. PICK n : n = Paths!Min(S)
    OBVIOUS
  <2>3. n \in S /\ \A m \in S : n <= m
    BY <2>1, <2>2 DEF Paths!Min
  <2>4. Best(S) = {n}
    BY <1>2, <2>2 DEF Best
  <2> QED BY <2>3, <2>4
<1> QED BY <1>1, <1>2

LEMMA WaysOf ==
    ASSUME input.edges \in Edges, NEW p \in [Vertices -> SUBSET Nat], NEW v \in Vertices
    PROVE  /\ Ways(p, v) \in SUBSET Nat
           /\ \A x \in p[v] : x \in Ways(p, v)
           /\ \A w \in Vertices, l \in Nat : Joined(input.edges, v, w, l) =>
                \A x \in p[w] : x + l \in Ways(p, v)
           /\ \A y \in Ways(p, v) :
                \/ y \in p[v]
                \/ \E w \in Vertices, l \in Nat :
                     Joined(input.edges, v, w, l) /\ \E x \in p[w] : y = x + l
<1>1. ASSUME NEW y \in Ways(p, v)
      PROVE  \/ y \in p[v]
             \/ \E w \in Vertices, l \in Nat :
                  Joined(input.edges, v, w, l) /\ \E x \in p[w] : y = x + l
  <2>1. y \in p[v] \/ \E r \in Paths!Beside(v) : \E x \in p[r[1]] : y = x + r[2]
    BY <1>1 DEF Ways
  <2> QED BY <2>1, BesideJoined
<1>2. \A y \in Ways(p, v) : y \in Nat
  BY <1>1
<1>3. ASSUME NEW w \in Vertices, NEW l \in Nat, Joined(input.edges, v, w, l), NEW x \in p[w]
      PROVE  x + l \in Ways(p, v)
  <2>1. PICK r \in Paths!Beside(v) : r = <<w, l>>
    BY <1>3, BesideJoined
  <2>2. x \in p[r[1]] /\ x + l = x + r[2]
    BY <2>1
  <2> QED BY <2>2 DEF Ways
<1> QED BY <1>1, <1>2, <1>3 DEF Ways

\* The definition of the distances has the levels it is written with.
LEMMA DistanceLevels ==
    ASSUME PathsSetting, input.edges \in Edges, input.target \in Vertices
    PROVE  \E u : Levels(u, input.edges, input.target) /\ u[Order] = Paths!Distance
<1> DEFINE P == [Vertices -> SUBSET Nat]
           s == [v \in Vertices |-> IF v = input.target THEN {0} ELSE {}]
           Level(p) == [v \in Vertices |-> Best(Ways(p, v))]
           g == [n \in 1 .. Order |-> [p \in P |-> Level(p)]]
           Is(i) == i = [n \in 0 .. Order |-> IF n = 0 THEN s ELSE Level(i[n - 1])]
<1>1. Order \in Nat
  BY OrderOf
<1>2. s \in P
  OBVIOUS
<1>3. \A p \in P : Level(p) \in P
  <2> SUFFICES ASSUME NEW p \in P, NEW v \in Vertices PROVE Best(Ways(p, v)) \in SUBSET Nat
    OBVIOUS
  <2> QED BY WaysOf, BestIsLeast
<1>4. g \in [1 .. Order -> [P -> P]]
  BY <1>3
<1>5. \A n \in 1 .. Order, p \in P : g[n][p] = Level(p)
  OBVIOUS
<1> HIDE DEF g
<1>6. \E i : Is(i)
  <2> HIDE DEF P, s, Level
  <2>1. PICK f \in [0 .. Order -> P] : f[0] = s /\ \A n \in 1 .. Order : f[n] = g[n][f[n - 1]]
    <3>1. \E f : Iterates(f, Order, P, s, g)
      BY <1>1, <1>2, <1>4, Iterated
    <3> QED BY <3>1 DEF Iterates
  <2>2. \A n \in 0 .. Order : f[n] = IF n = 0 THEN s ELSE Level(f[n - 1])
    <3> SUFFICES ASSUME NEW n \in 0 .. Order, n # 0 PROVE f[n] = Level(f[n - 1])
      BY <2>1
    <3>1. n \in 1 .. Order /\ n - 1 \in 0 .. Order
      BY <1>1
    <3> QED BY <1>5, <2>1, <3>1
  <2>3. f = [n \in 0 .. Order |-> IF n = 0 THEN s ELSE Level(f[n - 1])]
    BY <2>2
  <2> QED BY <2>3
<1> DEFINE c == CHOOSE i : Is(i)
<1>7. Is(c)
  <2> HIDE DEF Is
  <2> QED BY <1>6, Zenon
<1>8. c[Order] = Paths!Distance
  BY DEF Paths!Distance, Best, Ways, Order, Paths!Cardinality, Cardinality
<1> HIDE DEF c
<1>9. PICK u : u = c
  OBVIOUS
<1>10. /\ DOMAIN u = 0 .. Order
       /\ \A n \in 0 .. Order : u[n] = IF n = 0 THEN s ELSE Level(u[n - 1])
  BY <1>7, <1>9
<1>11. u \in [0 .. Order -> P]
  <2>1. \A n \in 0 .. Order : u[n] \in P
    <3> DEFINE D == {n \in 0 .. Order : u[n] \notin P}
    <3> HIDE DEF P, s, Level
    <3> SUFFICES ASSUME D # {} PROVE FALSE
      OBVIOUS
    <3>1. PICK n \in D : \A m \in D : n <= m
      <4>1. D \in SUBSET Nat
        BY <1>1
      <4> QED BY <4>1, LeastOf
    <3>2. n \in 0 .. Order /\ u[n] \notin P
      OBVIOUS
    <3>3. n # 0
      BY <1>1, <1>2, <1>10, <3>2
    <3>4. n - 1 \in 0 .. Order /\ n - 1 \notin D
      BY <1>1, <3>1, <3>2, <3>3
    <3>5. u[n - 1] \in P
      BY <3>4
    <3> QED BY <1>3, <1>10, <3>2, <3>3, <3>5
  <2>2. u = [n \in 0 .. Order |-> u[n]]
    <3>1. u = [n \in 0 .. Order |-> IF n = 0 THEN s ELSE Level(u[n - 1])]
      BY <1>7, <1>9
    <3> HIDE DEF s, Level
    <3> QED BY <1>10, <3>1
  <2> HIDE DEF P
  <2> QED BY <2>1, <2>2
<1>12. \A v \in Vertices : u[0][v] = IF v = input.target THEN {0} ELSE {}
  <2>1. 0 \in 0 .. Order
    BY <1>1
  <2>2. u[0] = s
    BY <1>10, <2>1
  <2> QED BY <2>2
<1>13. ASSUME NEW n \in 1 .. Order, NEW v \in Vertices
       PROVE  /\ u[n - 1] \in P
              /\ u[n][v] = Best(Ways(u[n - 1], v))
  <2>1. n \in 0 .. Order /\ n # 0 /\ n - 1 \in 0 .. Order
    BY <1>1
  <2>2. u[n - 1] \in P
    <3> HIDE DEF P
    <3> QED BY <1>11, <2>1
  <2>3. u[n] = Level(u[n - 1])
    <3> HIDE DEF Level
    <3> QED BY <1>10, <2>1
  <2> QED BY <2>2, <2>3
<1> HIDE DEF Is
<1>14. ASSUME NEW n \in 1 .. Order, NEW v \in Vertices
       PROVE  /\ \A x, y \in u[n][v] : x = y
              /\ \A x \in u[n - 1][v] : \E y \in u[n][v] : y <= x
              /\ \A w \in Vertices, l \in Nat : Joined(input.edges, v, w, l) =>
                   \A x \in u[n - 1][w] : \E y \in u[n][v] : y <= x + l
              /\ \A y \in u[n][v] :
                   \/ y \in u[n - 1][v]
                   \/ \E w \in Vertices, l \in Nat :
                        Joined(input.edges, v, w, l) /\ \E x \in u[n - 1][w] : y = x + l
  <2>1. PICK p \in P : p = u[n - 1] /\ u[n][v] = Best(Ways(p, v))
    BY <1>13
  <2>2. PICK W : W = Ways(p, v)
    OBVIOUS
  <2>3. /\ W \in SUBSET Nat
        /\ \A x \in p[v] : x \in W
        /\ \A w \in Vertices, l \in Nat : Joined(input.edges, v, w, l) =>
             \A x \in p[w] : x + l \in W
        /\ \A y \in W :
             \/ y \in p[v]
             \/ \E w \in Vertices, l \in Nat :
                  Joined(input.edges, v, w, l) /\ \E x \in p[w] : y = x + l
    BY <2>2, WaysOf
  <2>4. PICK b : b = Best(W) /\ u[n][v] = b
    BY <2>1, <2>2
  <2>5. /\ b \in SUBSET W
        /\ \A x, y \in b : x = y
        /\ \A x \in W : \E y \in b : y <= x
    BY <2>3, <2>4, BestIsLeast
  <2>6. ASSUME NEW w \in Vertices, NEW l \in Nat, Joined(input.edges, v, w, l), NEW x \in p[w]
        PROVE  \E y \in b : y <= x + l
    BY <2>3, <2>5, <2>6
  <2>7. \A x \in p[v] : \E y \in b : y <= x
    BY <2>3, <2>5
  <2>8. \A y \in b : \/ y \in p[v]
                     \/ \E w \in Vertices, l \in Nat :
                          Joined(input.edges, v, w, l) /\ \E x \in p[w] : y = x + l
    BY <2>3, <2>5
  <2> HIDE DEF P
  <2> QED BY <2>1, <2>4, <2>5, <2>6, <2>7, <2>8
<1>15. Levels(u, input.edges, input.target)
  BY <1>11, <1>12, <1>14 DEF Levels
<1> QED BY <1>8, <1>9, <1>15

Unsigned == 0 .. UINT_MAX

Lowers(r, d, cur, v, l) ==
    /\ r[cur] = d[cur] /\ r[v] <= d[cur] + l
    /\ \A w \in Vertices : r[w] <= d[w]
    /\ \A w \in Vertices : r[w] = d[w] \/ (w = v /\ r[w] = d[cur] + l)

\* One edge: what std::min() makes of the answer at its end.
LEMMA RelaxOne ==
    ASSUME PathsSetting, NEW d \in [Vertices -> Unsigned], NEW cur \in Vertices,
           NEW v \in Vertices, NEW l \in Nat
    PROVE  /\ Paths!Relax(d, cur, v, l) \in [Vertices -> Unsigned]
           /\ d[cur] + l <= UINT_MAX => Lowers(Paths!Relax(d, cur, v, l), d, cur, v, l)
<1>1. UINT_MAX \in Nat /\ \A w \in Vertices : d[w] \in Nat /\ d[w] <= UINT_MAX
  BY DEF PathsSetting, Unsigned
<1>2. PICK s : s = Paths!Sum(d[cur], l)
  OBVIOUS
<1>3. s \in Unsigned /\ (d[cur] + l <= UINT_MAX => s = d[cur] + l)
  BY <1>1, <1>2, SumWraps DEF Unsigned
<1>4. PICK x : x = IF d[v] < s THEN d[v] ELSE s
  OBVIOUS
<1>5. Paths!Relax(d, cur, v, l) = [d EXCEPT ![v] = x]
  BY <1>2, <1>4 DEF Paths!Relax
<1>6. x \in Unsigned /\ x <= d[v] /\ x <= s /\ (x = d[v] \/ x = s)
  BY <1>1, <1>3, <1>4 DEF Unsigned
<1>7. PICK r : r = [d EXCEPT ![v] = x]
  OBVIOUS
<1>8. r \in [Vertices -> Unsigned] /\ \A w \in Vertices : r[w] = IF w = v THEN x ELSE d[w]
  BY <1>6, <1>7
<1>9. ASSUME d[cur] + l <= UINT_MAX PROVE Lowers(r, d, cur, v, l)
  <2>1. s = d[cur] + l /\ d[cur] <= s
    BY <1>1, <1>3, <1>9
  <2>2. cur = v => x = d[cur]
    BY <1>1, <1>4, <1>6, <2>1
  <2>3. r[cur] = d[cur] /\ r[v] <= d[cur] + l
    BY <1>6, <1>8, <2>1, <2>2
  <2>4. \A w \in Vertices : r[w] <= d[w]
    BY <1>1, <1>6, <1>8
  <2>5. \A w \in Vertices : r[w] = d[w] \/ (w = v /\ r[w] = d[cur] + l)
    BY <1>6, <1>8, <2>1
  <2> QED BY <2>3, <2>4, <2>5 DEF Lowers
<1> QED BY <1>5, <1>7, <1>8, <1>9

\* The loop over the edges of a vertex, edge by edge of the input.
OneEdge(e, p, cur) ==
    LET d == IF e.a = cur THEN Paths!Relax(p, cur, e.b, e.l) ELSE p
    IN  IF e.b = cur THEN Paths!Relax(d, cur, e.a, e.l) ELSE d

LEMMA EdgeAtOnce ==
    ASSUME PathsSetting, NEW e \in [a : Vertices, b : Vertices, l : Nat],
           NEW p \in [Vertices -> Unsigned], NEW cur \in Vertices
    PROVE  LET r == OneEdge(e, p, cur)
           IN  /\ r \in [Vertices -> Unsigned]
               /\ (e.a = cur \/ e.b = cur => p[cur] + e.l <= UINT_MAX) =>
                    /\ r[cur] = p[cur]
                    /\ e.a = cur => r[e.b] <= p[cur] + e.l
                    /\ e.b = cur => r[e.a] <= p[cur] + e.l
                    /\ \A w \in Vertices : r[w] <= p[w]
                    /\ \A w \in Vertices :
                         \/ r[w] = p[w]
                         \/ e.a = cur /\ e.b = w /\ r[w] = p[cur] + e.l
                         \/ e.b = cur /\ e.a = w /\ r[w] = p[cur] + e.l
<1>1. PICK d : d = IF e.a = cur THEN Paths!Relax(p, cur, e.b, e.l) ELSE p
  OBVIOUS
<1>2. PICK r : r = IF e.b = cur THEN Paths!Relax(d, cur, e.a, e.l) ELSE d
  OBVIOUS
<1>3. OneEdge(e, p, cur) = r
  BY <1>1, <1>2 DEF OneEdge
<1>4. e.a \in Vertices /\ e.b \in Vertices /\ e.l \in Nat /\ p[cur] \in Nat
      /\ \A w \in Vertices : p[w] \in Nat
  BY DEF Unsigned
<1>5. /\ d \in [Vertices -> Unsigned]
      /\ (e.a = cur => p[cur] + e.l <= UINT_MAX) =>
           /\ d[cur] = p[cur]
           /\ e.a = cur => d[e.b] <= p[cur] + e.l
           /\ \A w \in Vertices : d[w] <= p[w]
           /\ \A w \in Vertices : d[w] = p[w] \/ (e.a = cur /\ e.b = w /\ d[w] = p[cur] + e.l)
  <2>1. CASE e.a = cur
    <3>1. d = Paths!Relax(p, cur, e.b, e.l)
      BY <1>1, <2>1
    <3>2. /\ d \in [Vertices -> Unsigned]
          /\ p[cur] + e.l <= UINT_MAX => Lowers(d, p, cur, e.b, e.l)
      BY <1>4, <3>1, RelaxOne
    <3> QED BY <2>1, <3>2 DEF Lowers
  <2>2. CASE e.a # cur
    <3>1. d = p
      BY <1>1, <2>2
    <3> QED BY <1>4, <2>2, <3>1
  <2> QED BY <2>1, <2>2
<1>6. /\ r \in [Vertices -> Unsigned]
      /\ (e.b = cur => d[cur] + e.l <= UINT_MAX) =>
           /\ r[cur] = d[cur]
           /\ e.b = cur => r[e.a] <= d[cur] + e.l
           /\ \A w \in Vertices : r[w] <= d[w]
           /\ \A w \in Vertices : r[w] = d[w] \/ (e.b = cur /\ e.a = w /\ r[w] = d[cur] + e.l)
  <2>0. \A w \in Vertices : d[w] \in Nat
    BY <1>5 DEF Unsigned
  <2>1. CASE e.b = cur
    <3>1. r = Paths!Relax(d, cur, e.a, e.l)
      BY <1>2, <2>1
    <3>2. /\ r \in [Vertices -> Unsigned]
          /\ d[cur] + e.l <= UINT_MAX => Lowers(r, d, cur, e.a, e.l)
      BY <1>4, <1>5, <3>1, RelaxOne
    <3> QED BY <2>1, <3>2 DEF Lowers
  <2>2. CASE e.b # cur
    <3>1. r = d
      BY <1>2, <2>2
    <3> QED BY <1>5, <2>0, <2>2, <3>1
  <2> QED BY <2>1, <2>2
<1>7. \A w \in Vertices : d[w] \in Nat /\ r[w] \in Nat
  BY <1>5, <1>6 DEF Unsigned
<1>8. ASSUME e.a = cur \/ e.b = cur => p[cur] + e.l <= UINT_MAX
      PROVE  /\ r[cur] = p[cur]
             /\ e.a = cur => r[e.b] <= p[cur] + e.l
             /\ e.b = cur => r[e.a] <= p[cur] + e.l
             /\ \A w \in Vertices : r[w] <= p[w]
             /\ \A w \in Vertices :
                  \/ r[w] = p[w]
                  \/ e.a = cur /\ e.b = w /\ r[w] = p[cur] + e.l
                  \/ e.b = cur /\ e.a = w /\ r[w] = p[cur] + e.l
  <2>1. /\ d[cur] = p[cur]
        /\ e.a = cur => d[e.b] <= p[cur] + e.l
        /\ \A w \in Vertices : d[w] <= p[w]
        /\ \A w \in Vertices : d[w] = p[w] \/ (e.a = cur /\ e.b = w /\ d[w] = p[cur] + e.l)
    BY <1>5, <1>8
  <2>2. /\ r[cur] = d[cur]
        /\ e.b = cur => r[e.a] <= d[cur] + e.l
        /\ \A w \in Vertices : r[w] <= d[w]
        /\ \A w \in Vertices : r[w] = d[w] \/ (e.b = cur /\ e.a = w /\ r[w] = d[cur] + e.l)
    BY <1>6, <1>8, <2>1
  <2>3. e.a = cur => r[e.b] <= p[cur] + e.l
    BY <1>4, <1>7, <2>1, <2>2
  <2>4. \A w \in Vertices : r[w] <= p[w]
    BY <1>4, <1>7, <2>1, <2>2
  <2>5. \A w \in Vertices :
          \/ r[w] = p[w]
          \/ e.a = cur /\ e.b = w /\ r[w] = p[cur] + e.l
          \/ e.b = cur /\ e.a = w /\ r[w] = p[cur] + e.l
    BY <2>1, <2>2
  <2> QED BY <2>1, <2>2, <2>3, <2>4, <2>5
<1> QED BY <1>3, <1>6, <1>8

LEMMA RelaxedSteps ==
    ASSUME PathsSetting, input.edges \in Edges, answers \in [Vertices -> Unsigned],
           NEW cur \in Vertices
    PROVE  \E f \in [0 .. Len(input.edges) -> [Vertices -> Unsigned]] :
             /\ f[0] = answers /\ Paths!Relaxed(cur) = f[Len(input.edges)]
             /\ \A i \in 1 .. Len(input.edges) :
                  f[i] = OneEdge(input.edges[i], f[i - 1], cur)
<1> DEFINE A == [Vertices -> Unsigned]
           Last == Len(input.edges)
           g == [i \in 1 .. Last |-> [p \in A |-> OneEdge(input.edges[i], p, cur)]]
           Is(f) == f = [i \in 0 .. Last |->
                           IF i = 0 THEN answers
                           ELSE OneEdge(input.edges[i], f[i - 1], cur)]
<1>1. /\ Last \in Nat
      /\ \A i \in 1 .. Last : input.edges[i] \in [a : Vertices, b : Vertices, l : Nat]
  BY LenProperties, ElementOfSeq DEF Edges
<1>2. \A i \in 1 .. Last, p \in A : OneEdge(input.edges[i], p, cur) \in A
  BY <1>1, EdgeAtOnce
<1>3. g \in [1 .. Last -> [A -> A]]
  BY <1>2
<1>4. \A i \in 1 .. Last, p \in A : g[i][p] = OneEdge(input.edges[i], p, cur)
  OBVIOUS
<1> HIDE DEF g, A, Last
<1>5. PICK f \in [0 .. Last -> A] : f[0] = answers /\ \A i \in 1 .. Last : f[i] = g[i][f[i - 1]]
  <2>1. answers \in A
    BY DEF A
  <2>2. \E f : Iterates(f, Last, A, answers, g)
    BY <1>1, <1>3, <2>1, Iterated
  <2> QED BY <2>2 DEF Iterates
<1>6. \A i \in 1 .. Last : f[i] = OneEdge(input.edges[i], f[i - 1], cur)
  <2> SUFFICES ASSUME NEW i \in 1 .. Last PROVE f[i] = OneEdge(input.edges[i], f[i - 1], cur)
    OBVIOUS
  <2>1. i - 1 \in 0 .. Last
    BY <1>1
  <2> QED BY <1>4, <1>5, <2>1
<1>7. Is(f)
  <2>1. \A i \in 0 .. Last : f[i] = IF i = 0 THEN answers
                                ELSE OneEdge(input.edges[i], f[i - 1], cur)
    <3> SUFFICES ASSUME NEW i \in 0 .. Last, i # 0
                 PROVE  f[i] = OneEdge(input.edges[i], f[i - 1], cur)
      BY <1>5
    <3>1. i \in 1 .. Last
      BY <1>1
    <3> QED BY <1>6, <3>1
  <2> QED BY <2>1
<1>8. PICK c : c = CHOOSE i : Is(i)
  OBVIOUS
<1>9. Is(c)
  <2> HIDE DEF Is
  <2> QED BY <1>7, <1>8, Zenon
<1>10. c[Last] = Paths!Relaxed(cur)
  BY <1>8 DEF Paths!Relaxed, OneEdge, Last
<1>11. \A i \in 0 .. Last : c[i] = f[i]
  <2> DEFINE D == {i \in 0 .. Last : c[i] # f[i]}
  <2> SUFFICES ASSUME D # {} PROVE FALSE
    OBVIOUS
  <2>1. PICK i \in D : \A m \in D : i <= m
    <3>1. D \in SUBSET Nat
      BY <1>1
    <3> QED BY <3>1, LeastOf
  <2>2. i \in 0 .. Last /\ c[i] # f[i]
    OBVIOUS
  <2>3. c[i] = IF i = 0 THEN answers ELSE OneEdge(input.edges[i], c[i - 1], cur)
    BY <1>9, <2>2
  <2>4. i # 0
    BY <1>5, <2>2, <2>3
  <2>5. i \in 1 .. Last /\ i - 1 \in 0 .. Last /\ i - 1 \notin D
    BY <1>1, <2>1, <2>2, <2>4
  <2>6. c[i - 1] = f[i - 1]
    BY <2>5
  <2> QED BY <1>6, <2>2, <2>3, <2>4, <2>5, <2>6
<1>12. f[Last] = Paths!Relaxed(cur)
  BY <1>1, <1>10, <1>11
<1> QED BY <1>5, <1>6, <1>12 DEF A, Last

\* What the edges of a vertex make of the answers a, if no sum wraps around.
NoWrapAt(E, a, cur) == \A w \in Vertices, l \in Nat :
    Joined(E, cur, w, l) => a[cur] + l <= UINT_MAX
Relaxes(b, E, a, cur) ==
    /\ \A w \in Vertices, l \in Nat : Joined(E, cur, w, l) => b[w] <= a[cur] + l
    /\ \A w \in Vertices : b[w] <= a[w]
    /\ \A w \in Vertices :
         \/ b[w] = a[w]
         \/ \E l \in Nat : Joined(E, w, cur, l) /\ b[w] = a[cur] + l

LEMMA RelaxedAnswers ==
    ASSUME PathsSetting, input.edges \in Edges, answers \in [Vertices -> Unsigned],
           NEW cur \in Vertices
    PROVE  \E b \in [Vertices -> Unsigned] :
             /\ Paths!Relaxed(cur) = b
             /\ NoWrapAt(input.edges, answers, cur) => Relaxes(b, input.edges, answers, cur)
<1>1. PICK E, N : E = input.edges /\ N = Len(E)
  OBVIOUS
<1>2. PICK f \in [0 .. N -> [Vertices -> Unsigned]] :
         /\ f[0] = answers /\ Paths!Relaxed(cur) = f[N]
         /\ \A i \in 1 .. N : f[i] = OneEdge(E[i], f[i - 1], cur)
  BY <1>1, RelaxedSteps
<1>3. /\ N \in Nat
      /\ \A i \in 1 .. N : E[i] \in [a : Vertices, b : Vertices, l : Nat]
  BY <1>1, LenProperties, ElementOfSeq DEF Edges
<1>4. ASSUME NoWrapAt(E, answers, cur) PROVE Relaxes(f[N], E, answers, cur)
  <2> DEFINE Done(i) ==
               /\ f[i][cur] = answers[cur]
               /\ \A w \in Vertices : f[i][w] <= answers[w]
               /\ \A j \in 1 .. i :
                    /\ E[j].a = cur => f[i][E[j].b] <= answers[cur] + E[j].l
                    /\ E[j].b = cur => f[i][E[j].a] <= answers[cur] + E[j].l
               /\ \A w \in Vertices :
                    \/ f[i][w] = answers[w]
                    \/ \E l \in Nat : Joined(E, w, cur, l) /\ f[i][w] = answers[cur] + l
             D == {i \in 0 .. N : ~ Done(i)}
  <2>0. \A w \in Vertices : answers[w] \in Nat
    BY DEF Unsigned
  <2>1. Done(0)
    BY <1>2, <2>0
  <2>2. ASSUME NEW i \in 1 .. N, Done(i - 1) PROVE Done(i)
    <3>1. PICK e, p, r : e = E[i] /\ p = f[i - 1] /\ r = f[i]
      OBVIOUS
    <3>2. /\ e \in [a : Vertices, b : Vertices, l : Nat]
          /\ p \in [Vertices -> Unsigned] /\ r = OneEdge(e, p, cur)
          /\ p[cur] = answers[cur]
      BY <1>2, <1>3, <2>2, <3>1
    <3>3. /\ e.a = cur => Joined(E, cur, e.b, e.l) /\ Joined(E, e.b, cur, e.l)
          /\ e.b = cur => Joined(E, cur, e.a, e.l) /\ Joined(E, e.a, cur, e.l)
      BY <1>1, <3>1 DEF Joined
    <3>4. e.a = cur \/ e.b = cur => p[cur] + e.l <= UINT_MAX
      BY <1>4, <3>2, <3>3 DEF NoWrapAt
    <3>5. /\ r \in [Vertices -> Unsigned]
          /\ r[cur] = p[cur]
          /\ e.a = cur => r[e.b] <= p[cur] + e.l
          /\ e.b = cur => r[e.a] <= p[cur] + e.l
          /\ \A w \in Vertices : r[w] <= p[w]
          /\ \A w \in Vertices :
               \/ r[w] = p[w]
               \/ e.a = cur /\ e.b = w /\ r[w] = p[cur] + e.l
               \/ e.b = cur /\ e.a = w /\ r[w] = p[cur] + e.l
      BY <3>2, <3>4, EdgeAtOnce
    <3>6. \A w \in Vertices : p[w] \in Nat /\ r[w] \in Nat
      BY <3>2, <3>5 DEF Unsigned
    <3>7. \A w \in Vertices : p[w] <= answers[w]
      BY <2>2, <3>1
    <3>8. \A w \in Vertices : r[w] <= answers[w]
      BY <2>0, <3>5, <3>6, <3>7
    <3>9. ASSUME NEW j \in 1 .. i
          PROVE  /\ E[j].a = cur => r[E[j].b] <= answers[cur] + E[j].l
                 /\ E[j].b = cur => r[E[j].a] <= answers[cur] + E[j].l
      <4>1. CASE j = i
        BY <3>1, <3>2, <3>5, <4>1
      <4>2. CASE j # i
        <5>1. j \in 1 .. i - 1 /\ j \in 1 .. N
          BY <1>3, <4>2
        <5>2. E[j].a \in Vertices /\ E[j].b \in Vertices /\ E[j].l \in Nat
          BY <1>3, <5>1
        <5>3. /\ E[j].a = cur => p[E[j].b] <= answers[cur] + E[j].l
              /\ E[j].b = cur => p[E[j].a] <= answers[cur] + E[j].l
          BY <2>2, <3>1, <5>1
        <5>4. \A w \in Vertices, z \in Nat : p[w] <= z => r[w] <= z
          <6> SUFFICES ASSUME NEW w \in Vertices, NEW z \in Nat, p[w] <= z PROVE r[w] <= z
            OBVIOUS
          <6>1. p[w] \in Nat /\ r[w] \in Nat /\ r[w] <= p[w]
            BY <3>5, <3>6
          <6> QED BY <6>1
        <5>5. answers[cur] + E[j].l \in Nat
          BY <2>0, <5>2
        <5> QED BY <5>2, <5>3, <5>4, <5>5, Zenon
      <4> QED BY <4>1, <4>2
    <3>10. ASSUME NEW w \in Vertices
           PROVE  \/ r[w] = answers[w]
                  \/ \E l \in Nat : Joined(E, w, cur, l) /\ r[w] = answers[cur] + l
      <4>1. \/ p[w] = answers[w]
            \/ \E l \in Nat : Joined(E, w, cur, l) /\ p[w] = answers[cur] + l
        BY <2>2, <3>1
      <4>2. e.l \in Nat
        BY <3>2
      <4> QED BY <3>2, <3>3, <3>5, <4>1, <4>2
    <3> QED BY <3>1, <3>2, <3>5, <3>8, <3>9, <3>10
  <2> HIDE DEF Done
  <2>3. D = {}
    <3> SUFFICES ASSUME D # {} PROVE FALSE
      OBVIOUS
    <3>1. PICK i \in D : \A m \in D : i <= m
      <4>1. D \in SUBSET Nat
        BY <1>3
      <4> QED BY <4>1, LeastOf
    <3>2. i \in 0 .. N /\ ~ Done(i)
      OBVIOUS
    <3>3. i \in 1 .. N /\ i - 1 \in 0 .. N /\ i - 1 \notin D
      BY <1>3, <2>1, <3>1, <3>2
    <3> QED BY <2>2, <3>2, <3>3
  <2>4. Done(N)
    BY <1>3, <2>3
  <2>5. ASSUME NEW w \in Vertices, NEW l \in Nat, Joined(E, cur, w, l)
        PROVE  f[N][w] <= answers[cur] + l
    <3>1. PICK i \in 1 .. N : /\ E[i].l = l
                              /\ \/ E[i].a = cur /\ E[i].b = w
                                 \/ E[i].a = w /\ E[i].b = cur
      BY <1>1, <2>5 DEF Joined
    <3> QED BY <2>4, <3>1 DEF Done
  <2> QED BY <2>4, <2>5 DEF Done, Relaxes
<1>5. f[N] \in [Vertices -> Unsigned]
  BY <1>2, <1>3
<1> QED BY <1>1, <1>2, <1>4, <1>5

\* A way of few edges is one of more.
LEMMA LaterLevels ==
    ASSUME PathsSetting, NEW E, NEW t \in Vertices, NEW u, Levels(u, E, t),
           NEW n \in 0 .. Order, NEW v \in Vertices, NEW x \in u[n][v]
    PROVE  \E y \in u[Order][v] : y <= x
<1> DEFINE Has(k) == \E y \in u[k][v] : y <= x
           D == {k \in n .. Order : ~ Has(k)}
<1>1. Order \in Nat /\ \A k \in 0 .. Order : u[k][v] \in SUBSET Nat
  BY OrderOf DEF Levels
<1>2. Has(n)
  BY <1>1
<1>3. ASSUME NEW k \in 1 .. Order, Has(k - 1) PROVE Has(k)
  <2>1. k - 1 \in 0 .. Order /\ k \in 0 .. Order
    BY <1>1
  <2>2. PICK y \in u[k - 1][v] : y <= x
    BY <1>3
  <2>3. PICK z \in u[k][v] : z <= y
    BY <2>2 DEF Levels
  <2> QED BY <1>1, <2>1, <2>2, <2>3
<1> HIDE DEF Has
<1>4. D = {}
  <2> SUFFICES ASSUME D # {} PROVE FALSE
    OBVIOUS
  <2>1. PICK k \in D : \A j \in D : k <= j
    <3>1. D \in SUBSET Nat
      BY <1>1
    <3> QED BY <3>1, LeastOf
  <2>2. k \in n .. Order /\ ~ Has(k) /\ k # n
    BY <1>2
  <2>3. k \in 1 .. Order /\ k - 1 \in n .. Order /\ k - 1 \notin D
    BY <1>1, <2>1, <2>2
  <2> QED BY <1>3, <2>2, <2>3
<1>5. Has(Order)
  BY <1>1, <1>4
<1> QED BY <1>5 DEF Has

\* A shortest way to a marked vertex is not shorter than its answer, and one
\* to another vertex not shorter than the least answer of those.
LEMMA NotShorter ==
    ASSUME PathsSetting, NEW E, NEW t \in Vertices, NEW u, Levels(u, E, t),
           NEW a \in [Vertices -> Unsigned], NEW m \in SUBSET Vertices,
           NEW cur \in Vertices \ m, \A w \in Vertices \ m : a[cur] <= a[w],
           a[t] = 0, AllRelaxed(E, a, m), InOrder(a, m),
           NEW n \in 0 .. Order, NEW v \in Vertices, NEW x \in u[n][v]
    PROVE  IF v \in m THEN a[v] <= x ELSE a[cur] <= x
<1> DEFINE Bound(w) == IF w \in m THEN a[w] ELSE a[cur]
           Far(k) == \A w \in Vertices : \A y \in u[k][w] : Bound(w) <= y
           D == {k \in 0 .. Order : ~ Far(k)}
<1>1. /\ Order \in Nat
      /\ \A k \in 0 .. Order, w \in Vertices : u[k][w] \in SUBSET Nat
  BY OrderOf DEF Levels
<1>2. \A w \in Vertices : a[w] \in Nat /\ Bound(w) \in Nat /\ Bound(w) <= a[w]
  BY DEF Unsigned
<1>3. Far(0)
  <2> SUFFICES ASSUME NEW w \in Vertices, NEW y \in u[0][w] PROVE Bound(w) <= y
    OBVIOUS
  <2>1. w = t /\ y = 0
    BY DEF Levels
  <2> QED BY <1>2, <2>1
<1>4. \A w, z \in Vertices, l \in Nat : Joined(E, w, z, l) => Bound(w) <= Bound(z) + l
  <2> SUFFICES ASSUME NEW w \in Vertices, NEW z \in Vertices, NEW l \in Nat, Joined(E, w, z, l)
               PROVE  Bound(w) <= Bound(z) + l
    OBVIOUS
  <2>1. CASE z \in m
    <3>1. Joined(E, z, w, l)
      BY DEF Joined
    <3>2. a[w] <= a[z] + l
      BY <2>1, <3>1 DEF AllRelaxed
    <3>3. Bound(z) = a[z]
      BY <2>1
    <3> HIDE DEF Bound
    <3> QED BY <1>2, <3>2, <3>3
  <2>2. CASE z \notin m
    <3>1. Bound(w) <= a[cur]
      BY <1>2, <2>2 DEF InOrder
    <3>2. Bound(z) = a[cur]
      BY <2>2
    <3> HIDE DEF Bound
    <3> QED BY <1>2, <3>1, <3>2
  <2> QED BY <2>1, <2>2
<1> HIDE DEF Bound
<1>5. ASSUME NEW k \in 1 .. Order, Far(k - 1) PROVE Far(k)
  <2> SUFFICES ASSUME NEW w \in Vertices, NEW y \in u[k][w] PROVE Bound(w) <= y
    OBVIOUS
  <2>0. k - 1 \in 0 .. Order /\ k \in 0 .. Order
    BY <1>1
  <2>1. CASE y \in u[k - 1][w]
    BY <1>5, <2>1
  <2>2. CASE y \notin u[k - 1][w]
    <3>1. PICK z \in Vertices, l \in Nat :
             Joined(E, w, z, l) /\ \E q \in u[k - 1][z] : y = q + l
      BY <2>2 DEF Levels
    <3>2. PICK q \in u[k - 1][z] : y = q + l
      BY <3>1
    <3>3. Bound(z) <= q /\ q \in Nat
      BY <1>1, <1>5, <2>0
    <3>4. Bound(w) <= Bound(z) + l
      BY <1>4, <3>1
    <3> QED BY <1>2, <3>2, <3>3, <3>4
  <2> QED BY <2>1, <2>2
<1> HIDE DEF Far
<1>6. D = {}
  <2> SUFFICES ASSUME D # {} PROVE FALSE
    OBVIOUS
  <2>1. PICK k \in D : \A j \in D : k <= j
    <3>1. D \in SUBSET Nat
      BY <1>1
    <3> QED BY <3>1, LeastOf
  <2>2. k \in 0 .. Order /\ ~ Far(k) /\ k # 0
    BY <1>3
  <2>3. k \in 1 .. Order /\ k - 1 \in 0 .. Order /\ k - 1 \notin D
    BY <1>1, <2>1, <2>2
  <2> QED BY <1>5, <2>2, <2>3
<1>7. Far(n)
  BY <1>6
<1>8. Bound(v) <= x
  BY <1>7 DEF Far
<1> QED BY <1>8 DEF Bound

\* The answer of the vertex that is marked next is its distance.
LEMMA NextSettled ==
    ASSUME PathsSetting, NEW E, NEW t \in Vertices, NEW u, Levels(u, E, t),
           NEW a \in [Vertices -> Unsigned], NEW m \in SUBSET Vertices, NEW k \in 0 .. Order,
           Right(u, E, t, a, m, k),
           NEW cur \in Vertices \ m, \A w \in Vertices \ m : a[cur] <= a[w],
           a[cur] # UINT_MAX
    PROVE  Settled(u, a, {cur})
<1>1. PICK x \in u[k][cur] : x <= a[cur]
  BY DEF Right, Reached
<1>2. PICK y \in u[Order][cur] : y <= x
  BY LaterLevels
<1>3. Order \in Nat /\ Order \in 0 .. Order /\ Order \in 1 .. Order
  BY OrderOf
<1>4. x \in Nat /\ y \in Nat /\ a[cur] \in Nat
  BY <1>3, OrderOf DEF Levels, Unsigned
<1>5. a[cur] <= y
  BY <1>3, NotShorter DEF Right
<1>6. y = a[cur]
  BY <1>1, <1>2, <1>4, <1>5
<1>7. \A z \in u[Order][cur] : z = y
  BY <1>3 DEF Levels
<1>8. \A S : (y \in S /\ \A z \in S : z = y) => S = {y}
  OBVIOUS
<1>9. u[Order][cur] = {y}
  BY <1>7, <1>8
<1> QED BY <1>6, <1>9 DEF Settled

\* When all answers that are left are infinite no way leads to their vertices.
LEMMA NothingLeft ==
    ASSUME PathsSetting, NEW E, NEW t \in Vertices, NEW u, Levels(u, E, t),
           NEW a \in [Vertices -> Unsigned], NEW m \in SUBSET Vertices, NEW k \in 0 .. Order,
           Right(u, E, t, a, m, k), NoWrap(u[Order], E),
           \A w \in Vertices \ m : a[w] = UINT_MAX
    PROVE  Cut(u, a, m)
<1> DEFINE Blank(n) == \A v \in Vertices \ m : u[n][v] = {}
           D == {n \in 0 .. Order : ~ Blank(n)}
<1>1. Order \in Nat /\ UINT_MAX \in Nat \ {0}
  BY OrderOf DEF PathsSetting
<1>2. Blank(0)
  <2>1. t \in m
    BY <1>1 DEF Right
  <2> QED BY <2>1 DEF Levels
<1>3. ASSUME NEW n \in 1 .. Order, Blank(n - 1) PROVE Blank(n)
  <2> SUFFICES ASSUME NEW v \in Vertices \ m, NEW y \in u[n][v] PROVE FALSE
    OBVIOUS
  <2>1. PICK w \in Vertices, l \in Nat :
           Joined(E, v, w, l) /\ \E x \in u[n - 1][w] : y = x + l
    BY <1>3 DEF Levels
  <2>2. w \in m
    BY <1>3, <2>1
  <2>3. Joined(E, w, v, l)
    BY <2>1 DEF Joined
  <2>4. a[v] <= a[w] + l
    BY <2>2, <2>3 DEF Right, AllRelaxed
  <2>5. a[w] \in u[Order][w]
    BY <2>2 DEF Right, Settled
  <2>6. a[w] + l < UINT_MAX
    BY <2>3, <2>5 DEF NoWrap
  <2>7. a[v] = UINT_MAX /\ a[w] \in Nat
    BY DEF Unsigned
  <2> QED BY <1>1, <2>4, <2>6, <2>7
<1> HIDE DEF Blank
<1>4. D = {}
  <2> SUFFICES ASSUME D # {} PROVE FALSE
    OBVIOUS
  <2>1. PICK n \in D : \A j \in D : n <= j
    <3>1. D \in SUBSET Nat
      BY <1>1
    <3> QED BY <3>1, LeastOf
  <2>2. n \in 0 .. Order /\ ~ Blank(n) /\ n # 0
    BY <1>2
  <2>3. n \in 1 .. Order /\ n - 1 \in 0 .. Order /\ n - 1 \notin D
    BY <1>1, <2>1, <2>2
  <2> QED BY <1>3, <2>2, <2>3
<1>5. Blank(Order)
  BY <1>1, <1>4
<1> QED BY <1>5 DEF Blank, Cut

\* One more vertex is marked and its edges are relaxed.
LEMMA MarkKeeps ==
    ASSUME PathsSetting, NEW E, NEW t \in Vertices, NEW u, Levels(u, E, t),
           NEW a \in [Vertices -> Unsigned], NEW m \in SUBSET Vertices,
           NEW k \in 0 .. Order, k < Order,
           Right(u, E, t, a, m, k), NoWrap(u[Order], E),
           NEW cur \in Vertices \ m, \A w \in Vertices \ m : a[cur] <= a[w],
           a[cur] # UINT_MAX,
           NEW b \in [Vertices -> Unsigned], Relaxes(b, E, a, cur)
    PROVE  Right(u, E, t, b, m \cup {cur}, k + 1)
<1>1. /\ Order \in Nat /\ k + 1 \in 1 .. Order /\ k \in 0 .. Order /\ k + 1 \in 0 .. Order
      /\ UINT_MAX \in Nat
  BY OrderOf DEF PathsSetting
<1>2. \A w \in Vertices : a[w] \in Nat /\ b[w] \in Nat
  BY DEF Unsigned
<1>3. u[Order][cur] = {a[cur]}
  <2>1. Settled(u, a, {cur})
    BY NextSettled
  <2> QED BY <2>1 DEF Settled
<1>4. /\ Settled(u, a, m) /\ Reached(u, a, k) /\ a[t] = 0
      /\ AllRelaxed(E, a, m) /\ InOrder(a, m)
  BY DEF Right
<1>4a. /\ \A w \in Vertices, l \in Nat : Joined(E, cur, w, l) => b[w] <= a[cur] + l
       /\ \A w \in Vertices : b[w] <= a[w]
       /\ \A w \in Vertices : \/ b[w] = a[w]
                              \/ \E l \in Nat : Joined(E, w, cur, l) /\ b[w] = a[cur] + l
  BY DEF Relaxes
<1>5. \A v \in m \cup {cur} : a[v] <= a[cur]
  BY <1>2, <1>4 DEF InOrder
<1>6. \A w \in Vertices : b[w] = a[w] \/ a[cur] <= b[w]
  BY <1>2, <1>4a
<1>7. \A v \in m \cup {cur} : b[v] = a[v]
  <2> SUFFICES ASSUME NEW v \in m \cup {cur} PROVE b[v] = a[v]
    OBVIOUS
  <2>1. v \in Vertices /\ a[v] <= a[cur] /\ b[v] <= a[v]
    BY <1>5, <1>4a
  <2> QED BY <1>2, <1>6, <2>1
<1>8. Settled(u, b, m \cup {cur})
  BY <1>3, <1>4, <1>7 DEF Settled
<1>9. Reached(u, b, k + 1)
  <2> SUFFICES ASSUME NEW v \in Vertices, b[v] # UINT_MAX
               PROVE  \E x \in u[k + 1][v] : x <= b[v]
    BY DEF Reached
  <2>0. /\ \A w \in Vertices : u[k][w] \in SUBSET Nat /\ u[k + 1][w] \in SUBSET Nat
        /\ (k + 1) - 1 = k
    BY <1>1 DEF Levels
  <2>1. CASE b[v] = a[v]
    <3>1. PICK x \in u[k][v] : x <= a[v]
      BY <1>4, <2>1 DEF Reached
    <3>2. PICK y \in u[k + 1][v] : y <= x
      BY <1>1, <2>0 DEF Levels
    <3> QED BY <1>2, <2>0, <2>1, <3>1, <3>2
  <2>2. CASE b[v] # a[v]
    <3>1. PICK l \in Nat : Joined(E, v, cur, l) /\ b[v] = a[cur] + l
      BY <1>4a, <2>2
    <3>2. PICK x \in u[k][cur] : x <= a[cur]
      BY <1>4 DEF Reached
    <3>3. PICK y \in u[k + 1][v] : y <= x + l
      BY <1>1, <2>0, <3>1 DEF Levels
    <3> QED BY <1>2, <2>0, <3>1, <3>2, <3>3
  <2> QED BY <2>1, <2>2
<1>10. b[t] = 0
  <2>1. b[t] <= 0
    BY <1>4, <1>4a
  <2> QED BY <1>2, <2>1
<1>11. AllRelaxed(E, b, m \cup {cur})
  <2> SUFFICES ASSUME NEW v \in m \cup {cur}, NEW w \in Vertices, NEW l \in Nat,
                      Joined(E, v, w, l)
               PROVE  b[w] <= b[v] + l
    BY DEF AllRelaxed
  <2>1. CASE v \in m
    <3>1. a[w] <= a[v] + l /\ b[w] <= a[w] /\ b[v] = a[v]
      BY <1>4, <1>7, <1>4a, <2>1 DEF AllRelaxed
    <3>2. v \in Vertices
      BY <2>1
    <3> QED BY <1>2, <3>1, <3>2
  <2>2. CASE v = cur
    BY <1>7, <1>4a, <2>2
  <2> QED BY <2>1, <2>2
<1>12. InOrder(b, m \cup {cur})
  <2> SUFFICES ASSUME NEW v \in m \cup {cur}, NEW w \in Vertices \ (m \cup {cur})
               PROVE  b[v] <= b[w]
    BY DEF InOrder
  <2>1. b[v] <= a[cur] /\ a[cur] <= a[w]
    BY <1>5, <1>7
  <2>2. v \in Vertices
    OBVIOUS
  <2> QED BY <1>2, <1>6, <2>1, <2>2
<1> QED BY <1>8, <1>9, <1>10, <1>11, <1>12 DEF Right

PathsVars == <<pc, input, pos, answers, marked, out>>

\* The picked vertex is unmarked, and no unmarked one has a smaller answer.
LEMMA CurrentVertex ==
    ASSUME PathsSetting, answers \in [Vertices -> Unsigned], marked \in SUBSET Vertices,
           marked # Vertices
    PROVE  /\ Paths!current_vertex \in Vertices \ marked
           /\ \A w \in Vertices \ marked : answers[Paths!current_vertex] <= answers[w]
<1> DEFINE U == Vertices \ marked
           A == {answers[w] : w \in U}
           S == {v \in U : \A w \in U : answers[v] <= answers[w]}
<1>1. A \in SUBSET Nat /\ A # {}
  BY DEF Unsigned
<1>2. PICK n \in A : \A m \in A : n <= m
  BY <1>1, LeastOf
<1>3. S # {} /\ S \in SUBSET Nat
  <2>1. PICK v \in U : answers[v] = n
    OBVIOUS
  <2>2. v \in S
    BY <1>2, <2>1
  <2>3. Vertices \in SUBSET Nat
    BY OrderOf
  <2> QED BY <2>2, <2>3
<1>4. Paths!current_vertex = Paths!Min(S)
  BY DEF Paths!current_vertex, Paths!Unmarked
<1> HIDE DEF S
<1>5. \E v \in S : \A w \in S : v <= w
  BY <1>3, LeastOf
<1>6. Paths!Min(S) \in S
  BY <1>5 DEF Paths!Min
<1> QED BY <1>4, <1>6 DEF S

LEMMA FitsIsNoWrap ==
    ASSUME input.edges \in Edges, NEW d
    PROVE  Paths!Fits(d) <=> NoWrap(d, input.edges)
<1>1. ASSUME Paths!Fits(d) PROVE NoWrap(d, input.edges)
  <2> SUFFICES ASSUME NEW v \in Vertices, NEW w \in Vertices, NEW l \in Nat,
                      Joined(input.edges, v, w, l), NEW x \in d[v]
               PROVE  x + l < UINT_MAX
    BY DEF NoWrap
  <2>1. PICK r \in Paths!Beside(v) : r = <<w, l>>
    BY BesideJoined
  <2>2. x + r[2] < UINT_MAX
    BY <1>1 DEF Paths!Fits
  <2> QED BY <2>1, <2>2
<1>2. ASSUME NoWrap(d, input.edges) PROVE Paths!Fits(d)
  <2> SUFFICES ASSUME NEW v \in Vertices, NEW r \in Paths!Beside(v), NEW x \in d[v]
               PROVE  x + r[2] < UINT_MAX
    BY DEF Paths!Fits
  <2>1. PICK w \in Vertices, l \in Nat : r = <<w, l>> /\ Joined(input.edges, v, w, l)
    BY BesideJoined
  <2> QED BY <1>2, <2>1 DEF NoWrap
<1> QED BY <1>1, <1>2

LEMMA PathsStart == ASSUME PathsSetting, Paths!Init PROVE PathsInv
<1>1. input.target \in Vertices /\ input.edges \in Edges
  <2>1. PICK n \in Nat : input.edges \in [1 .. n -> Roads]
    BY DEF Paths!Init
  <2>2. input.edges \in [1 .. n -> [a : Vertices, b : Vertices, l : Nat]]
    BY <2>1 DEF PathsSetting
  <2>3. \A S : [1 .. n -> S] \subseteq Seq(S)
    BY SeqDef
  <2>4. input.edges \in Edges
    BY <2>2, <2>3 DEF Edges
  <2> QED BY <2>4 DEF Paths!Init
<1>2. /\ pc = "mark" /\ pos = 0 /\ marked = {}
      /\ answers = [v \in Vertices |-> IF v = input.target THEN 0 ELSE UINT_MAX]
  BY DEF Paths!Init
<1>3. answers \in [Vertices -> Unsigned] /\ Order \in Nat /\ UINT_MAX \in Nat \ {0}
      /\ Cardinality({}) = 0
  BY <1>2, OrderOf, FS_EmptySet DEF PathsSetting, Unsigned
<1>4. PICK u : Levels(u, input.edges, input.target) /\ u[Order] = Paths!Distance
  BY <1>1, DistanceLevels
<1>5. Right(u, input.edges, input.target, answers, {}, 0)
  <2>1. Reached(u, answers, 0)
    <3> SUFFICES ASSUME NEW v \in Vertices, answers[v] # UINT_MAX
                 PROVE  \E x \in u[0][v] : x <= answers[v]
      BY DEF Reached
    <3>1. v = input.target /\ answers[v] = 0
      BY <1>2
    <3>2. u[0][v] = {0}
      BY <1>4, <3>1 DEF Levels
    <3> QED BY <3>1, <3>2
  <2>2. answers[input.target] = 0
    BY <1>1, <1>2
  <2> QED BY <2>1, <2>2 DEF Right, Settled, AllRelaxed, InOrder
<1> QED BY <1>1, <1>2, <1>3, <1>4, <1>5 DEF PathsInv, Unsigned

LEMMA PathsKeeps ==
    ASSUME PathsSetting, PathsInv, [Paths!Next]_PathsVars
    PROVE  PathsInv'
<1>0. /\ input.edges \in Edges /\ input.target \in Vertices
      /\ marked \in SUBSET Vertices /\ pos \in 0 .. Order /\ Cardinality(marked) = pos
      /\ answers \in [Vertices -> Unsigned]
      /\ Order \in Nat /\ Paths!Cardinality(Vertices) = Order /\ IsFiniteSet(Vertices)
      /\ Cardinality(Vertices) = Order /\ Vertices = 0 .. Order - 1
  BY OrderOf DEF PathsInv, Unsigned, Paths!Cardinality, Cardinality
<1>1. PICK u : /\ Levels(u, input.edges, input.target) /\ u[Order] = Paths!Distance
               /\ NoWrap(u[Order], input.edges) =>
                    /\ Right(u, input.edges, input.target, answers, marked, pos)
                    /\ pc = "write" => Cut(u, answers, marked)
                    /\ pc = "done" => /\ Cut(u, answers, marked)
                                      /\ \A v \in Vertices : out[v + 1] = answers[v]
  BY DEF PathsInv
<1>2. PICK E, t, a, m, k : /\ E = input.edges /\ t = input.target /\ a = answers
                           /\ m = marked /\ k = pos
  OBVIOUS
<1>3. input' = input
  BY DEF Paths!Next, Paths!Mark, Paths!Write, PathsVars
<1>4. Paths!Distance' = Paths!Distance
  BY <1>3 DEF Paths!Distance, Paths!Beside, Paths!ToSet, Paths!Cardinality
<1>5. CASE Paths!Mark
  <2>1. PICK cur : cur = Paths!current_vertex
    OBVIOUS
  <2>2. pc = "mark" /\ pos < Order /\ UNCHANGED out
    BY <1>0, <1>5 DEF Paths!Mark
  <2>3. marked # Vertices
    BY <1>0, <2>2
  <2>4. /\ cur \in Vertices \ m /\ \A w \in Vertices \ m : a[cur] <= a[w]
    BY <1>0, <1>2, <2>1, <2>3, CurrentVertex
  <2>5. CASE answers[cur] = UINT_MAX
    <3>1. pc' = "write" /\ UNCHANGED <<pos, marked, answers>>
      BY <1>5, <2>1, <2>5 DEF Paths!Mark
    <3>2. ASSUME NoWrap(u[Order], E) PROVE Right(u, E, t, a, m, k) /\ Cut(u, a, m)
      <4>1. \A w \in Vertices \ m : a[w] = UINT_MAX
        <5>1. UINT_MAX \in Nat /\ \A w \in Vertices : a[w] \in Nat /\ a[w] <= UINT_MAX
          BY <1>0, <1>2 DEF PathsSetting, Unsigned
        <5> QED BY <1>2, <2>4, <2>5, <5>1
      <4>2. Right(u, E, t, a, m, k)
        BY <1>1, <1>2, <3>2
      <4> QED BY <1>0, <1>1, <1>2, <3>2, <4>1, <4>2, NothingLeft
    <3>3. /\ input'.edges = E /\ input'.target = t /\ answers' = a /\ marked' = m /\ pos' = k
          /\ Paths!Distance' = u[Order]
      BY <1>1, <1>2, <1>3, <1>4, <3>1
    <3> QED BY <1>0, <1>1, <1>2, <3>1, <3>2, <3>3 DEF PathsInv, Unsigned
  <2>6. CASE answers[cur] # UINT_MAX
    <3>1. /\ marked' = m \cup {cur} /\ answers' = Paths!Relaxed(cur)
          /\ pos' = k + 1 /\ pc' = "mark"
      BY <1>2, <1>5, <2>1, <2>2, <2>6 DEF Paths!Mark
    <3>2. PICK b \in [Vertices -> Unsigned] :
             Paths!Relaxed(cur) = b /\ (NoWrapAt(E, a, cur) => Relaxes(b, E, a, cur))
      <4>1. \E b \in [Vertices -> Unsigned] :
               /\ Paths!Relaxed(cur) = b
               /\ NoWrapAt(input.edges, answers, cur) => Relaxes(b, input.edges, answers, cur)
        BY <1>0, <2>4, RelaxedAnswers
      <4> QED BY <1>2, <4>1
    <3>3. /\ m \cup {cur} \in SUBSET Vertices /\ k + 1 \in 0 .. Order
          /\ Cardinality(m \cup {cur}) = k + 1
      <4>1. IsFiniteSet(m) /\ Cardinality(m) = k
        BY <1>0, <1>2, FS_Subset
      <4>2. cur \notin m /\ cur \in Vertices
        BY <2>4
      <4>3. Cardinality(m \cup {cur}) = k + 1
        BY <4>1, <4>2, FS_AddElement
      <4>4. k \in 0 .. Order /\ k < Order /\ m \in SUBSET Vertices
        BY <1>0, <1>2, <2>2
      <4> QED BY <1>0, <4>2, <4>3, <4>4
    <3>4. ASSUME NoWrap(u[Order], E) PROVE Right(u, E, t, b, m \cup {cur}, k + 1)
      <4>1. Right(u, E, t, a, m, k)
        BY <1>1, <1>2, <3>4
      <4>2. u[Order][cur] = {a[cur]}
        <5>1. /\ a \in [Vertices -> Unsigned] /\ m \in SUBSET Vertices /\ k \in 0 .. Order
              /\ t \in Vertices /\ a[cur] # UINT_MAX /\ Levels(u, E, t)
          BY <1>0, <1>1, <1>2, <2>6
        <5>2. Settled(u, a, {cur})
          BY <2>4, <4>1, <5>1, NextSettled
        <5> QED BY <5>2 DEF Settled
      <4>3. NoWrapAt(E, a, cur)
        <5> SUFFICES ASSUME NEW w \in Vertices, NEW l \in Nat, Joined(E, cur, w, l)
                     PROVE  a[cur] + l <= UINT_MAX
          BY DEF NoWrapAt
        <5>1. a[cur] + l < UINT_MAX
          BY <2>4, <3>4, <4>2 DEF NoWrap
        <5>2. a[cur] \in Nat /\ UINT_MAX \in Nat
          BY <1>0, <1>2, <2>4 DEF PathsSetting, Unsigned
        <5> QED BY <5>1, <5>2
      <4>4. Relaxes(b, E, a, cur)
        BY <3>2, <4>3
      <4>5. Levels(u, E, t)
        BY <1>1, <1>2
      <4>6. /\ a \in [Vertices -> Unsigned] /\ m \in SUBSET Vertices /\ k \in 0 .. Order
            /\ k < Order /\ t \in Vertices /\ a[cur] # UINT_MAX
        BY <1>0, <1>2, <2>2, <2>6
      <4> QED BY <2>4, <3>4, <4>1, <4>4, <4>5, <4>6, MarkKeeps
    <3>5. /\ input'.edges = E /\ input'.target = t /\ answers' = b
          /\ Paths!Distance' = u[Order]
      BY <1>1, <1>2, <1>3, <1>4, <3>1, <3>2
    <3> QED BY <1>0, <1>1, <1>2, <3>1, <3>2, <3>3, <3>4, <3>5 DEF PathsInv, Unsigned
  <2> QED BY <2>5, <2>6
<1>6. CASE Paths!Write
  <2>1. /\ pc = "write" \/ (pc = "mark" /\ pos = Order)
        /\ out' = [i \in 1 .. Order |-> answers[i - 1]]
        /\ pc' = "done" /\ UNCHANGED <<pos, answers, marked>>
    BY <1>0, <1>6 DEF Paths!Write
  <2>2. PICK o : o = out'
    OBVIOUS
  <2>3. \A v \in Vertices : o[v + 1] = a[v]
    <3> SUFFICES ASSUME NEW v \in Vertices PROVE o[v + 1] = a[v]
      OBVIOUS
    <3>1. v + 1 \in 1 .. Order /\ (v + 1) - 1 = v
      BY <1>0
    <3> QED BY <1>2, <2>1, <2>2, <3>1
  <2>4. ASSUME NoWrap(u[Order], E) PROVE Right(u, E, t, a, m, k) /\ Cut(u, a, m)
    <3>1. Right(u, E, t, a, m, k)
      BY <1>1, <1>2, <2>4
    <3>2. CASE pc = "write"
      BY <1>1, <1>2, <2>4, <3>1, <3>2
    <3>3. CASE pos = Order
      <4>1. m = Vertices
        BY <1>0, <1>2, <3>3, FS_Subset
      <4> QED BY <3>1, <4>1 DEF Cut
    <3> QED BY <2>1, <3>2, <3>3
  <2>5. /\ input'.edges = E /\ input'.target = t /\ answers' = a /\ marked' = m /\ pos' = k
        /\ Paths!Distance' = u[Order]
    BY <1>1, <1>2, <1>3, <1>4, <2>1
  <2> QED BY <1>0, <1>1, <1>2, <2>1, <2>2, <2>3, <2>4, <2>5 DEF PathsInv, Unsigned
<1>7. CASE UNCHANGED PathsVars
  <2>1. UNCHANGED <<pc, pos, answers, marked, out>>
    BY <1>7 DEF PathsVars
  <2>2. /\ input'.edges = E /\ input'.target = t /\ answers' = a /\ marked' = m /\ pos' = k
        /\ Paths!Distance' = u[Order]
    BY <1>1, <1>2, <1>3, <1>4, <2>1
  <2>3. PICK p, o : p = pc /\ o = out
    OBVIOUS
  <2>4. pc' = p /\ out' = o /\ p \in {"mark", "write", "done"}
    BY <2>1, <2>3 DEF PathsInv
  <2> QED BY <1>0, <1>1, <1>2, <2>2, <2>3, <2>4 DEF PathsInv, Unsigned
<1> QED BY <1>5, <1>6, <1>7 DEF Paths!Next

LEMMA PathsMarked == ASSUME PathsSetting, PathsInv PROVE Paths!MarkedFirst
<1> SUFFICES ASSUME pc = "mark", Paths!Fits(Paths!Distance)
             PROVE  \A v \in marked, w \in Paths!Unmarked : answers[v] <= answers[w]
  BY DEF Paths!MarkedFirst
<1>1. InOrder(answers, marked)
  BY FitsIsNoWrap DEF PathsInv, Right
<1> QED BY <1>1 DEF InOrder, Paths!Unmarked

LEMMA PathsAnswer == ASSUME PathsSetting, PathsInv PROVE Paths!DistancesRight
<1> SUFFICES ASSUME pc = "done", Paths!Fits(Paths!Distance), NEW v \in Vertices
             PROVE  IF Paths!Distance[v] = {} THEN out[v + 1] = UINT_MAX
                                              ELSE Paths!Distance[v] = {out[v + 1]}
  BY DEF Paths!DistancesRight
<1>1. input.edges \in Edges
  BY DEF PathsInv
<1>2. PICK u : /\ u[Order] = Paths!Distance
               /\ NoWrap(u[Order], input.edges) =>
                    /\ Settled(u, answers, marked) /\ Cut(u, answers, marked)
                    /\ out[v + 1] = answers[v]
  BY DEF PathsInv, Right
<1>3. Settled(u, answers, marked) /\ Cut(u, answers, marked) /\ out[v + 1] = answers[v]
  BY <1>1, <1>2, FitsIsNoWrap
<1> QED BY <1>2, <1>3 DEF Settled, Cut

\* dijkstra.cpp: on every graph whose distances fit into unsigned numbers the
\* vertices are marked in the order of their distances, and what is printed at
\* the end are the distances, infinity for a vertex that no way reaches.
THEOREM ShortestPathsTheorem ==
    ASSUME PathsSetting
    PROVE  Paths!Init /\ [][Paths!Next]_PathsVars
              => []Paths!MarkedFirst /\ []Paths!DistancesRight
BY PathsStart, PathsKeeps, PathsMarked, PathsAnswer, PTL
=============================================================================

--------------------------- MODULE PermutationRoot --------------------------
(* 070.cpp: a permutation whose square is the given one, or the answer that  *)
(* there is none.  The permutation is taken apart into loops; a loop of odd  *)
(* length is turned by half of it, two loops of the same even length are     *)
(* merged like a zip fastener.                                               *)
EXTENDS Integers, Sequences, FiniteSets, TLC

CONSTANT MaxSize          \* bound: elements

VARIABLES pc, input, pos, field, loops, out     \* field: the enabled cells

Elements == DOMAIN input

\* The element n steps after start.
After(start, n) ==
    LET upTo[k \in 0 .. n] == IF k = 0 THEN start ELSE input[upTo[k - 1]]
    IN  upTo[n]

LoopLength(i) == CHOOSE n \in Elements :
                     After(i, n) = i /\ \A m \in 1 .. n - 1 : After(i, m) # i

Init == /\ input \in UNION {Permutations(1 .. n) : n \in 0 .. MaxSize}
        /\ pc = "loops" /\ pos = 1 /\ field = {} /\ loops = <<>>
        /\ out = [i \in Elements |-> 1]

loop_plane(l) == [j \in 0 .. l.length - 1 |-> After(l.start, j)]
ElementsOf(l) == {loop_plane(l)[j] : j \in 0 .. l.length - 1}

\* The elements in order; one that no loop has yet begins the next loop.
FindLoop ==
    /\ pc = "loops" /\ pos <= Len(input)
    /\ IF pos \in field THEN UNCHANGED <<field, loops>>
       ELSE LET now == [start |-> pos, length |-> LoopLength(pos)]
            IN  loops' = Append(loops, now) /\ field' = field \cup ElementsOf(now)
    /\ pos' = pos + 1
    /\ UNCHANGED <<pc, input, out>>

\* std::sort() by length: loops of the same length end up in any order.
Sort ==
    /\ pc = "loops" /\ pos > Len(input)
    /\ \E p \in Permutations(DOMAIN loops) :
        /\ loops' = [k \in DOMAIN loops |-> loops[p[k]]]
        /\ \A k \in 1 .. Len(loops) - 1 : loops'[k].length <= loops'[k + 1].length
    /\ pc' = "root" /\ pos' = 1
    /\ UNCHANGED <<input, field, out>>

Odd(l) == l.length % 2 = 1

\* out with the images that the pairs of this function give.
With(images) == [i \in Elements |-> IF i \in DOMAIN images THEN images[i] ELSE out[i]]

OddLoop ==
    /\ pc = "root" /\ pos <= Len(loops) /\ Odd(loops[pos])
    /\ LET l == loops[pos]
           swift == (l.length + 1) \div 2
           plane == loop_plane(l)
           Place(i) == CHOOSE j \in DOMAIN plane : plane[(j + swift) % l.length] = i
       IN  out' = With([i \in ElementsOf(l) |-> input[plane[Place(i)]]])
    /\ pos' = pos + 1
    /\ UNCHANGED <<pc, input, field, loops>>

Paired == pos < Len(loops) /\ loops[pos + 1].length = loops[pos].length

merge_list(a, b, n) ==
    [j \in 0 .. 2 * n - 1 |-> IF j % 2 = 0 THEN a[j \div 2] ELSE b[j \div 2]]

EvenLoops ==
    /\ pc = "root" /\ pos <= Len(loops) /\ ~Odd(loops[pos]) /\ Paired
    /\ LET merged == merge_list(loop_plane(loops[pos]), loop_plane(loops[pos + 1]),
                                loops[pos].length)
           size == Cardinality(DOMAIN merged)
       IN  out' = With([i \in {merged[j] : j \in DOMAIN merged} |->
                           merged[((CHOOSE j \in DOMAIN merged : merged[j] = i) + 1) % size]])
    /\ pos' = pos + 2
    /\ UNCHANGED <<pc, input, field, loops>>

\* The program prints 0.
Unreal ==
    /\ pc = "root" /\ pos <= Len(loops) /\ ~Odd(loops[pos]) /\ ~Paired
    /\ out' = <<0>> /\ pc' = "done"
    /\ UNCHANGED <<input, pos, field, loops>>

Write ==
    /\ pc = "root" /\ pos > Len(loops) /\ pc' = "done"
    /\ UNCHANGED <<input, pos, field, loops, out>>

Next == FindLoop \/ Sort \/ OddLoop \/ EvenLoops \/ Unreal \/ Write

-----------------------------------------------------------------------------
Square(f) == [i \in DOMAIN f |-> f[f[i]]]

\* What is printed has the input as its square; 0 is printed when nothing has.
RootRight ==
    pc = "done" =>
        IF out = <<0>> THEN \A f \in Permutations(Elements) : Square(f) # input
        ELSE out \in Permutations(Elements) /\ Square(out) = input
=============================================================================

---------------------------- MODULE ShortestPaths ---------------------------
(* dijkstra.cpp: the distances of all vertices from one of them, in unsigned *)
(* arithmetic; the greatest number stands for infinity.                      *)
EXTENDS Integers, Sequences, FiniteSets, FiniteSetsExt, SequencesExt

CONSTANTS
    Vertices,      \* 0 .. n - 1
    Roads,         \* the edges [a, b, l] an input may have
    MaxRoads,      \* bound: edges of an input
    UINT_MAX

VARIABLES pc, input, pos, answer, marked, out

Init == /\ input \in [edges : UNION {[1 .. n -> Roads] : n \in 0 .. MaxRoads},
                      target : Vertices]
        /\ pc = "mark" /\ pos = 0 /\ marked = {} /\ out = <<>>
        /\ answer = [v \in Vertices |-> IF v = input.target THEN 0 ELSE UINT_MAX]

Unmarked == Vertices \ marked

\* The first unmarked vertex with the least answer.
current_vertex ==
    Min({v \in Unmarked : \A w \in Unmarked : answer[v] <= answer[w]})

\* An unsigned sum wraps around.
Sum(a, b) == (a + b) % (UINT_MAX + 1)

\* Bug: the new distance replaces a smaller one.
RelaxLast(d, cur, v, length) == [d EXCEPT ![v] = Sum(d[cur], length)]

Relax(d, cur, v, length) ==
    [d EXCEPT ![v] = IF @ < Sum(d[cur], length) THEN @ ELSE Sum(d[cur], length)]

\* The edges of the current vertex, in the order in which they were read; each
\* belongs to both its vertices.
Relaxed(cur) ==
    LET upTo[i \in 0 .. Len(input.edges)] ==
            IF i = 0 THEN answer
            ELSE LET e == input.edges[i]
                     d == IF e.a = cur THEN Relax(upTo[i - 1], cur, e.b, e.l)
                                       ELSE upTo[i - 1]
                 IN  IF e.b = cur THEN Relax(d, cur, e.a, e.l) ELSE d
    IN  upTo[Len(input.edges)]

Mark ==
    /\ pc = "mark" /\ pos < Cardinality(Vertices)
    /\ IF answer[current_vertex] = UINT_MAX
       THEN pc' = "write" /\ UNCHANGED <<pos, marked, answer>>
       ELSE /\ marked' = marked \cup {current_vertex}
            /\ answer' = Relaxed(current_vertex)
            /\ pos' = pos + 1 /\ UNCHANGED pc
    /\ UNCHANGED <<input, out>>

Write ==
    /\ pc = "write" \/ (pc = "mark" /\ pos = Cardinality(Vertices))
    /\ out' = [i \in 1 .. Cardinality(Vertices) |-> answer[i - 1]]
    /\ pc' = "done"
    /\ UNCHANGED <<input, pos, answer, marked>>

Next == Mark \/ Write

-----------------------------------------------------------------------------
\* The neighbours of v with the lengths of the edges.
Beside(v) == {<<e.a, e.l>> : e \in {x \in ToSet(input.edges) : x.b = v}} \cup
             {<<e.b, e.l>> : e \in {x \in ToSet(input.edges) : x.a = v}}

\* The lengths of the shortest ways of at most n edges, as numbers without end;
\* a vertex that no way reaches has none.
Distance ==
    LET upTo[n \in 0 .. Cardinality(Vertices)] ==
            IF n = 0 THEN [v \in Vertices |-> IF v = input.target THEN {0} ELSE {}]
            ELSE [v \in Vertices |->
                     LET ways == upTo[n - 1][v] \cup
                             UNION {{x + r[2] : x \in upTo[n - 1][r[1]]} : r \in Beside(v)}
                     IN  IF ways = {} THEN {} ELSE {Min(ways)}]
    IN  upTo[Cardinality(Vertices)]

\* No edge leads further than the numbers do.
Fits(d) == \A v \in Vertices : \A r \in Beside(v), x \in d[v] : x + r[2] < UINT_MAX

\* The vertices are marked in the order of their distances.
MarkedFirst ==
    pc = "mark" /\ Fits(Distance) =>
        \A v \in marked, w \in Unmarked : answer[v] <= answer[w]

\* If no sum wraps around, the answers are the distances, and infinity for
\* what cannot be reached.
DistancesRight ==
    pc = "done" =>
        LET d == Distance
        IN  Fits(d) => \A v \in Vertices :
                          IF d[v] = {} THEN out[v + 1] = UINT_MAX
                                       ELSE d[v] = {out[v + 1]}
=============================================================================

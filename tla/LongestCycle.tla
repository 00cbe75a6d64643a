---------------------------- MODULE LongestCycle ----------------------------
(* love.cpp: the length of the longest cycle without a diagonal in a         *)
(* directed graph, by a depth-first search from every name that no earlier   *)
(* search has come to.  Names are numbers, in the order of the strings.      *)
EXTENDS Integers, Sequences, FiniteSets, FiniteSetsExt

CONSTANTS MaxName, Loves      \* the edges <<s1, s2>> an input may have

VARIABLES pc, input, pos, calls, Visited, Max_Len, out

\* Whom somebody loves, in order.
Graph(s) == SelectSeq([t \in 1 .. MaxName |-> t], LAMBDA t : <<s, t>> \in input)
Names == UNION {{e[1], e[2]} : e \in input}

Init == /\ input \in SUBSET Loves
        /\ pc = "search" /\ pos = 1 /\ calls = <<>> /\ out = <<>>
        /\ Visited = {} /\ Max_Len = 0

\* The edges between the vertices of a cycle.
Edges(cycle) == {<<i, j>> \in (DOMAIN cycle) \X (DOMAIN cycle) : <<cycle[i], cycle[j]>> \in input}

\* The cycle that a way closes when it comes to Current again.
Cycle(way, Current) ==
    LET first == CHOOSE i \in DOMAIN way :
                     way[i] = Current /\ \A j \in 1 .. i - 1 : way[j] # Current
    IN  SubSeq(way, first, Len(way))

Correct(cycle) == Cardinality(Edges(cycle)) = Len(cycle)

\* main() calls DFS() for the names in order that are not Visited.
Start ==
    /\ pc = "search" /\ calls = <<>> /\ pos <= MaxName
    /\ calls' = IF pos \in Names \ Visited
                THEN <<[names |-> <<pos>>, way |-> <<>>]>> ELSE calls
    /\ pos' = pos + 1
    /\ UNCHANGED <<pc, input, Visited, Max_Len, out>>

Top == calls[Len(calls)]
Below == SubSeq(calls, 1, Len(calls) - 1)

\* DFS() of the next name of the innermost loop: one that is on the way closes
\* a cycle, any other gets a loop of its own, visited before or not.
DFS ==
    /\ calls # <<>> /\ Top.names # <<>>
    /\ LET Current == Head(Top.names)
           rest == Append(Below, [Top EXCEPT !.names = Tail(@)])
           cycle == Cycle(Top.way, Current)
       IN  /\ Visited' = Visited \cup {Current}
           /\ IF \A i \in DOMAIN Top.way : Top.way[i] # Current
              THEN /\ calls' = Append(rest, [names |-> Graph(Current),
                                            way |-> Append(Top.way, Current)])
                   /\ UNCHANGED Max_Len
              ELSE /\ calls' = rest
                   /\ Max_Len' = IF Correct(cycle) /\ Len(cycle) > Max_Len
                                 THEN Len(cycle) ELSE Max_Len
    /\ UNCHANGED <<pc, input, pos, out>>

Return ==
    /\ calls # <<>> /\ Top.names = <<>> /\ calls' = Below
    /\ UNCHANGED <<pc, input, pos, Visited, Max_Len, out>>

Write ==
    /\ pc = "search" /\ calls = <<>> /\ pos > MaxName
    /\ out' = <<IF Max_Len > 2 THEN Max_Len ELSE 0>> /\ pc' = "done"
    /\ UNCHANGED <<input, pos, calls, Visited, Max_Len>>

Next == Start \/ DFS \/ Return \/ Write

-----------------------------------------------------------------------------
\* The names of a cycle without diagonals: whom each of them loves is one of
\* the others, and from one everybody is reached.
Within(S, s) == {t \in S : <<s, t>> \in input}
Reached(S, s) ==
    LET upTo[n \in 0 .. MaxName] ==
            IF n = 0 THEN {s}
            ELSE upTo[n - 1] \cup UNION {Within(S, t) : t \in upTo[n - 1]}
    IN  upTo[MaxName]
Chordless(S) == /\ \A s \in S : Cardinality(Within(S, s)) = 1
                /\ \A s \in S : Reached(S, s) = S

\* A search that leaves out what earlier ones came to misses no cycle.
LengthRight ==
    pc = "done" =>
        out = <<Max({0} \cup {Cardinality(S) : S \in
                      {T \in SUBSET Names : Cardinality(T) > 2 /\ Chordless(T)}})>>
=============================================================================

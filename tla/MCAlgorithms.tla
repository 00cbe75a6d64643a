---------------------------- MODULE MCAlgorithms ----------------------------
(* Instances of the sequential programs for TLC: a behaviour is one program  *)
(* on one input, both chosen at the start; the variables that program does   *)
(* not have stay 0.                                                          *)
EXTENDS Integers, Sequences

CONSTANTS
    MaxNodes, MaxCalls,                 \* LinkedList, ListCalls
    Cards, HandSize, MaxTurns,          \* CardGame
    Numbers, MaxInput,                  \* BreadthFirst
    BUCKETS,                            \* DataHash
    Values, MaxLen,                     \* ListCalls, ListSort
    MaxSize,                            \* PermutationRoot
    Vertices, MaxRoads, UINT_MAX,       \* ShortestPaths
    MaxName,                            \* LongestCycle
    MaxPeople, MaxWords                 \* Josephus

VARIABLES
    program, pc, input, pos, heap, out,          \* of more than one program
    seq,                                         \* ListCalls
    turn_count, top_cards,                       \* CardGame
    tree, root, node, current,                   \* BreadthFirst
    buckets, obj,                                \* DataHash
    list, sorted_list,                           \* ListSort
    data, words, found,                          \* SyntaxCheck
    equations, max_digit, max_coeff, radix, last_valid_radix, \* RadixSearch
    field, loops,                                \* PermutationRoot
    answer, marked,                              \* ShortestPaths
    calls, Visited, Max_Len,                     \* LongestCycle
    stk, pushing,                                \* Stacks
    ptr                                          \* Josephus

gameOnly   == <<turn_count, top_cards>>
treeOnly   == <<tree, root, node, current>>
hashOnly   == <<buckets, obj>>
sortOnly   == <<list, sorted_list>>
syntaxOnly == <<data, words, found>>
radixOnly  == <<equations, max_digit, max_coeff, radix, last_valid_radix>>
loopsOnly  == <<field, loops>>
pathsOnly  == <<answer, marked>>
cycleOnly  == <<calls, Visited, Max_Len>>
stackOnly  == <<stk, pushing>>
circleOnly == <<ptr>>
graphsOnly == <<loopsOnly, pathsOnly, cycleOnly>>
fringeOnly == <<graphsOnly, stackOnly, circleOnly>>
othersOnly == <<seq, gameOnly, treeOnly, hashOnly, sortOnly, syntaxOnly, radixOnly>>
vars == <<program, pc, input, pos, heap, out, othersOnly, fringeOnly>>

SeqsUpTo(S, n) == UNION {[1 .. k -> S] : k \in 0 .. n}

\* Assembler texts: anything of a few pieces, and words of every kind in every
\* order, between spaces or between literals.
Pieces == {"quote", "space", "%", "e", "r", "ax", "AX", "ds", "v", "ldr", "fst"}
Words  == {<<"%", "r", "ax">>, <<"%", "e", "AX">>, <<"r", "ax">>, <<"e", "ax">>,
           <<"%", "ds">>, <<"ax">>, <<"v", "str">>, <<"str">>, <<"fld">>}
Pauses == {<<"space">>, <<"quote">>}
AssemblerTexts == SeqsUpTo(Pieces, 3)
    \cup {a \o p \o b \o q \o c : a \in Words, b \in Words, c \in Words,
                                  p \in Pauses, q \in Pauses}

\* Expressions.
ExpressionTexts == SeqsUpTo({"1", "2", "3", "+", "-", "*", "/", "(", ")"}, 4)
    \cup {t \in [1 .. 6 -> {"2", "3", "-", "*", "(", ")"}] :
              t[1] \in {"2", "(", "-"} /\ t[6] \in {"3", ")"}}

\* Equations: none, one, or two with smaller digits.
Numerals(D) == SeqsUpTo(D, 2) \ {<<>>}
EquationsOver(D) == [a : Numerals(D), op : {"+", "*"}, b : Numerals(D), c : Numerals(D)]
EquationLists == {<<>>} \cup [1 .. 1 -> EquationsOver(0 .. 2)]
    \cup {<<e, f>> : e \in EquationsOver(0 .. 1), f \in
              [a : {<<1, 1>>}, op : {"+", "*"}, b : {<<1>>, <<1, 0>>},
               c : {<<1, 1>>, <<1, 2>>, <<2, 1>>}]}

\* Edges of a graph with lengths; a triangle, a way out of it and a loop.
RoadSet == {[a |-> r[1][1], b |-> r[1][2], l |-> r[2]] : r \in
    ({<<0, 1>>, <<1, 2>>, <<0, 2>>} \X {1, 4, 9}) \cup ({<<2, 3>>} \X {1, 9}) \cup {<<<<1, 1>>, 4>>}}

\* Edges of a directed graph.
LoveSet == {<<1, 2>>, <<2, 1>>, <<2, 3>>, <<3, 1>>, <<1, 3>>, <<3, 4>>, <<4, 1>>, <<4, 2>>,
            <<2, 4>>, <<2, 2>>}

\* Postfix texts and lines with brackets.
PostfixTexts == SeqsUpTo({"0", "2", "3", "-", "/", "=", ","}, 4)
    \cup {s \o <<"=">> : s \in [1 .. 5 -> {"2", "3", "0", "-", "/"}]}
BracketTexts == SeqsUpTo({"(", ")", "[", "]", "x"}, 5)

Calls   == INSTANCE ListCalls
Game    == INSTANCE CardGame
Search  == INSTANCE BreadthFirst
Hash    == INSTANCE DataHash WITH Numbers <- {-3, 0, 2, 4}
Sort    == INSTANCE ListSort
Syntax  == INSTANCE SyntaxCheck WITH Texts <- AssemblerTexts
Calc    == INSTANCE Calculators WITH Texts <- ExpressionTexts
Radix   == INSTANCE RadixSearch WITH Equations <- EquationLists

Root    == INSTANCE PermutationRoot
Paths   == INSTANCE ShortestPaths WITH Roads <- RoadSet
Cycles  == INSTANCE LongestCycle WITH Loves <- LoveSet
Stack   == INSTANCE Stacks WITH Postfix <- PostfixTexts, Bracketed <- BracketTexts
Circle  == INSTANCE Josephus

NoGame   == turn_count = 0 /\ top_cards = 0
NoTree   == tree = 0 /\ root = 0 /\ node = 0 /\ current = 0
NoHash   == buckets = 0 /\ obj = 0
NoSort   == list = 0 /\ sorted_list = 0
NoSyntax == data = 0 /\ words = 0 /\ found = 0
NoRadix  == /\ equations = 0 /\ max_digit = 0 /\ max_coeff = 0 /\ radix = 0
            /\ last_valid_radix = 0

NoLoops  == field = 0 /\ loops = 0
NoPaths  == answer = 0 /\ marked = 0
NoCycle  == calls = 0 /\ Visited = 0 /\ Max_Len = 0
NoStack  == stk = 0 /\ pushing = 0
NoCircle == ptr = 0
NoOther  == seq = 0 /\ NoGame /\ NoTree /\ NoHash /\ NoSort /\ NoSyntax /\ NoRadix
NoFringe == NoLoops /\ NoPaths /\ NoCycle /\ NoStack /\ NoCircle

FirstInit ==
    \/ /\ program = "calls" /\ Calls!Init
       /\ input = 0 /\ out = 0 /\ NoGame
       /\ NoTree /\ NoHash /\ NoSort /\ NoSyntax /\ NoRadix
    \/ /\ program = "game" /\ Game!Init /\ seq = 0
       /\ NoTree /\ NoHash /\ NoSort /\ NoSyntax /\ NoRadix
    \/ /\ program = "search" /\ Search!Init /\ seq = 0 /\ NoGame
       /\ NoHash /\ NoSort /\ NoSyntax /\ NoRadix
    \/ /\ program = "hash" /\ Hash!Init /\ seq = 0 /\ NoGame /\ heap = 0
       /\ NoTree /\ NoSort /\ NoSyntax /\ NoRadix
    \/ /\ program = "sort" /\ Sort!Init
       /\ seq = 0 /\ NoGame /\ pos = 0 /\ out = 0
       /\ NoTree /\ NoHash /\ NoSyntax /\ NoRadix
    \/ /\ program = "syntax" /\ Syntax!Init
       /\ seq = 0 /\ NoGame /\ heap = 0
       /\ NoTree /\ NoHash /\ NoSort /\ NoRadix
    \/ /\ program = "calc" /\ Calc!Init
       /\ seq = 0 /\ NoGame /\ pos = 0 /\ heap = 0
       /\ NoTree /\ NoHash /\ NoSort /\ NoSyntax /\ NoRadix
    \/ /\ program = "radix" /\ Radix!Init
       /\ seq = 0 /\ NoGame /\ heap = 0
       /\ NoTree /\ NoHash /\ NoSort /\ NoSyntax

FringeInit ==
    \/ /\ program = "root" /\ Root!Init /\ heap = 0
       /\ NoPaths /\ NoCycle /\ NoStack /\ NoCircle
    \/ /\ program = "paths" /\ Paths!Init /\ heap = 0
       /\ NoLoops /\ NoCycle /\ NoStack /\ NoCircle
    \/ /\ program = "cycles" /\ Cycles!Init /\ heap = 0
       /\ NoLoops /\ NoPaths /\ NoStack /\ NoCircle
    \/ /\ program = "stacks" /\ Stack!Init /\ heap = 0
       /\ NoLoops /\ NoPaths /\ NoCycle /\ NoCircle
    \/ /\ program = "circle" /\ Circle!Init
       /\ NoLoops /\ NoPaths /\ NoCycle /\ NoStack

Init == (FirstInit /\ NoFringe) \/ (FringeInit /\ NoOther)

CallsStep ==
    /\ program = "calls" /\ Calls!Next
    /\ UNCHANGED <<program, input, out, gameOnly, treeOnly, hashOnly,
                   sortOnly, syntaxOnly, radixOnly,
                   fringeOnly>>
GameStep ==
    /\ program = "game" /\ Game!Next
    /\ UNCHANGED <<program, seq, treeOnly, hashOnly, sortOnly, syntaxOnly,
                   radixOnly,
                   fringeOnly>>
SearchStep ==
    /\ program = "search" /\ Search!Next
    /\ UNCHANGED <<program, seq, gameOnly, hashOnly, sortOnly, syntaxOnly,
                   radixOnly,
                   fringeOnly>>
HashStep ==
    /\ program = "hash" /\ Hash!Next
    /\ UNCHANGED <<program, seq, gameOnly, heap, treeOnly, sortOnly,
                   syntaxOnly, radixOnly,
                   fringeOnly>>
SortStep ==
    /\ program = "sort" /\ Sort!Next
    /\ UNCHANGED <<program, seq, gameOnly, pos, out, treeOnly, hashOnly,
                   syntaxOnly, radixOnly,
                   fringeOnly>>
SyntaxStep ==
    /\ program = "syntax" /\ Syntax!Next
    /\ UNCHANGED <<program, seq, gameOnly, heap, treeOnly, hashOnly,
                   sortOnly, radixOnly,
                   fringeOnly>>
CalcStep ==
    /\ program = "calc" /\ Calc!Next
    /\ UNCHANGED <<program, seq, gameOnly, pos, heap, treeOnly, hashOnly,
                   sortOnly, syntaxOnly, radixOnly,
                   fringeOnly>>
RadixStep ==
    /\ program = "radix" /\ Radix!Next
    /\ UNCHANGED <<program, seq, gameOnly, heap, treeOnly, hashOnly,
                   sortOnly, syntaxOnly,
                   fringeOnly>>

RootStep ==
    /\ program = "root" /\ Root!Next
    /\ UNCHANGED <<program, heap, othersOnly, pathsOnly, cycleOnly, stackOnly,
                   circleOnly>>
PathsStep ==
    /\ program = "paths" /\ Paths!Next
    /\ UNCHANGED <<program, heap, othersOnly, loopsOnly, cycleOnly, stackOnly,
                   circleOnly>>
CyclesStep ==
    /\ program = "cycles" /\ Cycles!Next
    /\ UNCHANGED <<program, heap, othersOnly, loopsOnly, pathsOnly, stackOnly,
                   circleOnly>>
StackStep ==
    /\ program = "stacks" /\ Stack!Next
    /\ UNCHANGED <<program, heap, othersOnly, graphsOnly, circleOnly>>
CircleStep ==
    /\ program = "circle" /\ Circle!Next
    /\ UNCHANGED <<program, othersOnly, graphsOnly, stackOnly>>

Next == \/ CallsStep \/ GameStep \/ SearchStep \/ HashStep \/ SortStep
        \/ SyntaxStep \/ CalcStep \/ RadixStep \/ RootStep \/ PathsStep
        \/ CyclesStep \/ StackStep \/ CircleStep

\* A sequential program that can go on does; the calls of "calls" are up to
\* the caller, and "calc" has a single step.
ProgramStep == \/ GameStep \/ SearchStep \/ HashStep \/ SortStep \/ SyntaxStep
               \/ RadixStep \/ RootStep \/ PathsStep \/ CyclesStep
               \/ StackStep \/ CircleStep

Spec == Init /\ [][Next]_vars /\ WF_vars(ProgramStep)

-----------------------------------------------------------------------------
\* Lists, queue, stack and pointers are sound between any two steps.
StructuresSound ==
    /\ program = "calls" => Calls!IsSequence
    /\ program = "game" => Game!HandsSound
    /\ program = "search" => Search!QueueSound
    /\ program = "hash" => Hash!PointerSound
    /\ program = "sort" => Sort!LinksSound
    /\ program = "paths" => Paths!MarkedFirst
    /\ program = "stacks" => Stack!WithinArray
    /\ program = "circle" => Circle!CircleSound

\* What a program computes is what its reference says.
AnswersRight ==
    /\ program = "game" => Game!VerdictRight
    /\ program = "search" => Search!LevelsRight
    /\ program = "hash" => Hash!SuccessorRight
    /\ program = "sort" => Sort!Sorted
    /\ program = "syntax" => Syntax!ProcessorRight
    /\ program = "calc" => Calc!ValueRight
    /\ program = "radix" => Radix!RadixRight
    /\ program = "stacks" => Stack!StackAnswers
    /\ program = "circle" => Circle!LastThreeRight

\* So are the square roots, distances and cycles.
GraphsRight ==
    /\ program = "root" => Root!RootRight
    /\ program = "paths" => Paths!DistancesRight
    /\ program = "cycles" => Cycles!LengthRight

\* The programs with loops end: with an answer, or where AnswersRight allows it
\* by a failed assertion or a crash; only one line with a bracket never does.
Ends ==
    (/\ program \notin {"calls", "calc"}
     /\ program = "stacks" => ~Stack!GrowsForever)
    ~> pc \in {"done", "answered", "abort", "crash"}
=============================================================================

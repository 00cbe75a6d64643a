------------------------------ MODULE CardGame ------------------------------
(* The card game of list_3.c: two hands in linked lists; the players' top    *)
(* cards are compared, the winner puts both under its hand.                  *)
EXTENDS LinkedList

CONSTANTS
    Cards,
    HandSize,     \* INITIAL_ELEMENT_COUNT, 5 in the program
    MaxTurns      \* a million in the program

VARIABLES pc, input, pos, heap, turn_count, top_cards, out

Hand(i) == -i
Top(i) == heap[heap[Hand(i)].next].data

\* Bug: the rule for 0 and 9 is forgotten.
CompareByValue(a, b) == IF a > b THEN 1 ELSE 2

\* 0 beats 9, otherwise the higher card wins; equal cards fail an assertion.
compare_values(a, b) ==
    CASE a = 0 /\ b = 9 -> 1
      [] b = 0 /\ a = 9 -> 2
      [] a > b -> 1
      [] OTHER -> 2

Init == /\ input \in [1 .. 2 * HandSize -> Cards]
        /\ pc = "deal" /\ pos = 0 /\ turn_count = 0
        /\ top_cards = <<>> /\ out = <<>>
        /\ heap = list_init(list_init(EmptyHeap, Hand(1)), Hand(2))

Deal ==
    /\ pc = "deal"
    /\ LET i == 1 + pos \div HandSize
       IN  heap' = list_push_back(heap, Hand(i), input[pos + 1])
    /\ pos' = pos + 1
    /\ pc' = IF pos' = 2 * HandSize THEN "play" ELSE pc
    /\ UNCHANGED <<input, turn_count, top_cards, out>>

BothHaveCards == /\ ~list_is_empty(heap, Hand(1))
                 /\ ~list_is_empty(heap, Hand(2))

Draw ==
    /\ pc = "play" /\ BothHaveCards /\ turn_count < MaxTurns
    /\ top_cards' = <<Top(1), Top(2)>>
    /\ heap' = list_pop_front(list_pop_front(heap, Hand(1)), Hand(2))
    /\ turn_count' = turn_count + 1
    /\ pc' = "compare"
    /\ UNCHANGED <<input, pos, out>>

EqualCards ==
    /\ pc = "compare" /\ top_cards[1] = top_cards[2]
    /\ pc' = "abort"
    /\ UNCHANGED <<input, pos, heap, turn_count, top_cards, out>>

Award ==
    /\ pc = "compare" /\ top_cards[1] # top_cards[2]
    /\ LET winning == Hand(compare_values(top_cards[1], top_cards[2]))
       IN  heap' = list_push_back(list_push_back(heap, winning, top_cards[1]),
                                  winning, top_cards[2])
    /\ top_cards' = <<>>
    /\ pc' = "play"
    /\ UNCHANGED <<input, pos, turn_count, out>>

Verdict ==
    /\ pc = "play" /\ ~(BothHaveCards /\ turn_count < MaxTurns)
    /\ out' = IF BothHaveCards THEN <<"botva">>
              ELSE IF list_is_empty(heap, Hand(1)) THEN <<"second", turn_count>>
              ELSE <<"first", turn_count>>
    /\ heap' = list_clear(list_clear(heap, Hand(1)), Hand(2))
    /\ pc' = "done"
    /\ UNCHANGED <<input, pos, turn_count, top_cards>>

Next == Deal \/ Draw \/ EqualCards \/ Award \/ Verdict

-----------------------------------------------------------------------------
\* The rules: the game played with sequences.
Beats(a, b) == IF {a, b} = {0, 9} THEN a = 0 ELSE a > b

RECURSIVE Play(_, _, _)
Play(one, two, n) ==
    IF one = <<>> THEN <<"second", n>>
    ELSE IF two = <<>> THEN <<"first", n>>
    ELSE IF n = MaxTurns THEN <<"botva">>
    ELSE IF Head(one) = Head(two) THEN <<"abort">>
    ELSE LET won == <<Head(one), Head(two)>>
         IN  IF Beats(Head(one), Head(two))
             THEN Play(Tail(one) \o won, Tail(two), n + 1)
             ELSE Play(Tail(one), Tail(two) \o won, n + 1)

Cut(s, m, n) == SubSeq(s, m, n)

\* The two hands are sound lists and hold, with the cards on the table, what
\* was dealt: no card is lost and none is doubled.
HandsSound ==
    /\ SoundLists(heap, {Hand(1), Hand(2)})
    /\ pc # "done" =>
        LET held == list_foreach(heap, Hand(1)) \o list_foreach(heap, Hand(2))
                      \o top_cards
        IN  \A c \in Cards :
                Len(SelectSeq(held, LAMBDA x : x = c))
                  = Len(SelectSeq(Cut(input, 1, pos), LAMBDA x : x = c))

\* The program announces what the rules say, and frees the cards.
VerdictRight ==
    LET verdict == Play(Cut(input, 1, HandSize),
                        Cut(input, HandSize + 1, 2 * HandSize), 0)
    IN  /\ pc = "done" => out = verdict /\ DOMAIN heap = {Hand(1), Hand(2)}
        /\ pc = "abort" => verdict = <<"abort">>
=============================================================================

------------------------------- MODULE Stacks -------------------------------
(* stack_postfix.c and stack_skobki.c: an expression in postfix notation and *)
(* a text with brackets are read with the same growing stack.  A text is a   *)
(* sequence of pieces; a number is one piece.                                *)
EXTENDS Integers, Sequences

CONSTANTS Postfix, Bracketed      \* the texts

VARIABLES pc, input, pos, stk, pushing, out

NULL == <<>>
Opening == [c \in {")", "]", "}", ">"} |->
               CASE c = ")" -> "(" [] c = "]" -> "[" [] c = "}" -> "{" [] OTHER -> "<"]
Brackets == DOMAIN Opening \cup {Opening[c] : c \in DOMAIN Opening}
Digit == [d \in {"0", "1", "2", "3"} |->
             CASE d = "0" -> 0 [] d = "1" -> 1 [] d = "2" -> 2 [] OTHER -> 3]

\* C's division, of which a quotient by 0 ends the program.
Quotient(a, b) == LET q == (IF a < 0 THEN -a ELSE a) \div (IF b < 0 THEN -b ELSE b)
                  IN  IF (a < 0) = (b < 0) THEN q ELSE -q
Apply(op, o2, o1) == CASE op = "+" -> <<o2 + o1>>
                       [] op = "-" -> <<o2 - o1>>
                       [] op = "*" -> <<o2 * o1>>
                       [] op = "/" /\ o1 # 0 -> <<Quotient(o2, o1)>>
                       [] OTHER -> NULL

stack_create(size) == [size |-> size, a |-> <<>>]
n == Len(stk.a)
stack_get(depth) == stk.a[n - depth]
Popped(k) == SubSeq(stk.a, 1, n - k)

Init == /\ pos = 1 /\ pushing = NULL /\ out = NULL
        /\ \/ /\ pc = "postfix" /\ input \in Postfix /\ stk = stack_create(2)
           \/ /\ pc = "brackets" /\ input \in Bracketed
              /\ stk = stack_create(Len(input) \div 2)

-----------------------------------------------------------------------------
(* stack_push(), for which the program waits *)

Full == n >= stk.size

\* realloc() to twice the size: nothing stays nothing.
Grow ==
    /\ pushing # NULL /\ Full
    /\ stk' = [stk EXCEPT !.size = 2 * @]
    /\ UNCHANGED <<pc, input, pos, pushing, out>>

Push ==
    /\ pushing # NULL /\ ~Full
    /\ stk' = [stk EXCEPT !.a = Append(@, pushing[1])]
    /\ pushing' = NULL
    /\ UNCHANGED <<pc, input, pos, out>>

-----------------------------------------------------------------------------
(* stack_postfix.c *)

AtToken(S) == /\ pc = "postfix" /\ pushing = NULL
              /\ pos <= Len(input) /\ input[pos] \in S

\* The scanset +-/*= holds a range: a comma or a full stop is taken for an
\* operator.
Operators == {"+", "-", "*", "/", ",", "."}

Number ==
    /\ AtToken(DOMAIN Digit)
    /\ pushing' = <<Digit[input[pos]]>> /\ pos' = pos + 1
    /\ UNCHANGED <<pc, input, stk, out>>

ApplyTop(op) == Apply(op, stack_get(1), stack_get(0))

Operate ==
    /\ AtToken(Operators) /\ n >= 2
    /\ stk' = [stk EXCEPT !.a = Popped(2)] /\ pos' = pos + 1
    /\ pushing' = ApplyTop(input[pos])
    /\ pc' = IF pushing' # NULL THEN pc
             ELSE IF input[pos] = "/" THEN "crash" ELSE "abort"
    /\ UNCHANGED <<input, out>>

\* assert() in stack_pop(), or at the end in main(); abort() for anything else.
Abort ==
    /\ \/ AtToken(Operators) /\ n < 2
       \/ AtToken({"="}) /\ n # 1
       \/ pc = "postfix" /\ pushing = NULL /\ pos > Len(input)
    /\ pc' = "abort"
    /\ UNCHANGED <<input, pos, stk, pushing, out>>

Result ==
    /\ AtToken({"="}) /\ n = 1
    /\ out' = <<stack_get(0)>> /\ pc' = "done"
    /\ stk' = [stk EXCEPT !.a = Popped(1)]
    /\ UNCHANGED <<input, pos, pushing>>

-----------------------------------------------------------------------------
(* stack_skobki.c; an empty line leaves the length 0 *)

AtChar == pc = "brackets" /\ pushing = NULL /\ pos <= Len(input)

Open ==
    /\ AtChar /\ input[pos] \in Brackets \ DOMAIN Opening
    /\ pushing' = <<input[pos]>> /\ pos' = pos + 1
    /\ UNCHANGED <<pc, input, stk, out>>

Matches == n > 0 /\ stack_get(0) = Opening[input[pos]]

\* What does not match is popped as well; an empty stack is not.
Close ==
    /\ AtChar /\ input[pos] \in DOMAIN Opening
    /\ stk' = [stk EXCEPT !.a = IF n > 0 THEN Popped(1) ELSE @]
    /\ pos' = pos + 1
    /\ pc' = IF Matches THEN pc ELSE "failure"
    /\ UNCHANGED <<input, pushing, out>>

Skip ==
    /\ AtChar /\ input[pos] \notin Brackets /\ pos' = pos + 1
    /\ UNCHANGED <<pc, input, stk, pushing, out>>

Verdict ==
    /\ pc = "failure" \/ (pc = "brackets" /\ pushing = NULL /\ pos > Len(input))
    /\ out' = <<IF pc = "failure" \/ n > 0 THEN "NO" ELSE "YES">>
    /\ pc' = "answered"
    /\ UNCHANGED <<input, pos, stk, pushing>>

Next == \/ Grow \/ Push \/ Number \/ Operate \/ Abort \/ Result
        \/ Open \/ Close \/ Skip \/ Verdict

-----------------------------------------------------------------------------
\* The value of a postfix text: of a number, or of two texts and an operator.
RECURSIVE Value(_)
Value(text) ==
    IF Len(text) = 1 /\ text[1] \in DOMAIN Digit THEN <<Digit[text[1]]>>
    ELSE LET m == Len(text)
             Splits == {k \in 1 .. m - 2 : Value(SubSeq(text, 1, k)) # NULL
                                           /\ Value(SubSeq(text, k + 1, m - 1)) # NULL}
         IN  IF m < 3 \/ Splits = {} \/ text[m] \notin Operators THEN NULL
             ELSE LET k == CHOOSE s \in Splits : TRUE
                  IN  Apply(text[m], Value(SubSeq(text, 1, k))[1],
                            Value(SubSeq(text, k + 1, m - 1))[1])

\* A text with brackets is balanced when nothing remains after pairs have been
\* taken away for as long as there are any.
OnlyBrackets == SelectSeq(input, LAMBDA c : c \in Brackets)
RECURSIVE Balanced(_)
Balanced(text) ==
    LET Pairs == {i \in 1 .. Len(text) - 1 :
                      text[i + 1] \in DOMAIN Opening /\ text[i] = Opening[text[i + 1]]}
    IN  \/ text = <<>>
        \/ /\ Pairs # {}
           /\ LET i == CHOOSE p \in Pairs : TRUE
              IN  Balanced(SubSeq(text, 1, i - 1) \o SubSeq(text, i + 2, Len(text)))

\* The array is never written behind its end.
WithinArray == n <= stk.size

\* The text before the first "=" is evaluated, or has no value; what the other
\* program prints says whether the brackets are balanced.
StackAnswers ==
    LET end == {i \in DOMAIN input : input[i] = "="}
        value == IF end = {} THEN NULL
                 ELSE Value(SubSeq(input, 1, (CHOOSE i \in end : \A j \in end : i <= j) - 1))
    IN  /\ pc = "done" => out = value /\ value # NULL
        /\ pc \in {"abort", "crash"} => value = NULL
        /\ pc = "answered" => out = <<IF Balanced(OnlyBrackets) THEN "YES" ELSE "NO">>

\* A line of one opening bracket: an array of size 0 is grown for ever.
GrowsForever == Len(input) = 1 /\ input[1] \in Brackets \ DOMAIN Opening
=============================================================================

----------------------------- MODULE Calculators ----------------------------
(* Two programs that evaluate an expression from left to right, without      *)
(* precedence: 024.c descends recursively from lexeme to lexeme, 024.cpp     *)
(* first rewrites the text and then runs over it with two stacks.  A text is *)
(* a sequence of lexemes; a lexeme of one character is that character.       *)
EXTENDS Integers, Sequences, SequencesExt

CONSTANT Texts

VARIABLES pc, input, out

Digit == [d \in {"0", "1", "2", "3"} |->
             CASE d = "0" -> 0 [] d = "1" -> 1 [] d = "2" -> 2 [] OTHER -> 3]
Digits == DOMAIN Digit
Signs  == {"+", "-"}
Ops    == Signs \cup {"*", "/"}

\* C's division; a quotient by 0 has no value.
Quotient(a, b) == LET q == (IF a < 0 THEN -a ELSE a) \div (IF b < 0 THEN -b ELSE b)
                  IN  IF (a < 0) = (b < 0) THEN q ELSE -q
None == <<>>
Apply(op, a, b) == CASE op = "+" -> <<a + b>>
                     [] op = "-" -> <<a - b>>
                     [] op = "*" -> <<a * b>>
                     [] op = "/" /\ b # 0 -> <<Quotient(a, b)>>
                     [] OTHER -> None

-----------------------------------------------------------------------------
\* 024.c.  A parser returns its value and the position behind it, or stops
\* the program.
Stop == [value |-> 0, at |-> 0]
Failed(r) == r.at = 0
lexem(at) == IF at <= Len(input) THEN input[at] ELSE "end"

RECURSIVE parse_expression(_), RestOfExpression(_)
parse_value_or_parentheses(at, or_0) ==
    IF lexem(at) \in Digits
    THEN [value |-> Digit[lexem(at)], at |-> at + 1]
    ELSE IF lexem(at) = "("
    THEN LET r == parse_expression(at + 1)
         IN  IF Failed(r) \/ lexem(r.at) # ")" THEN Stop ELSE [r EXCEPT !.at = @ + 1]
    ELSE IF or_0 THEN [value |-> 0, at |-> at] ELSE Stop

RestOfExpression(r) ==
    IF Failed(r) \/ lexem(r.at) \notin Ops THEN r
    ELSE LET rhs == parse_value_or_parentheses(r.at + 1, FALSE)
             v == Apply(lexem(r.at), r.value, rhs.value)
         IN  IF Failed(rhs) \/ v = None THEN Stop
             ELSE RestOfExpression([value |-> v[1], at |-> rhs.at])

parse_expression(at) == RestOfExpression(parse_value_or_parentheses(at, TRUE))

Evaluate ==
    LET r == parse_expression(1)
    IN  IF Failed(r) \/ lexem(r.at) # "end" THEN None ELSE <<r.value>>

-----------------------------------------------------------------------------
\* 024.cpp, first half: the text gets an opening parenthesis in front and a
\* closing one behind; signs are merged, and operands that are missing are
\* written down.
\* In front of a factor a minus becomes "(0-1)*", and the length is counted
\* one too long: what follows is written behind the end of the string.
Broken == <<"end">>

Put(s, c) ==
    LET prev == s[Len(s)]
        Instead(d) == [s EXCEPT ![Len(s)] = d]
    IN  IF s = Broken THEN s
        ELSE CASE c = "-" -> CASE prev \in Digits \cup {")"} -> Append(s, "-")
                               [] prev = "+" -> Instead("-")
                               [] prev = "-" -> Instead("+")
                               [] prev = "*" -> Broken
                               [] OTHER -> s \o <<"0", "-">>
               [] c = "+" -> CASE prev \in Digits \cup {")"} -> Append(s, "+")
                               [] prev = "(" -> s \o <<"0", "+">>
                               [] OTHER -> s
               [] c = "*" -> CASE prev \in Digits \cup {")"} -> Append(s, "*")
                               [] prev = "+" -> Instead("*")
                               [] prev = "-" -> Instead("*") \o <<"(", "0", "-", "1", ")", "*">>
                               [] OTHER -> s
               [] c = "(" -> IF prev = "(" THEN s \o <<"0", "+", "(">> ELSE Append(s, "(")
               [] c = ")" -> CASE prev \in {"(", "+"} -> s \o <<"0", ")">>
                               [] prev = "*" -> s \o <<"1", ")">>
                               [] OTHER -> Append(s, ")")
               [] c \in Digits -> Append(s, c)

Rewrite(text) == FoldLeft(Put, <<"(">>, Append(text, ")"))

\* Second half.  A number after an opening parenthesis waits on the stack, any
\* other is combined at once, and so is the top at a closing parenthesis.
Machine == [stk |-> <<>>, stk_1 |-> <<>>, fl |-> FALSE]
Top(s) == s[Len(s)]
Pop(s) == SubSeq(s, 1, Len(s) - 1)

Combine(m) ==
    [m EXCEPT !.stk = Pop(Pop(@)) \o Apply(Top(m.stk_1), Top(Pop(@)), Top(@)),
              !.stk_1 = Pop(@)]

Scan(m, c) ==
    CASE c = "(" -> [m EXCEPT !.fl = TRUE]
      [] c = ")" -> Combine(m)
      [] c \in Ops -> [m EXCEPT !.stk_1 = Append(@, c)]
      [] c \in Digits ->
            LET pushed == [m EXCEPT !.stk = Append(@, Digit[c]), !.fl = FALSE]
            IN  IF m.fl THEN pushed ELSE Combine(pushed)

RECURSIVE Leftover(_)
Leftover(m) == IF m.stk_1 = <<>> THEN m ELSE Leftover(Combine(m))

\* The closing parenthesis of the whole text is not reached.
Calculate ==
    <<Top(Leftover(FoldLeft(Scan, Machine, Pop(Rewrite(input)))).stk)>>

-----------------------------------------------------------------------------
\* The value of an expression: it ends with an operand, before which there is
\* nothing or an operator with an expression to its left; the first operand of
\* an expression may be missing and is 0.  With signs, an operand may have
\* signs of its own.
Piece(a, b) == SubSeq(input, a, b)
Binary(a, i) == input[i] \in Ops /\ (i = a \/ input[i - 1] \in Digits \cup {")"})
Depth(a, i) == Len(SelectSeq(Piece(a, i), LAMBDA c : c = "("))
                 - Len(SelectSeq(Piece(a, i), LAMBDA c : c = ")"))

RECURSIVE Operand(_, _, _), Value(_, _, _)
Operand(a, b, signs) ==
    IF a = b /\ input[a] \in Digits THEN <<Digit[input[a]]>>
    ELSE IF a < b /\ input[a] = "(" /\ input[b] = ")"
            /\ \A i \in a .. b - 1 : Depth(a, i) > 0
    THEN Value(a + 1, b - 1, signs)
    ELSE IF signs /\ a < b /\ input[a] \in Signs
    THEN LET v == Operand(a + 1, b, signs)
         IN  IF v = None THEN None ELSE Apply(input[a], 0, v[1])
    ELSE None

Value(a, b, signs) ==
    IF a > b THEN <<0>>
    ELSE LET split == {i \in a .. b : Binary(a, i) /\ Depth(a, i) = 0}
         IN  IF split = {} THEN Operand(a, b, signs)
             ELSE LET i == CHOOSE j \in split : \A k \in split : k <= j
                      l == Value(a, i - 1, signs)
                      r == Operand(i + 1, b, signs)
                  IN  IF l = None \/ r = None THEN None ELSE Apply(input[i], l[1], r[1])

\* The texts 024.cpp is meant for: no division, no operand missing but in
\* front of a sign, and no sign that belongs to a factor.
Follows(c, D) == \E i \in 1 .. Len(input) - 1 : input[i] = c /\ input[i + 1] \in D
ForBoth ==
    /\ input # <<>> /\ input[1] # "*"
    /\ \A i \in DOMAIN input : input[i] # "/"
    /\ ~Follows("*", Signs) /\ ~Follows("(", {"*", ")"})
    /\ Value(1, Len(input), TRUE) # None

Init == /\ input \in Texts /\ pc \in {"024.c", "024.cpp"} /\ out = <<>>
        /\ pc = "024.cpp" => ForBoth

RunC   == pc = "024.c" /\ out' = Evaluate /\ pc' = "c done" /\ UNCHANGED input
RunCpp == pc = "024.cpp" /\ out' = Calculate /\ pc' = "cpp done" /\ UNCHANGED input

Next == RunC \/ RunCpp

\* 024.c computes the value of exactly the expressions without signs, and
\* 024.cpp also that of those with signs.
ValueRight ==
    /\ pc = "c done" => out = Value(1, Len(input), FALSE)
    /\ pc = "cpp done" => out = Value(1, Len(input), TRUE)
=============================================================================

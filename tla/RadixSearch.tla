----------------------------- MODULE RadixSearch ----------------------------
(* base.cpp: in which radix are all of these equations true?  A numeral is a *)
(* polynomial in the radix; the program tries every radix from the greatest  *)
(* digit plus 1 to the greatest coefficient plus 2.                          *)
EXTENDS Integers, Sequences, FiniteSetsExt

CONSTANT Equations          \* the lists of equations [a, op, b, c]

VARIABLES pc, input, pos, equations, max_digit, max_coeff, radix,
          last_valid_radix, out

\* The digit that is read first is the highest; here and in the program the
\* lowest comes first after the reading.
Coeff(p, i) == IF i \in DOMAIN p THEN p[i] ELSE 0
Maximum(a, b) == IF a > b THEN a ELSE b
Longer(p, q) == Maximum(Len(p), Len(q))

Times(p, q) ==
    [k \in 1 .. Len(p) + Len(q) - 1 |->
        MapThenSumSet(LAMBDA i : Coeff(p, i) * Coeff(q, k + 1 - i), 1 .. k)]
Plus(p, q)  == [k \in 1 .. Longer(p, q) |-> Coeff(p, k) + Coeff(q, k)]
Minus(p, q) == [k \in 1 .. Longer(p, q) |-> Coeff(p, k) - Coeff(q, k)]

compute(p, variable) ==
    LET upTo[k \in 0 .. Len(p)] ==
            IF k = 0 THEN [sum |-> 0, nth |-> 1]
            ELSE [sum |-> upTo[k - 1].sum + p[k] * upTo[k - 1].nth,
                  nth |-> upTo[k - 1].nth * variable]
    IN  upTo[Len(p)].sum

find_max_coeff(p, m) == Max({m} \cup {p[i] : i \in DOMAIN p})

\* The digits from the input, the last one first.
read_from_radix_n(s) == [i \in DOMAIN s |-> s[Len(s) + 1 - i]]

Init == /\ input \in Equations
        /\ pc = "read" /\ pos = 0 /\ equations = <<>>
        /\ max_digit = 0 /\ max_coeff = 0 /\ radix = 0
        /\ last_valid_radix = 0 /\ out = <<>>

read_equation ==
    /\ pc = "read" /\ pos < Len(input)
    /\ LET e == input[pos + 1]
           a == read_from_radix_n(e.a)
           b == read_from_radix_n(e.b)
           c == read_from_radix_n(e.c)
           result == IF e.op = "*" THEN Times(a, b) ELSE Plus(a, b)
       IN  /\ max_digit' = find_max_coeff(a \o b \o c, max_digit)
           /\ max_coeff' = find_max_coeff(result \o c, max_coeff)
           /\ equations' = Append(equations, Minus(result, c))
    /\ pos' = pos + 1
    /\ UNCHANGED <<pc, input, radix, last_valid_radix, out>>

StartSearch ==
    /\ pc = "read" /\ pos = Len(input)
    /\ pc' = "search" /\ radix' = max_digit + 1
    /\ UNCHANGED <<input, pos, equations, max_digit, max_coeff,
                   last_valid_radix, out>>

Valid == \A i \in DOMAIN equations : compute(equations[i], radix) = 0

\* A second valid radix ends the search.
Try ==
    /\ pc = "search" /\ radix <= max_coeff + 2
    /\ last_valid_radix' = IF ~Valid THEN last_valid_radix
                           ELSE IF last_valid_radix # 0 THEN -1 ELSE radix
    /\ IF Valid /\ last_valid_radix # 0
       THEN pc' = "found" /\ UNCHANGED radix
       ELSE radix' = radix + 1 /\ UNCHANGED pc
    /\ UNCHANGED <<input, pos, equations, max_digit, max_coeff, out>>

Answer ==
    /\ pc = "found" \/ (pc = "search" /\ radix > max_coeff + 2)
    /\ out' = <<last_valid_radix>> /\ pc' = "done"
    /\ UNCHANGED <<input, pos, equations, max_digit, max_coeff, radix,
                   last_valid_radix>>

Next == read_equation \/ StartSearch \/ Try \/ Answer

-----------------------------------------------------------------------------
\* The number a numeral stands for.
Number(s, r) == MapThenSumSet(LAMBDA i : s[i] * r ^ (Len(s) - i), DOMAIN s)
True(e, r) == Number(e.c, r) = IF e.op = "*" THEN Number(e.a, r) * Number(e.b, r)
                               ELSE Number(e.a, r) + Number(e.b, r)
TrueIn(r) == \A i \in DOMAIN input : True(input[i], r)

\* One radix is the answer if it is the only one, of all there are and not only
\* of those that are tried; -1 stands for several, 0 for none.  (If products
\* with 0 leave no coefficient as great as the greatest digit, the program
\* tries too few.)
RadixRight ==
    LET all == {r \in max_digit + 1 .. max_coeff + 9 : TrueIn(r)}
    IN  pc = "done" /\ max_digit <= max_coeff =>
            out = CASE all = {} -> <<0>>
                    [] \E r \in all : all = {r} -> <<CHOOSE r \in all : TRUE>>
                    [] OTHER -> <<-1>>
=============================================================================

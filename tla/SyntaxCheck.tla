----------------------------- MODULE SyntaxCheck ----------------------------
(* 7-syntax_arm.c: for which processor was an assembler text written?  A     *)
(* text is a sequence of pieces; a word is what stands between delimiters,   *)
(* so that a register's name may be glued together of pieces.                *)
EXTENDS Integers, Sequences, SequencesExt

CONSTANT Texts                        \* the texts that are checked

VARIABLES pc, input, data, words, pos, found, out

Quote == "quote"                      \* the character around literals
Space == "space"                      \* one of the delimiters

Init == /\ input \in Texts
        /\ pc = "cut" /\ data = input /\ words = <<>> /\ pos = 1
        /\ found = [isa |-> "x86", vfp |-> FALSE, flavor |-> "Intel",
                    fpu |-> FALSE, operands |-> 16]
        /\ out = <<>>

\* The positions of quotes from a position on, the first of them first.
NextQuote(text, from) ==
    LET quotes == {i \in from .. Len(text) : text[i] = Quote}
    IN  IF quotes = {} THEN 0 ELSE CHOOSE i \in quotes : \A j \in quotes : i <= j

\* A quote without another one after it stays where it is.
RECURSIVE CutFrom(_, _)
CutFrom(text, at) ==
    LET begin == NextQuote(text, at)
        end == NextQuote(text, begin + 1)
    IN  IF begin = 0 \/ end = 0 THEN text
        ELSE CutFrom(SubSeq(text, 1, begin - 1)
                       \o SubSeq(text, end + 1, Len(text)), begin)

cut_string_literals == CutFrom(data, 1)

lowercase(text) == [i \in DOMAIN text |-> IF text[i] = "AX" THEN "ax" ELSE text[i]]

tokenize(text) ==
    SelectSeq(FoldLeft(LAMBDA ws, p : IF p = Space THEN Append(ws, <<>>)
                                      ELSE [ws EXCEPT ![Len(ws)] = Append(@, p)],
                       << <<>> >>, text),
              LAMBDA w : w # <<>>)

ReadProgram ==
    /\ pc = "cut"
    /\ data' = lowercase(cut_string_literals)
    /\ words' = tokenize(data')
    \* the loops read the first word before they ask whether there is one
    /\ pc' = IF words' = <<>> THEN "crash" ELSE "arm"
    /\ UNCHANGED <<input, pos, found, out>>

VfpInsns == {<<"v", "ldr">>, <<"v", "str">>}
ArmInsns == {<<"ldr">>, <<"str">>}
FpuInsns == {<<"fld">>, <<"fst">>}

word == words[pos]
Step(f, goOn, stop) ==                \* to the next word, or on to the next pass
    /\ found' = f
    /\ IF goOn /\ pos < Len(words) THEN pos' = pos + 1 /\ UNCHANGED pc
       ELSE pos' = 1 /\ pc' = stop
    /\ UNCHANGED <<input, data, words, out>>

check_arm_and_vfp_insns ==
    /\ pc = "arm"
    /\ LET vfp == word \in VfpInsns
           f == IF vfp THEN [found EXCEPT !.isa = "ARM", !.vfp = TRUE]
                ELSE IF word \in ArmInsns THEN [found EXCEPT !.isa = "ARM"]
                ELSE found
       IN  Step(f, ~vfp, IF f.isa = "ARM" THEN "print" ELSE "regs")

check_x86_gp_reg(w) == w = <<"ax">>
Wide(w) == w # <<>> /\ w[1] \in {"e", "r"} /\ check_x86_gp_reg(Tail(w))
check_x86_reg(w) == w = <<"ds">> \/ check_x86_gp_reg(w) \/ Wide(w)

Widest(w, size) ==
    IF ~Wide(w) THEN size
    ELSE LET s == IF w[1] = "e" THEN 32 ELSE 64 IN IF s > size THEN s ELSE size

check_x86_regs_flavor_and_size ==
    /\ pc = "regs"
    /\ LET att == word[1] = "%" /\ check_x86_reg(Tail(word))
           reg == IF att THEN Tail(word) ELSE word
           f == [found EXCEPT !.operands = Widest(reg, @),
                              !.flavor = IF att THEN "AT&T" ELSE @]
       IN  Step(f, ~(att /\ f.operands = 64), "fpu")

check_x87_commands ==
    /\ pc = "fpu"
    /\ LET x87 == word \in FpuInsns
       IN  Step([found EXCEPT !.fpu = @ \/ x87], ~x87, "print")

Report ==
    /\ pc = "print"
    /\ out' = IF found.isa = "x86"
              THEN <<86, found.flavor = "AT&T", found.fpu, found.operands>>
              ELSE <<0, found.vfp>>
    /\ pc' = "done"
    /\ UNCHANGED <<input, data, words, pos, found>>

Next == ReadProgram \/ check_arm_and_vfp_insns \/ check_x86_regs_flavor_and_size
        \/ check_x87_commands \/ Report

-----------------------------------------------------------------------------
\* What is in a literal: after an odd number of quotes, up to the next one.
QuotesUpTo(i) == Len(SelectSeq(SubSeq(input, 1, i), LAMBDA p : p = Quote))
InLiteral(i) ==
    \/ QuotesUpTo(i) % 2 = 1 /\ \E j \in i + 1 .. Len(input) : input[j] = Quote
    \/ input[i] = Quote /\ QuotesUpTo(i) % 2 = 0

\* The words of the text: runs of pieces between spaces outside literals.
Text == {i \in DOMAIN input : ~InLiteral(i)}
WordsOf ==
    LET Pause == {i \in Text : input[i] = Space} \cup {0, Len(input) + 1}
        Between(a, b) == SelectSeq([k \in 1 .. b - a - 1 |-> a + k], LAMBDA i : i \in Text)
    IN  {lowercase([k \in DOMAIN Between(a, b) |-> input[Between(a, b)[k]]]) :
            <<a, b>> \in {p \in Pause \X Pause :
                p[1] < p[2] /\ \A c \in Pause : c <= p[1] \/ c >= p[2]}} \ {<<>>}

Reg(w, marked) ==
    w \in {m \o r : m \in (IF marked THEN {<<"%">>} ELSE {<<>>}),
                    r \in {<<"ds">>, <<"ax">>, <<"e", "ax">>, <<"r", "ax">>}}
Ends(w, p) == w = <<p, "ax">> \/ w = <<"%", p, "ax">>

\* The answer depends on which words the text has, not on their order: no
\* pass stops before it has seen what matters.
ProcessorRight ==
    LET W == WordsOf
    IN  /\ pc = "crash" => W = {}
        /\ pc = "done" =>
            IF W \cap (VfpInsns \cup ArmInsns) # {}
            THEN out = <<0, W \cap VfpInsns # {}>>
            ELSE out = <<86, \E w \in W : Reg(w, TRUE), W \cap FpuInsns # {},
                         IF \E w \in W : Ends(w, "r") THEN 64
                         ELSE IF \E w \in W : Ends(w, "e") THEN 32 ELSE 16>>
=============================================================================

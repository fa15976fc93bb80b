-------------------------- MODULE CalculatorSentences --------------------------
(***************************************************************************)
(* The language of the command "calc", as the Backus-Naur form at the head *)
(* of calc.c states it, with the meaning of each sentence; and a machine   *)
(* that types the arguments of the command, word by word.  The typist      *)
(* writes sentences and their beginnings, with up to Slips words out of    *)
(* place among the first SlipLength.                                       *)
(***************************************************************************)
EXTENDS Calculator

CONSTANTS Length,      \* words typed
          Slips,       \* words out of place
          SlipLength   \* words typed by one who slips

VARIABLES argv,        \* the words, each a sequence of characters
          expects,     \* what the sentence goes on with: "start" (a formula), "operand" or "operator"
          depth,       \* open parentheses
          slips

vars == <<argv, expects, depth, slips>>

(***************************************************************************)
(* The reference: the set of the meanings of a text as a formula, a term,  *)
(* a factor, a power, an operand; empty where it is none.  A run of        *)
(* letters is one word.                                                    *)
(***************************************************************************)
Letter(character) == substring2symbol_type(character) = "alphabet"
Parts(text, k) == [left |-> SubSeq(text, 1, k - 1), right |-> SubSeq(text, k + 1, Len(text))]
Splits(text, marks) == {k \in 2 .. Len(text) - 1 : text[k] \in marks}
Name(mark) == substring2symbol_type(mark)

DecimalValue(digits) == FoldLeft(LAMBDA n, digit : 10 * n + NumberValue([string |-> <<digit>>]), 0, digits)
Absolutes(text) ==
    IF text = <<>> \/ ~(Range(text) \subseteq Range(Digits) \cup {"."}) THEN {}
    ELSE IF Range(text) \subseteq Range(Digits) THEN {Fraction(DecimalValue(text), 1)}
    ELSE {Fraction(DecimalValue(Parts(text, k).left \o Parts(text, k).right), 10 ^ (Len(text) - k)) :
             k \in {dot \in Splits(text, {"."}) : \A n \in DOMAIN text \ {dot} : text[n] # "."}}

RECURSIVE Formulas(_)
Combined(text, marks, Left(_), Right(_)) ==
    UNION {{Compute(Name(text[k]), <<l, r>>) :
               l \in Left(Parts(text, k).left), r \in Right(Parts(text, k).right)} : k \in Splits(text, marks)}

Pairs(text) ==
    UNION {Formulas(Parts(text, k).left) \X Formulas(Parts(text, k).right) : k \in Splits(text, {","})}

Call(name, argument) ==
    IF name = "function_log"
    THEN {Compute("slash", <<Compute("function_log", <<pair[2]>>), Compute("function_log", <<pair[1]>>)>>) :
             pair \in Pairs(argument)}
         \cup {Exit : value \in IF Pairs(argument) = {} THEN Formulas(argument) ELSE {}}
    ELSE {Compute(name, <<value>>) : value \in Formulas(argument)}

Operands(text) ==
    LET open == CHOOSE k \in DOMAIN text : text[k] = "(" /\ \A n \in 1 .. k - 1 : text[n] # "("
        word == SubSeq(text, 1, open - 1)
        inner == SubSeq(text, open + 1, Len(text) - 1)
    IN  IF text = <<>> THEN {}
        ELSE IF Meanings(text, Constant) # {} THEN {<<type>> : type \in Meanings(text, Constant)}
        ELSE IF Last(text) # ")" \/ "(" \notin Range(text) THEN Absolutes(text)
        ELSE IF word = <<>> THEN Formulas(inner)
        ELSE UNION {Call(name, inner) : name \in Meanings(word, NamedFunction)}

RECURSIVE Powers(_), Factors(_), Terms(_)
Powers(text) == Operands(text) \cup Combined(text, {"^"}, Powers, Operands)
Factors(text) ==
    Powers(text) \cup Combined(text, {"*", "/"}, Factors, Powers)
        \cup (IF Len(text) > 1 /\ Last(text) = "i" /\ ~Letter(text[Len(text) - 1])
              THEN {Compute("asterisk", <<value, <<"i">>>>) : value \in Factors(Front(text))}
              ELSE {})
Terms(text) ==
    Factors(text) \cup Combined(text, {"+", "-"}, Terms, Factors)
        \cup (IF Len(text) > 1 /\ Head(text) = "+" THEN Factors(Tail(text))
              ELSE IF Len(text) > 1 /\ Head(text) = "-"
              THEN {Compute("minus", <<value>>) : value \in Factors(Tail(text))}
              ELSE {})
Formulas(text) ==
    Terms(text) \cup {IF Exit \in {pair[1], pair[2]} THEN Exit ELSE NaN : pair \in Pairs(text)}

(***************************************************************************)
(* The typist.  Every number is another digit.                             *)
(***************************************************************************)
text == combine_argv(argv)
Digit == <<Digits[Cardinality({k \in DOMAIN text : text[k] \in Range(Digits)}) + 2]>>
ShownFunctions == {<<"s", "i", "n">>, <<"l", "o", "g">>}

Type(word, next) ==
    /\ Len(argv) < IF slips = 0 THEN Length ELSE SlipLength
    /\ argv' = Append(argv, word)
    /\ expects' = next

Open ==
    /\ expects # "operator"
    /\ \E word \in {<<>>} \cup ShownFunctions : Type(word \o <<"(">>, "start")
    /\ depth' = depth + 1
    /\ UNCHANGED slips

Close ==
    /\ expects = "operator"
    /\ depth > 0
    /\ Type(<<")">>, "operator")
    /\ depth' = depth - 1
    /\ UNCHANGED slips

WriteOperand ==
    /\ expects # "operator"
    /\ \E word \in {Digit, <<"i">>, <<"p", "i">>} : Type(word, "operator")
    /\ UNCHANGED <<depth, slips>>

WriteSign ==
    /\ expects = "start"
    /\ \E mark \in {"+", "-"} : Type(<<mark>>, "operand")
    /\ UNCHANGED <<depth, slips>>

WriteOperator ==
    /\ expects = "operator"
    /\ \/ \E mark \in {"+", "-", "*", "/", "^"} : Type(<<mark>>, "operand")
       \/ Type(<<",">>, "start")
    /\ UNCHANGED <<depth, slips>>

(* More digits, a fraction, the imaginary unit: after a digit or a bracket. *)
Continue ==
    /\ expects = "operator"
    /\ \/ Last(text) \in Range(Digits) /\ \E word \in {Digit, <<".">> \o Digit} : Type(word, "operator")
       \/ ~Letter(Last(text)) /\ Type(<<"i">>, "operator")
    /\ UNCHANGED <<depth, slips>>

Slip ==
    /\ slips < Slips
    /\ Len(argv) < SlipLength
    /\ \E word \in Range(Marks) \cup {"i", "e", "1"} : Type(<<word>>, expects)
    /\ slips' = slips + 1
    /\ UNCHANGED depth

Init == argv = <<>> /\ expects = "start" /\ depth = 0 /\ slips = 0
Next == Open \/ Close \/ WriteOperand \/ WriteSign \/ WriteOperator \/ Continue \/ Slip
Spec == Init /\ [][Next]_vars

(***************************************************************************)
(* Properties.                                                             *)
(***************************************************************************)

(* What the program prints is a meaning of its input: the order in which   *)
(* syntactic_analysis reduces never takes a sentence for another, binds an *)
(* operator too tightly or the wrong way round, or accepts what is none.   *)
PrintsMeaning == main(argv) # Exit => main(argv) \in Formulas(text)

(* Every sentence is accepted, with two exceptions where the early         *)
(* reductions leave a symbol that nothing takes any more: an i after a     *)
(* closing parenthesis, which becomes an operand of its own (calc.c:2872), *)
(* and one after a signed number of digits alone, whose sign is already    *)
(* reduced (calc.c:2937 looks for an asterisk or a slash only).            *)
Stranded ==
    \E k \in DOMAIN text :
        /\ text[k] = "i"
        /\ k > 1
        /\ \/ text[k - 1] = ")"
           \/ \E n \in 1 .. k - 2 :
                /\ text[n] \in {"+", "-"}
                /\ n = 1 \/ text[n - 1] \in {"(", ","}
                /\ \A m \in n + 1 .. k - 1 : text[m] \in Range(Digits)
AcceptsSentence == Formulas(text) \notin {{}, {Exit}} /\ ~Stranded => main(argv) # Exit
================================================================================

--------------------------- MODULE CalculatorRules ---------------------------
(***************************************************************************)
(* apps/calc/calc.c: the first half of the command "calc".  The arguments  *)
(* are put together (combine_argv), cut into one symbol per character      *)
(* (lexical_analysis), and reduced from left to right, over and over,      *)
(* until a whole pass changes nothing (syntactic_analysis).                *)
(*                                                                         *)
(* A symbol is its type, its substring of characters, and its parts: the   *)
(* pointers of its component that are not NULL, by field name.  The list   *)
(* is a sequence, where previous and next are the neighbours.              *)
(***************************************************************************)
EXTENDS Integers, SequencesExt

Digits == <<"0", "1", "2", "3", "4", "5", "6", "7", "8", "9">>

Marks ==
    [left_parenthesis |-> "(", right_parenthesis |-> ")", plus |-> "+", minus |-> "-",
     asterisk |-> "*", slash |-> "/", circumflex |-> "^", dot |-> ".", comma |-> ","]

(* A shell puts no other character than these and letters into a formula:  *)
(* the code ends with an error at any other (calc.c:780).                  *)
substring2symbol_type(character) ==
    IF character \in Range(Digits) THEN "number"
    ELSE IF \E type \in DOMAIN Marks : Marks[type] = character
    THEN CHOOSE type \in DOMAIN Marks : Marks[type] = character
    ELSE "alphabet"

combine_argv(argv) == FlattenSeq(argv)

lexical_analysis(input) ==
    [k \in DOMAIN input |->
        [type |-> substring2symbol_type(input[k]), string |-> <<input[k]>>, parts |-> <<>>]]

(***************************************************************************)
(* Reductions.  A case of the switch in syntactic_analysis looks at symbol *)
(* k and its neighbours.  It reduces the symbols from k on to a new one,   *)
(* whose fields it names in the order of the symbols they take, or leaves  *)
(* the list alone.                                                         *)
(***************************************************************************)
Reduce(type, fields) == [type |-> type, fields |-> fields]
Leave == Reduce("none", <<>>)

Ahead(symbols, k, n, types) == k + n <= Len(symbols) /\ symbols[k + n].type \in types
Behind(symbols, k, types) == k > 1 /\ symbols[k - 1].type \in types

(* <alphabets> ::= <alphabet> | <alphabets> <alphabet> *)
Alphabet(symbols, k) == Reduce("alphabets", <<"alphabet">>)

Entry(type, word) == [type |-> type, word |-> word]

ArcFunction ==
    {Entry("function_acos",  <<"a", "c", "o", "s">>),
     Entry("function_acosh", <<"a", "c", "o", "s", "h">>),
     Entry("function_asin",  <<"a", "s", "i", "n">>),
     Entry("function_asinh", <<"a", "s", "i", "n", "h">>),
     Entry("function_atan",  <<"a", "t", "a", "n">>),
     Entry("function_atanh", <<"a", "t", "a", "n", "h">>)}
Cosine ==
    {Entry("function_cos",  <<"c", "o", "s">>),
     Entry("function_cosh", <<"c", "o", "s", "h">>)}
Constant ==
    {Entry("e", <<"e">>), Entry("i", <<"i">>), Entry("pi", <<"p", "i">>)}
OtherFunction ==
    {Entry("function_log",  <<"l", "o", "g">>),
     Entry("function_sin",  <<"s", "i", "n">>),
     Entry("function_sinh", <<"s", "i", "n", "h">>),
     Entry("function_sqrt", <<"s", "q", "r", "t">>),
     Entry("function_tan",  <<"t", "a", "n">>),
     Entry("function_tanh", <<"t", "a", "n", "h">>)}
NamedFunction == ArcFunction \cup Cosine \cup OtherFunction
Words == NamedFunction \cup Constant

TypesIn(table) == {entry.type : entry \in table}
Meanings(word, table) == TypesIn({entry \in table : entry.word = word})

(* A word is looked up once the run of letters is complete. *)
Alphabets(symbols, k) ==
    LET word == symbols[k].string
    IN  IF Ahead(symbols, k, 1, {"alphabet"}) THEN Reduce("alphabets", <<"alphabets", "alphabet">>)
        ELSE IF Meanings(word, Words) # {}
        THEN Reduce(CHOOSE type \in Meanings(word, Words) : TRUE, <<"alphabets">>)
        ELSE Leave

(* <function> ::= <function_acos> | ... | <function_tanh> *)
AnyFunction(symbols, k) == Reduce("function", <<"function">>)

(* <operand> ::= <function> <left_parenthesis> <formula> <right_parenthesis> *)
FunctionCall(symbols, k) ==
    IF /\ Ahead(symbols, k, 1, {"left_parenthesis"})
       /\ Ahead(symbols, k, 2, {"formula"})
       /\ Ahead(symbols, k, 3, {"right_parenthesis"})
    THEN Reduce("operand", <<"function", "left_parenthesis", "value", "right_parenthesis">>)
    ELSE Leave

(* <operand> ::= <left_parenthesis> <formula> <right_parenthesis> *)
LeftParenthesis(symbols, k) ==
    IF Ahead(symbols, k, 1, {"formula"}) /\ Ahead(symbols, k, 2, {"right_parenthesis"})
    THEN Reduce("operand", <<"left_parenthesis", "value", "right_parenthesis">>)
    ELSE Leave

(* <operand> ::= <absolute>, <e> and <pi> alike *)
Absolute(symbols, k) == Reduce("operand", <<"value">>)
E(symbols, k) == Reduce("operand", <<"value">>)
Pi(symbols, k) == Reduce("operand", <<"value">>)

(* <operand> ::= <i>, unless it can become the <i> of <factor> <i> *)
I(symbols, k) ==
    IF Behind(symbols, k, {"factor", "operand", "power", "numbers"}) THEN Leave
    ELSE Reduce("operand", <<"value">>)

(* <numbers> ::= <number> | <numbers> <number> *)
Number(symbols, k) == Reduce("numbers", <<"number">>)

(* <absolute> ::= <numbers> | <numbers> <dot> <numbers> *)
Numbers(symbols, k) ==
    IF Ahead(symbols, k, 1, {"number"}) THEN Reduce("numbers", <<"numbers", "number">>)
    ELSE IF Ahead(symbols, k, 1, {"dot"}) /\ Ahead(symbols, k, 2, {"numbers"})
    THEN Reduce("absolute", <<"integer", "dot", "decimal">>)
    ELSE IF Behind(symbols, k, {"dot", "number"}) \/ Ahead(symbols, k, 1, {"dot"}) THEN Leave
    ELSE Reduce("absolute", <<"integer">>)

(* <power> ::= <operand> *)
Operand(symbols, k) ==
    IF Behind(symbols, k, {"circumflex"}) THEN Leave ELSE Reduce("power", <<"operand">>)

(* <power> ::= <power> <circumflex> <operand>; <factor> ::= <power> *)
Power(symbols, k) ==
    IF Ahead(symbols, k, 1, {"circumflex"})
    THEN IF Ahead(symbols, k, 2, {"operand"})
         THEN Reduce("power", <<"power", "circumflex", "operand">>)
         ELSE Leave
    ELSE IF Behind(symbols, k, {"asterisk", "slash"}) THEN Leave
    ELSE Reduce("factor", <<"power">>)

(* <factor> ::= <factor> <asterisk> <power> | <factor> <slash> <power> *)
(* | <factor> <i>; <term> ::= <factor>                                 *)
Factor(symbols, k) ==
    IF Ahead(symbols, k, 1, {"asterisk", "slash"}) /\ Ahead(symbols, k, 2, {"power"})
    THEN IF Ahead(symbols, k, 3, {"circumflex"}) THEN Leave
         ELSE Reduce("factor", <<"factor", "operator", "power">>)
    ELSE IF Ahead(symbols, k, 1, {"i"}) THEN Reduce("factor", <<"factor", "i">>)
    ELSE IF \/ Ahead(symbols, k, 1, {"alphabet", "asterisk", "slash"})
            \/ Behind(symbols, k, {"plus", "minus"})
    THEN Leave
    ELSE Reduce("term", <<"factor">>)

(* <term> ::= <plus> <factor> | <minus> <factor> *)
Sign(symbols, k) ==
    IF /\ Ahead(symbols, k, 1, {"factor"})
       /\ k = 1 \/ Behind(symbols, k, {"left_parenthesis", "comma"})
       /\ ~Ahead(symbols, k, 2, {"asterisk", "slash"})
    THEN Reduce("term", <<"operator", "factor">>)
    ELSE Leave

(* Mutant: the i after the factor is not looked for, as in Sign. *)
TermEager(symbols, k) ==
    IF Ahead(symbols, k, 1, {"plus", "minus"})
    THEN IF Ahead(symbols, k, 2, {"factor"}) /\ ~Ahead(symbols, k, 3, {"asterisk", "slash"})
         THEN Reduce("term", <<"term", "operator", "factor">>)
         ELSE Leave
    ELSE Reduce("formula", <<"term">>)

(* <term> ::= <term> <plus> <factor> | <term> <minus> <factor>; *)
(* <formula> ::= <term>                                         *)
Term(symbols, k) ==
    IF Ahead(symbols, k, 1, {"plus", "minus"})
    THEN IF /\ Ahead(symbols, k, 2, {"factor"})
            /\ ~Ahead(symbols, k, 3, {"asterisk", "i", "slash"})
         THEN Reduce("term", <<"term", "operator", "factor">>)
         ELSE Leave
    ELSE Reduce("formula", <<"term">>)

(* <formula> ::= <formula> <comma> <formula> *)
Formula(symbols, k) ==
    IF Ahead(symbols, k, 1, {"comma"}) /\ Ahead(symbols, k, 2, {"formula"})
    THEN Reduce("formula", <<"left_formula", "comma", "right_formula">>)
    ELSE Leave

Reduction(symbols, k) ==
    LET type == symbols[k].type
    IN  CASE type = "absolute"         -> Absolute(symbols, k)
          [] type = "alphabet"         -> Alphabet(symbols, k)
          [] type = "alphabets"        -> Alphabets(symbols, k)
          [] type = "e"                -> E(symbols, k)
          [] type = "factor"           -> Factor(symbols, k)
          [] type = "formula"          -> Formula(symbols, k)
          [] type = "function"         -> FunctionCall(symbols, k)
          [] type \in TypesIn(NamedFunction)  -> AnyFunction(symbols, k)
          [] type = "i"                -> I(symbols, k)
          [] type = "left_parenthesis" -> LeftParenthesis(symbols, k)
          [] type \in {"minus", "plus"} -> Sign(symbols, k)
          [] type = "number"           -> Number(symbols, k)
          [] type = "numbers"          -> Numbers(symbols, k)
          [] type = "operand"          -> Operand(symbols, k)
          [] type = "pi"               -> Pi(symbols, k)
          [] type = "power"            -> Power(symbols, k)
          [] type = "term"             -> Term(symbols, k)
          [] type \in {"asterisk", "circumflex", "comma", "dot", "right_parenthesis", "slash"} -> Leave

(* The new symbol takes the place of the ones it is made of. *)
Apply(symbols, k, reduction) ==
    LET width == Len(reduction.fields)
        taken == SubSeq(symbols, k, k + width - 1)
        Taken(field) == taken[CHOOSE n \in 1 .. width : reduction.fields[n] = field]
        symbol == [type |-> reduction.type,
                   string |-> FlattenSeq([n \in 1 .. width |-> taken[n].string]),
                   parts |-> [field \in Range(reduction.fields) |-> Taken(field)]]
    IN  SubSeq(symbols, 1, k - 1) \o <<symbol>> \o SubSeq(symbols, k + width, Len(symbols))

(***************************************************************************)
(* syntactic_analysis, step by step: the list, the symbol that the loop    *)
(* looks at, and SYNTACTIC_ANALYSIS_FLAG_CHANGED.  A new symbol is looked  *)
(* at next.  After a pass that changed something the function calls        *)
(* itself.                                                                 *)
(***************************************************************************)
Begin(symbols) == [symbols |-> symbols, at |-> 1, changed |-> FALSE]

PassEnded(analysis) == analysis.at > Len(analysis.symbols)
Ended(analysis) == PassEnded(analysis) /\ ~analysis.changed

Advance(analysis) ==
    LET reduction == Reduction(analysis.symbols, analysis.at)
    IN  IF PassEnded(analysis) THEN Begin(analysis.symbols)
        ELSE IF reduction = Leave THEN [analysis EXCEPT !.at = @ + 1]
        ELSE [analysis EXCEPT !.symbols = Apply(@, analysis.at, reduction), !.changed = TRUE]
===============================================================================

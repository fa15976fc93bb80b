------------------------------ MODULE Calculator ------------------------------
(***************************************************************************)
(* apps/calc/calc.c: the command "calc".  The arguments are analysed by    *)
(* the rules of CalculatorRules; the one symbol that is left is evaluated  *)
(* (semantic_analysis).                                                    *)
(*                                                                         *)
(* The arithmetic on pairs of doubles is left symbolic: a value is a tuple *)
(* of an operation and its operands; <<"number", n, d>> is the fraction    *)
(* n/d.                                                                    *)
(***************************************************************************)
EXTENDS CalculatorRules

RECURSIVE Analyse(_)
Analyse(analysis) == IF Ended(analysis) THEN analysis.symbols ELSE Analyse(Advance(analysis))

syntactic_analysis(symbols) == Analyse(Begin(symbols))

(***************************************************************************)
(* semantic_analysis: the value of a symbol from those of its parts.  Exit *)
(* is the end of the program with an error.                                *)
(***************************************************************************)
Exit == <<"exit">>
NaN == <<"nan">>
Fraction(n, d) == <<"number", n, d>>
Compute(operation, operands) ==
    IF Exit \in Range(operands) THEN Exit ELSE <<operation>> \o operands

Has(symbol, field) == field \in DOMAIN symbol.parts
Operator(symbol) == symbol.parts["operator"].type

NumberValue(number) == (CHOOSE k \in DOMAIN Digits : <<Digits[k]>> = number.string) - 1

(* The digits of <numbers> as an integer, and numbers.level. *)
RECURSIVE NumbersValue(_), Level(_)
NumbersValue(numbers) ==
    (IF Has(numbers, "numbers") THEN 10 * NumbersValue(numbers.parts["numbers"]) ELSE 0)
        + NumberValue(numbers.parts["number"])
Level(numbers) == IF Has(numbers, "numbers") THEN Level(numbers.parts["numbers"]) + 1 ELSE 0

(* Mutant: the divisor is multiplied once too little. *)
AbsoluteValueShort(symbol) ==
    LET integer == NumbersValue(symbol.parts["integer"])
        decimal == symbol.parts["decimal"]
        divisor == 10 ^ Level(decimal)
    IN  IF Has(symbol, "decimal")
        THEN Fraction(integer * divisor + NumbersValue(decimal), divisor)
        ELSE Fraction(integer, 1)

AbsoluteValue(symbol) ==
    LET integer == NumbersValue(symbol.parts["integer"])
        decimal == symbol.parts["decimal"]
        divisor == 10 ^ (Level(decimal) + 1)
    IN  IF Has(symbol, "decimal")
        THEN Fraction(integer * divisor + NumbersValue(decimal), divisor)
        ELSE Fraction(integer, 1)

RECURSIVE semantic_analysis(_)

FormulaValue(symbol) ==
    IF Has(symbol, "term") THEN semantic_analysis(symbol.parts["term"])
    ELSE IF Exit \in {semantic_analysis(symbol.parts[side]) : side \in {"left_formula", "right_formula"}}
    THEN Exit
    ELSE NaN

TermValue(symbol) ==
    LET factor == semantic_analysis(symbol.parts["factor"])
    IN  IF Has(symbol, "term")
        THEN Compute(Operator(symbol), <<semantic_analysis(symbol.parts["term"]), factor>>)
        ELSE IF Has(symbol, "operator") /\ Operator(symbol) = "minus" THEN Compute("minus", <<factor>>)
        ELSE factor

FactorValue(symbol) ==
    LET Of(field) == semantic_analysis(symbol.parts[field])
    IN  IF Has(symbol, "operator") THEN Compute(Operator(symbol), <<Of("factor"), Of("power")>>)
        ELSE IF Has(symbol, "i") THEN Compute("asterisk", <<Of("factor"), Of("i")>>)
        ELSE Of("power")

PowerValue(symbol) ==
    LET operand == semantic_analysis(symbol.parts["operand"])
    IN  IF Has(symbol, "power")
        THEN Compute("circumflex", <<semantic_analysis(symbol.parts["power"]), operand>>)
        ELSE operand

(* The logarithm of the right formula to the base that is the left one. *)
LogarithmValue(argument) ==
    LET Log(side) == Compute("function_log", <<semantic_analysis(argument.parts[side])>>)
    IN  IF Has(argument, "comma") THEN Compute("slash", <<Log("right_formula"), Log("left_formula")>>)
        ELSE Exit

OperandValue(symbol) ==
    LET argument == symbol.parts["value"]
        name == symbol.parts["function"].parts["function"].type
    IN  IF ~Has(symbol, "function") THEN semantic_analysis(argument)
        ELSE IF name = "function_log" THEN LogarithmValue(argument)
        ELSE Compute(name, <<semantic_analysis(argument)>>)

semantic_analysis(symbol) ==
    LET type == symbol.type
    IN  CASE type = "absolute" -> AbsoluteValue(symbol)
          [] type = "factor"   -> FactorValue(symbol)
          [] type = "formula"  -> FormulaValue(symbol)
          [] type = "operand"  -> OperandValue(symbol)
          [] type = "power"    -> PowerValue(symbol)
          [] type = "term"     -> TermValue(symbol)
          [] type \in {"e", "i", "pi"} -> <<type>>
          [] type = "numbers"  -> Fraction(NumbersValue(symbol), 1)
          [] type = "number"   -> Fraction(NumberValue(symbol), 1)
          [] OTHER             -> Fraction(0, 1)

(* main: the value printed, or Exit for each of its three errors. *)
main(argv) ==
    LET symbols == syntactic_analysis(lexical_analysis(combine_argv(argv)))
    IN  IF Len(symbols) # 1 \/ symbols[1].type # "formula" THEN Exit
        ELSE semantic_analysis(symbols[1])
===============================================================================

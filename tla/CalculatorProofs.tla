-------------------------- MODULE CalculatorProofs --------------------------
(***************************************************************************)
(* Proofs about the syntactic analysis of calc.c, for every input, of any  *)
(* characters and any length: it ends, and what it takes for a formula is  *)
(* one of the grammar at the head of calc.c.                               *)
(***************************************************************************)
EXTENDS CalculatorRules, NaturalLemmas, SequenceTheorems

FunctionTypes == TypesIn(NamedFunction)
ConstantTypes == TypesIn(Constant)
Types ==
  {"absolute", "alphabet", "alphabets", "factor", "formula", "function", "number", "numbers",
   "operand", "power", "term"} \cup DOMAIN Marks \cup ConstantTypes \cup FunctionTypes

(* The rules of the grammar that put symbols together (calc.c:3-29): a     *)
(* type and the types it is made of.  The rule of <function> in calc.c     *)
(* leaves out acosh, asinh and atanh, which have their words there and are *)
(* functions in the code; here they are.                                   *)
Rules ==
       {<<"formula", <<"term">>>>, <<"formula", <<"formula", "comma", "formula">>>>}
  \cup {<<"term", <<"factor">>>>}
  \cup {<<"term", <<sign, "factor">>>> : sign \in {"plus", "minus"}}
  \cup {<<"term", <<"term", sign, "factor">>>> : sign \in {"plus", "minus"}}
  \cup {<<"factor", <<"power">>>>, <<"factor", <<"factor", "i">>>>}
  \cup {<<"factor", <<"factor", operator, "power">>>> : operator \in {"asterisk", "slash"}}
  \cup {<<"power", <<"operand">>>>, <<"power", <<"power", "circumflex", "operand">>>>}
  \cup {<<"operand", <<value>>>> : value \in {"absolute"} \cup ConstantTypes}
  \cup {<<"operand", <<"left_parenthesis", "formula", "right_parenthesis">>>>}
  \cup {<<"operand", <<"function", "left_parenthesis", "formula", "right_parenthesis">>>>}
  \cup {<<"function", <<name>>>> : name \in FunctionTypes}
  \cup {<<"absolute", <<"numbers">>>>, <<"absolute", <<"numbers", "dot", "numbers">>>>}
  \cup {<<"numbers", <<"number">>>>, <<"numbers", <<"numbers", "number">>>>}
  \cup {<<"alphabets", <<"alphabet">>>>, <<"alphabets", <<"alphabets", "alphabet">>>>}

(* The new symbol is made of symbols that are there, by a rule, or is the  *)
(* meaning of a word.                                                      *)
Spells(symbols, k, body) ==
  /\ k + Len(body) - 1 <= Len(symbols)
  /\ \A n \in 1 .. Len(body) : symbols[k + n - 1].type = body[n]
ByRule(symbols, k, reduction) ==
  \E body : /\ <<reduction.type, body>> \in Rules
            /\ Len(reduction.fields) = Len(body)
            /\ Spells(symbols, k, body)
ByWord(symbols, k, reduction) ==
  /\ symbols[k].type = "alphabets"
  /\ reduction.type \in Meanings(symbols[k].string, Words)
  /\ Len(reduction.fields) = 1
Justified(symbols, k, reduction) ==
  reduction = Leave \/ ByRule(symbols, k, reduction) \/ ByWord(symbols, k, reduction)

(* The types of the tables of words.                                       *)
LEMMA WordTypes ==
  /\ ConstantTypes = {"e", "i", "pi"}
  /\ FunctionTypes =
        {"function_acos", "function_acosh", "function_asin", "function_asinh", "function_atan",
         "function_atanh", "function_cos", "function_cosh", "function_log", "function_sin",
         "function_sinh", "function_sqrt", "function_tan", "function_tanh"}
<1>1. FunctionTypes = (TypesIn(ArcFunction) \cup TypesIn(Cosine)) \cup TypesIn(OtherFunction)
  BY DEF FunctionTypes, NamedFunction, TypesIn
<1>2. TypesIn(ArcFunction) = {"function_acos", "function_acosh", "function_asin",
                              "function_asinh", "function_atan", "function_atanh"}
  BY DEF TypesIn, ArcFunction, Entry
<1>3. TypesIn(Cosine) = {"function_cos", "function_cosh"}
  BY DEF TypesIn, Cosine, Entry
<1>4. TypesIn(OtherFunction) = {"function_log", "function_sin", "function_sinh",
                                "function_sqrt", "function_tan", "function_tanh"}
  BY DEF TypesIn, OtherFunction, Entry
<1>5. TypesIn(Constant) = {"e", "i", "pi"}
  BY DEF TypesIn, Constant, Entry
<1>6. QED
  BY <1>1, <1>2, <1>3, <1>4, <1>5 DEF ConstantTypes

(* What a word means is the type of a constant or of a function.           *)
LEMMA MeaningsAreTypes ==
  \A word : Meanings(word, Words) \subseteq ConstantTypes \cup FunctionTypes
BY DEF Meanings, TypesIn, ConstantTypes, FunctionTypes, Words

-----------------------------------------------------------------------------
(* Every reduction is by a rule of the grammar.                            *)

(* One symbol makes up the body of a rule.                                *)
LEMMA Single ==
  ASSUME NEW symbols, Len(symbols) \in Nat, NEW k \in 1 .. Len(symbols),
         NEW type, NEW f,
         <<type, <<symbols[k].type>>>> \in Rules
  PROVE  ByRule(symbols, k, Reduce(type, <<f>>))
<1> DEFINE body == <<symbols[k].type>>
<1>1. Len(body) = 1 /\ \A n \in 1 .. 1 : n = 1
  OBVIOUS
<1>2. Spells(symbols, k, body)
  BY <1>1 DEF Spells
<1>3. QED
  BY <1>1, <1>2 DEF ByRule, Reduce

(* Two symbols do.                                                        *)
LEMMA Pair ==
  ASSUME NEW symbols, Len(symbols) \in Nat, NEW k \in 1 .. Len(symbols), k + 1 <= Len(symbols),
         NEW type, NEW f, NEW g,
         <<type, <<symbols[k].type, symbols[k + 1].type>>>> \in Rules
  PROVE  ByRule(symbols, k, Reduce(type, <<f, g>>))
<1> DEFINE body == <<symbols[k].type, symbols[k + 1].type>>
<1>1. Len(body) = 2 /\ \A n \in 1 .. 2 : n = 1 \/ n = 2
  OBVIOUS
<1>2. Spells(symbols, k, body)
  BY <1>1 DEF Spells
<1>3. QED
  BY <1>1, <1>2 DEF ByRule, Reduce

(* Three symbols do.                                                      *)
LEMMA Triple ==
  ASSUME NEW symbols, Len(symbols) \in Nat, NEW k \in 1 .. Len(symbols), k + 2 <= Len(symbols),
         NEW type, NEW f, NEW g, NEW h,
         <<type, <<symbols[k].type, symbols[k + 1].type, symbols[k + 2].type>>>> \in Rules
  PROVE  ByRule(symbols, k, Reduce(type, <<f, g, h>>))
<1> DEFINE body == <<symbols[k].type, symbols[k + 1].type, symbols[k + 2].type>>
<1>1. Len(body) = 3 /\ \A n \in 1 .. 3 : n = 1 \/ n = 2 \/ n = 3
  OBVIOUS
<1>2. Spells(symbols, k, body)
  BY <1>1 DEF Spells
<1>3. QED
  BY <1>1, <1>2 DEF ByRule, Reduce

(* Four symbols do.                                                       *)
LEMMA Quadruple ==
  ASSUME NEW symbols, Len(symbols) \in Nat, NEW k \in 1 .. Len(symbols), k + 3 <= Len(symbols),
         NEW type, NEW f, NEW g, NEW h, NEW i,
         <<type, <<symbols[k].type, symbols[k + 1].type,
                   symbols[k + 2].type, symbols[k + 3].type>>>> \in Rules
  PROVE  ByRule(symbols, k, Reduce(type, <<f, g, h, i>>))
<1> DEFINE body == <<symbols[k].type, symbols[k + 1].type,
                   symbols[k + 2].type, symbols[k + 3].type>>
<1>1. Len(body) = 4 /\ \A n \in 1 .. 4 : n = 1 \/ n = 2 \/ n = 3 \/ n = 4
  OBVIOUS
<1>2. Spells(symbols, k, body)
  BY <1>1 DEF Spells
<1>3. QED
  BY <1>1, <1>2 DEF ByRule, Reduce

(* What the types of a symbol and its neighbours allow.                    *)
LEMMA AheadIs ==
  ASSUME NEW symbols, NEW k, NEW n, NEW types, Ahead(symbols, k, n, types)
  PROVE  k + n <= Len(symbols) /\ symbols[k + n].type \in types
BY DEF Ahead

(* The cases that reduce a single symbol.                                  *)
LEMMA UnitCases ==
  ASSUME NEW symbols, Len(symbols) \in Nat, NEW k \in 1 .. Len(symbols)
  PROVE  /\ symbols[k].type = "alphabet" => Justified(symbols, k, Alphabet(symbols, k))
         /\ symbols[k].type \in FunctionTypes => Justified(symbols, k, AnyFunction(symbols, k))
         /\ symbols[k].type = "absolute" => Justified(symbols, k, Absolute(symbols, k))
         /\ symbols[k].type = "e" => Justified(symbols, k, E(symbols, k))
         /\ symbols[k].type = "pi" => Justified(symbols, k, Pi(symbols, k))
         /\ symbols[k].type = "i" => Justified(symbols, k, I(symbols, k))
         /\ symbols[k].type = "number" => Justified(symbols, k, Number(symbols, k))
         /\ symbols[k].type = "operand" => Justified(symbols, k, Operand(symbols, k))
<1>1. /\ <<"alphabets", <<"alphabet">>>> \in Rules
      /\ \A type \in FunctionTypes : <<"function", <<type>>>> \in Rules
      /\ <<"operand", <<"absolute">>>> \in Rules
      /\ \A type \in ConstantTypes : <<"operand", <<type>>>> \in Rules
      /\ <<"numbers", <<"number">>>> \in Rules
      /\ <<"power", <<"operand">>>> \in Rules
  BY DEF Rules
<1>2. "e" \in ConstantTypes /\ "i" \in ConstantTypes /\ "pi" \in ConstantTypes
  BY WordTypes
<1>3. symbols[k].type = "alphabet" => ByRule(symbols, k, Reduce("alphabets", <<"alphabet">>))
  BY <1>1, Single
<1>4. symbols[k].type \in FunctionTypes => ByRule(symbols, k, Reduce("function", <<"function">>))
  BY <1>1, Single
<1>5. symbols[k].type \in {"absolute", "e", "i", "pi"} =>
        ByRule(symbols, k, Reduce("operand", <<"value">>))
  BY <1>1, <1>2, Single
<1>6. symbols[k].type = "number" => ByRule(symbols, k, Reduce("numbers", <<"number">>))
  BY <1>1, Single
<1>7. symbols[k].type = "operand" => ByRule(symbols, k, Reduce("power", <<"operand">>))
  BY <1>1, Single
<1>8. QED
  BY <1>3, <1>4, <1>5, <1>6, <1>7
     DEF Justified, Alphabet, AnyFunction, Absolute, E, I, Pi, Number, Operand

(* A run of letters: it grows, or it is a word.                            *)
LEMMA AlphabetsCase ==
  ASSUME NEW symbols, Len(symbols) \in Nat, NEW k \in 1 .. Len(symbols),
         symbols[k].type = "alphabets"
  PROVE  Justified(symbols, k, Alphabets(symbols, k))
<1>1. CASE Ahead(symbols, k, 1, {"alphabet"})
  <2>1. Alphabets(symbols, k) = Reduce("alphabets", <<"alphabets", "alphabet">>)
    BY <1>1 DEF Alphabets
  <2>2. k + 1 <= Len(symbols) /\ symbols[k + 1].type = "alphabet"
    BY <1>1, AheadIs
  <2>3. <<"alphabets", <<"alphabets", "alphabet">>>> \in Rules
    BY DEF Rules
  <2>4. ByRule(symbols, k, Reduce("alphabets", <<"alphabets", "alphabet">>))
    BY <2>2, <2>3, Pair
  <2>5. QED
    BY <2>1, <2>4 DEF Justified
<1>2. CASE ~Ahead(symbols, k, 1, {"alphabet"}) /\ Meanings(symbols[k].string, Words) # {}
  <2> DEFINE type == CHOOSE type \in Meanings(symbols[k].string, Words) : TRUE
  <2>1. Alphabets(symbols, k) = Reduce(type, <<"alphabets">>)
    BY <1>2 DEF Alphabets
  <2>2. type \in Meanings(symbols[k].string, Words)
    BY <1>2
  <2> HIDE DEF type
  <2>3. QED
    BY <2>1, <2>2 DEF Justified, ByWord, Reduce
<1>3. CASE ~Ahead(symbols, k, 1, {"alphabet"}) /\ Meanings(symbols[k].string, Words) = {}
  BY <1>3 DEF Alphabets, Justified
<1>4. QED
  BY <1>1, <1>2, <1>3

(* The call of a function, and a formula in parentheses.                   *)
LEMMA ParenthesisCases ==
  ASSUME NEW symbols, Len(symbols) \in Nat, NEW k \in 1 .. Len(symbols)
  PROVE  /\ symbols[k].type = "function" => Justified(symbols, k, FunctionCall(symbols, k))
         /\ symbols[k].type = "left_parenthesis" =>
              Justified(symbols, k, LeftParenthesis(symbols, k))
<1>1. <<"operand", <<"function", "left_parenthesis", "formula", "right_parenthesis">>>> \in Rules
  BY DEF Rules
<1>2. <<"operand", <<"left_parenthesis", "formula", "right_parenthesis">>>> \in Rules
  BY DEF Rules
<1>3. ASSUME symbols[k].type = "function"
      PROVE  Justified(symbols, k, FunctionCall(symbols, k))
  <2> SUFFICES ASSUME /\ Ahead(symbols, k, 1, {"left_parenthesis"})
                      /\ Ahead(symbols, k, 2, {"formula"})
                      /\ Ahead(symbols, k, 3, {"right_parenthesis"})
               PROVE  ByRule(symbols, k, Reduce("operand",
                        <<"function", "left_parenthesis", "value", "right_parenthesis">>))
    BY DEF FunctionCall, Justified
  <2>1. QED
    BY <1>1, <1>3, AheadIs, Quadruple, SMTT(30)
<1>4. ASSUME symbols[k].type = "left_parenthesis"
      PROVE  Justified(symbols, k, LeftParenthesis(symbols, k))
  <2> SUFFICES ASSUME /\ Ahead(symbols, k, 1, {"formula"})
                      /\ Ahead(symbols, k, 2, {"right_parenthesis"})
               PROVE  ByRule(symbols, k, Reduce("operand",
                        <<"left_parenthesis", "value", "right_parenthesis">>))
    BY DEF LeftParenthesis, Justified
  <2>1. QED
    BY <1>2, <1>4, AheadIs, Triple
<1>5. QED
  BY <1>3, <1>4

(* Digits, with and without a dot.                                         *)
LEMMA NumbersCase ==
  ASSUME NEW symbols, Len(symbols) \in Nat, NEW k \in 1 .. Len(symbols),
         symbols[k].type = "numbers"
  PROVE  Justified(symbols, k, Numbers(symbols, k))
<1>1. /\ <<"absolute", <<"numbers">>>> \in Rules
      /\ <<"numbers", <<"numbers", "number">>>> \in Rules
      /\ <<"absolute", <<"numbers", "dot", "numbers">>>> \in Rules
  BY DEF Rules
<1>2. ByRule(symbols, k, Reduce("absolute", <<"integer">>))
  BY <1>1, Single
<1>3. Ahead(symbols, k, 1, {"number"}) =>
        ByRule(symbols, k, Reduce("numbers", <<"numbers", "number">>))
  BY <1>1, AheadIs, Pair
<1>4. Ahead(symbols, k, 1, {"dot"}) /\ Ahead(symbols, k, 2, {"numbers"}) =>
        ByRule(symbols, k, Reduce("absolute", <<"integer", "dot", "decimal">>))
  BY <1>1, AheadIs, Triple
<1>5. QED
  BY <1>2, <1>3, <1>4 DEF Numbers, Justified

(* Powers, from the left.                                                  *)
LEMMA PowerCase ==
  ASSUME NEW symbols, Len(symbols) \in Nat, NEW k \in 1 .. Len(symbols),
         symbols[k].type = "power"
  PROVE  Justified(symbols, k, Power(symbols, k))
<1>1. /\ <<"factor", <<"power">>>> \in Rules
      /\ <<"power", <<"power", "circumflex", "operand">>>> \in Rules
  BY DEF Rules
<1>2. ByRule(symbols, k, Reduce("factor", <<"power">>))
  BY <1>1, Single
<1>3. Ahead(symbols, k, 1, {"circumflex"}) /\ Ahead(symbols, k, 2, {"operand"}) =>
        ByRule(symbols, k, Reduce("power", <<"power", "circumflex", "operand">>))
  BY <1>1, AheadIs, Triple
<1>4. QED
  BY <1>2, <1>3 DEF Power, Justified

(* Products and quotients.                                                 *)
LEMMA FactorCase ==
  ASSUME NEW symbols, Len(symbols) \in Nat, NEW k \in 1 .. Len(symbols),
         symbols[k].type = "factor"
  PROVE  Justified(symbols, k, Factor(symbols, k))
<1>1. /\ <<"term", <<"factor">>>> \in Rules
      /\ <<"factor", <<"factor", "i">>>> \in Rules
      /\ \A operator \in {"asterisk", "slash"} :
           <<"factor", <<"factor", operator, "power">>>> \in Rules
  BY DEF Rules
<1>2. ByRule(symbols, k, Reduce("term", <<"factor">>))
  BY <1>1, Single
<1>3. Ahead(symbols, k, 1, {"i"}) => ByRule(symbols, k, Reduce("factor", <<"factor", "i">>))
  BY <1>1, AheadIs, Pair
<1>4. Ahead(symbols, k, 1, {"asterisk", "slash"}) /\ Ahead(symbols, k, 2, {"power"}) =>
        ByRule(symbols, k, Reduce("factor", <<"factor", "operator", "power">>))
  <2> SUFFICES ASSUME Ahead(symbols, k, 1, {"asterisk", "slash"}), Ahead(symbols, k, 2, {"power"})
               PROVE  ByRule(symbols, k, Reduce("factor", <<"factor", "operator", "power">>))
    OBVIOUS
  <2>1. /\ k + 2 <= Len(symbols) /\ symbols[k + 2].type = "power"
        /\ symbols[k + 1].type \in {"asterisk", "slash"}
    BY AheadIs
  <2>2. <<"factor", <<symbols[k].type, symbols[k + 1].type, symbols[k + 2].type>>>> \in Rules
    BY <2>1, <1>1
  <2>3. QED
    BY <2>1, <2>2, Triple
<1>5. QED
  BY <1>2, <1>3, <1>4 DEF Factor, Justified

(* A sign, and sums and differences.                                       *)
LEMMA SumCases ==
  ASSUME NEW symbols, Len(symbols) \in Nat, NEW k \in 1 .. Len(symbols)
  PROVE  /\ symbols[k].type \in {"minus", "plus"} => Justified(symbols, k, Sign(symbols, k))
         /\ symbols[k].type = "term" => Justified(symbols, k, Term(symbols, k))
<1>1. /\ <<"formula", <<"term">>>> \in Rules
      /\ \A sign \in {"plus", "minus"} : /\ <<"term", <<sign, "factor">>>> \in Rules
                                         /\ <<"term", <<"term", sign, "factor">>>> \in Rules
  BY DEF Rules
<1>2. symbols[k].type = "term" => ByRule(symbols, k, Reduce("formula", <<"term">>))
  BY <1>1, Single
<1>3. symbols[k].type \in {"minus", "plus"} /\ Ahead(symbols, k, 1, {"factor"}) =>
        ByRule(symbols, k, Reduce("term", <<"operator", "factor">>))
  <2> SUFFICES ASSUME symbols[k].type \in {"minus", "plus"}, Ahead(symbols, k, 1, {"factor"})
               PROVE  ByRule(symbols, k, Reduce("term", <<"operator", "factor">>))
    OBVIOUS
  <2>1. k + 1 <= Len(symbols) /\ symbols[k + 1].type = "factor"
    BY AheadIs
  <2>2. <<"term", <<symbols[k].type, symbols[k + 1].type>>>> \in Rules
    BY <2>1, <1>1
  <2>3. QED
    BY <2>1, <2>2, Pair
<1>4. symbols[k].type = "term" /\ Ahead(symbols, k, 1, {"plus", "minus"}) /\ Ahead(symbols, k, 2, {"factor"}) =>
        ByRule(symbols, k, Reduce("term", <<"term", "operator", "factor">>))
  <2> SUFFICES ASSUME symbols[k].type = "term", Ahead(symbols, k, 1, {"plus", "minus"}),
                      Ahead(symbols, k, 2, {"factor"})
               PROVE  ByRule(symbols, k, Reduce("term", <<"term", "operator", "factor">>))
    OBVIOUS
  <2>1. /\ k + 2 <= Len(symbols) /\ symbols[k + 2].type = "factor"
        /\ symbols[k + 1].type \in {"plus", "minus"}
    BY AheadIs
  <2>2. <<"term", <<symbols[k].type, symbols[k + 1].type, symbols[k + 2].type>>>> \in Rules
    BY <2>1, <1>1
  <2>3. QED
    BY <2>1, <2>2, Triple
<1>5. QED
  BY <1>2, <1>3, <1>4 DEF Sign, Term, Justified

(* Two formulas and a comma.                                               *)
LEMMA FormulaCase ==
  ASSUME NEW symbols, Len(symbols) \in Nat, NEW k \in 1 .. Len(symbols),
         symbols[k].type = "formula"
  PROVE  Justified(symbols, k, Formula(symbols, k))
<1>1. <<"formula", <<"formula", "comma", "formula">>>> \in Rules
  BY DEF Rules
<1>2. Ahead(symbols, k, 1, {"comma"}) /\ Ahead(symbols, k, 2, {"formula"}) =>
        ByRule(symbols, k, Reduce("formula", <<"left_formula", "comma", "right_formula">>))
  BY <1>1, AheadIs, Triple
<1>3. QED
  BY <1>2 DEF Formula, Justified

(* syntactic_analysis() reduces by the rules at the head of calc.c.        *)
LEMMA ReductionsAreRules ==
  ASSUME NEW symbols, Len(symbols) \in Nat, NEW k \in 1 .. Len(symbols), symbols[k].type \in Types
  PROVE  Justified(symbols, k, Reduction(symbols, k))
<1> DEFINE type == symbols[k].type
<1>1. type \in FunctionTypes => ~(type \in {"absolute", "alphabet", "alphabets", "e", "factor",
        "formula", "function", "i", "left_parenthesis", "minus", "plus", "number", "numbers",
        "operand", "pi", "power", "term", "asterisk", "circumflex", "comma", "dot",
        "right_parenthesis", "slash"})
  BY WordTypes
<1>2. \/ type \in {"absolute", "alphabet", "alphabets", "factor", "formula", "function", "number",
                   "numbers", "operand", "power", "term", "e", "i", "pi", "left_parenthesis",
                   "right_parenthesis", "plus", "minus", "asterisk", "slash", "circumflex",
                   "dot", "comma"}
      \/ type \in FunctionTypes
  BY WordTypes DEF Types, Marks
<1>3. CASE type \in FunctionTypes
  <2>1. Reduction(symbols, k) = AnyFunction(symbols, k)
    BY <1>1, <1>3 DEF Reduction, FunctionTypes
  <2>2. QED
    BY <2>1, <1>3, UnitCases
<1>4. CASE type = "absolute"
  BY <1>4, <1>1, UnitCases DEF Reduction, FunctionTypes
<1>5. CASE type = "alphabet"
  BY <1>5, <1>1, UnitCases DEF Reduction, FunctionTypes
<1>6. CASE type = "alphabets"
  BY <1>6, <1>1, AlphabetsCase DEF Reduction, FunctionTypes
<1>7. CASE type = "e"
  BY <1>7, <1>1, UnitCases DEF Reduction, FunctionTypes
<1>8. CASE type = "factor"
  BY <1>8, <1>1, FactorCase DEF Reduction, FunctionTypes
<1>9. CASE type = "formula"
  BY <1>9, <1>1, FormulaCase DEF Reduction, FunctionTypes
<1>10. CASE type = "function"
  BY <1>10, <1>1, ParenthesisCases DEF Reduction, FunctionTypes
<1>11. CASE type = "i"
  BY <1>11, <1>1, UnitCases DEF Reduction, FunctionTypes
<1>12. CASE type = "left_parenthesis"
  BY <1>12, <1>1, ParenthesisCases DEF Reduction, FunctionTypes
<1>13. CASE type \in {"minus", "plus"}
  BY <1>13, <1>1, SumCases DEF Reduction, FunctionTypes
<1>14. CASE type = "number"
  BY <1>14, <1>1, UnitCases DEF Reduction, FunctionTypes
<1>15. CASE type = "numbers"
  BY <1>15, <1>1, NumbersCase DEF Reduction, FunctionTypes
<1>16. CASE type = "operand"
  BY <1>16, <1>1, UnitCases DEF Reduction, FunctionTypes
<1>17. CASE type = "pi"
  BY <1>17, <1>1, UnitCases DEF Reduction, FunctionTypes
<1>18. CASE type = "power"
  BY <1>18, <1>1, PowerCase DEF Reduction, FunctionTypes
<1>19. CASE type = "term"
  BY <1>19, <1>1, SumCases DEF Reduction, FunctionTypes
<1>20. CASE type \in {"asterisk", "circumflex", "comma", "dot", "right_parenthesis", "slash"}
  BY <1>20, <1>1 DEF Reduction, FunctionTypes, Justified
<1>21. QED
  BY <1>2, <1>3, <1>4, <1>5, <1>6, <1>7, <1>8, <1>9, <1>10, <1>11, <1>12, <1>13, <1>14, <1>15,
     <1>16, <1>17, <1>18, <1>19, <1>20

-----------------------------------------------------------------------------
(* FlattenSeq: f[i] is what the first i sequences make together.           *)
Joins(C, seqs, n, f) ==
  /\ f \in [1 .. n -> Seq(C)]
  /\ \A i \in 1 .. n : f[i] = IF i = 1 THEN seqs[1] ELSE f[i - 1] \o seqs[i]

(* There is such a function,                                               *)
LEMMA JoinsExist ==
  ASSUME NEW C, NEW seqs \in Seq(Seq(C))
  PROVE  \E f : Joins(C, seqs, Len(seqs), f)
<1> DEFINE S == {n \in Nat : n <= Len(seqs) => \E f : Joins(C, seqs, n, f)}
<1>1. 0 \in S
  <2>1. Joins(C, seqs, 0, [i \in 1 .. 0 |-> << >>])
    BY DEF Joins
  <2>2. QED
    BY <2>1
<1>2. ASSUME NEW n \in Nat, n \in S  PROVE n + 1 \in S
  <2> SUFFICES ASSUME n + 1 <= Len(seqs)
               PROVE  \E f : Joins(C, seqs, n + 1, f)
    OBVIOUS
  <2>1. PICK f : Joins(C, seqs, n, f)
    BY <1>2
  <2> DEFINE last == IF n = 0 THEN seqs[1] ELSE f[n] \o seqs[n + 1]
             g == [i \in 1 .. n + 1 |-> IF i <= n THEN f[i] ELSE last]
  <2>2. last \in Seq(C)
    <3>1. n + 1 \in 1 .. Len(seqs) /\ 1 \in 1 .. Len(seqs)
      OBVIOUS
    <3>2. seqs[n + 1] \in Seq(C) /\ seqs[1] \in Seq(C)
      BY <3>1
    <3>3. n # 0 => f[n] \in Seq(C)
      BY <2>1 DEF Joins
    <3>4. n # 0 => f[n] \o seqs[n + 1] \in Seq(C)
      BY <3>2, <3>3, ConcatProperties
    <3>5. QED
      BY <3>2, <3>4
  <2> HIDE DEF last
  <2>3. g \in [1 .. n + 1 -> Seq(C)]
    BY <2>1, <2>2 DEF Joins
  <2>4. \A i \in 1 .. n : g[i] = f[i]
    OBVIOUS
  <2>5. g[n + 1] = last
    OBVIOUS
  <2> HIDE DEF g
  <2>6. ASSUME NEW i \in 1 .. n + 1
        PROVE  g[i] = IF i = 1 THEN seqs[1] ELSE g[i - 1] \o seqs[i]
    <3>1. CASE i \in 1 .. n
      <4>1. i # 1 => i - 1 \in 1 .. n
        BY <3>1
      <4>2. QED
        BY <3>1, <4>1, <2>1, <2>4 DEF Joins
    <3>2. CASE i = n + 1
      <4>1. n # 0 => n \in 1 .. n /\ i # 1 /\ i - 1 = n
        BY <3>2
      <4>2. QED
        BY <3>2, <4>1, <2>4, <2>5 DEF last
    <3>3. QED
      BY <3>1, <3>2
  <2>7. QED
    BY <2>3, <2>6 DEF Joins
<1> HIDE DEF S
<1>3. \A n \in Nat : n \in S
  BY <1>1, <1>2, InductionBySet
<1>4. QED
  BY <1>3 DEF S

(* only one,                                                               *)
LEMMA JoinsAgree ==
  ASSUME NEW C, NEW seqs, NEW n \in Nat, NEW f, NEW g, Joins(C, seqs, n, f), Joins(C, seqs, n, g)
  PROVE  \A i \in 1 .. n : f[i] = g[i]
<1> DEFINE S == {i \in Nat : i \in 1 .. n => f[i] = g[i]}
<1>1. 0 \in S
  OBVIOUS
<1>2. ASSUME NEW i \in Nat, i \in S  PROVE i + 1 \in S
  <2> SUFFICES ASSUME i + 1 \in 1 .. n  PROVE f[i + 1] = g[i + 1]
    OBVIOUS
  <2>1. /\ f[i + 1] = IF i + 1 = 1 THEN seqs[1] ELSE f[(i + 1) - 1] \o seqs[i + 1]
        /\ g[i + 1] = IF i + 1 = 1 THEN seqs[1] ELSE g[(i + 1) - 1] \o seqs[i + 1]
    BY DEF Joins
  <2>2. i + 1 # 1 => i \in 1 .. n /\ (i + 1) - 1 = i
    OBVIOUS
  <2>3. QED
    BY <2>1, <2>2, <1>2
<1> HIDE DEF S
<1>3. \A i \in Nat : i \in S
  BY <1>1, <1>2, InductionBySet
<1>4. QED
  BY <1>3 DEF S

(* and FlattenSeq is its last value.                                       *)
LEMMA FlattenJoins ==
  ASSUME NEW C, NEW seqs \in Seq(Seq(C)), Len(seqs) # 0
  PROVE  \E f : Joins(C, seqs, Len(seqs), f) /\ FlattenSeq(seqs) = f[Len(seqs)]
<1> DEFINE flatten == CHOOSE flatten : flatten = [i \in 1 .. Len(seqs) |->
                        IF i = 1 THEN seqs[i] ELSE flatten[i - 1] \o seqs[i]]
<1>1. FlattenSeq(seqs) = flatten[Len(seqs)]
  BY DEF FlattenSeq
<1>2. PICK f : Joins(C, seqs, Len(seqs), f)
  BY JoinsExist
<1>3. f = [i \in 1 .. Len(seqs) |-> IF i = 1 THEN seqs[i] ELSE f[i - 1] \o seqs[i]]
  BY <1>2 DEF Joins
<1>4. flatten = [i \in 1 .. Len(seqs) |-> IF i = 1 THEN seqs[i] ELSE flatten[i - 1] \o seqs[i]]
  BY <1>3
<1> HIDE DEF flatten
<1> DEFINE S == {i \in Nat : i \in 1 .. Len(seqs) => flatten[i] = f[i]}
<1>5. 0 \in S
  OBVIOUS
<1>6. ASSUME NEW i \in Nat, i \in S  PROVE i + 1 \in S
  <2> SUFFICES ASSUME i + 1 \in 1 .. Len(seqs)  PROVE flatten[i + 1] = f[i + 1]
    OBVIOUS
  <2>1. i # 0 => i \in 1 .. Len(seqs) /\ i + 1 # 1 /\ (i + 1) - 1 = i
    OBVIOUS
  <2>2. flatten[i + 1] = IF i + 1 = 1 THEN seqs[i + 1] ELSE flatten[(i + 1) - 1] \o seqs[i + 1]
    BY <1>4
  <2>3. f[i + 1] = IF i + 1 = 1 THEN seqs[i + 1] ELSE f[(i + 1) - 1] \o seqs[i + 1]
    BY <1>3
  <2>4. QED
    BY <2>1, <2>2, <2>3, <1>6
<1> HIDE DEF S
<1>7. \A i \in Nat : i \in S
  BY <1>5, <1>6, InductionBySet
<1>8. Len(seqs) \in Nat /\ Len(seqs) \in 1 .. Len(seqs)
  OBVIOUS
<1>9. flatten[Len(seqs)] = f[Len(seqs)]
  BY <1>7, <1>8 DEF S
<1>10. QED
  BY <1>1, <1>2, <1>9

(* Nothing makes nothing.                                                  *)
LEMMA FlattenEmpty == FlattenSeq(<< >>) = << >>
BY DEF FlattenSeq

(* What is put together is a sequence.                                     *)
LEMMA FlattenTyped ==
  ASSUME NEW C, NEW seqs \in Seq(Seq(C))
  PROVE  FlattenSeq(seqs) \in Seq(C)
<1>1. CASE Len(seqs) = 0
  <2>1. seqs = << >>
    BY <1>1
  <2>2. << >> \in Seq(C)
    OBVIOUS
  <2>3. FlattenSeq(seqs) = << >>
    BY <2>1, FlattenEmpty
  <2>4. QED
    BY <2>2, <2>3
<1>2. CASE Len(seqs) # 0
  <2>1. PICK f : Joins(C, seqs, Len(seqs), f) /\ FlattenSeq(seqs) = f[Len(seqs)]
    BY <1>2, FlattenJoins
  <2>2. Len(seqs) \in 1 .. Len(seqs)
    BY <1>2
  <2>3. QED
    BY <2>1, <2>2 DEF Joins
<1>3. QED
  BY <1>1, <1>2

(* What is put together of one sequence is that one.                        *)
LEMMA FlattenOne ==
  ASSUME NEW C, NEW seqs \in Seq(Seq(C)), Len(seqs) = 1
  PROVE  FlattenSeq(seqs) = seqs[1]
<1>1. Len(seqs) # 0 /\ 1 \in 1 .. Len(seqs)
  OBVIOUS
<1>2. PICK f : Joins(C, seqs, Len(seqs), f) /\ FlattenSeq(seqs) = f[Len(seqs)]
  BY <1>1, FlattenJoins
<1>3. QED
  BY <1>1, <1>2 DEF Joins

(* Two lists one behind the other.                                         *)
LEMMA FlattenConcat ==
  ASSUME NEW C, NEW a \in Seq(Seq(C)), NEW b \in Seq(Seq(C))
  PROVE  FlattenSeq(a \o b) = FlattenSeq(a) \o FlattenSeq(b)
<1>1. \A x, y, z \in Seq(C) : (x \o y) \o z = x \o (y \o z)
  BY ConcatAssociative, SMTT(30)
<1>2. CASE a = << >>
  <2>1. a \o b = b /\ FlattenSeq(a) = << >>
    BY <1>2, ConcatEmptySeq, FlattenEmpty
  <2>2. << >> \o FlattenSeq(b) = FlattenSeq(b)
    BY FlattenTyped, ConcatEmptySeq
  <2>3. QED
    BY <2>1, <2>2
<1>3. CASE b = << >>
  <2>1. a \o b = a /\ FlattenSeq(b) = << >>
    BY <1>3, ConcatEmptySeq, FlattenEmpty
  <2>2. FlattenSeq(a) \o << >> = FlattenSeq(a)
    BY FlattenTyped, ConcatEmptySeq
  <2>3. QED
    BY <2>1, <2>2
<1>4. CASE Len(a) # 0 /\ Len(b) # 0
  <2> DEFINE m == Len(a)
             n == Len(b)
             s == a \o b
  <2>1. PICK f : Joins(C, a, m, f) /\ FlattenSeq(a) = f[m]
    BY <1>4, FlattenJoins
  <2>2. PICK g : Joins(C, b, n, g) /\ FlattenSeq(b) = g[n]
    BY <1>4, FlattenJoins
  <2>3. /\ s \in Seq(Seq(C)) /\ Len(s) = m + n
        /\ \A i \in 1 .. m + n : s[i] = IF i <= m THEN a[i] ELSE b[i - m]
    BY ConcatProperties
  <2>4. m \in Nat \ {0} /\ n \in Nat \ {0}
    BY <1>4
  <2> HIDE DEF m, n, s
  <2>5. PICK h : Joins(C, s, m + n, h) /\ FlattenSeq(s) = h[m + n]
    <3>1. s \in Seq(Seq(C)) /\ Len(s) # 0
      BY <2>3, <2>4
    <3>2. PICK h : Joins(C, s, Len(s), h) /\ FlattenSeq(s) = h[Len(s)]
      BY <3>1, FlattenJoins
    <3>3. QED
      BY <3>2, <2>3
  <2> DEFINE k == [i \in 1 .. m + n |-> IF i <= m THEN f[i] ELSE f[m] \o g[i - m]]
  <2>6. \A i \in 1 .. m : k[i] = f[i] /\ f[i] \in Seq(C)
    BY <2>1, <2>4 DEF Joins
  <2>7. ASSUME NEW i \in 1 .. n  PROVE k[m + i] = f[m] \o g[i] /\ g[i] \in Seq(C)
    <3>1. m + i \in 1 .. m + n /\ ~(m + i <= m) /\ (m + i) - m = i
      BY <2>4
    <3>2. g[i] \in Seq(C)
      BY <2>2 DEF Joins
    <3>3. QED
      BY <3>1, <3>2
  <2>8. DOMAIN k = 1 .. m + n /\ k = [i \in 1 .. m + n |-> k[i]]
    OBVIOUS
  <2> HIDE DEF k
  <2>9. \A i \in 1 .. m + n : i \in 1 .. m \/ \E j \in 1 .. n : i = m + j
    <3> SUFFICES ASSUME NEW i \in 1 .. m + n, i \notin 1 .. m
                 PROVE  \E j \in 1 .. n : i = m + j
      OBVIOUS
    <3>1. i - m \in 1 .. n /\ i = m + (i - m)
      BY <2>4
    <3>2. QED
      BY <3>1
  <2>10. ASSUME NEW i \in 1 .. m + n
         PROVE  k[i] \in Seq(C) /\ k[i] = IF i = 1 THEN s[1] ELSE k[i - 1] \o s[i]
    <3>1. CASE i \in 1 .. m
      <4>1. s[i] = a[i] /\ k[i] = f[i] /\ f[i] \in Seq(C)
        BY <3>1, <2>3, <2>6
      <4>2. f[i] = IF i = 1 THEN a[1] ELSE f[i - 1] \o a[i]
        BY <3>1, <2>1 DEF Joins
      <4>3. i # 1 => k[i - 1] = f[i - 1]
        BY <3>1, <2>4, <2>6
      <4>4. QED
        BY <4>1, <4>2, <4>3
    <3>2. CASE \E j \in 1 .. n : i = m + j
      <4>1. PICK j \in 1 .. n : i = m + j
        BY <3>2
      <4>2. s[i] = b[j] /\ i # 1 /\ m \in 1 .. m
        BY <4>1, <2>3, <2>4
      <4>3. k[i] = f[m] \o g[j] /\ f[m] \in Seq(C) /\ g[j] \in Seq(C)
        BY <4>1, <4>2, <2>6, <2>7
      <4>4. k[i] \in Seq(C)
        BY <4>3, ConcatProperties
      <4>5. g[j] = IF j = 1 THEN b[1] ELSE g[j - 1] \o b[j]
        BY <2>2 DEF Joins
      <4>6. CASE j = 1
        <5>1. i - 1 = m /\ k[m] = f[m]
          BY <4>1, <4>2, <4>6, <2>4, <2>6
        <5>2. k[i] = k[i - 1] \o s[i]
          BY <5>1, <4>2, <4>3, <4>5, <4>6
        <5>3. QED
          BY <5>2, <4>2, <4>4
      <4>7. CASE j # 1
        <5>1. j - 1 \in 1 .. n /\ i - 1 = m + (j - 1)
          BY <4>1, <4>7, <2>4
        <5>2. k[i - 1] = f[m] \o g[j - 1] /\ g[j - 1] \in Seq(C)
          BY <5>1, <2>7
        <5>3. b[j] \in Seq(C)
          BY <2>4 DEF n
        <5>4. f[m] \o (g[j - 1] \o b[j]) = (f[m] \o g[j - 1]) \o b[j]
          BY <1>1, <5>2, <5>3, <4>3
        <5>5. k[i] = k[i - 1] \o s[i]
          BY <5>2, <5>4, <4>2, <4>3, <4>5, <4>7
        <5>6. QED
          BY <5>5, <4>2, <4>4
      <4>8. QED
        BY <4>6, <4>7
    <3>3. QED
      BY <3>1, <3>2, <2>9
  <2>11. k \in [1 .. m + n -> Seq(C)]
    BY <2>8, <2>10
  <2>12. Joins(C, s, m + n, k)
    BY <2>10, <2>11 DEF Joins
  <2>13. h[m + n] = k[m + n]
    <3>1. m + n \in Nat /\ m + n \in 1 .. m + n
      BY <2>4
    <3>2. \A i \in 1 .. m + n : h[i] = k[i]
      BY <3>1, <2>5, <2>12, JoinsAgree
    <3>3. QED
      BY <3>1, <3>2
  <2>14. k[m + n] = f[m] \o g[n]
    <3>1. n \in 1 .. n
      BY <2>4
    <3>2. QED
      BY <3>1, <2>7
  <2>15. QED
    BY <2>1, <2>2, <2>5, <2>13, <2>14 DEF s
<1>5. QED
  BY <1>2, <1>3, <1>4

(* What is put together of sequences that are not empty is longer than the *)
(* first one by at least one for each of the others.                       *)
LEMMA FlattenLonger ==
  ASSUME NEW C, NEW seqs \in Seq(Seq(C)), Len(seqs) # 0,
         \A i \in 1 .. Len(seqs) : Len(seqs[i]) >= 1
  PROVE  Len(FlattenSeq(seqs)) >= Len(seqs[1]) + Len(seqs) - 1
<1>1. PICK f : Joins(C, seqs, Len(seqs), f) /\ FlattenSeq(seqs) = f[Len(seqs)]
  BY FlattenJoins
<1> DEFINE S == {i \in Nat : i \in 1 .. Len(seqs) => Len(f[i]) >= Len(seqs[1]) + i - 1}
<1>2. 0 \in S
  OBVIOUS
<1>3. ASSUME NEW i \in Nat, i \in S  PROVE i + 1 \in S
  <2> SUFFICES ASSUME i + 1 \in 1 .. Len(seqs)  PROVE Len(f[i + 1]) >= Len(seqs[1]) + (i + 1) - 1
    OBVIOUS
  <2>1. \A x \in Seq(C) : Len(x) \in Nat
    OBVIOUS
  <2>2. /\ seqs[i + 1] \in Seq(C) /\ Len(seqs[i + 1]) >= 1 /\ Len(seqs[i + 1]) \in Nat
        /\ seqs[1] \in Seq(C) /\ Len(seqs[1]) \in Nat
    BY <2>1
  <2>3. f[i + 1] = IF i + 1 = 1 THEN seqs[1] ELSE f[(i + 1) - 1] \o seqs[i + 1]
    BY <1>1 DEF Joins
  <2> DEFINE x == f[i]
             y == seqs[i + 1]
             first == Len(seqs[1])
  <2>4. CASE i = 0
    BY <2>2, <2>3, <2>4
  <2>5. CASE i # 0
    <3>1. i \in 1 .. Len(seqs) /\ (i + 1) - 1 = i /\ i + 1 # 1
      BY <2>5
    <3>2. x \in Seq(C)
      BY <3>1, <1>1 DEF Joins
    <3>3. Len(x) >= first + i - 1
      BY <3>1, <1>3
    <3>4. f[i + 1] = x \o y
      BY <3>1, <2>3
    <3>5. y \in Seq(C) /\ Len(y) >= 1 /\ Len(y) \in Nat /\ first \in Nat
      BY <2>2
    <3> HIDE DEF x, y, first
    <3>6. Len(x \o y) = Len(x) + Len(y) /\ Len(x) \in Nat
      BY <3>2, <3>5, <2>1, ConcatProperties
    <3>7. Len(f[i + 1]) >= first + (i + 1) - 1
      BY <3>3, <3>4, <3>5, <3>6
    <3>8. QED
      BY <3>7 DEF first
  <2>6. QED
    BY <2>4, <2>5
<1> HIDE DEF S
<1>4. \A i \in Nat : i \in S
  BY <1>2, <1>3, InductionBySet
<1>5. QED
  BY <1>1, <1>4 DEF S

(* The list around the symbols k to k + w - 1.                             *)
Cut(S, s, k, w) ==
  /\ SubSeq(s, 1, k - 1) \in Seq(S)
  /\ SubSeq(s, k, k + w - 1) \in Seq(S)
  /\ SubSeq(s, k + w, Len(s)) \in Seq(S)
  /\ s = (SubSeq(s, 1, k - 1) \o SubSeq(s, k, k + w - 1)) \o SubSeq(s, k + w, Len(s))

(* A list is what is before them, they, and what is behind.                *)
LEMMA Surroundings ==
  ASSUME NEW S, NEW s \in Seq(S), NEW k \in 1 .. Len(s), NEW w \in Nat \ {0}, k + w - 1 <= Len(s)
  PROVE  Cut(S, s, k, w)
<1> DEFINE before == SubSeq(s, 1, k - 1)
           taken  == SubSeq(s, k, k + w - 1)
           behind == SubSeq(s, k + w, Len(s))
<1>1. Len(s) \in Nat /\ \A i \in 1 .. Len(s) : s[i] \in S
  OBVIOUS
<1>2. /\ before \in Seq(S) /\ Len(before) = k - 1
      /\ \A i \in 1 .. k - 1 : before[i] = s[i]
  <2>1. \A i \in 1 .. k - 1 : s[i] \in S
    BY <1>1
  <2>2. /\ SubSeq(s, 1, k - 1) \in Seq(S)
        /\ Len(SubSeq(s, 1, k - 1)) = IF 1 <= k - 1 THEN (k - 1) - 1 + 1 ELSE 0
        /\ \A i \in 1 .. (k - 1) - 1 + 1 : SubSeq(s, 1, k - 1)[i] = s[1 + i - 1]
    BY <2>1, SubSeqProperties
  <2>3. QED
    BY <2>2
<1>3. /\ taken \in Seq(S) /\ Len(taken) = w
      /\ \A i \in 1 .. w : taken[i] = s[k + i - 1]
  <2>1. \A i \in k .. k + w - 1 : s[i] \in S
    BY <1>1
  <2>2. /\ SubSeq(s, k, k + w - 1) \in Seq(S)
        /\ Len(SubSeq(s, k, k + w - 1)) = IF k <= k + w - 1 THEN (k + w - 1) - k + 1 ELSE 0
        /\ \A i \in 1 .. (k + w - 1) - k + 1 : SubSeq(s, k, k + w - 1)[i] = s[k + i - 1]
    BY <2>1, SubSeqProperties
  <2>3. k <= k + w - 1 /\ (k + w - 1) - k + 1 = w
    OBVIOUS
  <2>4. QED
    BY <2>2, <2>3
<1>4. /\ behind \in Seq(S) /\ Len(behind) = Len(s) - (k + w - 1)
      /\ \A i \in 1 .. Len(s) - (k + w - 1) : behind[i] = s[k + w + i - 1]
  <2>1. \A i \in k + w .. Len(s) : s[i] \in S
    BY <1>1
  <2>2. /\ SubSeq(s, k + w, Len(s)) \in Seq(S)
        /\ Len(SubSeq(s, k + w, Len(s))) = IF k + w <= Len(s) THEN Len(s) - (k + w) + 1 ELSE 0
        /\ \A i \in 1 .. Len(s) - (k + w) + 1 : SubSeq(s, k + w, Len(s))[i] = s[k + w + i - 1]
    BY <2>1, SubSeqProperties
  <2>3. /\ Len(s) - (k + w) + 1 = Len(s) - (k + w - 1)
        /\ ~(k + w <= Len(s)) => Len(s) - (k + w - 1) = 0
    BY <1>1
  <2>4. QED
    BY <2>2, <2>3
<1> HIDE DEF before, taken, behind
<1>5. /\ before \o taken \in Seq(S) /\ Len(before \o taken) = (k - 1) + w
      /\ \A i \in 1 .. (k - 1) + w :
           (before \o taken)[i] = IF i <= k - 1 THEN before[i] ELSE taken[i - (k - 1)]
  <2>1. before \in Seq(S) /\ taken \in Seq(S)
    BY <1>2, <1>3
  <2>2. /\ before \o taken \in Seq(S) /\ Len(before \o taken) = Len(before) + Len(taken)
        /\ \A i \in 1 .. Len(before) + Len(taken) :
             (before \o taken)[i] = IF i <= Len(before) THEN before[i] ELSE taken[i - Len(before)]
    BY <2>1, ConcatProperties
  <2>3. Len(before) = k - 1 /\ Len(taken) = w
    BY <1>2, <1>3
  <2>4. QED
    BY <2>2, <2>3
<1> DEFINE front == before \o taken
<1>6. front \in Seq(S) /\ Len(front) = (k - 1) + w /\ \A i \in 1 .. (k - 1) + w : front[i] = s[i]
  <2>1. ASSUME NEW i \in 1 .. (k - 1) + w  PROVE front[i] = s[i]
    <3>1. CASE i <= k - 1
      BY <3>1, <1>2, <1>5
    <3>2. CASE ~(i <= k - 1)
      <4>1. i - (k - 1) \in 1 .. w /\ k + (i - (k - 1)) - 1 = i
        BY <3>2
      <4>2. QED
        BY <4>1, <3>2, <1>3, <1>5
    <3>3. QED
      BY <3>1, <3>2
  <2>2. QED
    BY <2>1, <1>5
<1> HIDE DEF front
<1>7. /\ front \o behind \in Seq(S) /\ Len(front \o behind) = Len(front) + Len(behind)
      /\ \A i \in 1 .. Len(front) + Len(behind) :
           (front \o behind)[i] = IF i <= Len(front) THEN front[i] ELSE behind[i - Len(front)]
  <2>1. front \in Seq(S) /\ behind \in Seq(S)
    BY <1>4, <1>6
  <2>2. QED
    BY <2>1, ConcatProperties
<1>8. Len(front) + Len(behind) = Len(s)
  BY <1>1, <1>4, <1>6
<1> DEFINE all == front \o behind
<1>9. all \in Seq(S) /\ Len(all) = Len(s)
  BY <1>7, <1>8
<1>10. ASSUME NEW i \in 1 .. Len(s)  PROVE all[i] = s[i]
  <2>1. all[i] = IF i <= Len(front) THEN front[i] ELSE behind[i - Len(front)]
    BY <1>7, <1>8
  <2>2. CASE i <= Len(front)
    BY <2>1, <2>2, <1>6
  <2>3. CASE ~(i <= Len(front))
    <3>1. i - Len(front) \in 1 .. Len(s) - (k + w - 1) /\ k + w + (i - Len(front)) - 1 = i
      <4>1. Len(front) = (k - 1) + w /\ Len(s) \in Nat
        BY <1>1, <1>6
      <4>2. QED
        BY <4>1, <2>3
    <3>2. QED
      BY <3>1, <2>1, <2>3, <1>4
  <2>4. QED
    BY <2>2, <2>3
<1> HIDE DEF all
<1>11. all = s
  BY <1>9, <1>10, SeqEqual
<1>12. QED
  BY <1>2, <1>3, <1>4, <1>11 DEF Cut, all, front, before, taken, behind

(* The list u has x where the list v has the w elements from k on.         *)
Replaced(v, k, w, x, u) ==
  /\ Len(u) = Len(v) - w + 1
  /\ \A i \in 1 .. Len(u) : u[i] = IF i < k THEN v[i] ELSE IF i = k THEN x ELSE v[i + w - 1]

(* That is what a list makes with x between what is before and behind.     *)
LEMMA AroundReplaces ==
  ASSUME NEW S, NEW v \in Seq(S), NEW k \in 1 .. Len(v), NEW w \in Nat \ {0}, k + w - 1 <= Len(v),
         NEW x \in S
  PROVE  LET u == (SubSeq(v, 1, k - 1) \o <<x>>) \o SubSeq(v, k + w, Len(v))
         IN  u \in Seq(S) /\ Replaced(v, k, w, x, u)
<1> DEFINE a == SubSeq(v, 1, k - 1)
           d == SubSeq(v, k + w, Len(v))
           one == <<x>>
           m == Len(v) - (k + w - 1)
<1>1. Len(v) \in Nat
  OBVIOUS
<1>2. one \in Seq(S) /\ Len(one) = 1 /\ one[1] = x
  OBVIOUS
<1>3. a \in Seq(S) /\ Len(a) = k - 1 /\ \A i \in 1 .. k - 1 : a[i] = v[i]
  <2>1. \A i \in 1 .. k - 1 : v[i] \in S
    BY <1>1
  <2>2. /\ SubSeq(v, 1, k - 1) \in Seq(S)
        /\ Len(SubSeq(v, 1, k - 1)) = IF 1 <= k - 1 THEN (k - 1) - 1 + 1 ELSE 0
        /\ \A i \in 1 .. (k - 1) - 1 + 1 : SubSeq(v, 1, k - 1)[i] = v[1 + i - 1]
    BY <2>1, SubSeqProperties
  <2>3. QED
    BY <2>2
<1>4. d \in Seq(S) /\ Len(d) = m /\ \A i \in 1 .. m : d[i] = v[k + w + i - 1]
  <2>1. \A i \in k + w .. Len(v) : v[i] \in S
    BY <1>1
  <2>2. /\ SubSeq(v, k + w, Len(v)) \in Seq(S)
        /\ Len(SubSeq(v, k + w, Len(v))) = IF k + w <= Len(v) THEN Len(v) - (k + w) + 1 ELSE 0
        /\ \A i \in 1 .. Len(v) - (k + w) + 1 : SubSeq(v, k + w, Len(v))[i] = v[k + w + i - 1]
    BY <2>1, SubSeqProperties
  <2>3. Len(v) - (k + w) + 1 = m /\ (~(k + w <= Len(v)) => m = 0)
    BY <1>1
  <2>4. QED
    BY <2>2, <2>3
<1>5. m \in Nat /\ Len(v) - w + 1 = k + m
  BY <1>1
<1> HIDE DEF a, d, one, m
<1>6. \A p, q \in Seq(S) :
        /\ p \o q \in Seq(S) /\ Len(p \o q) = Len(p) + Len(q)
        /\ \A i \in 1 .. Len(p) + Len(q) : (p \o q)[i] = IF i <= Len(p) THEN p[i] ELSE q[i - Len(p)]
  BY ConcatProperties
<1> DEFINE front == a \o one
           whole == front \o d
<1>7. /\ front \in Seq(S) /\ Len(front) = Len(a) + Len(one)
      /\ \A i \in 1 .. Len(a) + Len(one) : front[i] = IF i <= Len(a) THEN a[i] ELSE one[i - Len(a)]
  BY <1>2, <1>3, <1>6
<1> HIDE DEF front
<1>8. Len(front) = k /\ \A i \in 1 .. k : front[i] = IF i < k THEN v[i] ELSE x
  <2>1. Len(a) + Len(one) = k
    BY <1>2, <1>3
  <2>2. ASSUME NEW i \in 1 .. k, i < k  PROVE front[i] = v[i]
    <3>1. i <= Len(a) /\ i \in 1 .. Len(a) + Len(one) /\ i \in 1 .. k - 1
      BY <2>1, <2>2, <1>3
    <3>2. front[i] = a[i]
      BY <3>1, <1>7
    <3>3. QED
      BY <3>1, <3>2, <1>3
  <2>3. front[k] = x
    BY <2>1, <1>2, <1>3, <1>7
  <2>4. ASSUME NEW i \in 1 .. k  PROVE front[i] = IF i < k THEN v[i] ELSE x
    <3>1. i < k \/ i = k
      OBVIOUS
    <3>2. QED
      BY <3>1, <2>2, <2>3
  <2>5. QED
    BY <2>1, <2>4, <1>7
<1>9. /\ whole \in Seq(S) /\ Len(whole) = Len(front) + Len(d)
      /\ \A i \in 1 .. Len(front) + Len(d) :
           whole[i] = IF i <= Len(front) THEN front[i] ELSE d[i - Len(front)]
  BY <1>4, <1>6, <1>7
<1> HIDE DEF whole
<1>10. Len(whole) = k + m
  BY <1>4, <1>5, <1>8, <1>9
<1>11. ASSUME NEW i \in 1 .. k + m
       PROVE  whole[i] = IF i < k THEN v[i] ELSE IF i = k THEN x ELSE v[i + w - 1]
  <2>1. whole[i] = IF i <= k THEN front[i] ELSE d[i - k]
    BY <1>4, <1>8, <1>9
  <2>2. CASE i <= k
    <3>1. i \in 1 .. k
      BY <2>2
    <3>2. QED
      BY <3>1, <2>1, <2>2, <1>8
  <2>3. CASE ~(i <= k)
    <3>1. i - k \in 1 .. m /\ k + w + (i - k) - 1 = i + w - 1 /\ ~(i < k) /\ i # k
      BY <2>3, <1>5
    <3>2. d[i - k] = v[i + w - 1]
      BY <3>1, <1>4
    <3>3. QED
      BY <3>1, <3>2, <2>1, <2>3
  <2>4. QED
    BY <2>2, <2>3
<1>12. Replaced(v, k, w, x, whole)
  BY <1>5, <1>10, <1>11 DEF Replaced
<1>13. QED
  BY <1>9, <1>12 DEF whole, front, a, d, one

(* No other list does.                                                     *)
LEMMA ReplacedAround ==
  ASSUME NEW S, NEW v \in Seq(S), NEW k \in 1 .. Len(v), NEW w \in Nat \ {0}, k + w - 1 <= Len(v),
         NEW x \in S, NEW u \in Seq(S), Replaced(v, k, w, x, u)
  PROVE  u = (SubSeq(v, 1, k - 1) \o <<x>>) \o SubSeq(v, k + w, Len(v))
<1> DEFINE whole == (SubSeq(v, 1, k - 1) \o <<x>>) \o SubSeq(v, k + w, Len(v))
<1>1. whole \in Seq(S) /\ Replaced(v, k, w, x, whole)
  BY AroundReplaces
<1> HIDE DEF whole
<1>2. Len(whole) = Len(u) /\ \A i \in 1 .. Len(u) : whole[i] = u[i]
  BY <1>1 DEF Replaced
<1>3. whole = u
  BY <1>1, <1>2, SeqEqual
<1>4. QED
  BY <1>3 DEF whole

(* What becomes of x is what becomes of the whole list.                    *)
Carries(v, k, w, x, u) ==
  /\ x = FlattenSeq(SubSeq(v, k, k + w - 1)) => FlattenSeq(u) = FlattenSeq(v)
  /\ Len(x) < Len(FlattenSeq(SubSeq(v, k, k + w - 1))) =>
       Len(FlattenSeq(u)) < Len(FlattenSeq(v))

(* It is the same as before if x is what the w lists made, and shorter if  *)
(* x is.                                                                   *)
LEMMA Replacement ==
  ASSUME NEW C, NEW v \in Seq(Seq(C)), NEW k \in 1 .. Len(v), NEW w \in Nat \ {0},
         k + w - 1 <= Len(v), NEW x \in Seq(C), NEW u \in Seq(Seq(C)), Replaced(v, k, w, x, u)
  PROVE  Carries(v, k, w, x, u)
<1> DEFINE a == SubSeq(v, 1, k - 1)
           b == SubSeq(v, k, k + w - 1)
           d == SubSeq(v, k + w, Len(v))
           one == <<x>>
<1>1. a \in Seq(Seq(C)) /\ b \in Seq(Seq(C)) /\ d \in Seq(Seq(C)) /\ v = (a \o b) \o d
  <2> DEFINE D == Seq(C)
  <2>1. v \in Seq(D)
    OBVIOUS
  <2> HIDE DEF D
  <2>2. Cut(D, v, k, w)
    BY <2>1, Surroundings
  <2>3. QED
    BY <2>2 DEF Cut, D
<1>2. u = (a \o one) \o d
  <2> DEFINE D == Seq(C)
  <2>1. v \in Seq(D) /\ u \in Seq(D) /\ x \in D
    OBVIOUS
  <2> HIDE DEF D
  <2>2. \A p, q \in Seq(D) : \A n \in 1 .. Len(p) : \A m \in Nat \ {0} : \A y \in D :
          n + m - 1 <= Len(p) /\ Replaced(p, n, m, y, q) =>
            q = (SubSeq(p, 1, n - 1) \o <<y>>) \o SubSeq(p, n + m, Len(p))
    BY ReplacedAround
  <2>3. QED
    BY <2>1, <2>2
<1>3. one \in Seq(Seq(C)) /\ FlattenSeq(one) = x
  <2>1. one \in Seq(Seq(C)) /\ Len(one) = 1 /\ one[1] = x
    OBVIOUS
  <2> HIDE DEF one
  <2>2. QED
    BY <2>1, FlattenOne
<1> HIDE DEF a, b, d, one
<1> DEFINE fa == FlattenSeq(a)
           fb == FlattenSeq(b)
           fd == FlattenSeq(d)
<1>4. fa \in Seq(C) /\ fb \in Seq(C) /\ fd \in Seq(C)
  BY <1>1, FlattenTyped
<1>5. \A p, q \in Seq(Seq(C)) : p \o q \in Seq(Seq(C))
  <2> DEFINE D == Seq(C)
  <2> HIDE DEF D
  <2>1. \A p, q \in Seq(D) : p \o q \in Seq(D)
    BY ConcatProperties
  <2>2. QED
    BY <2>1 DEF D
<1>6. \A p, q \in Seq(Seq(C)) : FlattenSeq(p \o q) = FlattenSeq(p) \o FlattenSeq(q)
  BY FlattenConcat
<1>7. FlattenSeq(v) = (fa \o fb) \o fd
  <2>1. a \o b \in Seq(Seq(C)) /\ FlattenSeq(a \o b) = fa \o fb
    BY <1>1, <1>5, <1>6
  <2>2. FlattenSeq((a \o b) \o d) = FlattenSeq(a \o b) \o fd
    BY <2>1, <1>1, <1>6
  <2>3. QED
    BY <2>1, <2>2, <1>1
<1>8. FlattenSeq(u) = (fa \o x) \o fd
  <2>1. a \o one \in Seq(Seq(C)) /\ FlattenSeq(a \o one) = fa \o x
    BY <1>1, <1>3, <1>5, <1>6
  <2>2. FlattenSeq((a \o one) \o d) = FlattenSeq(a \o one) \o fd
    BY <2>1, <1>1, <1>6
  <2>3. QED
    BY <2>1, <2>2, <1>2
<1> HIDE DEF fa, fb, fd
<1>9. \A p, q \in Seq(C) : p \o q \in Seq(C) /\ Len(p \o q) = Len(p) + Len(q)
  BY ConcatProperties
<1>10. \A p \in Seq(C) : Len(p) \in Nat
  OBVIOUS
<1>11. Len((fa \o fb) \o fd) = (Len(fa) + Len(fb)) + Len(fd)
  BY <1>4, <1>9
<1>12. Len((fa \o x) \o fd) = (Len(fa) + Len(x)) + Len(fd)
  BY <1>4, <1>9
<1>13. Len(fa) \in Nat /\ Len(fb) \in Nat /\ Len(fd) \in Nat /\ Len(x) \in Nat
  BY <1>4, <1>10
<1>14. x = fb => FlattenSeq(u) = FlattenSeq(v)
  BY <1>7, <1>8
<1>15. Len(x) < Len(fb) => Len(FlattenSeq(u)) < Len(FlattenSeq(v))
  BY <1>7, <1>8, <1>11, <1>12, <1>13
<1>16. QED
  BY <1>14, <1>15 DEF fb, b, Carries

-----------------------------------------------------------------------------
(* A reduction of the list.                                                *)
IsList(symbols) == symbols \in Seq({symbols[k] : k \in DOMAIN symbols})
Strings(symbols) == [k \in DOMAIN symbols |-> symbols[k].string]
Text(symbols) == FlattenSeq(Strings(symbols))
TakenStrings(symbols, k, w) == [n \in 1 .. w |-> symbols[k + n - 1].string]

(* How many steps a symbol is from a formula, at most: fewer with each     *)
(* rule.                                                                   *)
Rank(type) ==
  IF type \in {"alphabet", "number"} THEN 8
  ELSE IF type \in {"alphabets", "numbers"} THEN 7
  ELSE IF type \in {"absolute"} \cup ConstantTypes \cup FunctionTypes THEN 6
  ELSE IF type \in {"function", "left_parenthesis", "minus", "operand", "plus"} THEN 5
  ELSE IF type = "power" THEN 4
  ELSE IF type = "factor" THEN 3
  ELSE IF type = "term" THEN 2
  ELSE 1

(* The ranks of the types.                                                 *)
LEMMA Ranks ==
  /\ \A type : Rank(type) \in 1 .. 8
  /\ Rank("alphabet") = 8 /\ Rank("number") = 8 /\ Rank("alphabets") = 7 /\ Rank("numbers") = 7
  /\ Rank("absolute") = 6 /\ \A type \in ConstantTypes \cup FunctionTypes : Rank(type) = 6
  /\ Rank("function") = 5 /\ Rank("left_parenthesis") = 5 /\ Rank("minus") = 5
  /\ Rank("operand") = 5 /\ Rank("plus") = 5 /\ Rank("power") = 4 /\ Rank("factor") = 3
  /\ Rank("term") = 2 /\ Rank("formula") = 1
BY WordTypes DEF Rank

(* A rule makes one symbol of at least one, and its rank is smaller than   *)
(* what those have together.                                               *)
Fits(head, body) ==
  /\ head \in Types /\ Len(body) \in Nat \ {0}
  /\ \A n \in 1 .. Len(body) : body[n] \in Types
  /\ Rank(head) < Rank(body[1]) + Len(body) - 1

(* Every rule of the grammar does.                                         *)
LEMMA RulesFit ==
  ASSUME NEW head, NEW body, <<head, body>> \in Rules
  PROVE  Fits(head, body)
<1>1. /\ {"absolute", "alphabet", "alphabets", "factor", "formula", "function", "number",
          "numbers", "operand", "power", "term"} \subseteq Types
      /\ {"left_parenthesis", "right_parenthesis", "plus", "minus", "asterisk", "slash",
          "circumflex", "dot", "comma"} \subseteq Types
      /\ {"e", "i", "pi"} \subseteq Types /\ FunctionTypes \subseteq Types
  BY WordTypes DEF Types, Marks
<1>2. \A h, p \in Types : Rank(h) < Rank(p) => Fits(h, <<p>>)
  <2> SUFFICES ASSUME NEW h \in Types, NEW p \in Types, Rank(h) < Rank(p)  PROVE Fits(h, <<p>>)
    OBVIOUS
  <2>1. Len(<<p>>) = 1 /\ \A n \in 1 .. 1 : n = 1
    OBVIOUS
  <2>2. QED
    BY <2>1, Ranks DEF Fits
<1>3. \A h, p, q \in Types : Rank(h) < Rank(p) + 1 => Fits(h, <<p, q>>)
  <2> SUFFICES ASSUME NEW h \in Types, NEW p \in Types, NEW q \in Types, Rank(h) < Rank(p) + 1
               PROVE  Fits(h, <<p, q>>)
    OBVIOUS
  <2>1. Len(<<p, q>>) = 2 /\ \A n \in 1 .. 2 : n = 1 \/ n = 2
    OBVIOUS
  <2>2. QED
    BY <2>1, Ranks DEF Fits
<1>4. \A h, p, q, r \in Types : Rank(h) < Rank(p) + 2 => Fits(h, <<p, q, r>>)
  <2> SUFFICES ASSUME NEW h \in Types, NEW p \in Types, NEW q \in Types, NEW r \in Types,
                      Rank(h) < Rank(p) + 2
               PROVE  Fits(h, <<p, q, r>>)
    OBVIOUS
  <2>1. Len(<<p, q, r>>) = 3 /\ \A n \in 1 .. 3 : n = 1 \/ n = 2 \/ n = 3
    OBVIOUS
  <2>2. QED
    BY <2>1, Ranks DEF Fits
<1>5. \A h, p, q, r, s \in Types : Rank(h) < Rank(p) + 3 => Fits(h, <<p, q, r, s>>)
  <2> SUFFICES ASSUME NEW h \in Types, NEW p \in Types, NEW q \in Types, NEW r \in Types,
                      NEW s \in Types, Rank(h) < Rank(p) + 3
               PROVE  Fits(h, <<p, q, r, s>>)
    OBVIOUS
  <2>1. Len(<<p, q, r, s>>) = 4 /\ \A n \in 1 .. 4 : n = 1 \/ n = 2 \/ n = 3 \/ n = 4
    OBVIOUS
  <2>2. QED
    BY <2>1, Ranks DEF Fits
<1>6. CASE <<head, body>> \in
               {<<"formula", <<"term">>>>, <<"formula", <<"formula", "comma", "formula">>>>}
  BY <1>1, Ranks, <1>2, <1>4, <1>6
<1>7. CASE <<head, body>> \in {<<"term", <<"factor">>>>}
  BY <1>1, Ranks, <1>2, <1>7
<1>8. CASE <<head, body>> \in {<<"term", <<sign, "factor">>>> : sign \in {"plus", "minus"}}
  BY <1>1, Ranks, <1>3, <1>8
<1>9. CASE <<head, body>> \in
               {<<"term", <<"term", sign, "factor">>>> : sign \in {"plus", "minus"}}
  BY <1>1, Ranks, <1>4, <1>9
<1>10. CASE <<head, body>> \in {<<"factor", <<"power">>>>, <<"factor", <<"factor", "i">>>>}
  BY <1>1, Ranks, <1>2, <1>3, <1>10
<1>11. CASE <<head, body>> \in
               {<<"factor", <<"factor", operator, "power">>>> : operator \in {"asterisk", "slash"}}
  BY <1>1, Ranks, <1>4, <1>11
<1>12. CASE <<head, body>> \in
               {<<"power", <<"operand">>>>, <<"power", <<"power", "circumflex", "operand">>>>}
  BY <1>1, Ranks, <1>2, <1>4, <1>12
<1>13. CASE <<head, body>> \in
               {<<"operand", <<value>>>> : value \in {"absolute"} \cup ConstantTypes}
  BY <1>1, Ranks, <1>2, <1>13, WordTypes
<1>14. CASE <<head, body>> \in
               {<<"operand", <<"left_parenthesis", "formula", "right_parenthesis">>>>}
  BY <1>1, Ranks, <1>4, <1>14
<1>15. CASE <<head, body>> \in
               {<<"operand", <<"function", "left_parenthesis", "formula", "right_parenthesis">>>>}
  <2>1. /\ "operand" \in Types /\ "function" \in Types /\ "left_parenthesis" \in Types
        /\ "formula" \in Types /\ "right_parenthesis" \in Types
        /\ Rank("operand") < Rank("function") + 3
    BY <1>1, Ranks
  <2>2. Fits("operand", <<"function", "left_parenthesis", "formula", "right_parenthesis">>)
    BY <2>1, <1>5
  <2>3. QED
    BY <2>2, <1>15
<1>16. CASE <<head, body>> \in {<<"function", <<name>>>> : name \in FunctionTypes}
  BY <1>1, Ranks, <1>2, <1>16
<1>17. CASE <<head, body>> \in
               {<<"absolute", <<"numbers">>>>, <<"absolute", <<"numbers", "dot", "numbers">>>>}
  BY <1>1, Ranks, <1>2, <1>4, <1>17
<1>18. CASE <<head, body>> \in
               {<<"numbers", <<"number">>>>, <<"numbers", <<"numbers", "number">>>>}
  BY <1>1, Ranks, <1>2, <1>3, <1>18
<1>19. CASE <<head, body>> \in
               {<<"alphabets", <<"alphabet">>>>, <<"alphabets", <<"alphabets", "alphabet">>>>}
  BY <1>1, Ranks, <1>2, <1>3, <1>19
<1>20. QED
  BY <1>6, <1>7, <1>8, <1>9, <1>10, <1>11, <1>12, <1>13, <1>14, <1>15, <1>16, <1>17, <1>18, <1>19
     DEF Rules

(* A list by its elements.                                                 *)
LEMMA ListElements ==
  ASSUME NEW symbols
  PROVE  /\ IsList(symbols) => Len(symbols) \in Nat /\ DOMAIN symbols = 1 .. Len(symbols)
         /\ \A S : symbols \in Seq(S) => IsList(symbols)
<1>1. IsList(symbols) => Len(symbols) \in Nat /\ DOMAIN symbols = 1 .. Len(symbols)
  BY DEF IsList
<1>2. ASSUME NEW S, symbols \in Seq(S)  PROVE IsList(symbols)
  BY <1>2 DEF IsList
<1>3. QED
  BY <1>1, <1>2

(* The new symbol stands for the symbols it is made of, and the others     *)
(* stay in their order.                                                    *)
Reduces(symbols, k, w, type, new) ==
  /\ IsList(new) /\ Replaced(symbols, k, w, new[k], new)
  /\ new[k].type = type
  /\ new[k].string = FlattenSeq(TakenStrings(symbols, k, w))

(* Apply() makes such a list.                                              *)
LEMMA ApplyReplaces ==
  ASSUME NEW symbols, IsList(symbols), NEW k \in 1 .. Len(symbols), NEW reduction,
         NEW w \in Nat \ {0}, w = Len(reduction.fields), k + w - 1 <= Len(symbols),
         NEW new, new = Apply(symbols, k, reduction)
  PROVE  Reduces(symbols, k, w, reduction.type, new)
<1> DEFINE taken == SubSeq(symbols, k, k + w - 1)
           Taken(field) == taken[CHOOSE n \in 1 .. w : reduction.fields[n] = field]
           parts == [field \in Range(reduction.fields) |-> Taken(field)]
           string == FlattenSeq([n \in 1 .. w |-> taken[n].string])
           symbol == [type |-> reduction.type, string |-> string, parts |-> parts]
           S == {symbols[n] : n \in DOMAIN symbols} \cup {symbol}
           all == (SubSeq(symbols, 1, k - 1) \o <<symbol>>) \o SubSeq(symbols, k + w, Len(symbols))
<1>1. new = all
  BY DEF Apply
<1>2. symbols \in Seq(S) /\ symbol \in S
  <2> HIDE DEF symbol
  <2>1. symbol \in S
    OBVIOUS
  <2>2. {symbols[n] : n \in DOMAIN symbols} \subseteq S
    OBVIOUS
  <2> HIDE DEF S
  <2>3. symbols \in Seq(S)
    BY <2>2 DEF IsList
  <2>4. QED
    BY <2>1, <2>3
<1>3. string = FlattenSeq(TakenStrings(symbols, k, w))
  <2>1. \A n \in 1 .. w : taken[n] = symbols[k + n - 1]
    <3>1. Len(symbols) \in Nat
      BY ListElements
    <3>2. QED
      BY <3>1
  <2>2. [n \in 1 .. w |-> taken[n].string] = [n \in 1 .. w |-> symbols[k + n - 1].string]
    BY <2>1
  <2>3. QED
    BY <2>2 DEF TakenStrings
<1>4. symbol.type = reduction.type /\ symbol.string = string
  OBVIOUS
<1> HIDE DEF symbol, S, string
<1>5. all \in Seq(S) /\ Replaced(symbols, k, w, symbol, all)
  BY <1>2, AroundReplaces
<1> HIDE DEF all
<1>6. IsList(all)
  BY <1>5, ListElements
<1>7. all[k] = symbol
  <2>1. Len(symbols) \in Nat
    BY ListElements
  <2>2. k \in 1 .. Len(symbols) - w + 1
    BY <2>1
  <2>3. QED
    BY <2>2, <1>5 DEF Replaced
<1>8. QED
  BY <1>1, <1>3, <1>4, <1>5, <1>6, <1>7 DEF Reduces

(* How far a reduction reaches and what it makes.                          *)
LEMMA ReductionFits ==
  ASSUME NEW symbols, Len(symbols) \in Nat, NEW k \in 1 .. Len(symbols), symbols[k].type \in Types,
         Reduction(symbols, k) # Leave
  PROVE  LET reduction == Reduction(symbols, k)
             w == Len(reduction.fields)
         IN  /\ w \in Nat \ {0} /\ k + w - 1 <= Len(symbols)
             /\ reduction.type \in Types
             /\ \/ ByRule(symbols, k, reduction)
                \/ ByWord(symbols, k, reduction)
<1> DEFINE reduction == Reduction(symbols, k)
           w == Len(reduction.fields)
<1>1. ByRule(symbols, k, reduction) \/ ByWord(symbols, k, reduction)
  BY ReductionsAreRules DEF Justified
<1> HIDE DEF reduction
<1>2. CASE ByRule(symbols, k, reduction)
  <2>1. PICK body : /\ <<reduction.type, body>> \in Rules
                    /\ w = Len(body)
                    /\ Spells(symbols, k, body)
    BY <1>2 DEF ByRule
  <2>2. reduction.type \in Types /\ w \in Nat \ {0}
    BY <2>1, RulesFit DEF Fits
  <2>3. QED
    BY <2>1, <2>2, <1>2 DEF Spells, reduction
<1>3. CASE ByWord(symbols, k, reduction)
  <2>1. w = 1 /\ reduction.type \in ConstantTypes \cup FunctionTypes
    BY <1>3, MeaningsAreTypes DEF ByWord
  <2>2. reduction.type \in Types
    BY <2>1 DEF Types
  <2>3. QED
    BY <2>1, <2>2, <1>3 DEF reduction
<1>4. QED
  BY <1>1, <1>2, <1>3

-----------------------------------------------------------------------------
(* The language of the grammar: the least sets of texts, one for each      *)
(* type, that have the characters in them and are closed under the words   *)
(* and the rules.                                                          *)
Grammatical(C, F) ==
  /\ \A c \in C : <<c>> \in F[substring2symbol_type(c)]
  /\ \A entry \in Words : entry.word \in F["alphabets"] => entry.word \in F[entry.type]
  /\ \A head, body : <<head, body>> \in Rules =>
       \A texts \in Seq(Seq(C)) :
         /\ Len(texts) = Len(body)
         /\ \A n \in 1 .. Len(body) : texts[n] \in F[body[n]]
         => FlattenSeq(texts) \in F[head]
Sentences(C, type) ==
  {text \in Seq(C) :
     \A F \in [Types -> SUBSET Seq(C)] : Grammatical(C, F) => text \in F[type]}

(* The language is closed in the same way.                                 *)
LEMMA CharactersAreSentences ==
  ASSUME NEW C, NEW c \in C
  PROVE  <<c>> \in Sentences(C, substring2symbol_type(c))
<1>1. <<c>> \in Seq(C)
  OBVIOUS
<1>2. QED
  BY <1>1 DEF Sentences, Grammatical

(* A word that is a sentence of letters is one of its meaning.             *)
LEMMA WordsAreSentences ==
  ASSUME NEW C, NEW word \in Sentences(C, "alphabets"), NEW type \in Meanings(word, Words)
  PROVE  word \in Sentences(C, type)
<1>1. PICK entry \in Words : entry.word = word /\ entry.type = type
  BY DEF Meanings, TypesIn
<1>2. word \in Seq(C)
  BY DEF Sentences
<1>3. ASSUME NEW F \in [Types -> SUBSET Seq(C)], Grammatical(C, F)
      PROVE  word \in F[type]
  <2>1. word \in F["alphabets"]
    BY <1>3 DEF Sentences
  <2>2. QED
    BY <2>1, <1>1, <1>3 DEF Grammatical
<1>4. QED
  BY <1>2, <1>3 DEF Sentences

(* What sentences make together by a rule is a sentence.                   *)
LEMMA RulesMakeSentences ==
  ASSUME NEW C, NEW head, NEW body, <<head, body>> \in Rules,
         NEW texts \in Seq(Seq(C)), Len(texts) = Len(body),
         \A n \in 1 .. Len(body) : texts[n] \in Sentences(C, body[n])
  PROVE  FlattenSeq(texts) \in Sentences(C, head)
<1>1. FlattenSeq(texts) \in Seq(C)
  BY FlattenTyped
<1>2. ASSUME NEW F \in [Types -> SUBSET Seq(C)], Grammatical(C, F)
      PROVE  FlattenSeq(texts) \in F[head]
  <2>1. \A n \in 1 .. Len(body) : texts[n] \in F[body[n]]
    BY <1>2 DEF Sentences
  <2>2. QED
    BY <2>1, <1>2 DEF Grammatical
<1>3. QED
  BY <1>1, <1>2 DEF Sentences

(* A list of sentences that spells the input.                              *)
AllSentences(C, symbols) ==
  \A k \in 1 .. Len(symbols) :
    symbols[k].type \in Types /\ symbols[k].string \in Sentences(C, symbols[k].type)
Spelled(C, input, symbols) ==
  IsList(symbols) /\ AllSentences(C, symbols) /\ Text(symbols) = input

(* The strings of a list.                                                  *)
LEMMA StringsTyped ==
  ASSUME NEW C, NEW symbols, IsList(symbols), AllSentences(C, symbols)
  PROVE  /\ Strings(symbols) \in Seq(Seq(C)) /\ Len(Strings(symbols)) = Len(symbols)
         /\ \A k \in 1 .. Len(symbols) : /\ Strings(symbols)[k] = symbols[k].string
                                         /\ symbols[k].string \in Seq(C)
<1>1. Len(symbols) \in Nat /\ DOMAIN symbols = 1 .. Len(symbols)
  BY ListElements
<1>2. \A k \in 1 .. Len(symbols) : symbols[k].string \in Seq(C)
  BY DEF AllSentences, Sentences
<1>3. QED
  BY <1>1, <1>2 DEF Strings

(* A reduction puts a sentence in place of the ones it is made of.         *)
LEMMA ReductionSpells ==
  ASSUME NEW C, NEW input, NEW symbols, Spelled(C, input, symbols), NEW k \in 1 .. Len(symbols),
         Reduction(symbols, k) # Leave
  PROVE  Spelled(C, input, Apply(symbols, k, Reduction(symbols, k)))
<1> DEFINE reduction == Reduction(symbols, k)
           w == Len(reduction.fields)
           new == Apply(symbols, k, reduction)
<1>1. Len(symbols) \in Nat /\ IsList(symbols) /\ AllSentences(C, symbols) /\ Text(symbols) = input
  BY ListElements DEF Spelled
<1>2. /\ w \in Nat \ {0} /\ k + w - 1 <= Len(symbols) /\ reduction.type \in Types
      /\ ByRule(symbols, k, reduction) \/ ByWord(symbols, k, reduction)
  BY <1>1, ReductionFits DEF AllSentences
<1>3. w \in Nat \ {0} /\ k + w - 1 <= Len(symbols) /\ reduction.type \in Types
  BY <1>2
<1> HIDE DEF reduction
<1>4. w = Len(reduction.fields) /\ new = Apply(symbols, k, reduction)
  OBVIOUS
<1> HIDE DEF new, w
<1>5. /\ IsList(new) /\ Replaced(symbols, k, w, new[k], new)
      /\ new[k].type = reduction.type /\ new[k].string = FlattenSeq(TakenStrings(symbols, k, w))
  <2>1. Reduces(symbols, k, w, reduction.type, new)
    BY <1>1, <1>3, <1>4, ApplyReplaces
  <2>2. QED
    BY <2>1 DEF Reduces
<1> DEFINE texts == TakenStrings(symbols, k, w)
<1>6. /\ \A k_1 \in 1 .. Len(symbols) : symbols[k_1].string \in Seq(C)
      /\ Strings(symbols) \in Seq(Seq(C)) /\ Len(Strings(symbols)) = Len(symbols)
      /\ \A k_1 \in 1 .. Len(symbols) : Strings(symbols)[k_1] = symbols[k_1].string
  BY <1>1, StringsTyped
<1>7. /\ texts \in Seq(Seq(C)) /\ Len(texts) = w
      /\ \A n \in 1 .. w : texts[n] = symbols[k + n - 1].string
  <2>1. \A n \in 1 .. w : k + n - 1 \in 1 .. Len(symbols)
    BY <1>1, <1>3
  <2>2. \A n \in 1 .. w : symbols[k + n - 1].string \in Seq(C)
    BY <2>1, <1>6
  <2>3. QED
    BY <2>2, <1>3 DEF TakenStrings
<1>8. texts = SubSeq(Strings(symbols), k, k + w - 1)
  <2> DEFINE v == Strings(symbols)
             D == Seq(C)
  <2>1. v \in Seq(D) /\ Len(v) = Len(symbols) /\ texts \in Seq(D) /\ Len(texts) = w
    BY <1>6, <1>7
  <2>2. \A n \in k .. k + w - 1 : v[n] \in D
    BY <1>1, <1>3, <1>6
  <2> HIDE DEF texts
  <2>3. ASSUME NEW n \in 1 .. w  PROVE texts[n] = v[k + n - 1]
    <3>1. k + n - 1 \in 1 .. Len(symbols)
      BY <1>1, <1>3
    <3>2. QED
      BY <3>1, <1>6, <1>7
  <2> HIDE DEF v, D
  <2> DEFINE sub == SubSeq(v, k, k + w - 1)
  <2>4. /\ sub \in Seq(D)
        /\ Len(sub) = IF k <= k + w - 1 THEN (k + w - 1) - k + 1 ELSE 0
        /\ \A n \in 1 .. (k + w - 1) - k + 1 : sub[n] = v[k + n - 1]
    BY <2>2, <1>1, <1>3, SubSeqProperties
  <2> HIDE DEF sub
  <2>5. Len(sub) = w /\ \A n \in 1 .. w : sub[n] = v[k + n - 1]
    BY <2>4, <1>1, <1>3
  <2>6. texts = sub
    BY <2>1, <2>3, <2>4, <2>5, SeqEqual
  <2>7. QED
    BY <2>6 DEF sub, v
<1> HIDE DEF texts
<1>9. new[k].string \in Sentences(C, new[k].type)
  <2>1. CASE ByRule(symbols, k, reduction)
    <3>1. PICK body : /\ <<reduction.type, body>> \in Rules
                      /\ w = Len(body)
                      /\ Spells(symbols, k, body)
      BY <2>1 DEF ByRule, w
    <3>2. ASSUME NEW n \in 1 .. w  PROVE texts[n] \in Sentences(C, body[n])
      <4>1. k + n - 1 \in 1 .. Len(symbols) /\ symbols[k + n - 1].type = body[n]
        BY <3>1, <1>1, <1>3 DEF Spells
      <4>2. QED
        BY <4>1, <1>1, <1>7 DEF AllSentences
    <3>3. FlattenSeq(texts) \in Sentences(C, reduction.type)
      BY <3>1, <3>2, <1>7, RulesMakeSentences
    <3>4. QED
      BY <3>3, <1>5 DEF texts
  <2>2. CASE ByWord(symbols, k, reduction)
    <3>1. /\ w = 1 /\ symbols[k].type = "alphabets"
          /\ reduction.type \in Meanings(symbols[k].string, Words)
      BY <2>2 DEF ByWord, w
    <3>2. texts[1] = symbols[k].string
      BY <3>1, <1>1, <1>7
    <3>3. FlattenSeq(texts) = symbols[k].string
      BY <3>1, <3>2, <1>7, FlattenOne
    <3>4. symbols[k].string \in Sentences(C, "alphabets")
      BY <3>1, <1>1 DEF AllSentences
    <3>5. symbols[k].string \in Sentences(C, reduction.type)
      BY <3>1, <3>4, WordsAreSentences
    <3>6. QED
      BY <3>3, <3>5, <1>5 DEF texts
  <2>3. QED
    BY <2>1, <2>2, <1>2
<1>10. AllSentences(C, new)
  <2> SUFFICES ASSUME NEW i \in 1 .. Len(new)
               PROVE  new[i].type \in Types /\ new[i].string \in Sentences(C, new[i].type)
    BY DEF AllSentences
  <2>1. CASE i = k
    BY <2>1, <1>3, <1>5, <1>9
  <2>2. CASE i < k
    <3>1. new[i] = symbols[i] /\ i \in 1 .. Len(symbols)
      BY <2>2, <1>1, <1>5 DEF Replaced
    <3>2. QED
      BY <3>1, <1>1 DEF AllSentences
  <2>3. CASE ~(i <= k)
    <3>1. Len(new) = Len(symbols) - w + 1
      BY <1>5 DEF Replaced
    <3>2. i + w - 1 \in 1 .. Len(symbols) /\ ~(i < k) /\ i # k
      BY <2>3, <3>1, <1>1, <1>3
    <3>3. new[i] = symbols[i + w - 1]
      BY <3>2, <1>5 DEF Replaced
    <3>4. QED
      BY <3>2, <3>3, <1>1 DEF AllSentences
  <2>4. QED
    BY <2>1, <2>2, <2>3, <1>1
<1>11. Text(new) = Text(symbols)
  <2> DEFINE v == Strings(symbols)
             u == Strings(new)
             x == new[k].string
  <2>1. /\ u \in Seq(Seq(C)) /\ Len(u) = Len(new)
        /\ \A i \in 1 .. Len(new) : u[i] = new[i].string
    BY <1>5, <1>10, StringsTyped
  <2>2. /\ v \in Seq(Seq(C)) /\ Len(v) = Len(symbols)
        /\ \A i \in 1 .. Len(symbols) : v[i] = symbols[i].string
    BY <1>6
  <2>3. x = FlattenSeq(SubSeq(v, k, k + w - 1)) /\ x \in Seq(C)
    BY <1>5, <1>7, <1>8, FlattenTyped DEF texts
  <2> HIDE DEF u, v, x
  <2>4. Replaced(v, k, w, x, u)
    <3>1. Len(new) = Len(symbols) - w + 1
      BY <1>5 DEF Replaced
    <3>2. ASSUME NEW i \in 1 .. Len(u)
          PROVE  u[i] = IF i < k THEN v[i] ELSE IF i = k THEN x ELSE v[i + w - 1]
      <4>1. i \in 1 .. Len(new) /\ u[i] = new[i].string
        BY <2>1
      <4>2. new[i] = IF i < k THEN symbols[i] ELSE IF i = k THEN new[k] ELSE symbols[i + w - 1]
        <5>1. \A j \in 1 .. Len(new) :
                new[j] = IF j < k THEN symbols[j] ELSE IF j = k THEN new[k] ELSE symbols[j + w - 1]
          BY <1>5 DEF Replaced
        <5>2. QED
          BY <4>1, <5>1
      <4>3. i < k => i \in 1 .. Len(symbols)
        BY <4>1, <1>1
      <4>4. ~(i < k) => i + w - 1 \in 1 .. Len(symbols)
        BY <4>1, <3>1, <1>1, <1>3
      <4>5. CASE i < k
        BY <4>1, <4>2, <4>3, <4>5, <2>2
      <4>6. CASE i = k
        BY <4>1, <4>2, <4>6, <1>1 DEF x
      <4>7. CASE ~(i < k) /\ i # k
        BY <4>1, <4>2, <4>4, <4>7, <2>2
      <4>8. QED
        BY <4>5, <4>6, <4>7
    <3>3. QED
      BY <3>1, <3>2, <2>1, <2>2 DEF Replaced
  <2>5. k \in 1 .. Len(v) /\ k + w - 1 <= Len(v)
    BY <2>2, <1>3
  <2>6. FlattenSeq(u) = FlattenSeq(v)
    <3>1. Carries(v, k, w, x, u)
      BY <2>1, <2>2, <2>3, <2>4, <2>5, <1>3, Replacement
    <3>2. QED
      BY <3>1, <2>3 DEF Carries
  <2>7. QED
    BY <2>6 DEF u, v, Text
<1>12. Spelled(C, input, new)
  BY <1>1, <1>5, <1>10, <1>11 DEF Spelled
<1>13. QED
  BY <1>12 DEF new, reduction

-----------------------------------------------------------------------------
(* What is still to do: the ranks of the symbols together, as the length   *)
(* of a list that has as many elements as each symbol's rank.              *)
Zeros(n) == [i \in 1 .. n |-> 0]
Efforts(symbols) == [k \in DOMAIN symbols |-> Zeros(Rank(symbols[k].type))]
Effort(symbols) == Len(FlattenSeq(Efforts(symbols)))

(* A rank as a list.                                                       *)
LEMMA ZerosTyped ==
  \A type : /\ Zeros(Rank(type)) \in Seq({0}) /\ Len(Zeros(Rank(type))) = Rank(type)
            /\ Rank(type) \in 1 .. 8
<1> SUFFICES ASSUME NEW type
             PROVE  /\ Zeros(Rank(type)) \in Seq({0}) /\ Len(Zeros(Rank(type))) = Rank(type)
                    /\ Rank(type) \in 1 .. 8
  OBVIOUS
<1>1. Rank(type) \in Nat /\ Rank(type) \in 1 .. 8
  BY Ranks
<1>2. \A n \in Nat : Zeros(n) \in Seq({0}) /\ Len(Zeros(n)) = n
  BY DEF Zeros
<1>3. QED
  BY <1>1, <1>2

(* The efforts of a list.                                                  *)
LEMMA EffortsTyped ==
  ASSUME NEW symbols, IsList(symbols)
  PROVE  /\ Efforts(symbols) \in Seq(Seq({0})) /\ Len(Efforts(symbols)) = Len(symbols)
         /\ \A k \in 1 .. Len(symbols) : Efforts(symbols)[k] = Zeros(Rank(symbols[k].type))
         /\ Effort(symbols) \in Nat
<1>1. Len(symbols) \in Nat /\ DOMAIN symbols = 1 .. Len(symbols)
  BY ListElements
<1>2. \A k \in 1 .. Len(symbols) : Zeros(Rank(symbols[k].type)) \in Seq({0})
  BY ZerosTyped
<1>3. /\ Efforts(symbols) \in Seq(Seq({0})) /\ Len(Efforts(symbols)) = Len(symbols)
      /\ \A k \in 1 .. Len(symbols) : Efforts(symbols)[k] = Zeros(Rank(symbols[k].type))
  BY <1>1, <1>2 DEF Efforts
<1>4. FlattenSeq(Efforts(symbols)) \in Seq({0})
  BY <1>3, FlattenTyped
<1>5. QED
  BY <1>3, <1>4 DEF Effort

(* A reduction leaves less to do.                                          *)
LEMMA ReductionEases ==
  ASSUME NEW symbols, IsList(symbols), NEW k \in 1 .. Len(symbols), symbols[k].type \in Types,
         Reduction(symbols, k) # Leave
  PROVE  Effort(Apply(symbols, k, Reduction(symbols, k))) < Effort(symbols)
<1> DEFINE reduction == Reduction(symbols, k)
           w == Len(reduction.fields)
           new == Apply(symbols, k, reduction)
<1>1. Len(symbols) \in Nat
  BY ListElements
<1>2. /\ w \in Nat \ {0} /\ k + w - 1 <= Len(symbols) /\ reduction.type \in Types
      /\ ByRule(symbols, k, reduction) \/ ByWord(symbols, k, reduction)
  BY <1>1, ReductionFits
<1>3. w \in Nat \ {0} /\ k + w - 1 <= Len(symbols)
  BY <1>2
<1> HIDE DEF reduction
<1>4. w = Len(reduction.fields) /\ new = Apply(symbols, k, reduction)
  OBVIOUS
<1> HIDE DEF new, w
<1>5. /\ IsList(new) /\ Replaced(symbols, k, w, new[k], new)
      /\ new[k].type = reduction.type
  <2>1. Reduces(symbols, k, w, reduction.type, new)
    BY <1>3, <1>4, ApplyReplaces
  <2>2. QED
    BY <2>1 DEF Reduces
<1>6. Rank(reduction.type) < Rank(symbols[k].type) + w - 1
  <2>1. CASE ByRule(symbols, k, reduction)
    <3>1. PICK body : /\ <<reduction.type, body>> \in Rules
                      /\ w = Len(body)
                      /\ Spells(symbols, k, body)
      BY <2>1 DEF ByRule, w
    <3>2. Rank(reduction.type) < Rank(body[1]) + Len(body) - 1
      BY <3>1, RulesFit DEF Fits
    <3>3. symbols[k].type = body[1]
      BY <3>1, <1>1, <1>3 DEF Spells
    <3>4. QED
      BY <3>1, <3>2, <3>3
  <2>2. CASE ByWord(symbols, k, reduction)
    <3>1. /\ w = 1 /\ symbols[k].type = "alphabets"
          /\ reduction.type \in ConstantTypes \cup FunctionTypes
      BY <2>2, MeaningsAreTypes DEF ByWord, w
    <3>2. QED
      BY <3>1, Ranks
  <2>3. QED
    BY <2>1, <2>2, <1>2
<1> DEFINE v == Efforts(symbols)
           u == Efforts(new)
           x == Zeros(Rank(new[k].type))
           taken == SubSeq(v, k, k + w - 1)
<1>7. /\ v \in Seq(Seq({0})) /\ Len(v) = Len(symbols)
      /\ \A i \in 1 .. Len(symbols) : v[i] = Zeros(Rank(symbols[i].type))
  BY EffortsTyped
<1>8. /\ u \in Seq(Seq({0})) /\ Len(u) = Len(new)
      /\ \A i \in 1 .. Len(new) : u[i] = Zeros(Rank(new[i].type))
  BY <1>5, EffortsTyped
<1>9. x \in Seq({0}) /\ Len(x) = Rank(reduction.type)
  BY <1>5, ZerosTyped
<1>10. /\ taken \in Seq(Seq({0})) /\ Len(taken) = w
       /\ \A n \in 1 .. w : taken[n] = v[k + n - 1]
  <2> DEFINE D == Seq({0})
  <2>1. v \in Seq(D)
    BY <1>7
  <2>2. \A n \in k .. k + w - 1 : v[n] \in D
    <3>1. \A n \in k .. k + w - 1 : n \in 1 .. Len(symbols)
      BY <1>1, <1>3
    <3>2. QED
      BY <3>1, <1>7
  <2> HIDE DEF v, D
  <2>3. /\ taken \in Seq(D)
        /\ Len(taken) = IF k <= k + w - 1 THEN (k + w - 1) - k + 1 ELSE 0
        /\ \A n \in 1 .. (k + w - 1) - k + 1 : taken[n] = v[k + n - 1]
    BY <2>2, <1>1, <1>3, SubSeqProperties
  <2> HIDE DEF taken
  <2>4. Len(taken) = w /\ \A n \in 1 .. w : taken[n] = v[k + n - 1]
    BY <2>3, <1>1, <1>3
  <2>5. QED
    BY <2>3, <2>4 DEF D
<1> HIDE DEF v, u, x
<1>11. Replaced(v, k, w, x, u)
  <2>1. Len(new) = Len(symbols) - w + 1
    BY <1>5 DEF Replaced
  <2>2. ASSUME NEW i \in 1 .. Len(u)
        PROVE  u[i] = IF i < k THEN v[i] ELSE IF i = k THEN x ELSE v[i + w - 1]
    <3>1. i \in 1 .. Len(new) /\ u[i] = Zeros(Rank(new[i].type))
      BY <1>8
    <3>2. new[i] = IF i < k THEN symbols[i] ELSE IF i = k THEN new[k] ELSE symbols[i + w - 1]
      <4>1. \A j \in 1 .. Len(new) :
              new[j] = IF j < k THEN symbols[j] ELSE IF j = k THEN new[k] ELSE symbols[j + w - 1]
        BY <1>5 DEF Replaced
      <4>2. QED
        BY <3>1, <4>1
    <3>3. i < k => i \in 1 .. Len(symbols)
      BY <3>1, <1>1
    <3>4. ~(i < k) => i + w - 1 \in 1 .. Len(symbols)
      BY <3>1, <2>1, <1>1, <1>3
    <3>5. CASE i < k
      BY <3>1, <3>2, <3>3, <3>5, <1>7
    <3>6. CASE i = k
      BY <3>1, <3>2, <3>6, <1>1 DEF x
    <3>7. CASE ~(i < k) /\ i # k
      BY <3>1, <3>2, <3>4, <3>7, <1>7
    <3>8. QED
      BY <3>5, <3>6, <3>7
  <2>3. QED
    BY <2>1, <2>2, <1>7, <1>8 DEF Replaced
<1>12. Len(FlattenSeq(taken)) >= Rank(symbols[k].type) + w - 1
  <2> HIDE DEF taken
  <2>1. ASSUME NEW n \in 1 .. w
        PROVE  taken[n] = Zeros(Rank(symbols[k + n - 1].type)) /\ Len(taken[n]) >= 1
    <3>1. k + n - 1 \in 1 .. Len(symbols)
      BY <1>1, <1>3
    <3>2. taken[n] = Zeros(Rank(symbols[k + n - 1].type))
      BY <3>1, <1>7, <1>10
    <3>3. QED
      BY <3>2, ZerosTyped
  <2>2. Len(taken[1]) = Rank(symbols[k].type)
    <3>1. 1 \in 1 .. w /\ k + 1 - 1 = k
      BY <1>3
    <3>2. taken[1] = Zeros(Rank(symbols[k].type))
      BY <3>1, <2>1
    <3>3. QED
      BY <3>2, ZerosTyped
  <2>3. Len(FlattenSeq(taken)) >= Len(taken[1]) + Len(taken) - 1
    <3>1. Len(taken) # 0 /\ \A n \in 1 .. Len(taken) : Len(taken[n]) >= 1
      BY <2>1, <1>3, <1>10
    <3>2. QED
      BY <3>1, <1>10, FlattenLonger
  <2>4. QED
    BY <2>2, <2>3, <1>10
<1>13. Len(x) < Len(FlattenSeq(taken))
  <2>1. FlattenSeq(taken) \in Seq({0})
    BY <1>10, FlattenTyped
  <2>2. Len(FlattenSeq(taken)) \in Nat
    BY <2>1
  <2>3. Rank(reduction.type) \in Nat /\ Rank(symbols[k].type) \in Nat
    BY ZerosTyped
  <2>4. QED
    BY <2>2, <2>3, <1>3, <1>6, <1>9, <1>12
<1>14. Len(FlattenSeq(u)) < Len(FlattenSeq(v))
  <2>1. k \in 1 .. Len(v) /\ k + w - 1 <= Len(v)
    BY <1>3, <1>7
  <2>2. QED
    <3>1. Carries(v, k, w, x, u)
      BY <2>1, <1>3, <1>7, <1>8, <1>9, <1>11, Replacement
    <3>2. QED
      BY <3>1, <1>13 DEF Carries
<1>15. QED
  BY <1>14 DEF u, v, Effort, new, reduction

(* What is put together of short sequences is not too long.                *)
LEMMA FlattenShort ==
  ASSUME NEW C, NEW seqs \in Seq(Seq(C)), \A i \in 1 .. Len(seqs) : Len(seqs[i]) <= 8
  PROVE  Len(FlattenSeq(seqs)) <= 8 * Len(seqs)
<1>1. CASE Len(seqs) = 0
  <2>1. seqs = << >>
    BY <1>1
  <2>2. FlattenSeq(seqs) = << >>
    BY <2>1, FlattenEmpty
  <2>3. QED
    BY <2>2, <1>1
<1>2. CASE Len(seqs) # 0
  <2>1. PICK f : Joins(C, seqs, Len(seqs), f) /\ FlattenSeq(seqs) = f[Len(seqs)]
    BY <1>2, FlattenJoins
  <2> DEFINE S == {i \in Nat : i \in 1 .. Len(seqs) => Len(f[i]) <= 8 * i}
  <2>2. 0 \in S
    OBVIOUS
  <2>3. ASSUME NEW i \in Nat, i \in S  PROVE i + 1 \in S
    <3> SUFFICES ASSUME i + 1 \in 1 .. Len(seqs)  PROVE Len(f[i + 1]) <= 8 * (i + 1)
      OBVIOUS
    <3> DEFINE x == f[i]
               y == seqs[i + 1]
    <3>1. f[i + 1] = IF i + 1 = 1 THEN seqs[1] ELSE f[(i + 1) - 1] \o seqs[i + 1]
      BY <2>1 DEF Joins
    <3>2. y \in Seq(C) /\ Len(y) <= 8 /\ Len(y) \in Nat
      OBVIOUS
    <3>3. CASE i = 0
      BY <3>1, <3>2, <3>3
    <3>4. CASE i # 0
      <4>1. i \in 1 .. Len(seqs) /\ (i + 1) - 1 = i /\ i + 1 # 1
        BY <3>4
      <4>2. x \in Seq(C)
        BY <4>1, <2>1 DEF Joins
      <4>3. Len(x) <= 8 * i
        BY <4>1, <2>3
      <4>4. f[i + 1] = x \o y
        BY <4>1, <3>1
      <4> HIDE DEF x, y
      <4>5. Len(x \o y) = Len(x) + Len(y) /\ Len(x) \in Nat
        BY <3>2, <4>2, ConcatProperties
      <4>6. QED
        BY <3>2, <4>3, <4>4, <4>5
    <3>5. QED
      BY <3>3, <3>4
  <2> HIDE DEF S
  <2>4. \A i \in Nat : i \in S
    BY <2>2, <2>3, InductionBySet
  <2>5. QED
    BY <2>1, <2>4, <1>2 DEF S
<1>3. QED
  BY <1>1, <1>2

(* No more than eight steps for each symbol.                               *)
LEMMA EffortBounded ==
  ASSUME NEW symbols, IsList(symbols)
  PROVE  Effort(symbols) <= 8 * Len(symbols)
<1>1. /\ Efforts(symbols) \in Seq(Seq({0})) /\ Len(Efforts(symbols)) = Len(symbols)
      /\ \A k \in 1 .. Len(symbols) : Efforts(symbols)[k] = Zeros(Rank(symbols[k].type))
  BY EffortsTyped
<1>2. \A k \in 1 .. Len(Efforts(symbols)) : Len(Efforts(symbols)[k]) <= 8
  <2> SUFFICES ASSUME NEW k \in 1 .. Len(symbols)  PROVE Len(Efforts(symbols)[k]) <= 8
    BY <1>1
  <2>1. Efforts(symbols)[k] = Zeros(Rank(symbols[k].type))
    BY <1>1
  <2>2. Len(Zeros(Rank(symbols[k].type))) <= 8
    BY ZerosTyped
  <2>3. QED
    BY <2>1, <2>2
<1>3. QED
  BY <1>1, <1>2, FlattenShort DEF Effort

-----------------------------------------------------------------------------
(* The start: one sentence for each character.                             *)

(* The type of a character.                                                *)
LEMMA CharacterTypes ==
  \A character : substring2symbol_type(character) \in Types
<1> SUFFICES ASSUME NEW character  PROVE substring2symbol_type(character) \in Types
  OBVIOUS
<1>1. "number" \in Types /\ "alphabet" \in Types /\ DOMAIN Marks \subseteq Types
  BY DEF Types
<1>2. CASE \E type \in DOMAIN Marks : Marks[type] = character
  <2>1. (CHOOSE type \in DOMAIN Marks : Marks[type] = character) \in DOMAIN Marks
    BY <1>2
  <2>2. QED
    BY <2>1, <1>1 DEF substring2symbol_type
<1>3. CASE ~ \E type \in DOMAIN Marks : Marks[type] = character
  BY <1>1, <1>3 DEF substring2symbol_type
<1>4. QED
  BY <1>2, <1>3

(* Single elements put together are the sequence.                          *)
LEMMA FlattenSingles ==
  ASSUME NEW C, NEW input \in Seq(C)
  PROVE  FlattenSeq([k \in DOMAIN input |-> <<input[k]>>]) = input
<1> DEFINE seqs == [k \in DOMAIN input |-> <<input[k]>>]
           n == Len(input)
           g == [i \in 1 .. n |-> SubSeq(input, 1, i)]
<1>1. n \in Nat /\ DOMAIN input = 1 .. n /\ \A i \in 1 .. n : input[i] \in C
  OBVIOUS
<1>2. \A i \in 1 .. n : <<input[i]>> \in Seq(C)
  BY <1>1
<1>3. seqs \in Seq(Seq(C)) /\ Len(seqs) = n /\ \A i \in 1 .. n : seqs[i] = <<input[i]>>
  BY <1>1, <1>2
<1>4. ASSUME NEW i \in 1 .. n
      PROVE  /\ g[i] \in Seq(C) /\ Len(g[i]) = i
             /\ \A j \in 1 .. i : g[i][j] = input[j]
  <2>1. \A j \in 1 .. i : input[j] \in C
    BY <1>1
  <2>2. /\ SubSeq(input, 1, i) \in Seq(C)
        /\ Len(SubSeq(input, 1, i)) = IF 1 <= i THEN i - 1 + 1 ELSE 0
        /\ \A j \in 1 .. i - 1 + 1 : SubSeq(input, 1, i)[j] = input[1 + j - 1]
    BY <2>1, <1>1, SubSeqProperties
  <2>3. QED
    BY <2>2, <1>1
<1>5. DOMAIN g = 1 .. n
  OBVIOUS
<1>6. g = [i \in 1 .. n |-> g[i]]
  OBVIOUS
<1> HIDE DEF g, seqs
<1>7. g \in [1 .. n -> Seq(C)]
  BY <1>4, <1>6
<1>8. ASSUME NEW i \in 1 .. n
      PROVE  g[i] = IF i = 1 THEN seqs[1] ELSE g[i - 1] \o seqs[i]
  <2> DEFINE one == <<input[i]>>
  <2>1. one \in Seq(C) /\ Len(one) = 1 /\ one[1] = input[i] /\ seqs[i] = one
    BY <1>2, <1>3
  <2> HIDE DEF one
  <2>2. CASE i = 1
    <3>1. \A j \in 1 .. 1 : g[i][j] = one[j]
      BY <2>1, <2>2, <1>4
    <3>2. g[i] = one
      BY <3>1, <2>1, <2>2, <1>4, SeqEqual
    <3>3. QED
      BY <3>2, <2>1, <2>2
  <2>3. CASE i # 1
    <3> DEFINE p == g[i - 1]
               q == g[i]
               both == p \o one
    <3>1. i - 1 \in 1 .. n
      BY <2>3, <1>1
    <3>2. p \in Seq(C) /\ Len(p) = i - 1 /\ \A j \in 1 .. i - 1 : p[j] = input[j]
      BY <3>1, <1>4
    <3>3. q \in Seq(C) /\ Len(q) = i /\ \A j \in 1 .. i : q[j] = input[j]
      BY <1>4
    <3> HIDE DEF p, q
    <3>4. /\ both \in Seq(C) /\ Len(both) = Len(p) + Len(one)
          /\ \A j \in 1 .. Len(p) + Len(one) :
               both[j] = IF j <= Len(p) THEN p[j] ELSE one[j - Len(p)]
      BY <3>2, <2>1, ConcatProperties
    <3> HIDE DEF both
    <3>5. Len(both) = i
      BY <3>2, <3>4, <2>1, <1>1
    <3>6. ASSUME NEW j \in 1 .. i  PROVE both[j] = q[j]
      <4>1. both[j] = IF j <= i - 1 THEN p[j] ELSE one[j - (i - 1)]
        BY <3>2, <3>4, <3>5
      <4>2. CASE j <= i - 1
        BY <4>1, <4>2, <3>2, <3>3
      <4>3. CASE j = i
        BY <4>1, <4>3, <3>3, <2>1, <1>1
      <4>4. QED
        BY <4>2, <4>3, <1>1
    <3>7. both = q
      BY <3>3, <3>4, <3>5, <3>6, SeqEqual
    <3>8. QED
      BY <3>7, <2>1, <2>3 DEF both, p, q
  <2>4. QED
    BY <2>2, <2>3
<1>9. Joins(C, seqs, n, g)
  BY <1>7, <1>8 DEF Joins
<1>10. CASE n = 0
  <2>1. seqs = << >> /\ input = << >>
    BY <1>3, <1>10
  <2>2. FlattenSeq(seqs) = input
    BY <2>1, FlattenEmpty
  <2>3. QED
    BY <2>2 DEF seqs
<1>11. CASE n # 0
  <2>1. PICK f : Joins(C, seqs, n, f) /\ FlattenSeq(seqs) = f[n]
    <3>1. Len(seqs) # 0
      BY <1>3, <1>11
    <3>2. PICK f : Joins(C, seqs, Len(seqs), f) /\ FlattenSeq(seqs) = f[Len(seqs)]
      BY <3>1, <1>3, FlattenJoins
    <3>3. QED
      BY <3>2, <1>3
  <2>2. n \in 1 .. n
    BY <1>1, <1>11
  <2>3. f[n] = g[n]
    BY <2>1, <2>2, <1>1, <1>9, JoinsAgree
  <2>4. g[n] = input
    <3>1. /\ g[n] \in Seq(C) /\ Len(g[n]) = n
          /\ \A j \in 1 .. n : g[n][j] = input[j]
      BY <2>2, <1>4
    <3>2. QED
      BY <3>1, SeqEqual
  <2>5. QED
    BY <2>1, <2>3, <2>4 DEF seqs
<1>12. QED
  BY <1>10, <1>11

(* lexical_analysis() makes sentences, and loses no character.             *)
LEMMA LexicalSpells ==
  ASSUME NEW C, NEW input \in Seq(C)
  PROVE  /\ Spelled(C, input, lexical_analysis(input))
         /\ Len(lexical_analysis(input)) = Len(input)
<1> DEFINE symbols == lexical_analysis(input)
           Symbol(c) == [type |-> substring2symbol_type(c), string |-> <<c>>, parts |-> <<>>]
           S == {Symbol(c) : c \in C}
<1>1. /\ Len(input) \in Nat /\ DOMAIN input = 1 .. Len(input)
      /\ \A k \in 1 .. Len(input) : input[k] \in C
  OBVIOUS
<1>2. symbols = [k \in DOMAIN input |-> Symbol(input[k])]
  BY DEF lexical_analysis
<1>3. \A c \in C : Symbol(c) \in S
  OBVIOUS
<1>4. \A c \in C : Symbol(c).type = substring2symbol_type(c) /\ Symbol(c).string = <<c>>
  OBVIOUS
<1> HIDE DEF symbols, Symbol, S
<1>5. /\ symbols \in Seq(S) /\ Len(symbols) = Len(input)
      /\ \A k \in 1 .. Len(input) : symbols[k] = Symbol(input[k])
  BY <1>1, <1>2, <1>3
<1>6. IsList(symbols)
  BY <1>5, ListElements
<1>7. AllSentences(C, symbols)
  <2> SUFFICES ASSUME NEW k \in 1 .. Len(symbols)
               PROVE  /\ symbols[k].type \in Types
                      /\ symbols[k].string \in Sentences(C, symbols[k].type)
    BY DEF AllSentences
  <2>1. /\ input[k] \in C /\ symbols[k].type = substring2symbol_type(input[k])
        /\ symbols[k].string = <<input[k]>>
    BY <1>1, <1>4, <1>5
  <2>2. QED
    BY <2>1, CharacterTypes, CharactersAreSentences
<1>8. Strings(symbols) = [k \in DOMAIN input |-> <<input[k]>>]
  <2>1. DOMAIN symbols = DOMAIN input
    BY <1>2
  <2>2. \A k \in DOMAIN input : symbols[k].string = <<input[k]>>
    BY <1>1, <1>4, <1>5
  <2>3. QED
    BY <2>1, <2>2 DEF Strings
<1>9. Text(symbols) = input
  BY <1>8, FlattenSingles DEF Text
<1>10. QED
  BY <1>5, <1>6, <1>7, <1>9 DEF Spelled, symbols

-----------------------------------------------------------------------------
(* The analysis, step by step.                                             *)

(* What holds of an analysis at every step.  While nothing has changed in  *)
(* a pass, no reduction is left where the pass has been.                   *)
Analysis(C, input, a) ==
  /\ Spelled(C, input, a.symbols)
  /\ Len(a.symbols) <= Len(input)
  /\ a.at \in 1 .. Len(a.symbols) + 1
  /\ a.changed \in BOOLEAN
  /\ a = [symbols |-> a.symbols, at |-> a.at, changed |-> a.changed]
  /\ ~a.changed => \A k \in 1 .. a.at - 1 : Reduction(a.symbols, k) = Leave

(* What is left to do: the effort, each unit of it worth two passes, the   *)
(* pass that a change has made necessary, and the rest of this pass.       *)
Passes(a) == 2 * Effort(a.symbols) + (IF a.changed THEN 1 ELSE 0)
Remaining(input, a) == Passes(a) * (Len(input) + 2) + (Len(a.symbols) + 1 - a.at)
Bound(length) == 16 * length * (length + 2) + length

(* The beginning.                                                          *)
LEMMA BeginAnalysis ==
  ASSUME NEW C, NEW input \in Seq(C)
  PROVE  Analysis(C, input, Begin(lexical_analysis(input)))
<1> DEFINE symbols == lexical_analysis(input)
<1>1. Spelled(C, input, symbols) /\ Len(symbols) = Len(input)
  BY LexicalSpells
<1> HIDE DEF symbols
<1>2. Len(input) \in Nat
  OBVIOUS
<1>3. Analysis(C, input, Begin(symbols))
  BY <1>1, <1>2 DEF Analysis, Begin
<1>4. QED
  BY <1>3 DEF symbols

(* A smaller number of passes makes up for a whole pass.                   *)
LEMMA FewerPasses ==
  ASSUME NEW p \in Nat, NEW q \in Nat, p < q, NEW n \in Nat, NEW r \in 0 .. n + 1, NEW s \in Nat
  PROVE  p * (n + 2) + r < q * (n + 2) + s
<1> DEFINE d == q - p - 1
<1>1. d \in Nat /\ q = p + 1 + d
  OBVIOUS
<1> HIDE DEF d
<1>2. q * (n + 2) = p * (n + 2) + (n + 2) + d * (n + 2)
  BY <1>1
<1>3. d * (n + 2) \in Nat /\ p * (n + 2) \in Nat
  BY <1>1
<1>4. QED
  BY <1>2, <1>3

(* A step keeps what holds of an analysis and leaves less to do.           *)
LEMMA AdvanceAnalysis ==
  ASSUME NEW C, NEW input \in Seq(C), NEW a, Analysis(C, input, a), ~Ended(a)
  PROVE  /\ Analysis(C, input, Advance(a))
         /\ Remaining(input, Advance(a)) < Remaining(input, a)
<1> DEFINE symbols == a.symbols
           reduction == Reduction(symbols, a.at)
           b == Advance(a)
           n == Len(input)
<1>1. n \in Nat
  OBVIOUS
<1>2. /\ IsList(symbols) /\ AllSentences(C, symbols) /\ Spelled(C, input, symbols)
      /\ Len(symbols) <= n /\ a.at \in 1 .. Len(symbols) + 1 /\ a.changed \in BOOLEAN
      /\ a = [symbols |-> symbols, at |-> a.at, changed |-> a.changed]
      /\ ~a.changed => \A k \in 1 .. a.at - 1 : Reduction(symbols, k) = Leave
  BY DEF Analysis, Spelled
<1>3. Len(symbols) \in Nat /\ Effort(symbols) \in Nat
  BY <1>2, ListElements, EffortsTyped
<1> HIDE DEF n
<1>4. CASE PassEnded(a)
  <2>1. b = Begin(symbols) /\ a.changed /\ a.at = Len(symbols) + 1
    BY <1>2, <1>3, <1>4 DEF Advance, PassEnded, Ended
  <2>2. b.symbols = symbols /\ b.at = 1 /\ ~b.changed /\ b.changed \in BOOLEAN
        /\ b = [symbols |-> b.symbols, at |-> b.at, changed |-> b.changed]
    BY <2>1 DEF Begin
  <2> HIDE DEF b, symbols
  <2>3. Analysis(C, input, b)
    BY <2>2, <1>1, <1>2, <1>3 DEF Analysis, n
  <2>4. Passes(b) = 2 * Effort(symbols) /\ Passes(a) = 2 * Effort(symbols) + 1
    BY <2>1, <2>2, <1>3 DEF Passes, symbols
  <2>5. Len(b.symbols) + 1 - b.at \in 0 .. n + 1 /\ Len(symbols) + 1 - a.at \in Nat
    BY <2>1, <2>2, <1>1, <1>2, <1>3
  <2>6. Remaining(input, b) < Remaining(input, a)
    <3>1. Passes(b) \in Nat /\ Passes(a) \in Nat /\ Passes(b) < Passes(a)
      BY <2>4, <1>3
    <3>2. QED
      BY <3>1, <2>5, <1>1, FewerPasses DEF Remaining, n, symbols
  <2>7. QED
    BY <2>3, <2>6 DEF b
<1>5. CASE ~PassEnded(a) /\ reduction = Leave
  <2>1. a.at \in 1 .. Len(symbols)
    BY <1>2, <1>3, <1>5 DEF PassEnded
  <2>2. b = [a EXCEPT !.at = @ + 1]
    BY <1>5 DEF Advance
  <2>3. /\ b.symbols = symbols /\ b.at = a.at + 1 /\ b.changed = a.changed
        /\ b = [symbols |-> b.symbols, at |-> b.at, changed |-> b.changed]
    BY <2>2, <1>2
  <2> HIDE DEF b
  <2>4. ~b.changed => \A k \in 1 .. b.at - 1 : Reduction(b.symbols, k) = Leave
    BY <2>1, <2>3, <1>2, <1>3, <1>5
  <2>5. Analysis(C, input, b)
    <3>1. b.at \in 1 .. Len(b.symbols) + 1
      BY <2>1, <2>3, <1>3
    <3>2. QED
      BY <3>1, <2>3, <2>4, <1>2 DEF Analysis, n
  <2>6. Passes(b) = Passes(a) /\ Passes(a) \in Nat
    BY <2>3, <1>2, <1>3 DEF Passes
  <2>7. Remaining(input, b) < Remaining(input, a)
    <3> DEFINE q == Passes(a) * (n + 2)
    <3>1. q \in Nat
      BY <2>6, <1>1
    <3>2. Remaining(input, b) = q + (Len(symbols) + 1 - (a.at + 1))
      BY <2>3, <2>6 DEF Remaining, n
    <3>3. Remaining(input, a) = q + (Len(symbols) + 1 - a.at)
      BY DEF Remaining, n
    <3> HIDE DEF q, symbols
    <3>4. QED
      BY <3>1, <3>2, <3>3, <2>1, <1>3
  <2>8. QED
    BY <2>5, <2>7 DEF b
<1>6. CASE ~PassEnded(a) /\ reduction # Leave
  <2> DEFINE new == Apply(symbols, a.at, reduction)
  <2>1. a.at \in 1 .. Len(symbols)
    BY <1>2, <1>3, <1>6 DEF PassEnded
  <2>2. symbols[a.at].type \in Types
    BY <2>1, <1>2 DEF AllSentences
  <2>3. b = [a EXCEPT !.symbols = new, !.changed = TRUE]
    BY <1>6 DEF Advance
  <2>4. /\ b.symbols = new /\ b.at = a.at /\ b.changed = TRUE
        /\ b = [symbols |-> b.symbols, at |-> b.at, changed |-> b.changed]
    BY <2>3, <1>2
  <2>5. Spelled(C, input, new)
    BY <2>1, <1>2, <1>6, ReductionSpells
  <2>6. Effort(new) < Effort(symbols)
    BY <2>1, <2>2, <1>2, <1>6, ReductionEases
  <2>7. Len(new) <= Len(symbols) /\ a.at <= Len(new) /\ Len(new) \in Nat
    <3> DEFINE w == Len(reduction.fields)
    <3>1. w \in Nat \ {0} /\ a.at + w - 1 <= Len(symbols)
      BY <2>1, <2>2, <1>3, <1>6, ReductionFits
    <3>2. Reduces(symbols, a.at, w, reduction.type, new)
      BY <3>1, <2>1, <1>2, ApplyReplaces
    <3> HIDE DEF w, new, reduction, symbols
    <3>3. Len(new) = Len(symbols) - w + 1
      BY <3>2 DEF Reduces, Replaced
    <3>4. QED
      BY <3>1, <3>3, <2>1, <1>3
  <2>8. Effort(new) \in Nat
    <3>1. IsList(new)
      BY <2>5 DEF Spelled
    <3>2. QED
      BY <3>1, EffortsTyped
  <2> HIDE DEF b, new, reduction, symbols
  <2>9. Analysis(C, input, b)
    <3>1. Len(new) <= n /\ a.at \in 1 .. Len(new) + 1
      BY <2>1, <2>7, <1>1, <1>2, <1>3
    <3>2. QED
      BY <3>1, <2>4, <2>5 DEF Analysis, n
  <2>10. Passes(b) \in Nat /\ Passes(a) \in Nat /\ Passes(b) < Passes(a)
    BY <2>4, <2>6, <2>8, <1>2, <1>3 DEF Passes, symbols
  <2>11. Len(new) + 1 - a.at \in 0 .. n + 1 /\ Len(symbols) + 1 - a.at \in Nat
    BY <2>1, <2>7, <1>1, <1>2, <1>3
  <2>12. Remaining(input, b) < Remaining(input, a)
    BY <2>4, <2>10, <2>11, <1>1, FewerPasses DEF Remaining, n, symbols
  <2>13. QED
    BY <2>9, <2>12 DEF b
<1>7. QED
  BY <1>4, <1>5, <1>6

(* How much is left to do is a number.                                     *)
LEMMA RemainingNatural ==
  ASSUME NEW C, NEW input \in Seq(C), NEW a, Analysis(C, input, a)
  PROVE  Remaining(input, a) \in Nat
<1>1. Len(input) \in Nat /\ IsList(a.symbols)
  BY DEF Analysis, Spelled
<1>2. Len(a.symbols) \in Nat /\ Effort(a.symbols) \in Nat
  BY <1>1, ListElements, EffortsTyped
<1>3. Len(a.symbols) + 1 - a.at \in Nat
  BY <1>2 DEF Analysis
<1>4. Passes(a) \in Nat
  BY <1>2 DEF Passes
<1>5. Passes(a) * (Len(input) + 2) \in Nat
  BY <1>1, <1>4
<1>6. QED
  BY <1>3, <1>5 DEF Remaining

(* At the beginning it is bounded by the length of the input.              *)
LEMMA BeginRemaining ==
  ASSUME NEW C, NEW input \in Seq(C)
  PROVE  Remaining(input, Begin(lexical_analysis(input))) <= Bound(Len(input))
<1> DEFINE symbols == lexical_analysis(input)
           a == Begin(symbols)
           n == Len(input)
<1>1. Spelled(C, input, symbols) /\ Len(symbols) = n
  BY LexicalSpells
<1> HIDE DEF symbols
<1>2. n \in Nat /\ IsList(symbols)
  BY <1>1 DEF Spelled
<1>3. Effort(symbols) <= 8 * n /\ Effort(symbols) \in Nat
  BY <1>1, <1>2, EffortBounded, EffortsTyped
<1>4. a.symbols = symbols /\ a.at = 1 /\ ~a.changed
  BY DEF Begin
<1> HIDE DEF a, n
<1>5. Passes(a) = 2 * Effort(symbols)
  BY <1>3, <1>4 DEF Passes
<1>6. Remaining(input, a) = Passes(a) * (n + 2) + n
  BY <1>1, <1>2, <1>4 DEF Remaining, n
<1>7. Passes(a) <= 16 * n /\ Passes(a) \in Nat
  BY <1>2, <1>3, <1>5
<1>8. \A p, q, m \in Nat : p <= q => p * m <= q * m
  OBVIOUS
<1>9. Passes(a) * (n + 2) <= (16 * n) * (n + 2)
  BY <1>2, <1>7, <1>8
<1>10. Bound(n) = (16 * n) * (n + 2) + n
  BY <1>2 DEF Bound
<1>11. (16 * n) * (n + 2) \in Nat /\ Passes(a) * (n + 2) \in Nat
  BY <1>2, <1>7
<1>12. Remaining(input, a) <= Bound(n)
  BY <1>2, <1>6, <1>9, <1>10, <1>11
<1>13. QED
  BY <1>12 DEF a, n, symbols

-----------------------------------------------------------------------------
(* A run of the analysis: its first n + 1 states, from a on.               *)
Run(a, n, g) ==
  /\ DOMAIN g = 0 .. n
  /\ g[0] = a
  /\ \A i \in 0 .. n - 1 : ~Ended(g[i]) /\ g[i + 1] = Advance(g[i])

(* Every state of a run is one of an analysis.                             *)
LEMMA RunsAreAnalyses ==
  ASSUME NEW C, NEW input \in Seq(C), NEW a, Analysis(C, input, a),
         NEW n \in Nat, NEW g, Run(a, n, g)
  PROVE  \A i \in 0 .. n : Analysis(C, input, g[i])
<1> DEFINE S == {i \in Nat : i <= n => Analysis(C, input, g[i])}
<1>1. 0 \in S
  BY DEF Run
<1>2. ASSUME NEW i \in Nat, i \in S  PROVE i + 1 \in S
  <2> SUFFICES ASSUME i + 1 <= n  PROVE Analysis(C, input, g[i + 1])
    OBVIOUS
  <2>1. i \in 0 .. n - 1 /\ Analysis(C, input, g[i])
    BY <1>2
  <2>2. ~Ended(g[i]) /\ g[i + 1] = Advance(g[i])
    BY <2>1 DEF Run
  <2>3. QED
    BY <2>1, <2>2, AdvanceAnalysis
<1> HIDE DEF S
<1>3. \A i \in Nat : i \in S
  BY <1>1, <1>2, InductionBySet
<1>4. QED
  BY <1>3 DEF S

(* From any state of an analysis a run ends.                               *)
LEMMA RunsEnd ==
  ASSUME NEW C, NEW input \in Seq(C)
  PROVE  \A m \in Nat : \A a : Analysis(C, input, a) /\ Remaining(input, a) <= m =>
           \E n \in 0 .. m : \E g : Run(a, n, g) /\ Ended(g[n])
<1> DEFINE Ends(m) == \A a : Analysis(C, input, a) /\ Remaining(input, a) <= m =>
                        \E n \in 0 .. m : \E g : Run(a, n, g) /\ Ended(g[n])
           S == {m \in Nat : Ends(m)}
<1>1. ASSUME NEW m \in Nat, NEW a, Ended(a)
      PROVE  \E n \in 0 .. m : \E g : Run(a, n, g) /\ Ended(g[n])
  <2> DEFINE g == [i \in 0 .. 0 |-> a]
  <2>1. DOMAIN g = 0 .. 0 /\ g[0] = a /\ 0 .. 0 - 1 = {}
    OBVIOUS
  <2> HIDE DEF g
  <2>2. Run(a, 0, g) /\ Ended(g[0])
    BY <2>1, <1>1 DEF Run
  <2>3. QED
    BY <2>2
<1>2. 0 \in S
  <2> SUFFICES ASSUME NEW a, Analysis(C, input, a), Remaining(input, a) <= 0
               PROVE  \E n \in 0 .. 0 : \E g : Run(a, n, g) /\ Ended(g[n])
    OBVIOUS
  <2>1. CASE Ended(a)
    BY <2>1, <1>1
  <2>2. CASE ~Ended(a)
    <3>1. /\ Analysis(C, input, Advance(a))
          /\ Remaining(input, Advance(a)) < Remaining(input, a)
      BY <2>2, AdvanceAnalysis
    <3>2. Remaining(input, Advance(a)) \in Nat /\ Remaining(input, a) \in Nat
      BY <3>1, RemainingNatural
    <3>3. QED
      BY <3>1, <3>2
  <2>3. QED
    BY <2>1, <2>2
<1>3. ASSUME NEW m \in Nat, m \in S  PROVE m + 1 \in S
  <2> SUFFICES ASSUME NEW a, Analysis(C, input, a), Remaining(input, a) <= m + 1
               PROVE  \E n \in 0 .. m + 1 : \E g : Run(a, n, g) /\ Ended(g[n])
    OBVIOUS
  <2>1. CASE Ended(a)
    BY <2>1, <1>1
  <2>2. CASE ~Ended(a)
    <3>1. /\ Analysis(C, input, Advance(a))
          /\ Remaining(input, Advance(a)) < Remaining(input, a)
      BY <2>2, AdvanceAnalysis
    <3>2. Remaining(input, Advance(a)) \in Nat /\ Remaining(input, a) \in Nat
      BY <3>1, RemainingNatural
    <3>3. Remaining(input, Advance(a)) <= m
      BY <3>1, <3>2
    <3>4. Ends(m)
      BY <1>3
    <3>5. PICK n \in 0 .. m : \E g : Run(Advance(a), n, g) /\ Ended(g[n])
      BY <3>1, <3>3, <3>4
    <3>6. PICK g : Run(Advance(a), n, g) /\ Ended(g[n])
      BY <3>5
    <3> DEFINE h == [i \in 0 .. n + 1 |-> IF i = 0 THEN a ELSE g[i - 1]]
    <3>7. DOMAIN h = 0 .. n + 1 /\ h[0] = a /\ \A i \in 0 .. n : h[i + 1] = g[i]
      OBVIOUS
    <3> HIDE DEF h
    <3>8. ASSUME NEW i \in 0 .. (n + 1) - 1
          PROVE  ~Ended(h[i]) /\ h[i + 1] = Advance(h[i])
      <4>1. CASE i = 0
        <5>1. h[0 + 1] = g[0]
          BY <3>7
        <5>2. QED
          BY <4>1, <5>1, <3>6, <3>7, <2>2 DEF Run
      <4>2. CASE i # 0
        <5> DEFINE j == i - 1
        <5>1. j \in 0 .. n - 1 /\ j \in 0 .. n /\ j + 1 \in 0 .. n /\ i = j + 1
          BY <4>2
        <5> HIDE DEF j
        <5>2. ~Ended(g[j]) /\ g[j + 1] = Advance(g[j])
          BY <5>1, <3>6 DEF Run
        <5>3. h[j + 1] = g[j] /\ h[(j + 1) + 1] = g[j + 1]
          BY <5>1, <3>7
        <5>4. QED
          BY <5>1, <5>2, <5>3
      <4>3. QED
        BY <4>1, <4>2
    <3>9. Run(a, n + 1, h)
      BY <3>7, <3>8 DEF Run
    <3>10. Ended(h[n + 1]) /\ n + 1 \in 0 .. m + 1
      BY <3>6, <3>7
    <3>11. QED
      BY <3>9, <3>10
  <2>3. QED
    BY <2>1, <2>2
<1> HIDE DEF S
<1>4. \A m \in Nat : m \in S
  BY <1>2, <1>3, InductionBySet
<1>5. QED
  BY <1>4 DEF S

(* calc.c:1889-1894, 3259-3261: syntactic_analysis() ends, whatever the    *)
(* input is: it cannot reduce for ever, nor call itself again for ever.    *)
(* An input of n characters takes 16n(n + 2) + n steps of the loop at most *)
(* (each of them looks at one symbol, or begins a pass).                   *)
THEOREM AnalysisEnds ==
  ASSUME NEW C, NEW input \in Seq(C)
  PROVE  \E n \in 0 .. Bound(Len(input)) : \E g :
           Run(Begin(lexical_analysis(input)), n, g) /\ Ended(g[n])
<1> DEFINE a == Begin(lexical_analysis(input))
           m == Bound(Len(input))
<1>1. Analysis(C, input, a) /\ Remaining(input, a) <= m
  BY BeginAnalysis, BeginRemaining
<1>2. Len(input) \in Nat
  OBVIOUS
<1>3. m \in Nat
  BY <1>2 DEF Bound
<1> HIDE DEF a, m
<1>4. \E n \in 0 .. m : \E g : Run(a, n, g) /\ Ended(g[n])
  BY <1>1, <1>3, RunsEnd
<1>5. QED
  BY <1>4 DEF a, m

(* At every step of the analysis every symbol is a sentence of its type in *)
(* the grammar at the head of calc.c, and the symbols still spell the      *)
(* input.  So the input of which one <formula> is left is a formula.       *)
THEOREM AcceptsOnlySentences ==
  ASSUME NEW C, NEW input \in Seq(C), NEW n \in Nat, NEW g,
         Run(Begin(lexical_analysis(input)), n, g)
  PROVE  LET symbols == g[n].symbols
         IN  /\ Text(symbols) = input
             /\ \A k \in 1 .. Len(symbols) : symbols[k].string \in Sentences(C, symbols[k].type)
             /\ Len(symbols) = 1 /\ symbols[1].type = "formula" => input \in Sentences(C, "formula")
<1> DEFINE symbols == g[n].symbols
<1>1. Analysis(C, input, g[n])
  BY BeginAnalysis, RunsAreAnalyses
<1>2. IsList(symbols) /\ AllSentences(C, symbols) /\ Text(symbols) = input
  BY <1>1 DEF Analysis, Spelled
<1> HIDE DEF symbols
<1>3. \A k \in 1 .. Len(symbols) : symbols[k].string \in Sentences(C, symbols[k].type)
  BY <1>2 DEF AllSentences
<1>4. ASSUME Len(symbols) = 1, symbols[1].type = "formula"
      PROVE  input \in Sentences(C, "formula")
  <2> DEFINE texts == Strings(symbols)
  <2>1. texts \in Seq(Seq(C)) /\ Len(texts) = 1 /\ texts[1] = symbols[1].string
    BY <1>2, <1>4, StringsTyped
  <2> HIDE DEF texts
  <2>2. FlattenSeq(texts) = texts[1]
    BY <2>1, FlattenOne
  <2>3. input = symbols[1].string
    BY <2>1, <2>2, <1>2 DEF Text, texts
  <2>4. QED
    BY <2>3, <1>3, <1>4
<1>5. QED
  BY <1>2, <1>3, <1>4 DEF symbols

(* When the analysis ends, nothing is left to reduce anywhere in the list: *)
(* no pass stops short of a reduction that an earlier part of it made      *)
(* possible.                                                               *)
THEOREM NothingLeftToReduce ==
  ASSUME NEW C, NEW input \in Seq(C), NEW n \in Nat, NEW g,
         Run(Begin(lexical_analysis(input)), n, g), Ended(g[n])
  PROVE  \A k \in 1 .. Len(g[n].symbols) : Reduction(g[n].symbols, k) = Leave
<1>1. Analysis(C, input, g[n])
  BY BeginAnalysis, RunsAreAnalyses
<1>2. Len(g[n].symbols) \in Nat
  BY <1>1, ListElements DEF Analysis, Spelled
<1>3. g[n].at - 1 = Len(g[n].symbols) /\ ~g[n].changed
  BY <1>1, <1>2 DEF Analysis, Ended, PassEnded
<1>4. QED
  BY <1>1, <1>3 DEF Analysis
=============================================================================

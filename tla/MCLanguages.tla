----------------------------- MODULE MCLanguages ------------------------------
(***************************************************************************)
(* The two languages that the system reads by recursive rules, each with   *)
(* its own typist: a behaviour derives a table of the ACPI machine         *)
(* language (AmlSentences), or types a formula for the calculator          *)
(* (CalculatorSentences).                                                  *)
(***************************************************************************)
EXTENDS AmlSentences

CONSTANTS Length, Slips, SlipLength

VARIABLES subject, argv, expects, depth, slips
Calc == INSTANCE CalculatorSentences

MCInit ==
    /\ subject \in {"table", "formula"}
    /\ Init
    /\ Calc!Init

Derive ==
    /\ subject = "table"
    /\ Next
    /\ UNCHANGED <<subject, argv, expects, depth, slips>>

TypeFormula ==
    /\ subject = "formula"
    /\ Calc!Next
    /\ UNCHANGED <<subject, form>>

MCSpec == MCInit /\ [][Derive \/ TypeFormula]_<<subject, form, argv, expects, depth, slips>>

(* What main() of calc.c prints is a meaning of the formula it was given,  *)
(* as the grammar at its head has it: the order in which                   *)
(* syntactic_analysis() reduces takes no sentence for another.             *)
PrintsMeaning == Calc!PrintsMeaning

(* main() of calc.c accepts every formula of its grammar, but those whose  *)
(* factor i is stranded behind a parenthesis or a signed whole number.     *)
AcceptsSentence == Calc!AcceptsSentence
===============================================================================

------------------------------ MODULE AmlParser -------------------------------
(***************************************************************************)
(* The recursive descent of src/kernel/acpi.c over a table of bytes: the   *)
(* functions analyse_aml_* as the productions of AmlGrammar describe them, *)
(* the search for the method a name invokes (get_aml_method), and the way  *)
(* the shutdown command finds the sleep type of the S5 state.              *)
(*                                                                         *)
(* A symbol is a record: the function that read it, which is the name of   *)
(* the pointer to it as well; the type and the flags that this function    *)
(* assigned; the index `at' of its first byte (string.initial) and its     *)
(* length (string.length); its children; and whether it or a symbol below  *)
(* it was flagged AML_SYMBOL_ERROR.  A field that was never assigned is    *)
(* Unassigned.  `undefined' tells that its function has read beyond the    *)
(* table, or decided upon a field that was never assigned: the analysis    *)
(* then stops here, for the program may do anything.                       *)
(*                                                                         *)
(* An AMLSubstring is the index of its first byte and its length, which    *)
(* the code subtracts from without a test and compares with 0, or casts to *)
(* int: the 32 bits are read as a signed number.                           *)
(***************************************************************************)
EXTENDS AmlGrammar, SequencesExt

Substring(at, length) == [at |-> at, length |-> length]

(* table: the bytes after the header.  Byte i is table[i + 1]. *)
Inside(table, i) == i < Len(table)
ByteAt(table, i) == table[i + 1]

NewSymbol(function, p, aml) ==
    [function |-> function, type |-> IF p.type = Own THEN function ELSE p.type, flags |-> p.flags,
     at |-> aml.at, length |-> 0, error |-> FALSE, undefined |-> FALSE, kids |-> <<>>]
Adopt(symbol, kid) ==
    [symbol EXCEPT !.length = @ + kid.length, !.error = @ \/ kid.error,
                   !.undefined = @ \/ kid.undefined, !.kids = Append(@, kid)]
Flag(symbol, outcome) ==
    IF outcome.error THEN [symbol EXCEPT !.flags = "error", !.error = TRUE] ELSE symbol
Undefine(symbol) == [symbol EXCEPT !.undefined = TRUE]

(* The child that a function has read. *)
Kid(symbol, function) ==
    symbol.kids[CHOOSE k \in DOMAIN symbol.kids : symbol.kids[k].function = function]
HasKid(symbol, function) == \E k \in DOMAIN symbol.kids : symbol.kids[k].function = function

(***************************************************************************)
(* Terminals.                                                              *)
(***************************************************************************)
AnalyseByte(table, p, symbol, aml) ==
    CASE ~p.tests -> [symbol EXCEPT !.length = 1]
      [] p.tests /\ aml.length = 0 -> Flag(symbol, p.empty)
      [] p.tests /\ aml.length # 0 /\ ~Inside(table, aml.at) -> Undefine(symbol)
      [] OTHER -> Flag([symbol EXCEPT !.length = 1], [error |-> ByteAt(table, aml.at) \notin p.accepts])

(***************************************************************************)
(* What a switch selects.  "undefined": it reads beyond the table.         *)
(***************************************************************************)
Selected(table, p, aml) ==
    LET byte == ByteAt(table, aml.at)
        second == ByteAt(table, aml.at + 1)
    IN  CASE p.empty # Unguarded /\ aml.length = 0 -> p.empty
          [] OTHER ->
               IF ~Inside(table, aml.at) THEN Unguarded
               ELSE IF byte = ExtOpPrefix /\ DOMAIN p.ext # {}
               THEN IF ~Inside(table, aml.at + 1) THEN Unguarded
                    ELSE IF second \in DOMAIN p.ext THEN Go(p.ext[second]) ELSE p.otherExt
               ELSE IF byte \in DOMAIN p.on THEN Go(p.on[byte]) ELSE p.other

(***************************************************************************)
(* Numbers and names.                                                      *)
(***************************************************************************)

(* The length a package announces, its own bytes included. *)
PackageLength(table, pkg) ==
    LET byte(k) == ByteAt(table, pkg.kids[k].at)
        more == Len(pkg.kids) - 1
        bytes == [k \in 1..more |-> byte(k + 1)]
    IN  IF more = 0 THEN byte(1) % 64
        ELSE 16 * FoldRight(LAMBDA b, value : 256 * value + b, bytes, 0) + (byte(1) % 16)

(* The symbols of a repetition whose length is in the table: the bytes of  *)
(* pkg_length after the lead byte, the segments of multi_name_path.        *)
Repetition(table, kid) ==
    CASE kid.function = "pkg_lead_byte" -> [k \in 1..(ByteAt(table, kid.at) \div 64) |-> "byte_data"]
      [] kid.function = "seg_count" -> [k \in 1..ByteAt(table, kid.at) |-> "name_seg"]
      [] OTHER -> <<>>

(* The child after which the function reads a byte it has no leave to read. *)
ReadsBeyond(table, kid) ==
    /\ kid.function \in {"pkg_lead_byte", "seg_count"}
    /\ ~Inside(table, kid.at)

(* name_string.string: the characters of the path, without its prefixes.   *)
(* name_path leaves its string unassigned when the path begins with no     *)
(* byte it knows, and name_string takes its length.                        *)
RECURSIVE NameText(_, _)
NameText(table, symbol) ==
    IF symbol.function \in {"root_char", "parent_prefix_char", "lead_name_char", "digit_char"}
    THEN <<ByteAt(table, symbol.at)>>
    ELSE FlattenSeq([k \in DOMAIN symbol.kids |-> NameText(table, symbol.kids[k])])
Nameless(symbol) == symbol.function = "name_path" /\ symbol.kids = <<>>

(***************************************************************************)
(* get_aml_method: the definition of the method of this name.              *)
(***************************************************************************)

(* The types it searches, each with the children it descends into.         *)
SearchedKids ==
    [ def_device |-> {"term_list"}, def_else |-> {"term_list"}, def_if_else |-> {"term_list", "def_else"},
      def_method |-> {"term_list"}, def_scope |-> {"term_list"}, def_while |-> {"term_list"},
      name_space_modifier_obj |-> {"def_scope"}, named_obj |-> {"def_device", "def_method"},
      object |-> {"name_space_modifier_obj", "named_obj"}, statement_opcode |-> {"def_if_else", "def_while"},
      term_list |-> {"term_list", "term_obj"}, term_obj |-> {"object", "statement_opcode"} ]

NotFound == [type |-> "not_found", undefined |-> FALSE]

(* Below a symbol, the last of several definitions is taken.               *)
RECURSIVE MethodWithin(_, _, _)
MethodWithin(table, name, symbol) ==
    IF symbol.type = "def_method" /\ NameText(table, Kid(symbol, "name_string")) = name THEN symbol
    ELSE IF symbol.type \notin DOMAIN SearchedKids THEN NotFound
    ELSE FoldRight(LAMBDA kid, found : IF found # NotFound THEN found ELSE MethodWithin(table, name, kid),
                   SelectSeq(symbol.kids, LAMBDA kid : kid.function \in SearchedKids[symbol.type]), NotFound)

(* The symbols whose function leaves term_list unassigned until it has     *)
(* read it: from a place inside their term_list they are read too early.   *)
LeavesUnassigned == {"def_device", "def_method", "def_scope", "def_while"}

(* Upwards from an invocation: up is the sequence of the symbols around    *)
(* it, each with the children it has so far.  What a symbol is, is told by *)
(* its type, also when that was never assigned.                            *)
RECURSIVE MethodAround(_, _, _)
MethodAround(table, name, up) ==
    IF up = <<>> THEN NotFound
    ELSE LET symbol == Last(up)
             found == MethodWithin(table, name, symbol)
         IN  IF symbol.type = Unassigned THEN Undefine(symbol)
             ELSE IF found # NotFound THEN found
             ELSE IF symbol.type \in LeavesUnassigned THEN Undefine(symbol)
             ELSE MethodAround(table, name, Front(up))

(* The method of the innermost invocation of up, and how many of its       *)
(* arguments are still to be read: each list around reads one.             *)
InvocationOf(up) == SelectLastInSeq(up, LAMBDA symbol : symbol.function = "method_invocation")
InvokedMethod(table, up) ==
    LET outer == SubSeq(up, 1, InvocationOf(up))
    IN  MethodAround(table, NameText(table, Kid(Last(outer), "name_string")), outer)
ArgCount(table, method) == ByteAt(table, Kid(method, "method_flags").at) % 8
ArgsLeft(table, method, up) ==
    IF method = NotFound THEN 0 ELSE ArgCount(table, method) - (Len(up) - InvocationOf(up))

(***************************************************************************)
(* Symbols with children.                                                  *)
(***************************************************************************)
(* Mutant: the subtraction stops at zero. *)
AdvanceClipped(table, p, aml, kid) ==
    LET rest == IF p.bounded /\ kid.function = "pkg_length" THEN PackageLength(table, kid) - kid.length
                ELSE IF p.grows THEN aml.length + kid.length
                ELSE aml.length - kid.length
    IN  Substring(aml.at + kid.length, IF rest < 0 THEN 0 ELSE rest)

(* Mutant: the bytes of the length itself are not subtracted. *)
AdvanceWhole(table, p, aml, kid) ==
    [at |-> aml.at + kid.length,
     length |-> IF p.bounded /\ kid.function = "pkg_length" THEN PackageLength(table, kid)
                ELSE IF p.grows THEN aml.length + kid.length
                ELSE aml.length - kid.length]

Advance(table, p, aml, kid) ==
    [at |-> aml.at + kid.length,
     length |-> IF p.bounded /\ kid.function = "pkg_length" THEN PackageLength(table, kid) - kid.length
                ELSE IF p.grows THEN aml.length + kid.length
                ELSE aml.length - kid.length]

RECURSIVE Analyse(_, _, _, _), Call(_, _, _, _, _)

(* Call the functions of parts; state: the symbol so far and its aml.      *)
Call(table, p, parts, state, up) ==
    IF parts = <<>> \/ state.symbol.undefined THEN state
    ELSE LET kid == Analyse(table, Head(parts), state.aml, Append(up, state.symbol))
             symbol == Adopt(state.symbol, kid)
             read == IF ReadsBeyond(table, kid) \/ Nameless(kid) THEN Undefine(symbol) ELSE symbol
         IN  IF read.undefined THEN [state EXCEPT !.symbol = read]
             ELSE Call(table, p, Repetition(table, kid) \o Tail(parts),
                       [symbol |-> read, aml |-> Advance(table, p, state.aml, kid)], up)

(* The part of a function after the calls of p.before: the switch, then    *)
(* what follows the package, which the length of the table bounds.         *)
Choose(table, p, state, up) ==
    LET outcome == Selected(table, p, state.aml)
        ended == p.ends /\ (state.aml.length = 0 \/ Last(state.symbol.kids).length = 0)
    IN  IF ~p.chooses \/ state.symbol.undefined \/ ended THEN state
        ELSE IF outcome = Unguarded THEN [state EXCEPT !.symbol = Undefine(@)]
        ELSE Call(table, p, outcome.parts, [state EXCEPT !.symbol = Flag(@, outcome)], up)
Follow(table, p, aml, state, up) ==
    IF p.after = <<>> THEN state
    ELSE LET read == state.symbol.length
         IN  Call(table, [p EXCEPT !.bounded = FALSE], p.after,
                  [state EXCEPT !.aml = Substring(aml.at + read, aml.length - read)], up)
Overrun(p, state) == [error |-> p.checked /\ state.aml.length < 0]

Finish(p, body, whole) == Flag(Flag(whole.symbol, Overrun(p, body)), Overrun(p, whole))
FinishBody(table, p, aml, body, up) == Finish(p, body, Follow(table, p, aml, body, up))
AnalyseParts(table, p, symbol, aml, up) ==
    FinishBody(table, p, aml,
               Choose(table, p, Call(table, p, p.before, [symbol |-> symbol, aml |-> aml], up), up), up)

(* term_arg_list asks the method how many arguments are left.              *)
AnalyseArguments(table, p, symbol, method, aml, up) ==
    CASE method.undefined -> Undefine(symbol)
      [] ~method.undefined /\ ArgsLeft(table, method, up) = 0 -> symbol
      [] OTHER -> AnalyseParts(table, p, symbol, aml, up)

(* A symbol at aml.  up: the symbols around it.                            *)
AnalyseAs(table, p, symbol, aml, up) ==
    CASE p.kind = "byte" -> AnalyseByte(table, p, symbol, aml)
      [] symbol.function = "term_arg_list" ->
           AnalyseArguments(table, p, symbol, InvokedMethod(table, up), aml, up)
      [] p.kind # "byte" /\ p.ends /\ aml.length = 0 -> symbol
      [] OTHER -> AnalyseParts(table, p, symbol, aml, up)
Analyse(table, function, aml, up) ==
    AnalyseAs(table, Production[function], NewSymbol(function, Production[function], aml), aml, up)

(***************************************************************************)
(* create_dsdt_aml_syntax_tree, and ACPI_COMMAND_DECODE_AML of a file.     *)
(***************************************************************************)
SyntaxTree(table) == Analyse(table, "term_list", Substring(0, Len(table)), <<>>)

(***************************************************************************)
(* The sleep type of S5.                                                   *)
(***************************************************************************)

(* get_aml_def_name: the first place where the name stands after a NameOp. *)
S5Name == <<\h5f, \h53, \h35, \h5f>>
NameOp == \h08
S5Places(table) ==
    {i \in 1..(Len(table) - 4) : table[i] = NameOp /\ SubSeq(table, i + 1, i + 4) = S5Name}
DefNameAt(table, at) == Analyse(table, "def_name", Substring(at, Len(table) - at), <<>>)

(* Follow the children of these names; a missing one is a null pointer,    *)
(* which the code reads through.                                           *)
NullPointer == [undefined |-> TRUE]
Descend(symbol, functions) ==
    FoldLeft(LAMBDA s, f : IF s # NullPointer /\ HasKid(s, f) THEN Kid(s, f) ELSE NullPointer,
             symbol, functions)

(* The little-endian number in the bytes of a constant, after its prefix;  *)
(* dword_data takes its four bytes from the first of its words.            *)
Number(table, symbol) ==
    FoldRight(LAMBDA b, value : 256 * value + b, SubSeq(table, symbol.at + 2, symbol.at + symbol.length), 0)

(* The value of an element of the package: of a byte or a constant object, *)
(* of a wider constant, or of what is not implemented.  qword_data assigns *)
(* its value to itself.                                                    *)
Element(size, v) == [size |-> size, value |-> v]
NotImplemented == Element("none", 0)
ConstantValue(table, constant) ==
    LET Is(function) == HasKid(constant, function)
        number(function) == Number(table, Kid(constant, function))
    IN  CASE Is("byte_const")  -> Element("byte", number("byte_const"))
          [] Is("const_obj")   -> Element("byte", ByteAt(table, constant.at))
          [] Is("word_const")  -> Element("wide", number("word_const"))
          [] Is("dword_const") -> Element("wide", number("dword_const"))
          [] Is("qword_const") -> NullPointer
          [] OTHER             -> NotImplemented
DataValue(table, held) ==
    CASE held = NullPointer -> NullPointer
      [] held # NullPointer /\ HasKid(held, "computational_data") ->
           ConstantValue(table, Kid(held, "computational_data"))
      [] OTHER -> NotImplemented
SleepElement(table, list, functions) ==
    DataValue(table, Descend(list, functions \o <<"package_element", "data_ref_object", "data_object">>))

(* Mutant: the bytes of PM1a and PM1b are swapped.                         *)
Result(v) == [kind |-> "result", value |-> v]
BothRegistersSwapped(pm1a, pm1b) ==
    CASE pm1a = NullPointer \/ pm1b = NullPointer -> NullPointer
      [] pm1a # NullPointer /\ pm1a.size = "wide" -> Result(pm1a.value % 65536)
      [] OTHER -> Result(256 * pm1a.value + (pm1b.value % 256))

(* get_aml_s5_pm1_cnt_slp_typ, with the elements for the registers PM1a    *)
(* and PM1b.  It returns a wide first element at once, in the 16 bits of   *)
(* its result; of a wide second one the byte pm1b_cnt_slp_typ takes 8.     *)
SecondRegister(pm1a, pm1b) ==
    CASE pm1b = NullPointer -> NullPointer
      [] pm1b # NullPointer /\ pm1b.size = "none" -> Result(0)
      [] OTHER -> Result(256 * (pm1b.value % 256) + pm1a.value)
BothRegisters(pm1a, pm1b) ==
    CASE pm1a = NullPointer -> NullPointer
      [] pm1a # NullPointer /\ pm1a.size = "none" -> Result(0)
      [] pm1a # NullPointer /\ pm1a.size = "wide" -> Result(pm1a.value % 65536)
      [] OTHER -> SecondRegister(pm1a, pm1b)
ElementsType(table, list) ==
    BothRegisters(SleepElement(table, list, <<>>), SleepElement(table, list, <<"package_element_list">>))
PackageType(table, package) ==
    CASE Descend(package, <<"package_element_list", "package_element", "data_ref_object", "data_object">>)
             = NullPointer -> NullPointer
      [] ByteAt(table, Kid(package, "num_elements").at) = 0 -> Result(0)
      [] OTHER -> ElementsType(table, Kid(package, "package_element_list"))
NameType(table, name) ==
    IF name.undefined THEN NullPointer
    ELSE PackageType(table, Descend(name, <<"data_ref_object", "data_object", "def_package">>))
SleepType(table) ==
    IF S5Places(table) = {} THEN NullPointer
    ELSE NameType(table, DefNameAt(table, Min(S5Places(table)) - 1))
==============================================================================

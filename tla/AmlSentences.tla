----------------------------- MODULE AmlSentences -----------------------------
(***************************************************************************)
(* Tables in the ACPI machine language, derived from the grammar in the    *)
(* comments above the functions analyse_aml_* of src/kernel/acpi.c: the    *)
(* reference that AmlParser is compared with.  A step chooses the          *)
(* alternative of the leftmost symbol that has several; what has one       *)
(* alternative is rewritten on the way.  Where the comments offer          *)
(* alternatives that the code does not read, the rules leave them out      *)
(* (README.md lists them).                                                 *)
(*                                                                         *)
(* A derivation has Budget to pay for its choices with.  Besides the names *)
(* of the grammar, the rules use names of their own for a symbol in one of *)
(* its contexts; Label gives the grammar's names for them.                 *)
(***************************************************************************)
EXTENDS AmlParser

CONSTANTS Budget, RareCost

VARIABLE form    \* the derivation so far, see Init
vars == <<form>>

(***************************************************************************)
(* Rules: the alternatives of the symbols that have several.               *)
(***************************************************************************)
Costing(n, alternatives) == [k \in DOMAIN alternatives |-> [cost |-> n, parts |-> alternatives[k]]]
Free(alternatives) == Costing(0, alternatives)
Paid(alternatives) == Costing(1, alternatives)
Rare(alternatives) == Costing(RareCost, alternatives)
Each(symbols) == [k \in DOMAIN symbols |-> <<symbols[k]>>]
Optional(parts) == Free(<<(<<>>)>>) \o Paid(<<parts>>)

(* A package ends with "close", which fills in its length.  A method       *)
(* declared in a block is found from inside the block only.                *)
Closed(parts) == parts \o <<"close">>
Blocked(parts) == SubSeq(parts, 1, 2) \o <<"block">> \o SubSeq(parts, 3, Len(parts)) \o <<"unblock", "close">>
Method(flags, declare) ==
    <<"method_op", "pkg_length", "foo_name", flags, "block", declare, "term_list", "unblock", "close", declare>>

OtherExpressions ==
    <<"def_and", "def_concat", "def_concat_res", "def_cond_ref_of", "def_decrement", "def_deref_of", "def_divide",
      "def_find_set_right_bit", "def_increment", "def_index", "def_l_and",
      "def_l_equal", "def_l_greater", "def_l_less", "def_l_not", "def_l_or", "def_match", "def_mid",
      "def_multiply", "def_not", "def_object_type", "def_or", "def_package", "def_shift_left",
      "def_shift_right", "def_size_of", "def_subtract", "def_to_buffer", "def_to_hex_string",
      "def_to_integer", "def_xor">>
Rules ==
    [ term_list |-> Optional(<<"term_obj", "term_list">>),
      term_obj |-> Free(Each(<<"object", "statement_opcode", "expression_opcode">>)),
      object |-> Free(Each(<<"name_space_modifier_obj", "named_obj">>)),
      name_space_modifier_obj |-> Free(Each(<<"def_name", "def_scope">>)) \o Rare(Each(<<"def_alias">>)),
      named_obj |-> Free(Each(<<"def_device", "def_method">>))
        \o Rare(Each(<<"def_create_bit_field", "def_create_byte_field", "def_create_dword_field",
                       "def_create_field", "def_create_qword_field", "def_create_word_field", "def_field",
                       "def_mutex", "def_op_region", "def_processor", "def_thermal_zone">>)),
      def_method |-> Free(<<Method("flags_0", "declare_0"), Method("flags_1", "declare_1"),
                            Method("flags_2", "declare_2")>>),
      statement_opcode |-> Free(Each(<<"def_if_else", "def_while", "def_break">>))
        \o Rare(Each(<<"def_notify", "def_release", "def_return", "def_sleep", "def_stall">>)),
      def_else |-> Optional(<<"else_op", "pkg_length", "term_list", "close">>),
      expression_opcode |-> Free(Each(<<"def_store", "def_find_set_left_bit", "invoke_foo", "invoke_bar">>))
        \o Rare(Each(<<"def_acquire", "def_add">> \o OtherExpressions)),
      arg_expression |-> Free(Each(<<"def_add", "invoke_foo">>)) \o Rare(Each(<<"def_store">> \o OtherExpressions)),
      def_object_type |-> Free(<<(<<"object_type_op", "simple_name">>)>>)
        \o Paid(<<(<<"object_type_op", "def_deref_of">>), (<<"object_type_op", "def_index">>)>>),
      term_arg |-> Free(Each(<<"constant">>)) \o Paid(Each(<<"arg_expression">>))
        \o Rare(Each(<<"arg_obj", "local_obj">>)),
      data_object |-> Free(Each(<<"computational_data">>)) \o Paid(Each(<<"def_package">>)),
      computational_data |-> Free(Each(<<"const_obj">>)) \o Paid(Each(<<"byte_const">>))
        \o Rare(Each(<<"def_buffer", "dword_const", "qword_const", "revision_op", "string", "word_const">>)),
      const_obj |-> Free(Each(<<"zero_op">>)) \o Rare(Each(<<"one_op", "ones_op">>)),
      def_name |-> Free(<<def_name.before, (<<"name_op", "s5_name", "s5_object">>)>>),
      s5_rest |-> Free(<<(<<"s5_data">>)>>) \o Paid(<<(<<"s5_data", "package_element_list">>)>>),
      s5_data |-> Free(Each(<<"s5_zero", "s5_byte">>)) \o Paid(Each(<<"s5_word">>))
        \o Rare(Each(<<"s5_one", "s5_ones", "s5_dword">>)),
      package_element_list |-> Optional(<<"package_element", "package_element_list">>),
      package_element |-> Free(Each(<<"data_ref_object", "name_string">>)),
      pkg_length |-> Free(Each(<<"one_byte">>)) \o Rare(Each(<<"two_bytes">>)),
      target |-> Free(Each(<<"null_name">>)) \o Paid(Each(<<"super_name">>)),
      super_name |-> Free(Each(<<"simple_name">>)) \o Paid(Each(<<"debug_obj", "reference_type_opcode">>)),
      reference_type_opcode |-> Free(Each(<<"def_deref_of", "def_index", "def_ref_of">>)),
      simple_name |-> Free(Each(<<"local_obj">>)) \o Rare(Each(<<"arg_obj", "bar_name">>)),
      name_string |-> Free(Each(<<"seg_path">>))
        \o Rare(<<(<<"root_char", "null_path">>), (<<"root_char", "seg_path">>), (<<"parent_path", "seg_path">>),
                  (<<"parent_path", "dual_path">>), (<<"multi_path">>)>>),
      ascii_char_list |-> Optional(<<"ascii_char", "ascii_char_list">>),
      byte_list |-> Optional(<<"byte_data", "byte_list">>),
      field_list |-> Optional(<<"field_element", "field_list">>),
      field_element |-> Free(Each(<<"named_field", "reserved_field", "access_field">>)) ]

(* Symbols of one alternative that is not the one of Production.           *)
OneName == <<"lead_name_char", "name_char", "name_char", "name_char">>
Only ==
    [ def_buffer |-> Closed(def_buffer.before), def_field |-> Closed(def_field.before),
      def_package |-> Closed(def_package.before), def_processor |-> Closed(def_processor.before),
      def_thermal_zone |-> Closed(def_thermal_zone.before), def_scope |-> Blocked(def_scope.before),
      def_device |-> Blocked(def_device.before), def_while |-> Blocked(def_while.before) ]
    @@ [ def_if_else |-> Closed(def_if_else.before) \o <<"def_else">>,
         named_field |-> <<"name_seg", "field_length">>, reserved_field |-> <<"reserved_field_op", "field_length">>,
         field_length |-> <<"pkg_lead_byte">>, data_ref_object |-> <<"data_object">>,
         name_char |-> <<"lead_name_char">>, constant |-> <<"computational_data">>,
         multi_name_path |-> <<"multi_name_prefix", "seg_count", "name_seg", "name_seg">>,
         bar_name |-> OneName, foo_name |-> <<"F", "O", "O", "_">>, s5_name |-> <<"_lead", "S", "5", "_">>,
         seg_path |-> <<"name_seg">>, null_path |-> <<"null_name">>, dual_path |-> <<"dual_name_path">>,
         multi_path |-> <<"multi_name_path">>, parent_path |-> <<"parent_prefix_char">>,
         invoke_bar |-> <<"bar_name">>, args_1 |-> <<"term_arg">>, args_2 |-> <<"term_arg", "args_1">>,
         s5_object |-> <<"package_op", "pkg_length", "num_elements", "s5_list", "close">>,
         s5_list |-> <<"s5_data", "s5_rest">>, s5_byte |-> <<"byte_prefix", "s5_5">>,
         s5_word |-> <<"word_prefix", "s5_1234">>, s5_dword |-> <<"dword_prefix", "s5_12345678">>,
         s5_1234 |-> <<"s5_34", "s5_12">>, s5_5678 |-> <<"s5_78", "s5_56">>,
         s5_12345678 |-> <<"s5_5678", "s5_1234">> ]

(* The names the grammar has for a symbol.                                 *)
Named(symbols, labels) == [s \in symbols |-> labels]
ElementPath == <<"package_element_list", "package_element", "data_ref_object", "data_object">>
Renamed ==
       Named({"foo_name", "bar_name", "s5_name"}, <<"name_string", "name_path", "name_seg">>)
    @@ Named({"seg_path", "null_path", "dual_path", "multi_path"}, <<"name_path">>)
    @@ Named({"parent_path"}, <<"prefix_path">>)
    @@ Named({"arg_expression"}, <<"expression_opcode">>) @@ Named({"constant"}, <<"data_object">>)
    @@ Named({"invoke_foo", "invoke_bar"}, <<"method_invocation">>)
    @@ Named({"args_1", "args_2"}, <<"term_arg_list">>)
    @@ Named({"s5_object"}, <<"data_ref_object", "data_object", "def_package">>)
    @@ Named({"s5_list", "s5_rest"}, ElementPath) @@ Named({"s5_data"}, <<"computational_data">>)
    @@ Named({"s5_zero"}, <<"const_obj", "zero_op">>) @@ Named({"s5_one"}, <<"const_obj", "one_op">>)
    @@ Named({"s5_ones"}, <<"const_obj", "ones_op">>) @@ Named({"s5_byte"}, <<"byte_const">>)
    @@ Named({"s5_word"}, <<"word_const">>)
    @@ Named({"s5_dword"}, <<"dword_const">>) @@ Named({"s5_12345678"}, <<"dword_data">>)
    @@ Named({"s5_1234", "s5_5678"}, <<"word_data">>)
    @@ Named({"s5_5", "s5_12", "s5_34", "s5_56", "s5_78"}, <<"byte_data">>) @@ Named({"field_length"}, <<"pkg_length">>)
    @@ Named({"F", "_lead"}, <<"lead_name_char">>) @@ Named({"O", "S", "_"}, <<"name_char", "lead_name_char">>)
    @@ Named({"5"}, <<"name_char", "digit_char">>) @@ Named({"flags_0", "flags_1", "flags_2"}, <<"method_flags">>)
    @@ Named({"one_byte"}, <<"pkg_lead_byte">>) @@ Named({"two_bytes"}, <<"pkg_lead_byte", "byte_data">>)
    @@ Named({"close", "block", "unblock", "declare_0", "declare_1", "declare_2"}, <<>>)
Label(symbol) == IF symbol \in DOMAIN Renamed THEN Renamed[symbol] ELSE <<symbol>>

(* The bytes a symbol puts into the table; of a terminal that takes any of *)
(* several bytes, one stands for all.                                      *)
Spelled ==
    [ F |-> <<\h46>>, O |-> <<\h4f>>, S |-> <<\h53>>, _lead |-> <<\h5f>>,
      flags_0 |-> <<0>>, flags_1 |-> <<1>>, flags_2 |-> <<2>>,
      s5_zero |-> <<\h00>>, s5_one |-> <<\h01>>, s5_ones |-> <<\hff>>, s5_5 |-> <<\h05>>,
      s5_12 |-> <<\h12>>, s5_34 |-> <<\h34>>, s5_56 |-> <<\h56>>, s5_78 |-> <<\h78>>,
      one_byte |-> <<0>>, two_bytes |-> <<0, 0>>, byte_data |-> <<2>>, seg_count |-> <<2>>, pkg_lead_byte |-> <<3>> ]
    @@ [ s \in {"_"} |-> <<\h5f>> ] @@ [ s \in {"5"} |-> <<\h35>> ]

(* The values of the elements of an _S5_ package.                          *)
Elements ==
    [ s5_zero |-> Element("byte", \h00), s5_one |-> Element("byte", \h01), s5_ones |-> Element("byte", \hff),
      s5_byte |-> Element("byte", \h05), s5_word |-> Element("wide", \h1234),
      s5_dword |-> Element("wide", \h12345678) ]

(* What a symbol that has one alternative is rewritten to, and the bytes   *)
(* it puts into the table.                                                 *)
Step(parts, bytes) == [parts |-> parts, bytes |-> bytes]
Produced(p) == IF p.kind = "byte" THEN Step(<<>>, <<Min(p.accepts)>>) ELSE Step(p.before, <<>>)
OnlyStep(productions) ==
    [symbol \in DOMAIN Spelled |-> Step(<<>>, Spelled[symbol])]
    @@ [symbol \in DOMAIN Only |-> Step(Only[symbol], <<>>)]
    @@ [symbol \in DOMAIN productions |-> Produced(productions[symbol])]
Steps == OnlyStep(Production)

(***************************************************************************)
(* The derivation.  table: the bytes so far; types: the grammar's symbols  *)
(* that stand for at least a byte, in the order of the leftmost            *)
(* derivation; todo: the symbols still to be rewritten; open: the packages *)
(* whose length is not known yet; blocks: what the name FOO_ invokes, and  *)
(* whether an unknown name is searched up to the root without meeting an   *)
(* unassigned pointer; s5: the values of the elements of _S5_ packages.    *)
(***************************************************************************)
None == 3        \* FOO_ is not declared
Hidden == 4      \* FOO_ of an inner block is found, against the rules of the name space
Start == [table |-> <<>>, types |-> <<>>, todo |-> <<"term_list">>, budget |-> Budget, open |-> <<>>,
          blocks |-> <<[foo |-> None, outermost |-> TRUE]>>, s5 |-> <<>>]

Known(f) == Last(f.blocks).foo \in 0..2
Arguments(f) == <<(<<>>), (<<"args_1">>), (<<"args_2">>)>>[Last(f.blocks).foo + 1]
Offered(f, alternatives) ==
    SelectSeq(alternatives, LAMBDA a : /\ a.cost <= f.budget
                                       /\ a.parts = <<"invoke_foo">> => Known(f)
                                       /\ a.parts = <<"invoke_bar">> => Last(f.blocks).outermost)
Alternatives(f, symbol) ==
    CASE symbol = "invoke_foo" -> Costing(0, <<(<<"foo_name">> \o Arguments(f))>>)
      [] symbol \in DOMAIN Rules -> Offered(f, Rules[symbol])
      [] symbol \in DOMAIN Steps \ DOMAIN Rules -> Costing(0, <<Steps[symbol].parts>>)
      [] OTHER -> Costing(0, <<(<<>>)>>)

(* The length of the innermost package is filled in at its end.            *)
FillIn(table, package) ==
    LET length == Len(table) - package.at
    IN  [k \in DOMAIN table |->
           CASE k = package.at + 1 /\ package.bytes = 1 -> length
             [] k = package.at + 1 /\ package.bytes = 2 -> 64 + (length % 16)
             [] k = package.at + 2 /\ package.bytes = 2 -> length \div 16
             [] OTHER -> table[k]]
Declare(f, n) == [f EXCEPT !.blocks = Append(Front(@), [Last(@) EXCEPT !.foo = n])]
Leave(f) ==
    LET outer == [f EXCEPT !.blocks = Front(@)]
    IN  IF Last(f.blocks).foo = None THEN outer ELSE Declare(outer, Hidden)
Effect(f, symbol, at) ==
    CASE symbol = "one_byte" -> [f EXCEPT !.open = Append(@, [at |-> at, bytes |-> 1])]
      [] symbol = "two_bytes" -> [f EXCEPT !.open = Append(@, [at |-> at, bytes |-> 2])]
      [] symbol = "close" -> [f EXCEPT !.table = FillIn(@, Last(f.open)), !.open = Front(@)]
      [] symbol = "block" -> [f EXCEPT !.blocks = Append(@, [foo |-> None, outermost |-> FALSE])]
      [] symbol = "unblock" -> Leave(f)
      [] symbol = "declare_0" -> Declare(f, 0)
      [] symbol = "declare_1" -> Declare(f, 1)
      [] symbol = "declare_2" -> Declare(f, 2)
      [] symbol \in DOMAIN Elements -> [f EXCEPT !.s5 = Append(@, Elements[symbol])]
      [] OTHER -> f

Spelling(symbol) == IF symbol \in DOMAIN Steps THEN Steps[symbol].bytes ELSE <<>>
RewriteAs(f, symbol, alternative, spelling) ==
    Effect([f EXCEPT !.todo = alternative.parts \o Tail(@), !.budget = @ - alternative.cost,
                     !.types = IF alternative.parts = <<>> /\ spelling = <<>> THEN @ ELSE @ \o Label(symbol),
                     !.table = @ \o spelling],
           symbol, Len(f.table))
Rewrite(f, symbol, alternative) == RewriteAs(f, symbol, alternative, Spelling(symbol))

(* Rewrite what has one alternative, up to the next choice.                *)
RECURSIVE Settle(_)
SettleAt(f, symbol, alternatives) ==
    IF Len(alternatives) # 1 THEN f ELSE Settle(Rewrite(f, symbol, alternatives[1]))
Settle(f) == IF f.todo = <<>> THEN f ELSE SettleAt(f, Head(f.todo), Alternatives(f, Head(f.todo)))

Init == form = Settle(Start)
Choice ==
    /\ form.todo # <<>>
    /\ \E alternative \in ToSet(Alternatives(form, Head(form.todo))) :
         form' = Settle(Rewrite(form, Head(form.todo), alternative))
Next == Choice
Spec == Init /\ [][Next]_vars

Complete == form.todo = <<>>

(***************************************************************************)
(* Properties.                                                             *)
(***************************************************************************)
RECURSIVE Symbols(_), FunctionsOf(_), LastPath(_)
Symbols(symbol) == <<symbol>> \o FlattenSeq([k \in DOMAIN symbol.kids |-> Symbols(symbol.kids[k])])
FunctionsOf(symbol) ==
    IF symbol.length = 0 THEN <<>>
    ELSE <<symbol.function>> \o FlattenSeq([k \in DOMAIN symbol.kids |-> FunctionsOf(symbol.kids[k])])
LastPath(symbol) ==
    <<symbol.function>> \o (IF symbol.kids = <<>> THEN <<>> ELSE LastPath(Last(symbol.kids)))

(* A table of the language is read to its end, no symbol is flagged, and   *)
(* the syntax tree is its derivation: every object, every package and every *)
(* argument of a method invocation is where the table has it.  The symbols *)
(* have their own type, but for those of the four functions that assign    *)
(* another one, or forget the type or the flags (acpi.c:2643, 2667, 2935,  *)
(* 2976).                                                                  *)
Untyped == {"def_find_set_left_bit", "def_find_set_right_bit"}
Misassigned == Untyped \cup {"def_l_not", "def_match"}
WellAssigned(symbol) ==
    symbol.function \notin Misassigned => symbol.type = symbol.function /\ symbol.flags = "clear"
IsDerivation(tree) ==
    /\ ~tree.undefined /\ ~tree.error
    /\ tree.length = Len(form.table)
    /\ FunctionsOf(tree) = form.types
    /\ \A symbol \in ToSet(Symbols(tree)) : WellAssigned(symbol)

(* The exception: a method is invoked inside a symbol without a type, and  *)
(* the search for its definition goes by that type.                        *)
SearchesUntyped(tree) ==
    /\ tree.undefined
    /\ Last(LastPath(tree)) = "term_arg_list"
    /\ ToSet(LastPath(tree)) \cap Untyped # {}
ReadRight(tree) == IsDerivation(tree) \/ SearchesUntyped(tree)
SentenceRead == Complete => ReadRight(SyntaxTree(form.table))

(* A package whose length is one short of what it holds is flagged, unless *)
(* its last byte is an object of its own, which then follows the package:  *)
(* the lengths of nested packages are checked against each other.          *)
ItemTypes == {"term_obj", "package_element", "byte_data", "field_element"}
PackageTypes == {t \in DOMAIN Production : Production[t].kind = "symbol" /\ Production[t].checked}
NotSilent(tree) == tree.error \/ tree.undefined
LastByte(pkg) == pkg.at + PackageLength(form.table, pkg) - 1
ShortFlagged(symbols) ==
    \A p \in {s \in symbols : s.function \in PackageTypes /\ HasKid(s, "pkg_length")} :
       \/ \E item \in symbols : item.function \in ItemTypes /\ item.at = LastByte(Kid(p, "pkg_length"))
       \/ NotSilent(SyntaxTree([form.table EXCEPT ![Kid(p, "pkg_length").at + 1] = @ - 1]))
ShortPackageFlagged == Complete => ShortFlagged(ToSet(Symbols(SyntaxTree(form.table))))

(* The sleep types of the registers PM1a and PM1b, the first two elements  *)
(* of the first _S5_ package, reach the shutdown command in the bytes 0    *)
(* and 1 of one word: the low byte of the second whatever its size, the    *)
(* first if it has one byte.  A first element of a word or of a double     *)
(* word fills both bytes and leaves PM1b out (acpi.c:9459-9466).           *)
SleepTypes(pm1a, pm1b) ==
    IF pm1a.size = "wide" THEN pm1a.value % 65536 ELSE 256 * (pm1b.value % 256) + pm1a.value
SleepTypeFound ==
    Complete /\ form.s5 # <<>> => SleepType(form.table) = Result(SleepTypes(form.s5[1], form.s5[2]))
==============================================================================

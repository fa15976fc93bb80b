----------------------------- MODULE AmlTerminals -----------------------------
(***************************************************************************)
(* The terminals of the ACPI machine language that the functions           *)
(* analyse_aml_* of src/kernel/acpi.c read, one definition per function,   *)
(* in the order of the file.                                               *)
(*                                                                         *)
(*   Terminal(S)        takes one byte; a byte outside S is taken all the  *)
(*                      same and flagged AML_SYMBOL_ERROR                  *)
(*                                                                         *)
(* AmlGrammar holds the symbols with children, AmlParser runs them.        *)
(***************************************************************************)
EXTENDS Integers, Sequences, TLC

Bytes == \h00..\hff

(* What is called on one outcome of a test: the functions, and whether the *)
(* symbol is flagged AML_SYMBOL_ERROR.                                     *)
Go(parts) == [parts |-> parts, error |-> FALSE]
Nothing == Go(<<>>)
Flagged == [parts |-> <<>>, error |-> TRUE]

(* What a function assigns to the type of its symbol: the type named as    *)
(* the function is.  A field that it never assigns keeps what malloc()     *)
(* returned.                                                               *)
Own == "own"
Unassigned == "unassigned"

(* A terminal: tests - whether the function tests aml.length and the byte; *)
(* empty - the outcome at aml.length = 0; type, flags - what it assigns to *)
(* the fields of its symbol.                                               *)
Terminal(S) ==
    [kind |-> "byte", accepts |-> S, tests |-> TRUE, empty |-> Flagged, type |-> Own, flags |-> "clear"]

ExtOpPrefix == \h5b
ArgOps == \h68..\h6e
LocalOps == \h60..\h67
LeadNameChars == (\h41..\h5a) \cup {\h5f}
DigitChars == \h30..\h39

(* The bytes that begin a constant, an expression, an object and a         *)
(* statement in the switches of term_arg, term_obj and the lists.          *)
DataOps == (\h0a..\h0e) \cup {\h00, \h01, \h11, \hff}
ExpressionOps ==
    (\h72..\h7b) \cup (\h7f..\h84) \cup (\h87..\h89) \cup (\h90..\h96)
      \cup {\h12, \h5c, \h5e, \h70, \h7d, \h8e, \h98, \h99, \h9e}
ObjectOps == (\h8a..\h8d) \cup {\h06, \h08, \h10, \h14, \h8f}
StatementOps == {\h86, \ha0, \ha2, \ha4, \ha5}

access_field_op == Terminal({\h01})
acquire_op_suffix == Terminal({\h23})
alias_op == Terminal({\h06})
add_op == Terminal({\h72})
and_op == Terminal({\h7b})
arg_op == Terminal(ArgOps)
ascii_char == Terminal(\h01..\h7f)
break_op == Terminal({\ha5})
buffer_op == Terminal({\h11})
byte_data == Terminal(Bytes)
byte_prefix == Terminal({\h0a})
concat_op == Terminal({\h73})
concat_res_op == Terminal({\h84})
cond_ref_of_op_suffix == Terminal({\h12})
create_bit_field_op == Terminal({\h8d})
create_byte_field_op == Terminal({\h8c})
create_dword_field_op == Terminal({\h8a})
create_field_op_suffix == Terminal({\h13})
create_qword_field_op == Terminal({\h8f})
create_word_field_op == Terminal({\h8b})
debug_op_suffix == Terminal({\h31})
decrement_op == Terminal({\h76})
deref_of_op == Terminal({\h83})
device_op_suffix == Terminal({\h82})
digit_char == Terminal(DigitChars)
divide_op == Terminal({\h78})
dual_name_prefix == Terminal({\h2e})
dword_prefix == Terminal({\h0c})
else_op == Terminal({\ha1})
ext_op_prefix == Terminal({\h5b})
field_flags == Terminal(\h00..\h7f)
field_op_suffix == Terminal({\h81})
find_set_left_bit_op == Terminal({\h81})
find_set_right_bit_op == Terminal({\h82})
if_op == Terminal({\ha0})
increment_op == Terminal({\h75})
index_field_op_suffix == Terminal({\h86})
index_op == Terminal({\h88})
lead_name_char == Terminal(LeadNameChars)
l_and_op == Terminal({\h90})
l_equal_op == Terminal({\h93})
l_greater_op == Terminal({\h94})
l_less_op == Terminal({\h95})
l_not_op == Terminal({\h92})
l_or_op == Terminal({\h91})
local_op == Terminal(LocalOps)
match_op == Terminal({\h89})
method_flags == Terminal(Bytes)
method_op == Terminal({\h14})
mid_op == Terminal({\h9e})
multi_name_prefix == Terminal({\h2f})
multiply_op == Terminal({\h77})
name_op == Terminal({\h08})
not_op == Terminal({\h80})
notify_op == Terminal({\h86})
null_char == Terminal({\h00})
null_name == Terminal({\h00})
object_type_op == Terminal({\h8e})
one_op == Terminal({\h01})
ones_op == Terminal({\hff})
op_region_op_suffix == Terminal({\h80})
or_op == Terminal({\h7d})
package_op == Terminal({\h12})
parent_prefix_char == Terminal({\h5e})
processor_op_suffix == Terminal({\h83})
ref_of_op == Terminal({\h71})
qword_prefix == Terminal({\h0e})
region_space == Terminal(Bytes)
release_op_suffix == Terminal({\h27})
return_op == Terminal({\ha4})
reserved_field_op == Terminal({\h00})
revision_op_suffix == Terminal({\h30})
root_char == Terminal({\h5c})
scope_op == Terminal({\h10})
seg_count == Terminal(\h01..\hff)
shift_left_op == Terminal({\h79})
shift_right_op == Terminal({\h7a})
size_of_op == Terminal({\h87})
sleep_op_suffix == Terminal({\h22})
stall_op_suffix == Terminal({\h21})
store_op == Terminal({\h70})
string_prefix == Terminal({\h0d})
subtract_op == Terminal({\h74})
sync_flags == Terminal(\h00..\h0f)
thermal_zone_op_suffix == Terminal({\h85})
to_buffer_op == Terminal({\h96})
to_hex_string_op == Terminal({\h98})
to_integer_op == Terminal({\h99})
while_op == Terminal({\ha2})
word_prefix == Terminal({\h0b})
xor_op == Terminal({\h7f})
zero_op == Terminal({\h00})
===============================================================================

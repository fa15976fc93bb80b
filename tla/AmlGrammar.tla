------------------------------ MODULE AmlGrammar ------------------------------
(***************************************************************************)
(* The symbols with children of the ACPI machine language that the         *)
(* functions analyse_aml_* of src/kernel/acpi.c read, one definition per   *)
(* function, in the order of the file.  A function is described by what it *)
(* calls:                                                                  *)
(*                                                                         *)
(*   Sequence(ps)       calls the functions of ps one after the other      *)
(*   Package(op, body)  <op> <pkg_length> and a body that runs in the      *)
(*                      length that pkg_length announces                   *)
(*   Switch(on)         calls what the byte at aml.initial selects         *)
(*   OptionalOn(S, ps)  calls ps when the next byte is in S, else nothing  *)
(*                                                                         *)
(* AmlTerminals holds the terminals; AmlParser runs both.                  *)
(***************************************************************************)
EXTENDS AmlTerminals

(* aml.length is not tested before aml.initial is read. *)
Unguarded == [guarded |-> FALSE]

(* A symbol with children: before - called first; on, ext, other, otherExt *)
(* - the switch on the next byte, and on the one after EXT_OP_PREFIX;      *)
(* empty - the outcome of the switch at aml.length = 0; after - called on  *)
(* what follows the package; bounded - pkg_length sets aml.length; checked *)
(* - a negative aml.length is flagged at the end; grows - aml.length is    *)
(* increased by what was read; ends - the function returns at              *)
(* aml.length = 0, and after a child that took nothing; type, flags - what *)
(* it assigns to the fields of its symbol.                                 *)
Sequence(parts) ==
    [kind |-> "symbol", before |-> parts, chooses |-> FALSE, on |-> <<>>, ext |-> <<>>,
     other |-> Flagged, otherExt |-> Flagged, empty |-> Unguarded, after |-> <<>>,
     bounded |-> TRUE, checked |-> FALSE, grows |-> FALSE, ends |-> FALSE,
     type |-> Own, flags |-> "clear"]
Package(op, body) == [Sequence(<<op, "pkg_length">> \o body) EXCEPT !.checked = TRUE]
On(bytes, parts) == [b \in bytes |-> parts]
Switch(on) == [Sequence(<<>>) EXCEPT !.chooses = TRUE, !.on = on]
OptionalOn(bytes, parts) == [Switch(On(bytes, parts)) EXCEPT !.other = Nothing]

access_attrib == Sequence(<<"byte_data">>)
access_field == Sequence(<<"access_field_op", "access_type", "access_attrib">>)
access_type == Sequence(<<"byte_data">>)
acquire_op == Sequence(<<"ext_op_prefix", "acquire_op_suffix">>)
arg_obj == Sequence(<<"arg_op">>)
arg_object == Sequence(<<"term_arg">>)
ascii_char_list == OptionalOn(\h01..\h7f, <<"ascii_char", "ascii_char_list">>)
bit_index == Sequence(<<"term_arg">>)
buf_data == Sequence(<<"term_arg">>)
buff_pkg_str_obj == Sequence(<<"term_arg">>)
buffer_size == Sequence(<<"term_arg">>)
byte_const == Sequence(<<"byte_prefix", "byte_data">>)
byte_index == Sequence(<<"term_arg">>)
byte_list == [OptionalOn(Bytes, <<"byte_data", "byte_list">>) EXCEPT !.empty = Nothing]
computational_data ==
    Switch( On({\h11}, <<"def_buffer">>)   @@ On({\h0a}, <<"byte_const">>)
         @@ On({\h0c}, <<"dword_const">>)  @@ On({ExtOpPrefix}, <<"revision_op">>)
         @@ On({\h00, \h01, \hff}, <<"const_obj">>)
         @@ On({\h0e}, <<"qword_const">>)  @@ On({\h0d}, <<"string">>)
         @@ On({\h0b}, <<"word_const">>))
cond_ref_of_op == Sequence(<<"ext_op_prefix", "cond_ref_of_op_suffix">>)
const_obj ==
    Switch(On({\h01}, <<"one_op">>) @@ On({\hff}, <<"ones_op">>) @@ On({\h00}, <<"zero_op">>))
create_field_op == Sequence(<<"ext_op_prefix", "create_field_op_suffix">>)
data == Sequence(<<"term_arg">>)
data_object ==
    Switch(On(DataOps \cup {ExtOpPrefix}, <<"computational_data">>) @@ On({\h12}, <<"def_package">>))
data_ref_object == Switch(On(DataOps \cup {ExtOpPrefix, \h12}, <<"data_object">>))
debug_obj == Sequence(<<"debug_op">>)
debug_op == Sequence(<<"ext_op_prefix", "debug_op_suffix">>)
def_alias == Sequence(<<"alias_op", "name_string", "name_string">>)
def_acquire == Sequence(<<"acquire_op", "mutex_object", "time_out">>)
def_add == Sequence(<<"add_op", "operand", "operand", "target">>)
def_and == Sequence(<<"and_op", "operand", "operand", "target">>)
def_break == Sequence(<<"break_op">>)
def_buffer == Package("buffer_op", <<"buffer_size", "byte_list">>)
def_concat == Sequence(<<"concat_op", "data", "data", "target">>)
def_concat_res == Sequence(<<"concat_res_op", "buf_data", "buf_data", "target">>)
def_cond_ref_of == Sequence(<<"cond_ref_of_op", "super_name", "target">>)
def_create_bit_field == Sequence(<<"create_bit_field_op", "source_buff", "byte_index", "name_string">>)
def_create_byte_field == Sequence(<<"create_byte_field_op", "source_buff", "byte_index", "name_string">>)
def_create_dword_field == Sequence(<<"create_dword_field_op", "source_buff", "byte_index", "name_string">>)
def_create_field == Sequence(<<"create_field_op", "source_buff", "bit_index", "num_bits", "name_string">>)
def_create_qword_field == Sequence(<<"create_qword_field_op", "source_buff", "byte_index", "name_string">>)
def_create_word_field == Sequence(<<"create_word_field_op", "source_buff", "byte_index", "name_string">>)
def_decrement == Sequence(<<"decrement_op", "super_name">>)
def_deref_of == Sequence(<<"deref_of_op", "obj_reference">>)
def_device == Package("device_op", <<"name_string", "term_list">>)
def_divide == Sequence(<<"divide_op", "dividend", "divisor", "remainder", "quotient">>)
def_else ==
    [Switch(On({\ha1}, Package("else_op", <<"term_list">>).before))
       EXCEPT !.other = Nothing, !.empty = Nothing, !.checked = TRUE]
def_field == Package("field_op", <<"name_string", "field_flags", "field_list">>)
def_find_set_left_bit ==
    [Sequence(<<"find_set_left_bit_op", "operand", "target">>) EXCEPT !.type = Unassigned]
def_find_set_right_bit ==
    [Sequence(<<"find_set_right_bit_op", "operand", "target">>) EXCEPT !.type = Unassigned]
def_if_else ==
    [Package("if_op", <<"predicate", "term_list">>) EXCEPT !.after = <<"def_else">>]
def_increment == Sequence(<<"increment_op", "super_name">>)
def_index == Sequence(<<"index_op", "buff_pkg_str_obj", "index_value", "target">>)
def_index_field ==
    [Sequence(<<"index_field_op", "pkg_length", "name_string", "name_string", "field_flags", "field_list">>)
       EXCEPT !.bounded = FALSE, !.grows = TRUE]
def_l_and == Sequence(<<"l_and_op", "operand", "operand">>)
def_l_equal == Sequence(<<"l_equal_op", "operand", "operand">>)
def_l_greater == Sequence(<<"l_greater_op", "operand", "operand">>)
def_l_less == Sequence(<<"l_less_op", "operand", "operand">>)
def_l_not ==    \* its type is overwritten by 0 where its flags are to be cleared
    [Sequence(<<"l_not_op", "operand">>) EXCEPT !.type = "access_attrib", !.flags = Unassigned]
def_l_or == Sequence(<<"l_or_op", "operand", "operand">>)
def_match ==
    [Sequence(<<"match_op", "search_pkg", "match_opcode", "operand", "match_opcode", "operand", "start_index">>)
       EXCEPT !.flags = Unassigned]
def_method == Package("method_op", <<"name_string", "method_flags", "term_list">>)
def_mid == Sequence(<<"mid_op", "mid_obj", "term_arg", "term_arg", "target">>)
def_multiply == Sequence(<<"multiply_op", "operand", "operand", "target">>)
def_mutex == Sequence(<<"mutex_op", "name_string", "sync_flags">>)
def_name == Sequence(<<"name_op", "name_string", "data_ref_object">>)
def_not == Sequence(<<"not_op", "operand", "target">>)
def_notify == Sequence(<<"notify_op", "notify_object", "notify_value">>)
def_object_type ==
    [Switch( On(ArgOps \cup LocalOps \cup LeadNameChars \cup {\h00, \h5c, \h5e}, <<"simple_name">>)
          @@ On({\h31}, <<"debug_obj">>) @@ On({\h83}, <<"def_deref_of">>) @@ On({\h88}, <<"def_index">>))
       EXCEPT !.before = <<"object_type_op">>, !.empty = Flagged]
def_op_region == Sequence(<<"op_region_op", "name_string", "region_space", "region_offset", "region_len">>)
def_or == Sequence(<<"or_op", "operand", "operand", "target">>)
def_package == Package("package_op", <<"num_elements", "package_element_list">>)
def_processor ==
    [Package("processor_op", <<"name_string", "proc_id", "pblk_addr", "pblk_len", "term_list">>)
       EXCEPT !.checked = FALSE]
def_ref_of == Sequence(<<"ref_of_op", "super_name">>)
def_release == Sequence(<<"release_op", "mutex_object">>)
def_return == Sequence(<<"return_op", "arg_object">>)
def_scope == Package("scope_op", <<"name_string", "term_list">>)
def_shift_left == Sequence(<<"shift_left_op", "operand", "shift_count", "target">>)
def_shift_right == Sequence(<<"shift_right_op", "operand", "shift_count", "target">>)
def_size_of == Sequence(<<"size_of_op", "super_name">>)
def_sleep == Sequence(<<"sleep_op", "msec_time">>)
def_stall == Sequence(<<"stall_op", "usec_time">>)
def_store == Sequence(<<"store_op", "term_arg", "super_name">>)
def_subtract == Sequence(<<"subtract_op", "operand", "operand", "target">>)
def_thermal_zone ==
    [Package("thermal_zone_op", <<"name_string", "term_list">>) EXCEPT !.checked = FALSE]
def_to_buffer == Sequence(<<"to_buffer_op", "operand", "target">>)
def_to_hex_string == Sequence(<<"to_hex_string_op", "operand", "target">>)
def_to_integer == Sequence(<<"to_integer_op", "operand", "target">>)
def_while == Package("while_op", <<"predicate", "term_list">>)
def_xor == Sequence(<<"xor_op", "operand", "operand", "target">>)
device_op == Sequence(<<"ext_op_prefix", "device_op_suffix">>)
dividend == Sequence(<<"term_arg">>)
divisor == Sequence(<<"term_arg">>)
dual_name_path == Sequence(<<"dual_name_prefix", "name_seg", "name_seg">>)
dword_const == Sequence(<<"dword_prefix", "dword_data">>)
dword_data == Sequence(<<"word_data", "word_data">>)
expression_opcode ==
    [Switch( On({\h72}, <<"def_add">>) @@ On({\h7b}, <<"def_and">>) @@ On({\h73}, <<"def_concat">>)
          @@ On({\h84}, <<"def_concat_res">>) @@ On({\h76}, <<"def_decrement">>)
          @@ On({\h83}, <<"def_deref_of">>) @@ On({\h78}, <<"def_divide">>)
          @@ On({\h81}, <<"def_find_set_left_bit">>) @@ On({\h82}, <<"def_find_set_right_bit">>)
          @@ On({\h75}, <<"def_increment">>) @@ On({\h88}, <<"def_index">>) @@ On({\h90}, <<"def_l_and">>)
          @@ On({\h93}, <<"def_l_equal">>) @@ On({\h94}, <<"def_l_greater">>) @@ On({\h95}, <<"def_l_less">>)
          @@ On({\h92}, <<"def_l_not">>) @@ On({\h91}, <<"def_l_or">>) @@ On({\h89}, <<"def_match">>)
          @@ On({\h9e}, <<"def_mid">>) @@ On({\h77}, <<"def_multiply">>) @@ On({\h80}, <<"def_not">>)
          @@ On({\h8e}, <<"def_object_type">>) @@ On({\h7d}, <<"def_or">>) @@ On({\h12}, <<"def_package">>)
          @@ On({\h79}, <<"def_shift_left">>) @@ On({\h7a}, <<"def_shift_right">>)
          @@ On({\h87}, <<"def_size_of">>) @@ On({\h70}, <<"def_store">>) @@ On({\h74}, <<"def_subtract">>)
          @@ On({\h96}, <<"def_to_buffer">>) @@ On({\h98}, <<"def_to_hex_string">>)
          @@ On({\h99}, <<"def_to_integer">>) @@ On({\h7f}, <<"def_xor">>)
          @@ On(LeadNameChars \cup {\h5c, \h5e}, <<"method_invocation">>))
       EXCEPT !.ext = On({\h23}, <<"def_acquire">>) @@ On({\h12}, <<"def_cond_ref_of">>),
              !.otherExt = Nothing]
field_element ==
    Switch( On({\h01}, <<"access_field">>) @@ On({\h00}, <<"reserved_field">>)
         @@ On(LeadNameChars, <<"named_field">>))
field_list ==
    [OptionalOn(LeadNameChars \cup {\h00, \h01}, <<"field_element", "field_list">>)
       EXCEPT !.empty = Nothing]
field_op == Sequence(<<"ext_op_prefix", "field_op_suffix">>)
index_field_op == Sequence(<<"ext_op_prefix", "index_field_op_suffix">>)
index_value == Sequence(<<"term_arg">>)
local_obj == Sequence(<<"local_op">>)
match_opcode == [Terminal(Bytes) EXCEPT !.tests = FALSE]
method_invocation == Sequence(<<"name_string", "term_arg_list">>)
mid_obj == Sequence(<<"term_arg">>)
msec_time == Sequence(<<"term_arg">>)
multi_name_path == Sequence(<<"multi_name_prefix", "seg_count">>)
mutex_object == Sequence(<<"super_name">>)
mutex_op == Sequence(<<"ext_op_prefix", "mutex_op_suffix">>)
mutex_op_suffix == [Terminal({\h01}) EXCEPT !.empty = Nothing]
name_char ==
    Switch(On(DigitChars, <<"digit_char">>) @@ On(LeadNameChars, <<"lead_name_char">>))
name_path ==
    Switch( On({\h2e}, <<"dual_name_path">>) @@ On({\h2f}, <<"multi_name_path">>)
         @@ On({\h00}, <<"null_name">>) @@ On(LeadNameChars, <<"name_seg">>))
name_seg == Sequence(<<"lead_name_char", "name_char", "name_char", "name_char">>)
name_space_modifier_obj ==
    Switch(On({\h06}, <<"def_alias">>) @@ On({\h08}, <<"def_name">>) @@ On({\h10}, <<"def_scope">>))
name_string ==
    [Switch(On({\h5c}, <<"root_char", "name_path">>)) EXCEPT !.other = Go(<<"prefix_path", "name_path">>)]
named_field == Sequence(<<"name_seg", "pkg_length">>)
named_obj ==
    [Switch( On({\h8d}, <<"def_create_bit_field">>)   @@ On({\h8c}, <<"def_create_byte_field">>)
          @@ On({\h8a}, <<"def_create_dword_field">>) @@ On({\h8f}, <<"def_create_qword_field">>)
          @@ On({\h8b}, <<"def_create_word_field">>)  @@ On({\h14}, <<"def_method">>))
       EXCEPT !.ext = On({\h13}, <<"def_create_field">>) @@ On({\h82}, <<"def_device">>)
                   @@ On({\h81}, <<"def_field">>)        @@ On({\h86}, <<"def_index_field">>)
                   @@ On({\h01}, <<"def_mutex">>)        @@ On({\h83}, <<"def_processor">>)
                   @@ On({\h80}, <<"def_op_region">>)    @@ On({\h85}, <<"def_thermal_zone">>)]
notify_object == Sequence(<<"super_name">>)
notify_value == Sequence(<<"term_arg">>)
num_bits == Sequence(<<"term_arg">>)
num_elements == Sequence(<<"byte_data">>)
obj_reference == Sequence(<<"term_arg">>)
object ==
    Switch( On({\h06, \h08, \h10}, <<"name_space_modifier_obj">>)
         @@ On((\h8a..\h8d) \cup {\h14, ExtOpPrefix, \h8f}, <<"named_obj">>))
op_region_op == Sequence(<<"ext_op_prefix", "op_region_op_suffix">>)
operand == Sequence(<<"term_arg">>)
package_element ==
    Switch( On(DataOps \cup {ExtOpPrefix, \h12}, <<"data_ref_object">>)
         @@ On(LeadNameChars \cup {\h2e, \h2f, \h5c, \h5e}, <<"name_string">>))
package_element_list ==
    [Switch(On(DataOps \cup LeadNameChars \cup {ExtOpPrefix, \h12, \h2e, \h2f, \h5c, \h5e},
               <<"package_element", "package_element_list">>)) EXCEPT !.empty = Nothing]
pblk_addr == Sequence(<<"dword_data">>)
pblk_len == Sequence(<<"byte_data">>)
pkg_lead_byte == [Terminal(Bytes) EXCEPT !.tests = FALSE]
pkg_length == Sequence(<<"pkg_lead_byte">>)
predicate == Sequence(<<"term_arg">>)
prefix_path == OptionalOn({\h5e}, <<"parent_prefix_char", "prefix_path">>)
proc_id == Sequence(<<"byte_data">>)
processor_op == Sequence(<<"ext_op_prefix", "processor_op_suffix">>)
quotient == Sequence(<<"term_arg">>)
qword_const == Sequence(<<"qword_prefix", "qword_data">>)
qword_data == Sequence(<<"dword_data", "dword_data">>)
reference_type_opcode ==
    [Switch(On({\h83}, <<"def_deref_of">>) @@ On({\h88}, <<"def_index">>) @@ On({\h71}, <<"def_ref_of">>))
       EXCEPT !.other = Go(<<"user_term_obj">>)]
region_len == Sequence(<<"term_arg">>)
region_offset == Sequence(<<"term_arg">>)
release_op == Sequence(<<"ext_op_prefix", "release_op_suffix">>)
remainder == Sequence(<<"term_arg">>)
reserved_field == Sequence(<<"reserved_field_op", "pkg_length">>)
revision_op == Sequence(<<"ext_op_prefix", "revision_op_suffix">>)
search_pkg == Sequence(<<"term_arg">>)
shift_count == Sequence(<<"term_arg">>)
simple_name ==
    Switch( On(ArgOps, <<"arg_obj">>) @@ On(LocalOps, <<"local_obj">>)
         @@ On(LeadNameChars \cup {\h00, \h5c, \h5e}, <<"name_string">>))
sleep_op == Sequence(<<"ext_op_prefix", "sleep_op_suffix">>)
source_buff == Sequence(<<"term_arg">>)
stall_op == Sequence(<<"ext_op_prefix", "stall_op_suffix">>)
start_index == Sequence(<<"term_arg">>)
statement_opcode ==
    [Switch( On({\ha5}, <<"def_break">>)  @@ On({\ha0}, <<"def_if_else">>) @@ On({\h86}, <<"def_notify">>)
          @@ On({\ha4}, <<"def_return">>) @@ On({\ha2}, <<"def_while">>))
       EXCEPT !.ext = On({\h27}, <<"def_release">>) @@ On({\h22}, <<"def_sleep">>)
                   @@ On({\h21}, <<"def_stall">>),
              !.otherExt = Nothing]
string == Sequence(<<"string_prefix", "ascii_char_list", "null_char">>)
super_name ==
    [Switch( On({\h71, \h83, \h88}, <<"reference_type_opcode">>)
          @@ On(ArgOps \cup LocalOps \cup LeadNameChars \cup {\h00, \h5c, \h5e}, <<"simple_name">>))
       EXCEPT !.ext = On({\h31}, <<"debug_obj">>), !.other = Go(<<"reference_type_opcode">>)]
target ==
    [Switch(On({\h00}, <<"null_name">>)) EXCEPT !.other = Go(<<"super_name">>), !.empty = Flagged]
term_arg ==
    [Switch( On(ArgOps, <<"arg_obj">>) @@ On(LocalOps, <<"local_obj">>) @@ On(DataOps, <<"data_object">>)
          @@ On(ExpressionOps \cup LeadNameChars, <<"expression_opcode">>))
       EXCEPT !.ext = On({\h12}, <<"expression_opcode">>) @@ On({\h30}, <<"data_object">>),
              !.empty = Flagged]
term_arg_list ==
    OptionalOn(ArgOps \cup LocalOps \cup DataOps \cup {ExtOpPrefix} \cup LeadNameChars
                 \cup (ExpressionOps \ {\h5c, \h5e}), <<"term_arg", "term_arg_list">>)
term_list ==
    [Switch(On(ArgOps \cup LocalOps \cup DataOps \cup ExpressionOps \cup ObjectOps \cup StatementOps
                 \cup LeadNameChars \cup {ExtOpPrefix}, <<"term_list">>))
       EXCEPT !.before = <<"term_obj">>, !.empty = Nothing, !.ends = TRUE]
term_obj ==
    [Switch( On(ExpressionOps \cup LeadNameChars, <<"expression_opcode">>) @@ On(ObjectOps, <<"object">>)
          @@ On(StatementOps, <<"statement_opcode">>) @@ On(ArgOps \cup LocalOps \cup DataOps, <<"term_arg">>))
       EXCEPT !.ext = On({\h23, \h12}, <<"expression_opcode">>)
                   @@ On({\h21, \h22, \h27}, <<"statement_opcode">>),
              !.otherExt = Go(<<"object">>)]
thermal_zone_op == Sequence(<<"ext_op_prefix", "thermal_zone_op_suffix">>)
time_out == Sequence(<<"word_data">>)
usec_time == Sequence(<<"term_arg">>)
user_term_obj == Sequence(<<>>)
word_const == Sequence(<<"word_prefix", "word_data">>)
word_data == Sequence(<<"byte_data", "byte_data">>)

(* The production that each analyse_aml_* function reads. *)
Production ==
    [ access_attrib |-> access_attrib, access_field |-> access_field, access_field_op |-> access_field_op,
      access_type |-> access_type, acquire_op |-> acquire_op, acquire_op_suffix |-> acquire_op_suffix,
      alias_op |-> alias_op, add_op |-> add_op, and_op |-> and_op, arg_obj |-> arg_obj,
      arg_object |-> arg_object, arg_op |-> arg_op, ascii_char |-> ascii_char,
      ascii_char_list |-> ascii_char_list, bit_index |-> bit_index, break_op |-> break_op, buf_data |-> buf_data,
      buff_pkg_str_obj |-> buff_pkg_str_obj, buffer_op |-> buffer_op, buffer_size |-> buffer_size,
      byte_const |-> byte_const, byte_data |-> byte_data, byte_index |-> byte_index, byte_list |-> byte_list,
      byte_prefix |-> byte_prefix, computational_data |-> computational_data, concat_op |-> concat_op,
      concat_res_op |-> concat_res_op, cond_ref_of_op |-> cond_ref_of_op,
      cond_ref_of_op_suffix |-> cond_ref_of_op_suffix, const_obj |-> const_obj,
      create_bit_field_op |-> create_bit_field_op, create_byte_field_op |-> create_byte_field_op,
      create_dword_field_op |-> create_dword_field_op, create_field_op |-> create_field_op,
      create_field_op_suffix |-> create_field_op_suffix, create_qword_field_op |-> create_qword_field_op,
      create_word_field_op |-> create_word_field_op, data |-> data, data_object |-> data_object,
      data_ref_object |-> data_ref_object, debug_obj |-> debug_obj, debug_op |-> debug_op,
      debug_op_suffix |-> debug_op_suffix, decrement_op |-> decrement_op, def_alias |-> def_alias,
      def_acquire |-> def_acquire, def_add |-> def_add, def_and |-> def_and, def_break |-> def_break,
      def_buffer |-> def_buffer, def_concat |-> def_concat, def_concat_res |-> def_concat_res,
      def_cond_ref_of |-> def_cond_ref_of, def_create_bit_field |-> def_create_bit_field,
      def_create_byte_field |-> def_create_byte_field, def_create_dword_field |-> def_create_dword_field,
      def_create_field |-> def_create_field, def_create_qword_field |-> def_create_qword_field,
      def_create_word_field |-> def_create_word_field, def_decrement |-> def_decrement,
      def_deref_of |-> def_deref_of, def_device |-> def_device, def_divide |-> def_divide, def_else |-> def_else,
      def_field |-> def_field, def_find_set_left_bit |-> def_find_set_left_bit,
      def_find_set_right_bit |-> def_find_set_right_bit, def_if_else |-> def_if_else,
      def_increment |-> def_increment, def_index |-> def_index, def_index_field |-> def_index_field,
      def_l_and |-> def_l_and, def_l_equal |-> def_l_equal, def_l_greater |-> def_l_greater,
      def_l_less |-> def_l_less, def_l_not |-> def_l_not, def_l_or |-> def_l_or, def_match |-> def_match,
      def_method |-> def_method, def_mid |-> def_mid, def_multiply |-> def_multiply, def_mutex |-> def_mutex,
      def_name |-> def_name, def_not |-> def_not, def_notify |-> def_notify, def_object_type |-> def_object_type,
      def_op_region |-> def_op_region, def_or |-> def_or, def_package |-> def_package,
      def_processor |-> def_processor, def_ref_of |-> def_ref_of, def_release |-> def_release,
      def_return |-> def_return, def_scope |-> def_scope, def_shift_left |-> def_shift_left,
      def_shift_right |-> def_shift_right, def_size_of |-> def_size_of, def_sleep |-> def_sleep,
      def_stall |-> def_stall, def_store |-> def_store, def_subtract |-> def_subtract,
      def_thermal_zone |-> def_thermal_zone, def_to_buffer |-> def_to_buffer,
      def_to_hex_string |-> def_to_hex_string, def_to_integer |-> def_to_integer, def_while |-> def_while,
      def_xor |-> def_xor, deref_of_op |-> deref_of_op, device_op |-> device_op,
      device_op_suffix |-> device_op_suffix, digit_char |-> digit_char, divide_op |-> divide_op,
      dividend |-> dividend, divisor |-> divisor, dual_name_path |-> dual_name_path,
      dual_name_prefix |-> dual_name_prefix, dword_const |-> dword_const, dword_data |-> dword_data,
      dword_prefix |-> dword_prefix, else_op |-> else_op, expression_opcode |-> expression_opcode,
      ext_op_prefix |-> ext_op_prefix, field_element |-> field_element, field_flags |-> field_flags,
      field_list |-> field_list, field_op |-> field_op, field_op_suffix |-> field_op_suffix,
      find_set_left_bit_op |-> find_set_left_bit_op, find_set_right_bit_op |-> find_set_right_bit_op,
      if_op |-> if_op, increment_op |-> increment_op, index_field_op |-> index_field_op,
      index_field_op_suffix |-> index_field_op_suffix, index_op |-> index_op, index_value |-> index_value,
      lead_name_char |-> lead_name_char, l_and_op |-> l_and_op, l_equal_op |-> l_equal_op,
      l_greater_op |-> l_greater_op, l_less_op |-> l_less_op, l_not_op |-> l_not_op, l_or_op |-> l_or_op,
      local_obj |-> local_obj, local_op |-> local_op, match_op |-> match_op, match_opcode |-> match_opcode,
      method_flags |-> method_flags, method_invocation |-> method_invocation, method_op |-> method_op,
      mid_obj |-> mid_obj, mid_op |-> mid_op, msec_time |-> msec_time, multi_name_path |-> multi_name_path,
      multi_name_prefix |-> multi_name_prefix, multiply_op |-> multiply_op, mutex_object |-> mutex_object,
      mutex_op |-> mutex_op, mutex_op_suffix |-> mutex_op_suffix, name_char |-> name_char, name_op |-> name_op,
      name_path |-> name_path, name_seg |-> name_seg, name_space_modifier_obj |-> name_space_modifier_obj,
      name_string |-> name_string, named_field |-> named_field, named_obj |-> named_obj, not_op |-> not_op,
      notify_object |-> notify_object, notify_value |-> notify_value, notify_op |-> notify_op,
      null_char |-> null_char, null_name |-> null_name, num_bits |-> num_bits, num_elements |-> num_elements,
      obj_reference |-> obj_reference, object |-> object, object_type_op |-> object_type_op, one_op |-> one_op,
      ones_op |-> ones_op, op_region_op |-> op_region_op, op_region_op_suffix |-> op_region_op_suffix,
      operand |-> operand, or_op |-> or_op, package_element |-> package_element,
      package_element_list |-> package_element_list, package_op |-> package_op,
      parent_prefix_char |-> parent_prefix_char, pblk_addr |-> pblk_addr, pblk_len |-> pblk_len,
      pkg_lead_byte |-> pkg_lead_byte, pkg_length |-> pkg_length, predicate |-> predicate,
      prefix_path |-> prefix_path, proc_id |-> proc_id, processor_op |-> processor_op,
      processor_op_suffix |-> processor_op_suffix, quotient |-> quotient, qword_const |-> qword_const,
      qword_data |-> qword_data, ref_of_op |-> ref_of_op, qword_prefix |-> qword_prefix,
      reference_type_opcode |-> reference_type_opcode, region_len |-> region_len,
      region_offset |-> region_offset, region_space |-> region_space, release_op |-> release_op,
      release_op_suffix |-> release_op_suffix, remainder |-> remainder, return_op |-> return_op,
      reserved_field |-> reserved_field, reserved_field_op |-> reserved_field_op, revision_op |-> revision_op,
      revision_op_suffix |-> revision_op_suffix, root_char |-> root_char, scope_op |-> scope_op,
      search_pkg |-> search_pkg, seg_count |-> seg_count, shift_count |-> shift_count,
      shift_left_op |-> shift_left_op, shift_right_op |-> shift_right_op, simple_name |-> simple_name,
      size_of_op |-> size_of_op, sleep_op |-> sleep_op, sleep_op_suffix |-> sleep_op_suffix,
      source_buff |-> source_buff, stall_op |-> stall_op, stall_op_suffix |-> stall_op_suffix,
      start_index |-> start_index, statement_opcode |-> statement_opcode, store_op |-> store_op,
      string |-> string, string_prefix |-> string_prefix, subtract_op |-> subtract_op, super_name |-> super_name,
      sync_flags |-> sync_flags, target |-> target, term_arg |-> term_arg, term_arg_list |-> term_arg_list,
      term_list |-> term_list, term_obj |-> term_obj, thermal_zone_op |-> thermal_zone_op,
      thermal_zone_op_suffix |-> thermal_zone_op_suffix, time_out |-> time_out, to_buffer_op |-> to_buffer_op,
      to_hex_string_op |-> to_hex_string_op, to_integer_op |-> to_integer_op, usec_time |-> usec_time,
      user_term_obj |-> user_term_obj, while_op |-> while_op, word_const |-> word_const, word_data |-> word_data,
      word_prefix |-> word_prefix, xor_op |-> xor_op, zero_op |-> zero_op ]
==============================================================================

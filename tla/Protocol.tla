------------------------------ MODULE Protocol ------------------------------
(***************************************************************************)
(* The protocol's types, src/src/lsp/models.hh.  A struct is a function    *)
(* from the paths of its fields to [type, text], where the field's name is *)
(* the key it has in JSON; a vector's elements are numbered.  What differs *)
(* from type to type is a table: the fields in the order of from_json, and *)
(* whether it looks before it takes.  Types that are only written have     *)
(* tables as well.                                                         *)
(***************************************************************************)
EXTENDS Json

Row(key, need, type, many) ==
  [key |-> key, need |-> need, type |-> type, many |-> many, when |-> key]

Required(key, type) == Row(key, "required", type, FALSE)
Optional(key, type) == Row(key, "optional", type, FALSE)
Unasked(key, type)  == Row(key, "unasked", type, FALSE)   \* *obj_get without obj_has
Base(type)          == Row("", "base", type, FALSE)       \* *type::from_json of the same value
List(key, type)         == Row(key, "required", type, TRUE)
OptionalList(key, type) == Row(key, "optional", type, TRUE)

(* json() writes the field if the one named `when' is there. *)
WrittenWith(when, row) == [row EXCEPT !.when = when]

Struct(rows)    == [object |-> TRUE, rows |-> rows]
Unchecked(rows) == [object |-> FALSE, rows |-> rows]   \* does not ask for an OBJECT

cancel_params == Struct(<<Required("id", "int")>>)
position      == Struct(<<Required("line", "uint32"), Required("character", "uint32")>>)
range         == Struct(<<Required("start", "position"), Unasked("end", "position")>>)
text_document_item ==
  Struct(<<Required("uri", "string"), Required("languageId", "string"),
           Required("version", "int"), Required("text", "string")>>)
text_document_identifier == Struct(<<Required("uri", "string")>>)
versioned_text_document_identifier ==
  Unchecked(<<Required("uri", "string"), Required("version", "int")>>)
text_document_position_params ==
  Struct(<<Required("textDocument", "text_document_identifier"), Required("position", "position")>>)
document_filter ==
  Struct(<<Optional("language", "string"), Optional("scheme", "string"), Optional("pattern", "string")>>)
text_edit == Struct(<<Required("range", "range"), Required("newText", "string")>>)
change_annotation ==
  Struct(<<Required("label", "string"), Optional("needsConfirmation", "bool"),
           WrittenWith("needsConfirmation", Optional("description", "string"))>>)
annotated_text_edit ==
  Struct(<<Required("range", "range"), Required("newText", "string"), Required("annotationId", "string")>>)
location == Struct(<<Required("uri", "string"), Required("range", "range")>>)
diagnostic_related_information ==
  Struct(<<WrittenWith("never", Required("location", "location")), Required("message", "string")>>)
code_description == Struct(<<Required("uri", "string")>>)
command ==
  Struct(<<Required("title", "string"), Required("command", "string"), OptionalList("arguments", "string")>>)
markup_content   == Struct(<<Required("kind", "markup_kind"), Required("value", "string")>>)
workspace_folder == Struct(<<Required("uri", "string"), Required("name", "string")>>)
work_done_progress_params  == Struct(<<Optional("workDoneToken", "int")>>)
work_done_progress_options == Struct(<<Optional("workDoneProgress", "bool")>>)
formatting_options ==
  Struct(<<Required("tabSize", "uint32"), Required("insertSpaces", "bool"),
           Optional("trimTrailingWhitespace", "bool"), Optional("insertFinalNewline", "bool"),
           Optional("trimFinalNewlines", "bool")>>)
document_formatting_params ==
  Struct(<<Required("textDocument", "text_document_identifier"),
           Required("options", "formatting_options"), Base("work_done_progress_params")>>)
completion_options == Struct(<<>>)
server_capabilities ==
  Struct(<<Optional("positionEncoding", "position_encoding_kind"), Optional("textDocumentSync", "int"),
           Optional("completionProvider", "completion_options"), Optional("hoverProvider", "bool"),
           Optional("documentFormattingProvider", "bool")>>)
server_info == Struct(<<Required("name", "string"), Optional("version", "string")>>)
initialize_result ==
  Struct(<<Required("capabilities", "server_capabilities"), Optional("serverInfo", "server_info")>>)
did_open_text_document_params  == Struct(<<Required("textDocument", "text_document_item")>>)
did_close_text_document_params == Struct(<<Required("textDocument", "text_document_identifier")>>)
hover_params ==
  Unchecked(<<Base("text_document_position_params"), Base("work_done_progress_params")>>)
marked_lang_string == Struct(<<Required("language", "string"), Required("value", "string")>>)

(* Where a field is a variant, a row for each alternative. *)
hover ==
  Struct(<<Required("contents", "string"), Required("contents", "marked_lang_string"),
           Required("contents", "markup_content"), List("contents", "string"),
           List("contents", "marked_lang_string"), Optional("range", "range")>>)
completion_item_label_details == Struct(<<Optional("detail", "string"), Optional("description", "string")>>)
insert_replace_edit ==
  Struct(<<Required("newText", "string"), Required("insert", "range"), Required("replace", "range")>>)
completion_item ==
  Struct(<<Required("label", "string"), Optional("labelDetails", "completion_item_label_details"),
           Optional("kind", "int"), OptionalList("tags", "int"), Optional("detail", "string"),
           Optional("documentation", "string"), Optional("documentation", "markup_content"),
           Optional("preselect", "bool"), Optional("sortText", "string"),
           Optional("filterText", "string"), Optional("insertText", "string"),
           Optional("InsertTextFormat", "int"), Optional("insertTextMode", "int"),
           Optional("textEdit", "text_edit"), Optional("textEdit", "insert_replace_edit"),
           Optional("textEditText", "string"), OptionalList("additionalTextEdits", "text_edit"),
           OptionalList("commitCharacters", "string"), Optional("command", "command"),
           Optional("data", "string")>>)
completion_list == Struct(<<Required("isIncomplete", "bool"), List("items", "completion_item")>>)
text_document_content_change_all == Struct(<<Required("text", "string")>>)
did_change_text_document_params ==
  Struct(<<Required("textDocument", "versioned_text_document_identifier"),
           List("contentChanges", "text_document_content_change_all")>>)
response_error == Struct(<<Required("code", "int"), Required("message", "string"), Optional("data", "string")>>)

Structs ==
  [ cancel_params |-> cancel_params, position |-> position, range |-> range,
    text_document_item |-> text_document_item, text_document_identifier |-> text_document_identifier,
    versioned_text_document_identifier |-> versioned_text_document_identifier,
    text_document_position_params |-> text_document_position_params,
    document_filter |-> document_filter, text_edit |-> text_edit,
    change_annotation |-> change_annotation, annotated_text_edit |-> annotated_text_edit,
    location |-> location, diagnostic_related_information |-> diagnostic_related_information,
    code_description |-> code_description, command |-> command, markup_content |-> markup_content,
    workspace_folder |-> workspace_folder, work_done_progress_params |-> work_done_progress_params,
    work_done_progress_options |-> work_done_progress_options,
    formatting_options |-> formatting_options,
    document_formatting_params |-> document_formatting_params,
    completion_options |-> completion_options, server_capabilities |-> server_capabilities,
    server_info |-> server_info, initialize_result |-> initialize_result,
    did_open_text_document_params |-> did_open_text_document_params,
    did_close_text_document_params |-> did_close_text_document_params,
    hover_params |-> hover_params, marked_lang_string |-> marked_lang_string, hover |-> hover,
    completion_item_label_details |-> completion_item_label_details,
    insert_replace_edit |-> insert_replace_edit, completion_item |-> completion_item,
    completion_list |-> completion_list,
    text_document_content_change_all |-> text_document_content_change_all,
    did_change_text_document_params |-> did_change_text_document_params,
    response_error |-> response_error ]

(* The types whose methods say what they are to be read from. *)
WrittenOnly ==
  {"command", "completion_options", "server_capabilities", "server_info", "initialize_result",
   "marked_lang_string", "hover", "completion_item_label_details", "insert_replace_edit",
   "completion_item", "completion_list", "response_error"}

(* What stands for a field's value in JSON. *)
Names == [markup_kind |-> {"plaintext", "markdown"}, position_encoding_kind |-> {"utf-8", "utf-16", "utf-32"}]

KindOf(type) ==
  CASE type = "string" \/ type \in DOMAIN Names -> "STRING"
    [] type \in {"int", "uint32"} -> "NUMBER"
    [] type = "bool"   -> "BOOL"
    [] type = "vector" -> "ARRAY"
    [] OTHER           -> "OBJECT"

Field(type, text) == [type |-> type, text |-> text]

-----------------------------------------------------------------------------
(* from_json: a value, nothing, an exception (bad_variant_access, a key looked
   for in what is no object), or undefined behaviour (the value of an empty
   optional, a number its type cannot hold). *)

Result(is, fields) == [is |-> is, fields |-> fields]
NoFields == [p \in {} |-> Field("", <<>>)]
None     == Result("none", NoFields)

(* (uint32_t)*num(), (int)*num(): the fraction is cut off. *)
Whole(text) == IF "." \in ToSet(text) THEN SubSeq(text, 1, SelectInSeq(text, LAMBDA c : c = ".") - 1) ELSE text

Fits(type, text) == Len(text) < 10 /\ (type = "uint32" => Head(text) # "-")

ReadLeaf(type, value, p) ==
  CASE value.kind # KindOf(type) -> None
    [] type \in DOMAIN Names /\ value.text \notin {<<n>> : n \in Names[type]} -> None
    [] type \in {"int", "uint32"} /\ ~Fits(type, Whole(value.text)) -> Result("undefined", NoFields)
    [] type \in {"int", "uint32"} -> Result("value", p :> Field(type, Whole(value.text)))
    [] OTHER -> Result("value", p :> Field(type, value.text))

(* The fields are read in order, the first failure decides. *)
Both(a, b) ==
  CASE a.is # "value" -> a
    [] a.is = "value" /\ b.is # "value" -> b
    [] OTHER -> Result("value", a.fields @@ b.fields)
AllOf(results) == FoldLeft(Both, Result("value", NoFields), results)

(* The value of an optional that may be empty. *)
Deref(result) == IF result.is = "none" THEN Result("undefined", NoFields) ELSE result

(* Mutant: no obj_has before *obj_get. *)
Missing_unasked(need) == IF need = "optional" THEN Result("value", NoFields) ELSE Result("undefined", NoFields)

Missing(need) ==
  CASE need = "required" -> None
    [] need = "optional" -> Result("value", NoFields)
    [] need = "unasked"  -> Result("undefined", NoFields)

FromJson(type, doc) ==
  LET read[t \in STRING, p \in Paths] ==
        LET Elements(row, q) ==
              IF doc[q].kind # "ARRAY" THEN None
              ELSE Both(Result("value", q :> Field("vector", <<>>)),
                        AllOf([i \in 1..Cardinality(Members(doc, q)) |-> read[row.type, Append(q, Element(i))]]))
            Member(row, q) ==
              CASE doc[p].kind \notin {"OBJECT", "JSON_NULL"} -> Result("throws", NoFields)
                [] q \notin DOMAIN doc -> Missing(row.need)
                [] row.many /\ q \in DOMAIN doc -> Elements(row, q)
                [] OTHER -> read[row.type, q]
            Read(row) ==
              IF row.need = "base" THEN Deref(read[row.type, p]) ELSE Member(row, Append(p, <<row.key>>))
        IN  CASE t \notin DOMAIN Structs -> ReadLeaf(t, doc[p], p)
              [] t \in DOMAIN Structs /\ Structs[t].object /\ doc[p].kind # "OBJECT" -> None
              [] OTHER -> Both(Result("value", p :> Field(t, <<>>)),
                               AllOf([i \in DOMAIN Structs[t].rows |-> Read(Structs[t].rows[i])]))
  IN  read[type, <<>>]

-----------------------------------------------------------------------------
(* json(): every field that is there and that its type writes. *)

RowsOf(t) ==
  LET rows == Structs[t].rows IN
  FlattenSeq([i \in DOMAIN rows |-> IF rows[i].need = "base" THEN Structs[rows[i].type].rows ELSE <<rows[i]>>])

AllRows(t) == ToSet(RowsOf(t))

Holds(row, field) == field.type = (IF row.many THEN "vector" ELSE row.type)

(* Step k of path q leads to an element, or to a member that is written. *)
IsWritten(x, q, k) ==
  LET p == SubSeq(q, 1, k - 1) IN
  \/ x[p].type = "vector"
  \/ \E row \in AllRows(x[p].type) :
       /\ q[k] = <<row.key>> /\ Holds(row, x[SubSeq(q, 1, k)])
       /\ Append(p, <<row.when>>) \in DOMAIN x

ToJson(x) ==
  [q \in {q \in DOMAIN x : \A k \in 1..Len(q) : IsWritten(x, q, k)} |->
     Value(KindOf(x[q].type), x[q].text)]

(* json() of a field that is not there, written because another is. *)
WritesNothing(x) ==
  \E p \in DOMAIN x : /\ x[p].type \in DOMAIN Structs
                      /\ \E row \in AllRows(x[p].type) :
                           /\ Append(p, <<row.when>>) \in DOMAIN x
                           /\ ~\E alt \in AllRows(x[p].type) : /\ alt.key = row.key
                                                               /\ Append(p, <<alt.key>>) \in DOMAIN x
=============================================================================

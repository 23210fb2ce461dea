------------------------------ MODULE LangSpec ------------------------------
(***************************************************************************)
(* The table of token types, src/src/lang_spec.hh: the kind of every type, *)
(* and for an operator its uses, each with a precedence (the lower the     *)
(* tighter), an associativity and an arity.                                *)
(***************************************************************************)
EXTENDS Integers

Use(prec, assoc, arity) == [prec |-> prec, assoc |-> assoc, arity |-> arity]

LeftBinary(prec)  == {Use(prec, "LEFT", "BINARY")}
RightBinary(prec) == {Use(prec, "RIGHT", "BINARY")}
Increment == {Use(2, "RIGHT", "RUNARY"), Use(3, "LEFT", "LUNARY")}
Sign      == {Use(3, "RIGHT", "LUNARY"), Use(6, "LEFT", "BINARY")}

Specs ==
  [ CALL           |-> LeftBinary(2),
    OP_PLUS_PLUS   |-> Increment,
    OP_MINUS_MINUS |-> Increment,
    OP_DOT         |-> LeftBinary(2),
    OP_OR_GREATER  |-> LeftBinary(2),
    OP_PLUS        |-> Sign,
    OP_MINUS       |-> Sign,
    OP_BANG        |-> {Use(3, "RIGHT", "LUNARY")},
    OP_STAR_STAR   |-> LeftBinary(4),
    OP_STAR        |-> LeftBinary(5),
    OP_SLASH       |-> LeftBinary(5),
    OP_PERCENT     |-> LeftBinary(5),
    OP_LESS_EQ_GREATER |-> LeftBinary(8),
    OP_LESS        |-> LeftBinary(9),
    OP_LESS_EQ     |-> LeftBinary(9),
    OP_GREATER     |-> LeftBinary(9),
    OP_GREATER_EQ  |-> LeftBinary(9),
    OP_EQ_EQ       |-> LeftBinary(10),
    OP_BANG_EQ     |-> LeftBinary(10),
    OP_EQ          |-> {Use(17, "NONE", "BINARY")},
    OP_COLON_EQ    |-> RightBinary(17),
    OP_PLUS_EQ     |-> RightBinary(17),
    OP_MINUS_EQ    |-> RightBinary(17),
    OP_STAR_EQ     |-> RightBinary(17),
    OP_SLASH_EQ    |-> RightBinary(17),
    OP_PERCENT_EQ  |-> RightBinary(17),
    OP_COMMA       |-> LeftBinary(18),
    OP_SEMICOLON   |-> {Use(19, "LEFT", "RUNARY")} ]

Values    == {"NAME", "NUM", "STRING", "CHAR"}
LGroups   == {"LPAR", "LCURLY", "LSQUARE"}
RGroups   == {"RPAR", "RCURLY", "RSQUARE"}
Operators == DOMAIN Specs
Markers   == {"START", "END"}
Types     == Values \cup LGroups \cup RGroups \cup Operators \cup Markers

(* token::vbegin, vend and has_arity, before a use is selected. *)
VBegin(t) == t \in LGroups \cup Values
VEnd(t)   == t \in RGroups \cup Values
HasArity(t, arity) == t \in Operators /\ \E u \in Specs[t] : u.arity = arity

(* token::select_op_spec: no operator has two uses of one arity. *)
TheUse(t, arity) == CHOOSE u \in Specs[t] : u.arity = arity
=============================================================================

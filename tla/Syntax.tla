------------------------------- MODULE Syntax -------------------------------
(***************************************************************************)
(* Parser against Grammar: wherever the grammar says what a stream of      *)
(* tokens means, parse gives the postfix order of that tree.               *)
(***************************************************************************)
EXTENDS Parser, Grammar

CONSTANTS Binary, Unary,   \* the operators that the expressions are made of
          Depth            \* and how high their trees are

(* The increments are left out: the table has their prefix use associate to
   the left, and parse does not give what it says (see MCParser). *)
ASSUME SyntaxAssumption ==
  /\ Binary \subseteq {op \in Operators : HasArity(op, "BINARY")}
  /\ Unary \subseteq {op \in Operators : HasArity(op, "LUNARY") /\ TheUse(op, "LUNARY").assoc = "RIGHT"}
  /\ Depth \in Nat

Means(E) ==
  status # "parsing" =>
    \A e \in E : e.toks = input =>
      status = "done" /\ rpn = Append(e.post, Item("END", Len(input) + 1, "NULLARY"))

(* The parser agrees with the grammar on the binary and the prefix operators,
   calls, groups and statements (parse and parse_token against the table). *)
Sentences       == Expressions(Binary, Unary, Depth)
FollowsTheTable == Means(Sentences)
=============================================================================

------------------------------ MODULE MCParser ------------------------------
(* Parser for TLC: every expression of the grammar up to Depth, and every
   short stream of tokens, sense or not. *)
EXTENDS Syntax

S == INSTANCE SequencesExt

(* One operator of each kind and of nearly every precedence. *)
MCBinary == {"OP_DOT", "OP_STAR_STAR", "OP_PLUS", "OP_LESS", "OP_EQ", "OP_COLON_EQ", "OP_COMMA"}
MCUnary  == {"OP_PLUS", "OP_BANG"}

(* All streams of up to four tokens. *)
Tokens == {"NAME", "LPAR", "RPAR", "RSQUARE", "OP_MINUS", "OP_STAR", "OP_COLON_EQ",
           "OP_PLUS_PLUS", "OP_SEMICOLON"}
Streams == S!BoundedSeq(Tokens, 4)

MCInputs == {e.toks : e \in Sentences} \cup Streams

(* With the increments, before and after their operand. *)
Small       == Expressions(Binary, Unary, 1)
Incremented == Small \cup Prefixes({"OP_PLUS_PLUS"}, Small) \cup Postfixes(Small, {"OP_PLUS_PLUS"})
Increments  == Incremented \cup Larger(Binary, Unary, Incremented)
MCIncrements == {e.toks : e \in Increments}

(* The comments of the table call ++ a "Postfix increment" and a "Prefix
   increment": expressions with them have a meaning as well. *)
IncrementsFollowTheTable == Means(Increments)
=============================================================================

------------------------------ MODULE MCLexer ------------------------------
(* Lexer for TLC: all short streams over one character of each kind, and all
   longer ones of what comments, numbers, names and operators are made of. *)
EXTENDS Lexer, SequencesExt

Characters == {" ", "\n", "\"", "'", "/", "*", "1", ".", "a", "_", "<", "=", ">", "|", ":", "@"}

MCTexts == BoundedSeq(Characters, 3)
             \cup BoundedSeq({"/", "*", "\n", "="}, 6)
             \cup BoundedSeq({"1", ".", "'", "a", "_", " "}, 4)
             \cup BoundedSeq({"<", "=", ">", "+"}, 5)
             \cup {<<c, d>> : c \in {"(", ")", "{", "}", "[", "]", "-", "+", "!", "%", ",", ";"}, d \in {"=", "-", "a"}}
=============================================================================

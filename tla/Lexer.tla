------------------------------- MODULE Lexer -------------------------------
(***************************************************************************)
(* hill::lexer, src/src/lexer.hh: cuts a stream of characters into tokens, *)
(* one call of get_token after the other, until it gives END.  It looks    *)
(* one character ahead (peek), and takes one back after a single slash.    *)
(***************************************************************************)
EXTENDS Integers, Sequences, FiniteSets

CONSTANT Texts   \* the streams, sequences of characters

ASSUME TextsAssumption == Texts \subseteq Seq(STRING)

VARIABLES text,      \* the stream
          pos,       \* how many of its characters were read
          lix, cix,  \* line and column of the next one, as get() counts them
          tokens,    \* what get_token gave
          status     \* "lexing", "done" (END), or "not implemented"

vars == <<text, pos, lix, cix, tokens, status>>

(* The spelling of the operators and groups, lang_spec::tt_specs. *)
Patterns ==
  [ LPAR |-> <<"(">>, RPAR |-> <<")">>, LCURLY |-> <<"{">>, RCURLY |-> <<"}">>,
    LSQUARE |-> <<"[">>, RSQUARE |-> <<"]">>,
    OP_PLUS_PLUS |-> <<"+", "+">>, OP_MINUS_MINUS |-> <<"-", "-">>, OP_DOT |-> <<".">>,
    OP_OR_GREATER |-> <<"|", ">">>, OP_PLUS |-> <<"+">>, OP_MINUS |-> <<"-">>,
    OP_BANG |-> <<"!">>, OP_STAR_STAR |-> <<"*", "*">>, OP_STAR |-> <<"*">>,
    OP_SLASH |-> <<"/">>, OP_PERCENT |-> <<"%">>, OP_LESS_EQ_GREATER |-> <<"<", "=", ">">>,
    OP_LESS |-> <<"<">>, OP_LESS_EQ |-> <<"<", "=">>, OP_GREATER |-> <<">">>,
    OP_GREATER_EQ |-> <<">", "=">>, OP_EQ_EQ |-> <<"=", "=">>, OP_BANG_EQ |-> <<"!", "=">>,
    OP_EQ |-> <<"=">>, OP_COLON_EQ |-> <<":", "=">>, OP_PLUS_EQ |-> <<"+", "=">>,
    OP_MINUS_EQ |-> <<"-", "=">>, OP_STAR_EQ |-> <<"*", "=">>, OP_SLASH_EQ |-> <<"/", "=">>,
    OP_PERCENT_EQ |-> <<"%", "=">>, OP_COMMA |-> <<",">>, OP_SEMICOLON |-> <<";">> ]

Spaces  == {" ", "\n"}
Digits  == {"1"}          \* one of each kind is enough
Letters == {"a"}
Punctuation == {Patterns[t][i] : t \in DOMAIN Patterns, i \in 1..1} \cup {"@", "_", "|", ":"}

-----------------------------------------------------------------------------
N     == Len(text)
First == pos + 1
Char(i) == IF i <= N THEN text[i] ELSE "eof"

Least(places, other) == IF places = {} THEN other ELSE CHOOSE k \in places : \A l \in places : k <= l

(* The last of the characters in chars from i on. *)
RunEnd(i, chars) == Least({k \in i..N : text[k] \notin chars}, N + 1) - 1

(* The ends of the tokens that start at First; N + 1 where get() has to meet the
   end of the stream. *)
NumberEnd == RunEnd(RunEnd(First, Digits \cup {".", "'"}) + 1, Letters)
NameEnd   == RunEnd(First, Letters \cup Digits \cup {"_"})

LineEnd   == Least({k \in (First + 2)..N : text[k] = "\n"}, N + 1)

(* Mutant: the asterisk that opens a comment closes it. *)
CommentEnd_early == Least({k \in (First + 2)..N : text[k] = "/" /\ text[k - 1] = "*"}, N + 1)

(* The asterisk that opens a comment does not close it. *)
CommentEnd == Least({k \in (First + 3)..N : text[k] = "/" /\ text[k - 1] = "*"}, N + 1)

(* The operators that begin with text[First..k]. *)
Matching(k) ==
  {t \in DOMAIN Patterns : k <= N /\ Len(Patterns[t]) > k - First
                           /\ SubSeq(Patterns[t], 1, k - First + 1) = SubSeq(text, First, k)}

(* One more character as long as some operator begins with all of them. *)
OperatorEnd == Least({k \in First..(N + 1) : Matching(k) = {}}, N + 1) - 1

(* The first of them in the order of the map: the shortest, which may be longer
   than what was read. *)
OperatorType ==
  CHOOSE t \in Matching(OperatorEnd) :
    \A u \in Matching(OperatorEnd) : Len(Patterns[t]) <= Len(Patterns[u])

-----------------------------------------------------------------------------
(* lexer::get counts lines and columns. *)

Newlines(to) == {k \in First..to : Char(k) = "\n"}

(* Mutant: a newline that ends a token is not counted. *)
LineAfter_inner(to) == lix + Cardinality(Newlines(to - 1))

LineAfter(to) == lix + Cardinality(Newlines(to))

ColumnAfter(to) ==
  IF Newlines(to) = {} THEN cix + to - pos
  ELSE to - CHOOSE k \in Newlines(to) : \A l \in Newlines(to) : l <= k

(* Mutant: the characters that were asked for, not those that were there. *)
Token_asked(type, to) ==
  [type |-> type, first |-> First, last |-> to, lix |-> lix, cix |-> cix]

Token(type, to) ==
  [type |-> type, first |-> First, last |-> IF to > N THEN N ELSE to, lix |-> lix, cix |-> cix]

Read(type, to) ==
  /\ tokens' = Append(tokens, Token(type, to))
  /\ lix' = LineAfter(to) /\ cix' = ColumnAfter(to)
  /\ pos' = IF to > N THEN N ELSE to
  /\ UNCHANGED <<text, status>>

Lexing(chars) == status = "lexing" /\ Char(First) \in chars

Whitespace == Lexing(Spaces) /\ Read("WHITESPACE", RunEnd(First, Spaces))

(* get() gives the quote that peek() has shown, so that the loop over the
   string's characters is over before it starts: a token without text, and the
   string's text is read as tokens of their own. *)
String == Lexing({"\""}) /\ Read("STRING", First)

Character ==
  /\ Lexing({"'"})
  /\ status' = "not implemented"
  /\ UNCHANGED <<text, pos, lix, cix, tokens>>

LineComment  == Lexing({"/"}) /\ Char(First + 1) = "/" /\ Read("COMMENT", LineEnd)
BlockComment == Lexing({"/"}) /\ Char(First + 1) = "*" /\ Read("COMMENT", CommentEnd)

Number == Lexing(Digits) /\ Read("NUM", NumberEnd)
Name   == Lexing(Letters \cup {"_"}) /\ Read("NAME", NameEnd)

(* A slash alone was read and put back (unget). *)
Operator ==
  /\ Lexing(Punctuation \ {"_"})
  /\ Char(First) = "/" => Char(First + 1) \notin {"/", "*"}
  /\ Matching(First) # {}
  /\ Read(OperatorType, OperatorEnd)

(* At the end of the stream, and at a character that begins no token: END. *)
End ==
  /\ \/ Lexing({"eof"})
     \/ Lexing(Punctuation \ {"_"}) /\ Matching(First) = {}
  /\ status' = "done"
  /\ UNCHANGED <<text, pos, lix, cix, tokens>>

Init ==
  /\ text \in Texts
  /\ pos = 0 /\ lix = 0 /\ cix = 0
  /\ tokens = <<>>
  /\ status = "lexing"

Next ==
  \/ Whitespace \/ String \/ Character \/ LineComment \/ BlockComment
  \/ Number \/ Name \/ Operator \/ End

Spec == Init /\ [][Next]_vars

-----------------------------------------------------------------------------
Kinds == {"WHITESPACE", "COMMENT", "STRING", "NUM", "NAME"} \cup DOMAIN Patterns

TypeOK ==
  /\ pos \in 0..N /\ lix \in Nat /\ cix \in Nat
  /\ status \in {"lexing", "done", "not implemented"}
  /\ \A i \in 1..Len(tokens) : tokens[i].type \in Kinds /\ tokens[i].last \in 1..N

(* What the language counts as a lexeme of each kind, by its characters alone.
   (A STRING is its quote, as long as get_token ends it there; half of |> and
   of := stands for the whole.) *)
Word(i, j, chars) == \A k \in i..j : text[k] \in chars

Comment(i, j) ==
  /\ j > i /\ text[i] = "/"
  /\ \/ /\ text[i + 1] = "/"
        /\ \A k \in i..(j - 1) : text[k] # "\n"
        /\ text[j] = "\n" \/ j = N
     \/ /\ text[i + 1] = "*"
        /\ \A k \in (i + 3)..(j - 1) : ~(text[k] = "/" /\ text[k - 1] = "*")
        /\ (j > i + 2 /\ text[j] = "/" /\ text[j - 1] = "*") \/ j = N

IsLexeme(type, i, j) ==
  CASE type = "WHITESPACE" -> Word(i, j, Spaces)
    [] type = "COMMENT"    -> Comment(i, j)
    [] type = "STRING"     -> i = j /\ text[i] = "\""
    [] type = "NAME"       -> text[i] \notin Digits /\ Word(i, j, Letters \cup Digits \cup {"_"})
    [] type = "NUM"        -> text[i] \in Digits /\ \E k \in i..j : Word(i, k, Digits \cup {".", "'"})
                                                                   /\ Word(k + 1, j, Letters)
    [] OTHER -> LET s == SubSeq(text, i, j) IN
                \/ s = Patterns[type]
                \/ type = "OP_OR_GREATER" /\ s = <<"|">>
                \/ type = "OP_COLON_EQ" /\ s = <<":">>

(* No character is lost or read twice. *)
Consecutive ==
  \A i \in 1..Len(tokens) : tokens[i].first = (IF i = 1 THEN 1 ELSE tokens[i - 1].last + 1)

(* The tokens are the stream, cut into the longest lexemes: they follow one
   another, each is a lexeme of its kind, and no longer lexeme starts where it
   does.  (A comment is as long as it has to be.) *)
LongestLexemes ==
  /\ Consecutive
  /\ \A i \in 1..Len(tokens) :
       LET t == tokens[i] IN
       /\ IsLexeme(t.type, t.first, t.last)
       /\ \A u \in Kinds, j \in (t.last + 1)..N : ~IsLexeme(u, t.first, j)

(* A token's line and column are those of its first character in the stream,
   whatever was read before: comments that swallow their newline, a slash that
   was put back. *)
PositionsPoint ==
  \A i \in 1..Len(tokens) :
    LET t == tokens[i]
        before == {k \in 1..(t.first - 1) : text[k] = "\n"}
        last == CHOOSE k \in before \cup {0} : \A l \in before : l <= k
    IN  t.lix = Cardinality(before) /\ t.cix = t.first - 1 - last
=============================================================================

-------------------------------- MODULE Json --------------------------------
(***************************************************************************)
(* hill::utils::json_value and json_parser, src/src/utils/json.hh and      *)
(* json_parser.hh.  A document maps paths to the values found there: the   *)
(* root is <<>>, a member is its object's path with its key, an element    *)
(* its array's path with its number.  The members' order is left out: it   *)
(* decides nothing here.                                                   *)
(*                                                                         *)
(* A text is a sequence of symbols: a character, a literal (true), or a    *)
(* word no part of which matters, such as a key.                           *)
(***************************************************************************)
EXTENDS Integers, Sequences, FiniteSets, SequencesExt

Symbols == STRING
Paths   == Seq(Seq(Symbols))

Value(kind, text) == [kind |-> kind, text |-> text]

Empty == [p \in {} |-> Value("JSON_NULL", <<>>)]

Below(doc, p) == {q \in DOMAIN doc : Len(q) > Len(p) /\ SubSeq(q, 1, Len(p)) = p}
Members(doc, p) == {q \in Below(doc, p) : Len(q) = Len(p) + 1}

Element(i) == <<ToString(i)>>

(* json_value::obj_get *)
Get(doc, p) ==
  [q \in {SubSeq(r, Len(p) + 1, Len(r)) : r \in Below(doc, p) \cup {p}} |-> doc[p \o q]]

-----------------------------------------------------------------------------
(* json_parser, symbol by symbol: mode is what the parser is in the middle of,
   `at' the container or the value it is in. *)

Whitespace  == {" ", "\r\n"}
Digits      == {"0", "1", "2", "3", "4", "5", "6", "7", "8", "9"}
NumberChars == Digits \cup {"-", "."}
Unescaped   == ("\"" :> "\"") @@ ("\\" :> "\\") @@ ("/" :> "/") @@ ("n" :> "\n")
               @@ ("t" :> "\t") @@ ("r" :> "\r") @@ ("b" :> "backspace") @@ ("f" :> "\f")

Start == [mode |-> "value", at |-> <<>>, doc |-> Empty, text |-> <<>>]

To(mode, st)   == [st EXCEPT !.mode = mode]
Failed(st)     == To("failed", st)
Put(value, st) == [st EXCEPT !.doc = @ @@ (st.at :> value)]
Into(key, st)  == [st EXCEPT !.at = Append(@, key)]
Keep(c, st)    == [st EXCEPT !.text = Append(@, c)]
Begin(mode, text, st) == [st EXCEPT !.mode = mode, !.text = text]

(* The value at st.at is complete. *)
Completed(st) ==
  IF st.at = <<>> THEN To("end", st)
  ELSE [st EXCEPT !.at = Front(@),
                  !.mode = IF st.doc[Front(st.at)].kind = "ARRAY" THEN "element end"
                           ELSE "member end"]

(* strtod: as much of the characters as makes a number; 0 if nothing does. *)
IsNumber(s) ==
  /\ \E i \in 1..Len(s) : s[i] \in Digits
  /\ \A i \in 2..Len(s) : s[i] # "-"
  /\ \A i, j \in 1..Len(s) : s[i] = "." /\ s[j] = "." => i = j

Strtod(s) ==
  LET numbers == {k \in 1..Len(s) : IsNumber(SubSeq(s, 1, k))} IN
  IF numbers = {} THEN <<"0">> ELSE SubSeq(s, 1, CHOOSE k \in numbers : \A l \in numbers : l <= k)

ParseValue(c, st) ==
  CASE c \in Whitespace        -> st
    [] c = "\""                -> Begin("string", <<>>, st)
    [] c = "["                 -> To("element", Put(Value("ARRAY", <<>>), st))
    [] c = "{"                 -> To("member", Put(Value("OBJECT", <<>>), st))
    [] c \in {"true", "false"} -> Completed(Put(Value("BOOL", <<c>>), st))
    [] c = "null"              -> Completed(Put(Value("JSON_NULL", <<>>), st))
    [] c \in NumberChars       -> Begin("number", <<c>>, st)
    [] OTHER                   -> Failed(st)

ParseElement(c, st) ==
  CASE c \in Whitespace -> st
    [] c = "]"          -> Completed(st)
    [] OTHER -> ParseValue(c, Into(Element(Cardinality(Members(st.doc, st.at)) + 1), st))

ParseMember(c, st) ==
  CASE c \in Whitespace -> st
    [] c = "}"          -> Completed(st)
    [] c = "\""         -> Begin("key", <<>>, st)
    [] OTHER            -> Failed(st)

ParseColon(c, st) ==
  CASE c \in Whitespace -> st
    [] c = ":" /\ Append(st.at, st.text) \notin DOMAIN st.doc -> To("value", Into(st.text, st))
    [] OTHER -> Failed(st)

(* Commas between values are optional, and one may follow the last. *)
ParseSeparator(c, st) ==
  CASE st.mode = "end" /\ c \in Whitespace         -> st
    [] st.mode = "end" /\ c = "eof"                -> To("parsed", st)
    [] st.mode = "element end" /\ c = ","          -> To("element", st)
    [] st.mode = "element end" /\ c \in Whitespace -> st
    [] st.mode = "element end" /\ c \notin Whitespace \cup {","} -> ParseElement(c, st)
    [] st.mode = "member end" /\ c = ","           -> To("member", st)
    [] st.mode = "member end" /\ c \in Whitespace  -> st
    [] st.mode = "member end" /\ c \notin Whitespace \cup {","} -> ParseMember(c, st)
    [] OTHER -> Failed(st)

ParseNumber(c, st) ==
  IF c \in NumberChars THEN Keep(c, st)
  ELSE ParseSeparator(c, Completed(Put(Value("NUMBER", Strtod(st.text)), st)))

(* parse_string, of a key and of a value. *)
ParseString(c, st) ==
  CASE c = "eof" -> Failed(st)
    [] c = "\\"  -> To(IF st.mode = "key" THEN "key escape" ELSE "string escape", st)
    [] c = "\""  -> IF st.mode = "key" THEN To("colon", st)
                    ELSE Completed(Put(Value("STRING", st.text), st))
    [] OTHER     -> Keep(c, st)

(* \uHHHH is not supported. *)
ParseEscape(c, st) ==
  IF c \notin DOMAIN Unescaped THEN Failed(st)
  ELSE Keep(Unescaped[c], To(IF st.mode = "key escape" THEN "key" ELSE "string", st))

Step(st, c) ==
  CASE st.mode = "value"   -> ParseValue(c, st)
    [] st.mode = "element" -> ParseElement(c, st)
    [] st.mode = "member"  -> ParseMember(c, st)
    [] st.mode = "colon"   -> ParseColon(c, st)
    [] st.mode = "number"  -> ParseNumber(c, st)
    [] st.mode \in {"key", "string"} -> ParseString(c, st)
    [] st.mode \in {"key escape", "string escape"} -> ParseEscape(c, st)
    [] st.mode \in {"end", "element end", "member end"} -> ParseSeparator(c, st)
    [] OTHER -> Failed(st)

(* The document, or Empty where the parser gives none. *)
Parse(text) ==
  LET st == FoldLeft(Step, Start, Append(text, "eof"))
  IN  IF st.mode = "parsed" THEN st.doc ELSE Empty

-----------------------------------------------------------------------------
(* json_value::stringify *)

(* The order of insertion, which documents do not have. *)
InOrder(S) == FoldSet(LAMBDA q, seq : Append(seq, q), <<>>, S)

Separated(pieces) ==
  FlattenSeq([i \in DOMAIN pieces |-> (IF i > 1 THEN <<",">> ELSE <<>>) \o pieces[i]])

(* Mutant: only quotes are escaped. *)
EscapeStr_quotes(s) ==
  FlattenSeq([i \in DOMAIN s |-> IF s[i] = "\"" THEN <<"\\", "\"">> ELSE <<s[i]>>])

EscapeStr(s) ==
  FlattenSeq([i \in DOMAIN s |-> CASE s[i] = "\\" -> <<"\\", "\\">>
                                   [] s[i] = "\n" -> <<"\\", "n">>
                                   [] s[i] = "\"" -> <<"\\", "\"">>
                                   [] OTHER       -> <<s[i]>>])

(* `ss << double': six digits.  (Which way the sixth is rounded is
   LspServer's WireNumber.) *)
WrittenNumber(s) ==
  LET digits == SelectSeq(s, LAMBDA c : c \in Digits) IN
  IF Len(digits) <= 6 THEN s
  ELSE SubSeq(s, 1, Len(s) - Len(digits)) \o <<digits[1], ".">> \o SubSeq(digits, 2, 6)
       \o <<"e", "+", ToString(Len(digits) - 1)>>

Stringify(doc) ==
  LET write[p \in Paths] ==
        LET kids == IF doc[p].kind = "ARRAY"
                      THEN [i \in 1..Cardinality(Members(doc, p)) |-> Append(p, Element(i))]
                      ELSE InOrder(Members(doc, p))
        IN  CASE doc[p].kind = "OBJECT" ->
                   <<"{">> \o Separated([i \in DOMAIN kids |->
                                <<"\"">> \o Last(kids[i]) \o <<"\"", ":">> \o write[kids[i]]]) \o <<"}">>
              [] doc[p].kind = "ARRAY" ->
                   <<"[">> \o Separated([i \in DOMAIN kids |-> write[kids[i]]]) \o <<"]">>
              [] doc[p].kind = "STRING" -> <<"\"">> \o EscapeStr(doc[p].text) \o <<"\"">>
              [] doc[p].kind = "NUMBER" -> WrittenNumber(doc[p].text)
              [] doc[p].kind = "BOOL"   -> doc[p].text
              [] OTHER -> <<"null">>
  IN  write[<<>>]
=============================================================================

------------------------------- MODULE MCWire -------------------------------
(* Wire for TLC: broken frames among good ones; each type with each of its
   optional fields, read and written; each type's params damaged. *)
EXTENDS Client

Sample(type) ==
  CASE type = "string" -> <<"s">>
    [] type = "int"    -> <<"-", "7">>
    [] type = "uint32" -> <<"3">>
    [] type = "bool"   -> <<"true">>
    [] OTHER           -> <<CHOOSE n \in Names[type] : TRUE>>

(* All fields, the alt-th alternative of each, vectors of alt elements. *)
Chosen(t, alt) ==
  LET Of(key) == {i \in DOMAIN RowsOf(t) : RowsOf(t)[i].key = key}
      Nth(S)  == CHOOSE i \in S : Cardinality({j \in S : j < i}) = (alt - 1) % Cardinality(S)
  IN  {RowsOf(t)[Nth(Of(r.key))] : r \in AllRows(t)}

Full(type, alt) ==
  LET fill[t \in STRING, p \in Paths] ==
        IF t \notin DOMAIN Structs THEN {<<p, Field(t, Sample(t))>>}
        ELSE {<<p, Field(t, <<>>)>>} \cup UNION
               {LET q == Append(p, <<r.key>>) IN
                IF r.many THEN {<<q, Field("vector", <<>>)>>}
                               \cup UNION {fill[r.type, Append(q, Element(i))] : i \in 1..(alt % 3)}
                ELSE fill[r.type, q] : r \in Chosen(t, alt)}
      pairs == fill[type, <<>>]
  IN  [p \in {e[1] : e \in pairs} |-> (CHOOSE e \in pairs : e[1] = p)[2]]

Without(f, q) == [p \in {p \in DOMAIN f : ~(Len(p) >= Len(q) /\ SubSeq(p, 1, Len(q)) = q)} |-> f[p]]

OptionalPaths(x) ==
  {q \in DOMAIN x \ {<<>>} :
     /\ x[Front(q)].type # "vector"
     /\ \E r \in AllRows(x[Front(q)].type) : <<r.key>> = Last(q) /\ r.need = "optional"}

VariantsOf(x) == {x} \cup {Without(x, q) : q \in OptionalPaths(x)}
Variants(t, alts) == UNION {VariantsOf(Full(t, a)) : a \in alts}

Uri(text)    == (<<>> :> Field("text_document_identifier", <<>>)) @@ (<<<<"uri">>>> :> Field("string", text))
Id(digits)   == (<<>> :> Field("cancel_params", <<>>)) @@ (<<<<"id">>>> :> Field("int", digits))
At(line)     == (<<>> :> Field("position", <<>>)) @@ (<<<<"line">>>> :> Field("uint32", line))
                @@ (<<<<"character">>>> :> Field("uint32", <<"0">>))

Spelled == {Uri(s) : s \in {<<>>, <<"\n", "\"">>, <<"\\">>, <<"/", "n">>, <<"\t">>, <<"escape">>}}
           \cup {Id(d) : d \in {<<"1", "2", "3", "4", "5", "6">>, <<"1", "0", "0", "0", "0", "0", "7">>}}

-----------------------------------------------------------------------------
Header(n) == Line("Content-Length", n)
EndOfHeaders == Line("\r\n", 0)

Frame(lines, text, doc, means) == [lines |-> lines, text |-> text, doc |-> doc, means |-> means]

Good(doc, text, means) ==
  Frame(<<Header(Len(text)), EndOfHeaders>>, text, doc, means)

SomeText(doc) == CHOOSE text \in Writings(doc) : TRUE

(* One message per session: the params as they are meant to be. *)
Readable == DOMAIN Structs \ WrittenOnly

Meant == {<<x, x>> : x \in UNION {Variants(t, {1, 2, 3}) : t \in Readable} \cup Spelled}
         \cup {<<Id(<<"1", ".", "5">>), Id(<<"1">>)>>,
               <<Id(<<"1", "e", "3">>), Id(<<"1", "0", "0", "0">>)>>}

(* Escapes by number and exponents are JSON, but not to the parser. *)
Unparsed(text) == {"001b", "e"} \cap ToSet(text) # {}

Intact ==
  {Good(IF Unparsed(text) THEN Empty ELSE Message(m[1][<<>>].type, Proper(m[1])), text,
        Result("value", m[2])) :
     <<m, text>> \in UNION {{<<m, text>> : text \in Writings(Message(m[1][<<>>].type, Proper(m[1])))} : m \in Meant}}

(* ... or damaged at one place: missing, null, or of another kind. *)
Other(kind) == IF kind = "STRING" THEN Value("NUMBER", <<"5">>) ELSE Value("STRING", <<"s">>)

Fate(t, q, how) ==
  CASE t = "hover_params" -> "undefined"
    [] q # <<>> /\ Last(q) = <<"end">> /\ how = "missing" -> "undefined"
    [] t = "document_formatting_params" /\ q = <<<<"workDoneToken">>>> -> "undefined"
    [] how = "other" /\ \/ t = "versioned_text_document_identifier" /\ q = <<>>
                        \/ t = "did_change_text_document_params" /\ q = <<<<"textDocument">>>> -> "throws"
    [] OTHER -> "none"

Damage(doc, q, how) ==
  CASE how = "missing" -> Without(doc, q)
    [] how = "null"    -> (q :> Value("JSON_NULL", <<>>)) @@ Without(doc, q)
    [] how = "other"   -> (q :> Other(doc[q].kind)) @@ Without(doc, q)

Places(x) ==
  {<<q, how>> \in (DOMAIN x) \X {"missing", "null", "other"} :
     how = "missing" => /\ q # <<>> => x[Front(q)].type # "vector"
                        /\ q \notin OptionalPaths(x)}

DamagedAt(x, t, place) ==
  LET doc == Message(t, Damage(Proper(x), place[1], place[2])) IN
  Good(doc, SomeText(doc),
       IF place = <<<<>>, "missing">> THEN Result("undefined", NoFields)
       ELSE Result(Fate(t, place[1], place[2]), NoFields))

DamagedOf(x) == {DamagedAt(x, x[<<>>].type, place) : place \in Places(x)}

Damaged ==
  UNION {DamagedOf(Full(t, 1)) : t \in Readable}
  \cup {Good(Message("position", Proper(At(n))), SomeText(Message("position", Proper(At(n)))),
             Result("undefined", NoFields)) : n \in {<<"-", "1">>, [i \in 1..12 |-> "9"]}}

(* Broken frames: body b is one of two, the second of whole lines. *)
Body(k, padding) == [i \in 1..padding |-> " "] \o SomeText(Message("cancel_params", Proper(Id(<<k>>))))

Framed(k, padding, lines) ==
  Frame(lines, Body(k, padding), Message("cancel_params", Proper(Id(<<k>>))), Result("value", Id(<<k>>)))

Framings(size) ==
  {<<Header(size), EndOfHeaders>>,
   <<Line("Content-Type", 0), Header(size), EndOfHeaders>>,
   <<Line("Content-Type", 0), EndOfHeaders>>,
   <<Header(size), Line("newline", 0)>>,
   <<Header(size), Line("word", 0), EndOfHeaders>>,
   <<Line("word", 0), Header(size), EndOfHeaders>>,
   <<Header(size - 1), EndOfHeaders>>,
   <<Header(size + 1), EndOfHeaders>>,
   <<Header(NotANumber), EndOfHeaders>>}

Frames(k, paddings) ==
  UNION {{Framed(k, pad, lines) : lines \in Framings(Len(Body(k, pad)))} : pad \in paddings}

Last3 == {Framed("3", 0, lines) : lines \in
            {<<Header(Len(Body("3", 0))), EndOfHeaders>>,
             <<Line("Content-Type", 0), Header(Len(Body("3", 0))), EndOfHeaders>>}}

-----------------------------------------------------------------------------
Session(frames, answers) == [frames |-> frames, answers |-> answers]

MCSessions ==
  {Session(<<f, g, h>>, <<>>) : f \in Frames("1", {0, 3}), g \in Frames("2", {0}), h \in Last3}
  \cup {Session(<<f>>, <<>>) : f \in Intact \cup Damaged}
  \cup {Session(<<>>, <<x>>) : x \in Spelled \cup UNION {Variants(t, 1..5) : t \in DOMAIN Structs}}
=============================================================================

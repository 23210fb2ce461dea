------------------------------- MODULE Client -------------------------------
(***************************************************************************)
(* The other side of Wire, for reference: the texts JSON allows for a      *)
(* document, the document a struct stands for, the frames that arrive, and *)
(* what a method may expect of damaged params.  None of it is this         *)
(* repository's code.                                                      *)
(***************************************************************************)
EXTENDS Wire

(* The document with all of a struct's fields. *)
Proper(x) == [q \in DOMAIN x |-> Value(KindOf(x[q].type), x[q].text)]

Controls == {"\n", "\t", "\r", "\f", "escape"}   \* not allowed in a string as they are

Spellings(c) ==
  CASE c = "\"" -> {<<"\\", "\"">>}
    [] c = "\\" -> {<<"\\", "\\">>}
    [] c = "\n" -> {<<"\\", "n">>}
    [] c = "\t" -> {<<"\\", "t">>}
    [] c = "/"  -> {<<"/">>, <<"\\", "/">>}
    [] c = "escape" -> {<<"\\", "u", "001b">>}
    [] OTHER    -> {<<c>>}

Concat(A, B) == {a \o b : a \in A, b \in B}

OneAfterTheOther(sets) == FoldLeft(Concat, {<<>>}, sets)

(* The texts of a document (exponents are left out), with a space after each separator or without. *)
Writings(doc) ==
  LET Text(space) ==
        LET text[p \in Paths] ==
              LET kids == IF doc[p].kind = "ARRAY"
                            THEN [i \in 1..Cardinality(Members(doc, p)) |-> Append(p, Element(i))]
                            ELSE InOrder(Members(doc, p))
                  Name(q) == {<<"\"">> \o Last(q) \o <<"\"", ":">> \o space}
                  Sep(i)  == {IF i = 1 THEN <<>> ELSE <<",">> \o space}
              IN  CASE doc[p].kind = "OBJECT" ->
                         Concat(Concat({<<"{">>}, OneAfterTheOther(
                           [i \in DOMAIN kids |-> Concat(Sep(i), Concat(Name(kids[i]), text[kids[i]]))])),
                           {<<"}">>})
                    [] doc[p].kind = "ARRAY" ->
                         Concat(Concat({<<"[">>}, OneAfterTheOther(
                           [i \in DOMAIN kids |-> Concat(Sep(i), text[kids[i]])])), {<<"]">>})
                    [] doc[p].kind = "STRING" ->
                         Concat(Concat({<<"\"">>}, OneAfterTheOther(
                           [i \in DOMAIN doc[p].text |-> Spellings(doc[p].text[i])])), {<<"\"">>})
                    [] doc[p].kind = "JSON_NULL" -> {<<"null">>}
                    [] OTHER -> {doc[p].text}
        IN  text[<<>>]
  IN  Text(<<>>) \cup Text(<<" ">>)

(* A message of the method that reads params of type t. *)
Message(t, params) ==
  (<<>> :> Value("OBJECT", <<>>)) @@ (<<<<"method">>>> :> Value("STRING", <<t>>))
  @@ [q \in {<<<<"params">>>> \o p : p \in DOMAIN params} |-> params[Tail(q)]]

-----------------------------------------------------------------------------
(* Which frames arrive, by counting: how many symbols of an earlier body are in
   front of the frame (left), how many of its lines were taken for a body
   (eaten), and whether the server is still there. *)
Arrive(acc, f) ==
  LET lines   == SubSeq(f.lines, 1 + acc.eaten, Len(f.lines))
      lost    == IF acc.left % (MAX_HTTP_HEADER_LENGTH - 1) = 0 THEN 0 ELSE 1   \* joined to the rest
      lasting == {i \in (1 + lost)..Len(lines) : \A j \in i..Len(lines) : lines[j].is \notin {"word", "newline"}}
      lengths == {i \in lasting : lines[i].is = "Content-Length"}
      n       == IF lengths = {} THEN NoLength ELSE lines[CHOOSE i \in lengths : \A j \in lengths : j <= i].n
      size    == Len(f.text)
  IN  CASE ~acc.up        -> acc
        [] n = NotANumber -> [acc EXCEPT !.up = FALSE]
        [] n = NoLength   -> [acc EXCEPT !.left = size, !.eaten = 0]
        [] n = size       -> [acc EXCEPT !.left = 0, !.eaten = 0,
                                         !.got = IF f.doc = Empty THEN @ ELSE Append(@, f.doc)]
        [] n < size       -> [acc EXCEPT !.left = size - n, !.eaten = 0]
        [] n > size       -> [acc EXCEPT !.left = 0, !.eaten = n - size]

Arriving == FoldLeft(Arrive, [left |-> 0, eaten |-> 0, up |-> TRUE, got |-> <<>>], session.frames).got

(* next() gives the messages the client has sent, as it has sent them, and no
   other, whatever is wrong with some of the frames: every message up to the
   first broken frame, and after that those whose length is found behind what
   was left unread.  (After a frame without a length all are lost whose first
   header is the length, unless the unread body fills whole lines.  A body with
   an exponent or a \u escape, which the parser does not know, is no message.) *)
DeliveredAsSent ==
  /\ IsPrefix(received, Arriving)
  /\ phase = "eof" => received = Arriving

(* A method gets what the client meant, and where params lack a member or have
   one of another kind, from_json says so.  Not so: a range's end, hover_params
   and a formatting request's token are taken unasked, numbers are cast
   unasked, and a versioned document is taken for an object unasked. *)
UnderstoodAsMeant ==
  \A i \in DOMAIN results :
    \E k \in DOMAIN session.frames : /\ session.frames[k].doc = received[i]
                                      /\ session.frames[k].means = results[i]

(* What the methods have to say is on stdout as JSON, all of it: but for the
   numbers and characters stringify cannot write, an annotation's description
   and a diagnostic's location. *)
Unsaid(x) ==
  \/ \E p \in DOMAIN x : \/ x[p].type = "diagnostic_related_information"
                         \/ /\ x[p].type = "change_annotation"
                            /\ {Append(p, <<"description">>), Append(p, <<"needsConfirmation">>)}
                                 \cap DOMAIN x \notin {{}, {Append(p, <<"description">>), Append(p, <<"needsConfirmation">>)}}
                         \/ x[p].type = "string" /\ \E c \in Controls \ {"\n"} : c \in ToSet(x[p].text)
                         \/ x[p].type \in {"int", "uint32"} /\ Cardinality({i \in DOMAIN x[p].text : x[p].text[i] \in Digits}) > 6

AnswersSayAll ==
  /\ \A i \in DOMAIN written :
       ~Unsaid(session.answers[i]) => written[i] \in Writings(Proper(session.answers[i]))
  /\ phase = "undefined" /\ session.answers # <<>> => Unsaid(session.answers[Len(written) + 1])
=============================================================================

------------------------------ MODULE ReadBack ------------------------------
(***************************************************************************)
(* What a reader of XML makes of a document of Report's, and what it       *)
(* should make of it.  Nothing here is a model of code: elements are       *)
(* numbered in document order, `of' is the element that an element is in   *)
(* (0: none).                                                              *)
(***************************************************************************)
EXTENDS Report

(* Entities end with a semicolon; a reader turns an attribute's newlines into
   spaces (XML 1.0, 3.3.3). *)
EntityOf(c) == IF c = "\n" THEN " "
               ELSE IF \E k \in DOMAIN Escaped : Escaped[k] = c THEN CHOOSE k \in DOMAIN Escaped : Escaped[k] = c
               ELSE c
Unescaped(text) == [i \in DOMAIN text |-> EntityOf(text[i])]
Legible(text)   == ToSet(text) \cap {"<", "&", "\"", "&amp"} = {}
Words(text)     == SelectSeq(text, LAMBDA c : c \notin Spaces)

-----------------------------------------------------------------------------
(* Line after line. *)
TakeStart(r, l) ==
  LET of == IF r.open = <<>> THEN 0 ELSE Last(r.open) IN
  [elements |-> Append(r.elements, [name |-> l.name, of |-> of, text |-> <<>>,
                                    attribs |-> [k \in DOMAIN l.attribs |-> Unescaped(l.attribs[k])]]),
   open |-> IF l.ends THEN r.open ELSE Append(r.open, Len(r.elements) + 1),
   ok   |-> r.ok /\ (of = 0 => r.elements = <<>>)
                 /\ \A k \in DOMAIN l.attribs : Legible(l.attribs[k])]

TakeText(r, l) ==
  IF r.open = <<>> THEN [r EXCEPT !.ok = FALSE]
  ELSE [r EXCEPT !.elements[Last(r.open)].text = @ \o Words(l.text), !.ok = @ /\ Legible(l.text)]

TakeEnd(r, l) ==
  IF r.open = <<>> \/ r.elements[Last(r.open)].name # l.name THEN [r EXCEPT !.ok = FALSE]
  ELSE [r EXCEPT !.open = Front(@)]

TakeLine(r, l) ==
  CASE ~r.ok -> r
    [] l.line = "start" -> TakeStart(r, l)
    [] l.line = "text"  -> TakeText(r, l)
    [] l.line = "end"   -> TakeEnd(r, l)

Read(lines) == FoldLeft(TakeLine, [elements |-> <<>>, open |-> <<>>, ok |-> TRUE], lines)
Readable(r) == r.ok /\ r.open = <<>> /\ r.elements # <<>>

-----------------------------------------------------------------------------
(* The elements that calls stand for.  starts: self_closing when the first
   element inside was begun; late: attributes have changed since. *)
NewElement(name, of) ==
  [name |-> name, of |-> of, text |-> <<>>, attribs |-> <<>>,
   self_closing |-> FALSE, starts |-> FALSE, filled |-> FALSE, late |-> FALSE]

Told(e, call) ==
  CASE call.operation = "set_attribute" ->
         [e EXCEPT !.attribs = (call.what :> call.text) @@ @,
                   !.late = @ \/ (e.filled /\ ~(<<call.what, call.text>> \in {<<k, e.attribs[k]>> : k \in DOMAIN e.attribs}))]
    [] call.operation = "set_self_closing" ->
         [e EXCEPT !.self_closing = (call.what = "true"), !.starts = IF e.filled THEN @ ELSE call.what = "true"]
    [] call.operation = "add_text" -> [e EXCEPT !.text = @ \o Words(call.text)]

TakeCall(b, call) ==
  CASE call.operation = "push_section" ->
         LET top == IF b.open = <<>> THEN 0 ELSE Last(b.open) IN
         [open |-> Append(b.open, Len(b.elements) + 1),
          elements |-> Append([i \in DOMAIN b.elements |->
                                 [b.elements[i] EXCEPT !.filled = @ \/ i = top]], NewElement(call.what, top))]
    [] b.open = <<>> -> b
    [] call.operation = "pop_section" -> [b EXCEPT !.open = Front(@)]
    [] OTHER -> [b EXCEPT !.elements[Last(b.open)] = Told(@, call)]

Built == FoldLeft(TakeCall, [elements |-> <<>>, open |-> <<>>], made).elements

(* How the writer must not be used. *)
Misused(e) ==
  \/ e.filled /\ (e.starts \/ e.self_closing)
  \/ ~e.filled /\ e.self_closing /\ e.text # <<>>
  \/ e.late
  \/ \E k \in DOMAIN e.attribs : ToSet(e.attribs[k]) \cap {"&", "\n"} # {}
  \/ ~Legible(e.text)

OneRoot(elements) == Cardinality({i \in DOMAIN elements : elements[i].of = 0}) = 1

Same(elements, others) ==
  /\ Len(elements) = Len(others)
  /\ \A i \in DOMAIN elements : \A f \in {"name", "of", "text", "attribs"} : elements[i][f] = others[i][f]

(* Whoever calls the writer, and however often: what is read from the finished
   document are the elements that were pushed, each inside the one that it was
   pushed in, with the attributes and the text it was given.  The exceptions are
   exactly: several roots or none; a self-closing element with something in it;
   an attribute set after an element inside was begun; & and newlines in
   attributes (string.hh's xml_escape_string writes &amp without a semicolon),
   markup in texts, which are not escaped. *)
AsBuilt ==
  caller = "any" /\ phase = "ended" =>
    LET r == Read(os) IN
    (Readable(r) /\ Same(r.elements, Built))
      <=> (OneRoot(Built) /\ \A i \in DOMAIN Built : ~Misused(Built[i]))

-----------------------------------------------------------------------------
(* The report as its reader counts it. *)
Around(elements) ==
  LET around[e \in 0..Len(elements)] == IF e = 0 THEN {} ELSE {e} \cup around[elements[e].of] IN around

Path(items, of, name) ==
  LET path[i \in 0..Len(items)] == IF i = 0 THEN <<>> ELSE Append(path[items[i].of], items[i].name)
  IN  Append(path[of], name)

HowMany(f) == [x \in {f[i] : i \in DOMAIN f} |-> Cardinality({i \in DOMAIN f : f[i] = x})]

Spoken(text) == [i \in DOMAIN text |-> IF text[i] = "\n" THEN " " ELSE text[i]]
Title(e)     == [of |-> e.of, name |-> e.attribs["name"]]
Named(r)     == [i \in DOMAIN r |-> IF r[i].name = "failure" THEN [of |-> r[i].of, name |-> <<>>] ELSE Title(r[i])]
Tagged(r, tag) == {i \in DOMAIN r : r[i].name = tag}

MessageOf(r, e) ==
  LET within == {f \in Tagged(r, "failure") : r[f].of = e} IN
  IF within = {} THEN NONE ELSE r[CHOOSE f \in within : TRUE].attribs["message"]

Listed(r) ==
  HowMany([e \in Tagged(r, "testcase") |->
             <<Path(Named(r), r[e].of, r[e].attribs["name"]), MessageOf(r, e)>>])

Ran ==
  HowMany([c \in DOMAIN test_cases |->
             <<<<<<"session">>>> \o Path(test_suites, test_cases[c].of, Spoken(test_cases[c].name)),
               Spoken(test_cases[c].failure)>>])

Numeral(text) == CHOOSE n \in 0..20 : to_string(n) = text

SumsUp(r, around, s) ==
  LET within  == {c \in Tagged(r, "testcase") : s \in around[c]}
      failing == {c \in within : MessageOf(r, c) # NONE}
      says    == r[s].attribs
  IN  /\ says["tests"] = to_string(Cardinality(within))
      /\ says["assertions"] = to_string(Cardinality(within))
      /\ says["failures"] = to_string(Cardinality(failing))
      /\ LET error == Numeral(says["time"]) - MapThenSumSet(LAMBDA c : Numeral(r[c].attribs["time"]), within)
         IN  2 * error \in (- (Cardinality(within) + 1))..(Cardinality(within) + 1)

Unspeakable == \E c \in DOMAIN test_cases : "&" \in ToSet(test_cases[c].name \o test_cases[c].failure)

(* Wherever the process stops, what it leaves can only be read when it is the
   whole report: each test that ran under the suites that held it, as often as
   it ran, with its verdict; each suite's counts what its reader counts below it,
   and its time what the reader adds up, but for half a microsecond that each of
   the times may be off; and main's exit status what the report says, unless a
   source could not be read or the tests asked for are not known, which leave no
   trace in it.  The report is whole unless a name or a message has an & in it. *)
ReportSaysAll ==
  caller = "session" =>
    LET r == Read(os) IN
    /\ Readable(r) =>
         /\ Listed(r.elements) = Ran
         /\ Cardinality(Tagged(r.elements, "testsuite")) = Len(test_suites)
         /\ \A s \in Tagged(r.elements, "testsuite") \cup {1} : SumsUp(r.elements, Around(r.elements), s)
         /\ ok = (r.elements[1].attribs["failures"] = <<"0">> /\ unread = 0 /\ ~refused)
    /\ phase = "ended" => (Readable(r) <=> ~Unspeakable)
=============================================================================

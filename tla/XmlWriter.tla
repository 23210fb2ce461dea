----------------------------- MODULE XmlWriter -----------------------------
(***************************************************************************)
(* hill::utils::xml_writer (src/src/utils/xml_writer.hh): its caller       *)
(* pushes sections, gives them attributes and text and pops them.  A       *)
(* section's start tag is written as late as can be: with the first        *)
(* section inside it, or when it is popped.                                *)
(*                                                                         *)
(* A line of the document is one value; texts are sequences of symbols.    *)
(* Indentation, and the order of a tag's attributes, are left out.         *)
(***************************************************************************)
EXTENDS Integers, SequencesExt

VARIABLES section_stack,  \* the sections pushed and not popped
          os,             \* the lines written
          closed          \* os is nullptr

writer == <<section_stack, os, closed>>

Spaces == {" ", "\n"}

Escaped ==
  ("\"" :> "&quot;") @@ ("'" :> "&apos;") @@ ("<" :> "&lt;") @@ (">" :> "&gt;") @@ ("&" :> "&amp")

(* What stands for & has no semicolon. *)
xml_escape_string(s) == [i \in DOMAIN s |-> IF s[i] \in DOMAIN Escaped THEN Escaped[s[i]] ELSE s[i]]

trim(s) ==
  LET words == {i \in DOMAIN s : s[i] \notin Spaces}
      first == CHOOSE i \in words : \A j \in words : i <= j
      last  == CHOOSE i \in words : \A j \in words : j <= i
  IN  IF words = {} THEN <<>> ELSE SubSeq(s, first, last)

-----------------------------------------------------------------------------
xml_section(name) ==
  [name |-> name, attribs |-> <<>>, text |-> <<>>, self_closing |-> FALSE, flushed_start |-> FALSE]

WriteStart(s) == [line |-> "start", name |-> s.name, attribs |-> s.attribs, text |-> <<>>, ends |-> s.self_closing]
WriteText(s)  == [line |-> "text", name |-> "", attribs |-> <<>>, text |-> s.text, ends |-> FALSE]
WriteEnd(s)   == [line |-> "end", name |-> s.name, attribs |-> <<>>, text |-> <<>>, ends |-> TRUE]

flush_section(s) ==
  (IF s.flushed_start THEN <<>> ELSE <<WriteStart(s)>>)
  \o (IF s.text = <<>> THEN <<>> ELSE <<WriteText(s)>>)
  \o (IF s.self_closing THEN <<>> ELSE <<WriteEnd(s)>>)

-----------------------------------------------------------------------------
(* Mutant: that the start tag is written is not noted. *)
push_section_again(name) ==
  /\ os' = IF section_stack # <<>> /\ ~Last(section_stack).flushed_start
             THEN Append(os, WriteStart(Last(section_stack))) ELSE os
  /\ section_stack' = Append(section_stack, xml_section(name))
  /\ UNCHANGED closed

push_section(name) ==
  /\ os' = IF section_stack # <<>> /\ ~Last(section_stack).flushed_start
             THEN Append(os, WriteStart(Last(section_stack))) ELSE os
  /\ section_stack' = Append([i \in DOMAIN section_stack |->
                                [section_stack[i] EXCEPT !.flushed_start = @ \/ i = Len(section_stack)]],
                             xml_section(name))
  /\ UNCHANGED closed

pop_section ==
  /\ section_stack # <<>>
  /\ os' = os \o flush_section(Last(section_stack))
  /\ section_stack' = Front(section_stack)
  /\ UNCHANGED closed

(* What is set on the section pushed last; the others return early. *)
Amend(section) ==
  /\ section_stack # <<>>
  /\ section_stack' = Append(Front(section_stack), section)
  /\ UNCHANGED <<os, closed>>

set_attribute(key, value) ==
  Amend([Last(section_stack) EXCEPT !.attribs = (key :> xml_escape_string(value)) @@ @])

set_self_closing(self_closing) ==
  Amend([Last(section_stack) EXCEPT !.self_closing = self_closing])

add_text(text) ==
  Amend([Last(section_stack) EXCEPT !.text = (IF @ = <<>> THEN @ ELSE @ \o <<" ">>) \o trim(text)])

(* Every other operation on an empty stack. *)
Ignored == section_stack = <<>> /\ UNCHANGED writer

(* close, and the destructor. *)
close ==
  /\ ~closed
  /\ os' = os \o FlattenSeq([i \in DOMAIN section_stack |->
                               flush_section(section_stack[Len(section_stack) + 1 - i])])
  /\ section_stack' = <<>>
  /\ closed' = TRUE

XmlWriterInit == section_stack = <<>> /\ os = <<>> /\ closed = FALSE

-----------------------------------------------------------------------------
(* A call as a value, for who makes several. *)
Call(operation, what, text) == [operation |-> operation, what |-> what, text |-> text]

Perform(call) ==
  \/ call.operation = "push_section" /\ push_section(call.what)
  \/ call.operation = "pop_section" /\ pop_section
  \/ call.operation = "set_attribute" /\ set_attribute(call.what, call.text)
  \/ call.operation = "set_self_closing" /\ set_self_closing(call.what = "true")
  \/ call.operation = "add_text" /\ add_text(call.text)
  \/ call.operation # "push_section" /\ Ignored
=============================================================================

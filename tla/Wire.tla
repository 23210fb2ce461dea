-------------------------------- MODULE Wire --------------------------------
(***************************************************************************)
(* What goes over stdin and stdout: hill::lsp::listener                    *)
(* (src/src/lsp/listener.hh) cuts the input into headers and contents and  *)
(* parses these (Json), the methods read their parameters from the         *)
(* documents and write their results (Protocol).                           *)
(*                                                                         *)
(* The client has sent its frames: header lines and a body.  A header line *)
(* is one symbol of the stream, and so is each symbol of the body.         *)
(***************************************************************************)
EXTENDS Protocol

CONSTANTS
  Sessions,                  \* [frames, answers]: what the client sends, what the server has to say
  MAX_HTTP_HEADER_LENGTH     \* fgets gives one symbol less of a line at a time

VARIABLES session, stream,   \* what the client sent, what of it is unread
          phase,             \* of listener::next: "headers", "content", "eof"; or "crashed", "undefined"
          length,            \* Content-Length among the headers so far, or NoLength
          received, handled, \* the documents next() has given; how many were handled
          results,           \* what from_json made of their params
          written            \* the answers on stdout

vars == <<session, stream, phase, length, received, handled, results, written>>

NoLength   == -1
NotANumber == -2

(* "\r\n" ends the headers.  "word" is a line without a colon, "newline" an
   empty one without the \r, which strchr does not cut off. *)
Line(is, n)  == [is |-> is, n |-> n]
Lines        == {"Content-Length", "Content-Type", "\r\n", "newline", "word"}
WithColon    == {"Content-Length", "Content-Type", ":"}
OfText(text) == [i \in DOMAIN text |-> Line(text[i], 0)]
TextOf(symbols) == [i \in DOMAIN symbols |-> symbols[i].is]

FrameOf(frame) == frame.lines \o OfText(frame.text)

-----------------------------------------------------------------------------
(* listener::recv_headers, a line at a time.  What is left of a body that was
   not read comes before the first line. *)

LineEnd ==
  LET ends == {i \in DOMAIN stream : stream[i].is \in Lines} \cup {Len(stream), MAX_HTTP_HEADER_LENGTH - 1}
  IN  CHOOSE i \in ends : \A j \in ends : i <= j

TheLine == SubSeq(stream, 1, LineEnd)
HasColon == \E i \in DOMAIN TheLine : TheLine[i].is \in WithColon

Reading(phases) ==
  /\ phase \in phases
  /\ UNCHANGED <<session, handled, results, written>>

RecvHeader ==
  /\ Reading({"headers"}) /\ stream # <<>> /\ HasColon
  /\ length' = IF TheLine[1].is = "Content-Length" THEN TheLine[1].n ELSE length
  /\ stream' = SubSeq(stream, LineEnd + 1, Len(stream))
  /\ UNCHANGED <<phase, received>>

(* Mutant: the headers before it are kept. *)
RecvNoHeader_goesOn ==
  /\ Reading({"headers"}) /\ stream # <<>> /\ ~HasColon /\ TextOf(TheLine) # <<"\r\n">>
  /\ stream' = SubSeq(stream, LineEnd + 1, Len(stream))
  /\ UNCHANGED <<length, phase, received>>

(* A line that is no header: next() gives nothing, and starts over. *)
RecvNoHeader ==
  /\ Reading({"headers"}) /\ stream # <<>> /\ ~HasColon /\ TextOf(TheLine) # <<"\r\n">>
  /\ length' = NoLength
  /\ stream' = SubSeq(stream, LineEnd + 1, Len(stream))
  /\ UNCHANGED <<phase, received>>

(* Mutant: the length is not asked for. *)
RecvEndOfHeaders_unasked ==
  /\ Reading({"headers"}) /\ stream # <<>> /\ TextOf(TheLine) = <<"\r\n">>
  /\ phase' = IF length = NotANumber THEN "crashed" ELSE "content"
  /\ stream' = Tail(stream)
  /\ UNCHANGED <<length, received>>

(* Without a length next() gives nothing; std::stoull throws, which nothing in
   the main thread catches. *)
RecvEndOfHeaders ==
  /\ Reading({"headers"}) /\ stream # <<>> /\ TextOf(TheLine) = <<"\r\n">>
  /\ phase' = CASE length = NoLength -> "headers" [] length = NotANumber -> "crashed" [] OTHER -> "content"
  /\ stream' = Tail(stream)
  /\ UNCHANGED <<length, received>>

(* recv_content and parse_content.  At the end of the stream getchar gives EOF,
   which becomes a character. *)
Content ==
  IF length <= Len(stream) THEN TextOf(SubSeq(stream, 1, length)) ELSE <<"EOF">>

RecvContent ==
  /\ Reading({"content"})
  /\ received' = IF Parse(Content) = Empty THEN received ELSE Append(received, Parse(Content))
  /\ stream' = SubSeq(stream, length + 1, Len(stream))
  /\ phase' = "headers" /\ length' = NoLength

(* The client has closed the stream: fgets fails, and is called again. *)
RecvNothing ==
  /\ Reading({"headers"}) /\ stream = <<>>
  /\ phase' = "eof"
  /\ UNCHANGED <<stream, length, received>>

-----------------------------------------------------------------------------
(* What from_json makes of a message's params, for the type that its method
   reads.  *params is taken without asking whether there are any. *)
Params(doc) ==
  IF <<<<"params">>>> \in DOMAIN doc
    THEN FromJson(Last(doc[<<<<"method">>>>].text), Get(doc, <<<<"params">>>>))
    ELSE Result("undefined", NoFields)

Running == phase \notin {"crashed", "undefined"}

(* A worker handles a message; the method takes *from_json as well.  What is
   thrown the thread pool catches. *)
Handle ==
  /\ Running /\ handled < Len(received)
  /\ handled' = handled + 1
  /\ results' = Append(results, Params(received[handled + 1]))
  /\ phase' = IF Params(received[handled + 1]).is \in {"none", "undefined"} THEN "undefined" ELSE phase
  /\ UNCHANGED <<session, stream, length, received, written>>

(* A result is written; the session has the values that results may have. *)
Answer ==
  /\ Running /\ Len(written) < Len(session.answers)
  /\ LET x == session.answers[Len(written) + 1] IN
     IF WritesNothing(x) THEN phase' = "undefined" /\ UNCHANGED written
     ELSE written' = Append(written, Stringify(ToJson(x))) /\ UNCHANGED phase
  /\ UNCHANGED <<session, stream, length, received, handled, results>>

Init ==
  /\ session \in Sessions
  /\ stream = FlattenSeq([i \in DOMAIN session.frames |-> FrameOf(session.frames[i])])
  /\ phase = "headers" /\ length = NoLength
  /\ received = <<>> /\ handled = 0 /\ results = <<>> /\ written = <<>>

Next ==
  \/ RecvHeader \/ RecvNoHeader \/ RecvEndOfHeaders \/ RecvContent \/ RecvNothing
  \/ Handle \/ Answer

Spec == Init /\ [][Next]_vars

-----------------------------------------------------------------------------
TypeOK ==
  /\ phase \in {"headers", "content", "eof", "crashed", "undefined"}
  /\ length \in {NoLength, NotANumber} \cup Nat
  /\ phase = "content" => length >= 0
  /\ handled = Len(results) /\ handled <= Len(received)
  /\ \A i \in DOMAIN results : results[i].is \in {"value", "none", "throws", "undefined"}
=============================================================================

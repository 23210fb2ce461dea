---------------------------- MODULE MCLspServer ----------------------------
(* LspServer for TLC: clients with a small vocabulary. *)
EXTENDS LspServer

Request(id, method) == [kind |-> "message", id |-> id, method |-> method]
Cancel(id) == [kind |-> "message", id |-> NoId, method |-> "cancelRequest", target |-> id]
Note(method) == [kind |-> "message", id |-> NoId, method |-> method]
Change(uri, text) ==
  [kind |-> "message", id |-> NoId, method |-> "didChange", uri |-> uri, text |-> text]
Close(uri) == [kind |-> "message", id |-> NoId, method |-> "didClose", uri |-> uri]

MCUris == {"a"}
MCText == "none"

(* All there is to say: requests with and without a route, notifications of
   every kind, and what the server throws away. *)
FullVocabulary ==
  { Request(1, "hover"), Request(2, "shutdown"), Request(3, "didSave"), Cancel(1),
    Note("exit"), Note("initialized"), Note("logTrace"), Note("didOpen"),
    Change("a", "t1"), Close("a"), [kind |-> "garbage"], [kind |-> "invalid"] }

(* The messages that can get into each other's way: two requests (one with
   the largest id that survives the wire), their cancellation, a request
   without a route, edits of one document, and exit. *)
BusyVocabulary ==
  { Request(1, "hover"), Request(999999, "hover"), Request(3, "didSave"),
    Cancel(1), Note("exit"), Change("a", "t1"), Change("a", "t2"), Close("a") }
=============================================================================

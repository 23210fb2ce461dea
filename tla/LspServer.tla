----------------------------- MODULE LspServer -----------------------------
(***************************************************************************)
(* The language server, src/src/lsp: the main thread of server::run, the   *)
(* request_handler running in the workers of the pool, the server_state    *)
(* they share, and a client at the other end of stdin and stdout.          *)
(*                                                                         *)
(* The pool is JobPool, which ThreadPool implements; job n handles the     *)
(* n-th message that was queued, inbox[n].  A message is what              *)
(* listener::next makes of the bytes of the stream, reduced to what the    *)
(* handler looks at:                                                       *)
(*   garbage  - next() returns nothing (bad headers, no JSON)              *)
(*   invalid  - handle() returns early: not an object, no jsonrpc or       *)
(*              method, a method it does not know, an id that is no number *)
(*   message  - with an id it is a request, with NoId a notification       *)
(***************************************************************************)
EXTENDS Naturals, Sequences

CONSTANTS Workers,      \* the threads of the pool
          Messages,     \* what the client may send
          MaxMessages,  \* bound on how many it sends
          Uris,         \* names of documents
          NoText        \* a document the store does not hold

NoId == 0

RequestMethods == {"initialize", "shutdown", "completion", "hover", "formatting"}
NotifyMethods  == {"cancelRequest", "initialized", "setTrace", "exit",
                   "didOpen", "didChange", "didClose"}

(* The members of models::method that neither map of the router holds. *)
OtherMethods == {"logTrace", "willSave", "willSaveWaitUntil", "didSave", "didRename"}

Methods == RequestMethods \cup NotifyMethods \cup OtherMethods

(* An id is kept as an int. *)
MaxInt == 2147483647

ASSUME MaxMessagesAssumption == MaxMessages \in Nat
ASSUME MessagesAssumption ==
  \A m \in Messages :
    /\ m.kind \in {"garbage", "invalid", "message"}
    /\ m.kind = "message" => /\ m.id \in 0..MaxInt /\ m.method \in Methods
                             /\ m.method = "cancelRequest" => m.target \in 1..MaxInt
                             /\ m.method \in {"didChange", "didClose"} => m.uri \in Uris

VARIABLES unread,      \* sent by the client, not read from stdin yet
          inbox,       \* history: the messages that were queued, in order
          main,        \* where server::run is
          running,     \* server_state::running
          initialized, \* server_state::initialized
          inFlight,    \* request_state::in_flight_requests
          cancelIds,   \* request_state::cancel_request_ids
          docs,        \* document_store::store
          at,          \* where each worker is in request_handler::handle
          out,         \* the responses on stdout
          raced        \* history: two document notifications were handled at once

(* The pool's variables, see JobPool. *)
VARIABLES threads, curr, jobs, shouldTerminate, queued, begun, done

poolVars   == <<threads, curr, jobs, shouldTerminate, queued, begun, done>>
stateVars  == <<running, initialized, inFlight, cancelIds, docs>>
clientVars == <<unread, inbox, out>>
vars       == <<unread, inbox, main, stateVars, at, out, raced, poolVars>>

Pool == INSTANCE JobPool WITH MaxJobs <- MaxMessages

IsRequest(m) == m.kind = "message" /\ m.id # NoId
IsNotify(m)  == m.kind = "message" /\ m.id = NoId
IsRouted(m)  == \/ IsRequest(m) /\ m.method \in RequestMethods
                \/ IsNotify(m) /\ m.method \in NotifyMethods
IsDoc(m)     == IsNotify(m) /\ m.method \in {"didChange", "didClose"}
Cancels(m, id) == IsNotify(m) /\ m.method = "cancelRequest" /\ m.target = id

-----------------------------------------------------------------------------
(* A number leaves the server through `ss << double' (json_value::stringify):*)
(* six significant digits, ties to even.                                     *)
Units == {1, 10, 100, 1000, 10000}

(* Mutant: five digits. *)
WireNumber_five(n) ==
  LET unit == IF n < 100000 THEN 1 ELSE 10 IN n - (n % unit)

WireNumber(n) ==
  LET unit == CHOOSE u \in Units :
                n \div u < 1000000 /\ (u = 1 \/ n \div (u \div 10) >= 1000000)
      low  == n - (n % unit)
      up   == \/ 2 * (n % unit) > unit
              \/ 2 * (n % unit) = unit /\ (n \div unit) % 2 = 1
  IN  IF up THEN low + unit ELSE low

-----------------------------------------------------------------------------
Init ==
  /\ unread = <<>> /\ inbox = <<>> /\ out = <<>>
  /\ main = "check"
  /\ running = TRUE /\ initialized = FALSE
  /\ inFlight = {} /\ cancelIds = {}
  /\ docs = [u \in Uris |-> NoText]
  /\ at = [w \in Workers |-> "idle"]
  /\ raced = FALSE
  \* thread_pool.start() has returned
  /\ threads = Workers
  /\ curr = [w \in Workers |-> Pool!NoJob]
  /\ jobs = <<>> /\ shouldTerminate = FALSE
  /\ queued = 0 /\ begun = <<>> /\ done = {}

-----------------------------------------------------------------------------
(* The client gives every request an id of its own and cancels only what it  *)
(* has sent.  MaxUnread messages fit into the pipe.                          *)
MaxUnread == 1
Sent == inbox \o unread

Send(m) ==
  /\ Len(unread) < MaxUnread
  /\ Len(Sent) < MaxMessages
  /\ IsRequest(m) => \A i \in 1..Len(Sent) : ~(IsRequest(Sent[i]) /\ Sent[i].id = m.id)
  /\ IsNotify(m) /\ m.method = "cancelRequest" =>
       \E i \in 1..Len(Sent) : IsRequest(Sent[i]) /\ Sent[i].id = m.target
  /\ unread' = Append(unread, m)
  /\ UNCHANGED <<inbox, main, stateVars, at, out, raced, poolVars>>

-----------------------------------------------------------------------------
(* server::run.  next() blocks until there is a whole message.               *)
StayInLoop ==
  /\ main = "check" /\ running
  /\ main' = "recv"
  /\ UNCHANGED <<clientVars, stateVars, at, raced, poolVars>>

LeaveLoop ==
  /\ main = "check" /\ ~running
  /\ main' = "join"
  /\ Pool!Close
  /\ UNCHANGED <<clientVars, stateVars, at, raced>>

(* Mutant: next() goes on reading until it has a message. *)
Recv_skipsGarbage ==
  /\ main = "recv" /\ unread # <<>>
  /\ unread' = Tail(unread)
  /\ \/ /\ Head(unread).kind = "garbage"
        /\ UNCHANGED <<main, inbox, poolVars>>
     \/ /\ Head(unread).kind # "garbage"
        /\ main' = "check"
        /\ inbox' = Append(inbox, Head(unread))
        /\ Pool!Submit
  /\ UNCHANGED <<stateVars, at, out, raced>>

Recv ==
  /\ main = "recv" /\ unread # <<>>
  /\ unread' = Tail(unread)
  /\ main' = "check"
  /\ \/ /\ Head(unread).kind = "garbage"
        /\ UNCHANGED <<inbox, poolVars>>
     \/ /\ Head(unread).kind # "garbage"
        /\ inbox' = Append(inbox, Head(unread))
        /\ Pool!Submit
  /\ UNCHANGED <<stateVars, at, out, raced>>

(* Mutant: the server does not wait for the workers. *)
Join_missing ==
  /\ main = "join"
  /\ main' = "stopped"
  /\ UNCHANGED <<clientVars, stateVars, at, raced, poolVars>>

Join ==
  /\ main = "join"
  /\ Pool!Dissolve
  /\ main' = "stopped"
  /\ UNCHANGED <<clientVars, stateVars, at, raced>>

-----------------------------------------------------------------------------
(* A worker in request_handler::handle.                                      *)

Message(w) == inbox[curr[w]]

Goto(w, p) == at' = [at EXCEPT ![w] = p]

Return(w) == Pool!End(w) /\ Goto(w, "idle")

BeginJob(w) ==
  /\ Pool!Begin(w)
  /\ Goto(w, "handle")
  /\ raced' = (raced \/ /\ IsDoc(inbox[Head(jobs)])
                        /\ \E v \in Workers : curr[v] # Pool!NoJob /\ IsDoc(Message(v)))
  /\ UNCHANGED <<clientVars, main, stateVars>>

(* Early returns of handle, and a notification without a route. *)
Ignore(w) ==
  /\ at[w] = "handle"
  /\ \/ Message(w).kind = "invalid"
     \/ IsNotify(Message(w)) /\ ~IsRouted(Message(w))
  /\ Return(w)
  /\ UNCHANGED <<clientVars, main, stateVars, raced>>

(* request_state::on_cancel, under its mutex. *)
OnCancel(id) ==
  /\ cancelIds' = IF id \in inFlight THEN cancelIds \cup {id} ELSE cancelIds
  /\ UNCHANGED <<running, initialized, inFlight, docs>>

Initialized ==
  /\ initialized' = TRUE
  /\ UNCHANGED <<running, inFlight, cancelIds, docs>>

ExitServer ==
  /\ running' = FALSE
  /\ UNCHANGED <<initialized, inFlight, cancelIds, docs>>

(* document_store::set and remove, under its mutex. *)
(* Mutant: insert, which does not overwrite. *)
SetDoc_inserts(uri, text) ==
  /\ docs' = IF docs[uri] = NoText THEN [docs EXCEPT ![uri] = text] ELSE docs
  /\ UNCHANGED <<running, initialized, inFlight, cancelIds>>

(* Mutant: the document's entry goes away for good. *)
SetDoc_erases(uri, text) ==
  /\ docs' = [u \in Uris \ {uri} |-> docs[u]]
  /\ UNCHANGED <<running, initialized, inFlight, cancelIds>>

SetDoc(uri, text) ==
  /\ docs' = [docs EXCEPT ![uri] = text]
  /\ UNCHANGED <<running, initialized, inFlight, cancelIds>>

(* The methods of the notify map; didOpen and setTrace only log. *)
Notify(w) ==
  LET m == Message(w) IN
  /\ at[w] = "handle"
  /\ IsNotify(m)
  /\ \/ m.method = "cancelRequest" /\ OnCancel(m.target)
     \/ m.method = "initialized" /\ Initialized
     \/ m.method = "exit" /\ ExitServer
     \/ m.method = "didChange" /\ SetDoc(m.uri, m.text)
     \/ m.method = "didClose" /\ SetDoc(m.uri, NoText)
     \/ m.method \in {"didOpen", "setTrace"} /\ UNCHANGED stateVars
  /\ Return(w)
  /\ UNCHANGED <<clientVars, main, raced>>

OnRecv(w) ==
  /\ at[w] = "handle"
  /\ IsRequest(Message(w))
  /\ inFlight' = inFlight \cup {Message(w).id}
  /\ Goto(w, "call")
  /\ UNCHANGED <<clientVars, main, running, initialized, cancelIds, docs, raced, poolVars>>

(* No route: handle_request returns, without a response and without
   on_complete. *)
NoRoute(w) ==
  /\ at[w] = "call"
  /\ ~IsRouted(Message(w))
  /\ Return(w)
  /\ UNCHANGED <<clientVars, main, stateVars, raced>>

(* The methods of the request map; only shutdown changes the state. *)
Call(w) ==
  /\ at[w] = "call"
  /\ IsRouted(Message(w))
  /\ initialized' = IF Message(w).method = "shutdown" THEN FALSE ELSE initialized
  /\ Goto(w, "check")
  /\ UNCHANGED <<clientVars, main, running, inFlight, cancelIds, docs, raced, poolVars>>

(* Mutant: any pending cancellation counts. *)
CheckCancelled_any(w) ==
  /\ at[w] = "check"
  /\ Goto(w, IF cancelIds # {} THEN "writeError" ELSE "writeResult")
  /\ UNCHANGED <<clientVars, main, stateVars, raced, poolVars>>

(* Mutant: a cancelled request is dropped. *)
CheckCancelled_drops(w) ==
  /\ at[w] = "check"
  /\ Goto(w, IF Message(w).id \in cancelIds THEN "complete" ELSE "writeResult")
  /\ UNCHANGED <<clientVars, main, stateVars, raced, poolVars>>

CheckCancelled(w) ==
  /\ at[w] = "check"
  /\ Goto(w, IF Message(w).id \in cancelIds THEN "writeError" ELSE "writeResult")
  /\ UNCHANGED <<clientVars, main, stateVars, raced, poolVars>>

(* The whole frame goes out under the response mutex. *)
Write(w) ==
  /\ at[w] \in {"writeError", "writeResult"}
  /\ out' = Append(out, [job |-> curr[w], id |-> WireNumber(Message(w).id),
                         cancelled |-> at[w] = "writeError"])
  /\ Goto(w, "complete")
  /\ UNCHANGED <<unread, inbox, main, stateVars, raced, poolVars>>

(* Mutant: the cancellation stays behind. *)
OnComplete_keepsCancel(w) ==
  /\ at[w] = "complete"
  /\ inFlight' = inFlight \ {Message(w).id}
  /\ Return(w)
  /\ UNCHANGED <<clientVars, main, running, initialized, cancelIds, docs, raced>>

OnComplete(w) ==
  /\ at[w] = "complete"
  /\ inFlight' = inFlight \ {Message(w).id}
  /\ cancelIds' = cancelIds \ {Message(w).id}
  /\ Return(w)
  /\ UNCHANGED <<clientVars, main, running, initialized, docs, raced>>

-----------------------------------------------------------------------------
Main == StayInLoop \/ LeaveLoop \/ Recv \/ Join

Handle(w) == \/ Ignore(w) \/ Notify(w) \/ OnRecv(w) \/ NoRoute(w) \/ Call(w)
             \/ CheckCancelled(w) \/ Write(w) \/ OnComplete(w)

Next == \/ \E m \in Messages : Send(m)
        \/ Main
        \/ \E w \in Workers : BeginJob(w) \/ Handle(w)

(* Threads make progress and the pool keeps its promise; the client owes
   nothing. *)
Fairness ==
  /\ WF_vars(Main)
  /\ WF_vars(\E w \in Workers : BeginJob(w))
  /\ \A w \in Workers : WF_vars(Handle(w))

Spec == Init /\ [][Next]_vars
FairSpec == Spec /\ Fairness

-----------------------------------------------------------------------------
MainPCs   == {"check", "recv", "join", "stopped"}
WorkerPCs == {"idle", "handle", "call", "check", "writeError", "writeResult", "complete"}

TypeOK ==
  /\ unread \in Seq(Messages) /\ inbox \in Seq(Messages)
  /\ main \in MainPCs
  /\ running \in BOOLEAN /\ initialized \in BOOLEAN /\ raced \in BOOLEAN
  /\ inFlight \subseteq Nat /\ cancelIds \subseteq Nat
  /\ docs \in [Uris -> {NoText} \cup {m.text : m \in {n \in Messages : IsDoc(n) /\ n.method = "didChange"}}]
  /\ at \in [Workers -> WorkerPCs]
  /\ out \in Seq([job : Pool!Jobs, id : Nat, cancelled : BOOLEAN])

Handling(n) == \E w \in Workers : curr[w] = n
Answers(n)  == {i \in 1..Len(out) : out[i].job = n}

(* Ids that fit into the six digits of a number on the wire. *)
ShortId(id) == id < 1000000

(* A request that has been handled was answered exactly once, under its own  *)
(* id, and nothing else is ever answered (handle_request writes once on      *)
(* every path but the missing route).                                        *)
OneAnswerEach ==
  \A n \in 1..Len(inbox) :
    LET m == inbox[n] IN
    /\ \A i, j \in Answers(n) : i = j
    /\ Answers(n) # {} => IsRequest(m) /\ IsRouted(m)
    /\ n \in done /\ IsRequest(m) /\ IsRouted(m) => Answers(n) # {}
    /\ \A i \in Answers(n) : ShortId(m.id) => out[i].id = m.id

(* in_flight_requests is exactly the requests a worker is at, plus those     *)
(* that met no route (which handle_request never takes out again), and only  *)
(* those can be marked as cancelled: nothing is left behind by a             *)
(* cancellation that comes too early or too late.                            *)
InFlightExact ==
  /\ inFlight =
       {Message(w).id : w \in {v \in Workers : at[v] \notin {"idle", "handle"}}}
       \cup {inbox[n].id : n \in {k \in done : IsRequest(inbox[k]) /\ ~IsRouted(inbox[k])}}
  /\ cancelIds \subseteq inFlight

(* A response says REQUEST_CANCELLED only when the client cancelled that     *)
(* request: "The client has canceled a request and a server has detected the *)
(* cancel" (models.hh).                                                      *)
CancelledByClient ==
  \A i \in 1..Len(out) : out[i].cancelled =>
    \E c \in (out[i].job + 1)..Len(inbox) :
      c \in done /\ Cancels(inbox[c], inbox[out[i].job].id)

(* Stopping loses nothing that came before the exit notification: when       *)
(* server::run returns, some exit was handled, every message queued before   *)
(* it has been handled completely, and every such request is answered        *)
(* (stop() drops only what is behind the exit; join() waits for the rest).   *)
DrainedAtStop ==
  main = "stopped" =>
    \E e \in done :
      /\ IsNotify(inbox[e]) /\ inbox[e].method = "exit"
      /\ \A n \in 1..e : n \in done
      /\ \A n \in 1..e : IsRequest(inbox[n]) /\ IsRouted(inbox[n]) => Answers(n) # {}

(* As long as no two document notifications are handled at the same time,    *)
(* the store holds, of every document, what the last of them left, in the    *)
(* client's order.  (The pool does not order them: with two workers the      *)
(* older change may be stored last.)                                         *)
LastText(u) ==
  LET touching == {n \in 1..Len(begun) : IsDoc(inbox[n]) /\ inbox[n].uri = u}
      last == CHOOSE n \in touching : \A k \in touching : k <= n
  IN  IF touching = {} \/ inbox[last].method = "didClose" THEN NoText ELSE inbox[last].text

DocsFollowTheClient ==
  ~raced /\ (\A w \in Workers : curr[w] # Pool!NoJob => ~IsDoc(Message(w)))
    => \A u \in Uris : docs[u] = LastText(u)

(* Every request with a route is answered, unless the server is being told   *)
(* to exit.                                                                  *)
RequestsAnswered ==
  \A n \in 1..MaxMessages :
    (n <= Len(inbox) /\ IsRequest(inbox[n]) /\ IsRouted(inbox[n]))
      ~> (Answers(n) # {} \/ ~running)

(* After an exit notification was handled, one more message is enough to     *)
(* stop the server.                                                          *)
StopsAtNextMessage == (~running /\ unread # <<>>) ~> main = "stopped"

(* "The server should exit" (lifecycle.hh, on exit): once the notification   *)
(* was handled, the server stops.                                            *)
ExitStopsServer == ~running ~> main = "stopped"
=============================================================================

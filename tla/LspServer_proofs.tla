-------------------------- MODULE LspServer_proofs --------------------------
(***************************************************************************)
(* Theorems of LspServer for any number of workers, any vocabulary of the  *)
(* client and any number of messages: its types, and the safety invariants *)
(* that MCLspServer checks on small instances.                             *)
(***************************************************************************)
EXTENDS LspServer, Extrema, SequenceTheorems, TLAPS

Queue == INSTANCE JobPool_proofs WITH MaxJobs <- MaxMessages

-----------------------------------------------------------------------------
(* The inductive invariant.  First how the main thread, the pool and the
   workers stand to each other: every message that was queued is a job, the
   threads are there until the server has stopped, and then they are idle; *)
MainInv ==
  /\ Len(inbox) = queued /\ queued <= MaxMessages
  /\ main # "stopped" => threads = Workers
  /\ main = "stopped" => threads = {} /\ \A w \in Workers : curr[w] = 0
  /\ main \in {"join", "stopped"} => ~running

(* a worker is in handle exactly while it has a job, and beyond on_recv and the
   router only with a request, or a request with a route. *)
AtWork ==
  \A w \in Workers :
    /\ at[w] = "idle" <=> curr[w] = 0
    /\ at[w] \notin {"idle", "handle"} => IsRequest(Message(w))
    /\ at[w] \notin {"idle", "handle", "call"} => IsRouted(Message(w))

TypeInv == TypeOK /\ Queue!PoolInv /\ MainInv /\ AtWork

(* The client: no id twice, no cancellation of what was not sent before. *)
Proper(s) ==
  /\ \A i, j \in 1..Len(s) : IsRequest(s[i]) /\ IsRequest(s[j]) /\ s[i].id = s[j].id => i = j
  /\ \A c \in 1..Len(s) :
       IsNotify(s[c]) /\ s[c].method = "cancelRequest" =>
         \E i \in 1..(c - 1) : IsRequest(s[i]) /\ s[i].id = s[c].target

ClientInv == Proper(Sent)

(* The answers: one for each job that got as far, none for any other. *)
Answered(n) == \E i \in 1..Len(out) : out[i].job = n

AnswersInv ==
  /\ \A i \in 1..Len(out) :
       LET n == out[i].job IN
       /\ n \in 1..Len(begun) /\ IsRequest(inbox[n]) /\ IsRouted(inbox[n])
       /\ out[i].id = WireNumber(inbox[n].id)
       /\ n \in done \/ \E w \in Workers : curr[w] = n /\ at[w] = "complete"
  /\ \A i, j \in 1..Len(out) : out[i].job = out[j].job => i = j
  /\ \A n \in done : IsRequest(inbox[n]) /\ IsRouted(inbox[n]) => Answered(n)
  /\ \A w \in Workers : at[w] = "complete" => Answered(curr[w])

(* The ids in flight: InFlightExact, one id at a time. *)
Active(w) == at[w] \notin {"idle", "handle"}
Stuck(n)  == IsRequest(inbox[n]) /\ ~IsRouted(inbox[n])

FlightInv ==
  /\ \A w \in Workers : Active(w) => Message(w).id \in inFlight
  /\ \A n \in done : Stuck(n) => inbox[n].id \in inFlight
  /\ \A id \in inFlight : \/ \E w \in Workers : Active(w) /\ Message(w).id = id
                          \/ \E n \in done : Stuck(n) /\ inbox[n].id = id
  /\ cancelIds \subseteq inFlight

(* Whoever is marked as cancelled, or told so, was cancelled by a job that is done. *)
CancelHandled(id) == \E c \in done : Cancels(inbox[c], id)

CancelInv ==
  /\ \A id \in cancelIds : CancelHandled(id)
  /\ \A w \in Workers : at[w] = "writeError" => CancelHandled(Message(w).id)
  /\ \A i \in 1..Len(out) : out[i].cancelled => CancelHandled(inbox[out[i].job].id)

(* Only an exit notification ends the loop. *)
ExitInv == ~running => \E e \in done : IsNotify(inbox[e]) /\ inbox[e].method = "exit"

(* Without a race a worker at a document has the last notification about any,
   and the documents nobody is at are up to date. *)
AtDoc(w, u) == curr[w] # 0 /\ IsDoc(Message(w)) /\ Message(w).uri = u

DocsInv ==
  ~raced =>
    /\ \A w \in Workers : curr[w] # 0 /\ IsDoc(Message(w)) =>
         \A k \in (curr[w] + 1)..Len(begun) : ~IsDoc(inbox[k])
    /\ \A u \in Uris : (\A w \in Workers : ~AtDoc(w, u)) => docs[u] = LastText(u)

IInv == /\ TypeInv /\ ClientInv /\ AnswersInv /\ FlightInv
        /\ CancelInv /\ ExitInv /\ DocsInv

-----------------------------------------------------------------------------
(* A unit leaves six digits of a number that has more. *)
Fits(n, u) == n \div u < 1000000 /\ (u = 1 \/ n \div (u \div 10) >= 1000000)

(* An id of at most six digits leaves as it is: the unit is 1 ... *)
LEMMA UnitOfShort ==
  ASSUME NEW n \in Nat, n < 1000000
  PROVE  (CHOOSE u \in Units : Fits(n, u)) = 1
  <1>1. 1 \in Units /\ Fits(n, 1)
    BY SMT DEF Units, Fits
  <1>2. ASSUME NEW u \in Units, Fits(n, u) PROVE u = 1
    <2>1. n \div 1 < 1000000 /\ n \div 10 < 1000000 /\ n \div 100 < 1000000 /\ n \div 1000 < 1000000
      BY SMT
    <2>2. 10 \div 10 = 1 /\ 100 \div 10 = 10 /\ 1000 \div 10 = 100 /\ 10000 \div 10 = 1000
      BY SMT
    <2> QED
      BY SMT, <1>2, <2>1, <2>2 DEF Units, Fits
  <1> QED
    BY SMT, <1>1, <1>2

(* ... and nothing is rounded (json_value::stringify). *)
LEMMA WireNumberOfShort ==
  ASSUME NEW n \in Nat, n < 1000000
  PROVE  WireNumber(n) = n
  <1> DEFINE unit == CHOOSE u \in Units : n \div u < 1000000 /\ (u = 1 \/ n \div (u \div 10) >= 1000000)
             low  == n - (n % unit)
             up   == \/ 2 * (n % unit) > unit
                     \/ 2 * (n % unit) = unit /\ (n \div unit) % 2 = 1
  <1>1. WireNumber(n) = IF up THEN low + unit ELSE low
    BY SMT DEF WireNumber
  <1>2. unit = 1
    BY SMT, UnitOfShort DEF Fits
  <1> HIDE DEF unit
  <1>3. n % 1 = 0
    BY SMT
  <1>4. low = n /\ ~up
    BY SMT, <1>2, <1>3
  <1> QED
    BY SMT, <1>1, <1>4

(* This is what ShortId is about. *)
LEMMA ShortIdKept ==
  ASSUME NEW n \in Nat, ShortId(n)
  PROVE  WireNumber(n) = n
  <1>1. n < 1000000
    BY SMT DEF ShortId
  <1> QED
    BY SMT, <1>1, WireNumberOfShort

(* An int has no more than ten digits. *)
LEMMA TenDigits == MaxInt \in Nat /\ MaxInt < 10000 * 1000000
  BY SMT DEF MaxInt

(* So there is a unit that leaves six of them ... *)
LEMMA UnitOfInt ==
  ASSUME NEW n \in 0..MaxInt
  PROVE  (CHOOSE u \in Units : Fits(n, u)) \in Units
  <1>1. 10 \div 10 = 1 /\ 100 \div 10 = 10 /\ 1000 \div 10 = 100 /\ 10000 \div 10 = 1000
    BY SMT
  <1>2. n \in Nat /\ n \div 10000 < 1000000
    <2>1. n \in Nat /\ n <= MaxInt
      BY SMT, TenDigits
    <2>2. n < 10000 * 1000000
      BY SMT, <2>1, TenDigits
    <2> QED
      BY SMT, <2>1, <2>2
  <1>3. \E u \in Units : Fits(n, u)
    <2>1. CASE n \div 1 < 1000000
      BY SMT, <2>1 DEF Units, Fits
    <2>2. CASE n \div 1 >= 1000000 /\ n \div 10 < 1000000
      BY SMT, <1>1, <2>2 DEF Units, Fits
    <2>3. CASE n \div 10 >= 1000000 /\ n \div 100 < 1000000
      BY SMT, <1>1, <2>3 DEF Units, Fits
    <2>4. CASE n \div 100 >= 1000000 /\ n \div 1000 < 1000000
      BY SMT, <1>1, <2>4 DEF Units, Fits
    <2>5. CASE n \div 1000 >= 1000000
      BY SMT, <1>1, <1>2, <2>5 DEF Units, Fits
    <2>6. n \div 1 \in Nat /\ n \div 10 \in Nat /\ n \div 100 \in Nat /\ n \div 1000 \in Nat
      BY SMT, <1>2
    <2> QED
      BY SMT, <2>1, <2>2, <2>3, <2>4, <2>5, <2>6
  <1> QED
    BY SMT, <1>3

(* ... and what leaves the server for an id is a number. *)
LEMMA WireNumberType ==
  ASSUME NEW n \in 0..MaxInt
  PROVE  WireNumber(n) \in Nat
  <1> DEFINE unit == CHOOSE u \in Units : n \div u < 1000000 /\ (u = 1 \/ n \div (u \div 10) >= 1000000)
  <1>1. unit \in Units
    BY SMT, UnitOfInt DEF Fits
  <1>2. WireNumber(n) = n - (n % unit) \/ WireNumber(n) = (n - (n % unit)) + unit
    BY SMT DEF WireNumber
  <1> HIDE DEF unit
  <1>3. n \in Nat /\ unit \in Nat /\ unit > 0
    BY SMT, <1>1, TenDigits DEF Units
  <1>4. n % unit \in Nat /\ n % unit <= n
    <2>1. n % 1 <= n /\ n % 10 <= n /\ n % 100 <= n /\ n % 1000 <= n /\ n % 10000 <= n
      BY SMT, <1>3
    <2>2. n % 1 \in Nat /\ n % 10 \in Nat /\ n % 100 \in Nat /\ n % 1000 \in Nat /\ n % 10000 \in Nat
      BY SMT, <1>3
    <2> QED
      BY SMT, <1>1, <2>1, <2>2 DEF Units
  <1> DEFINE r == n % unit
  <1>5. r \in Nat /\ r <= n
    BY SMT, <1>4
  <1>6. WireNumber(n) = n - r \/ WireNumber(n) = (n - r) + unit
    BY SMT, <1>2
  <1> HIDE DEF r
  <1> QED
    BY SMT, <1>3, <1>5, <1>6

-----------------------------------------------------------------------------
(* What the messages of the client look like. *)
LEMMA MessageTypes ==
  ASSUME NEW m \in Messages
  PROVE  /\ IsRequest(m) => m.id \in 0..MaxInt /\ m.id \in Nat
         /\ IsNotify(m) /\ m.method = "cancelRequest" => m.target \in Nat
         /\ IsDoc(m) => m.uri \in Uris
  <1>1. m.kind = "message" => m.id \in 0..MaxInt
    BY MessagesAssumption
  <1>2. m.kind = "message" /\ m.method = "cancelRequest" => m.target \in 1..MaxInt
    BY MessagesAssumption
  <1>3. m.kind = "message" /\ m.method \in {"didChange", "didClose"} => m.uri \in Uris
    BY MessagesAssumption
  <1>4. \A n : n \in 0..MaxInt \/ n \in 1..MaxInt => n \in Nat
    BY SMT, TenDigits
  <1> QED
    BY <1>1, <1>2, <1>3, <1>4 DEF IsRequest, IsNotify, IsDoc

(* What the pool's invariant says, with what its operators stand for. *)
LEMMA PoolFacts ==
  ASSUME Queue!PoolInv
  PROVE  /\ Len(begun) \in Nat /\ queued \in Nat /\ Len(begun) <= queued
         /\ curr \in [Workers -> Nat] /\ done \subseteq 1..Len(begun)
         /\ \A w \in Workers : curr[w] <= Len(begun) /\ curr[w] \notin done
         /\ \A v, w \in Workers : curr[v] = curr[w] /\ curr[w] # 0 => v = w
         /\ \A n \in 1..Len(begun) : n \in done \/ \E w \in Workers : curr[w] = n
  <1> USE DEF Queue!PoolInv, Queue!PoolTypes
  <1>1. Len(begun) \in Nat /\ Len(jobs) \in Nat /\ Len(begun) + Len(jobs) = queued
    BY DEF Queue!InOrder
  <1>2. Len(begun) <= queued
    <2> DEFINE b == Len(begun)
               k == Len(jobs)
    <2>1. b \in Nat /\ k \in Nat /\ b + k = queued
      BY <1>1
    <2> HIDE DEF b, k
    <2>2. b <= queued
      BY <2>1
    <2> QED
      BY <2>2 DEF b
  <1> QED
    BY <1>1, <1>2 DEF Queue!OneWorkerEach, Queue!NoJob

(* A worker in handle has a job that was begun, and so a message of the client. *)
LEMMA AtMessage ==
  ASSUME TypeInv, NEW w \in Workers, at[w] # "idle"
  PROVE  /\ curr[w] \in 1..Len(begun) /\ curr[w] \in 1..Len(inbox)
         /\ curr[w] \in 1..MaxMessages /\ Message(w) \in Messages
  <1> DEFINE b == Len(begun)
             n == curr[w]
  <1>1. b \in Nat /\ b <= queued /\ n \in Nat /\ n <= b
    BY PoolFacts DEF TypeInv
  <1>2. n # 0 /\ Len(inbox) = queued /\ queued <= MaxMessages /\ MaxMessages \in Nat /\ queued \in Nat
    BY PoolFacts, MaxMessagesAssumption DEF TypeInv, AtWork, MainInv
  <1>3. n \in 1..b /\ n \in 1..queued /\ n \in 1..MaxMessages
    <2> HIDE DEF b, n
    <2> QED
      BY <1>1, <1>2
  <1>4. inbox \in Seq(Messages)
    BY DEF TypeInv, TypeOK
  <1>5. Message(w) \in Messages
    BY <1>2, <1>3, <1>4, ElementOfSeq DEF Message
  <1> QED
    BY <1>2, <1>3, <1>5

(* The messages that were queued stay what they are. *)
Kept == /\ inbox' \in Seq(Messages) /\ Len(inbox) <= Len(inbox)'
        /\ \A n \in 1..Len(inbox) : inbox'[n] = inbox[n]

(* A step of anybody but a worker: nothing happens to the jobs and the state. *)
Still == /\ Kept
         /\ UNCHANGED <<stateVars, at, out, raced, curr, begun, done>>

(* The steps of the client and of the main thread are such steps. *)
LEMMA OthersStill ==
  ASSUME TypeInv, (\E m \in Messages : Send(m)) \/ Main \/ UNCHANGED vars
  PROVE  Still
  <1>1. inbox \in Seq(Messages) /\ Len(inbox) \in Nat
    BY DEF TypeInv, TypeOK
  <1>2. CASE \E m \in Messages : Send(m)
    BY <1>1, <1>2 DEF Send, Still, Kept, stateVars, poolVars
  <1>3. CASE UNCHANGED vars
    BY <1>1, <1>3 DEF vars, Still, Kept, stateVars, poolVars
  <1>4. CASE Main
    <2>1. CASE StayInLoop
      BY <1>1, <2>1 DEF StayInLoop, Still, Kept, clientVars, stateVars, poolVars
    <2>2. CASE LeaveLoop
      BY <1>1, <2>2 DEF LeaveLoop, Still, Kept, clientVars, stateVars, Pool!Close
    <2>3. CASE Join
      BY <1>1, <2>3 DEF Join, Still, Kept, clientVars, stateVars, Pool!Dissolve
    <2>4. CASE Recv
      <3>1. UNCHANGED <<stateVars, at, out, raced, curr, begun, done>>
        BY <2>4 DEF Recv, poolVars, Pool!Submit
      <3>2. CASE UNCHANGED inbox
        BY <1>1, <3>1, <3>2 DEF Still, Kept
      <3>3. CASE inbox' = Append(inbox, Head(unread)) /\ unread # <<>>
        <4>1. Head(unread) \in Messages
          BY <3>3 DEF TypeInv, TypeOK
        <4>2. /\ inbox' \in Seq(Messages) /\ Len(inbox') = Len(inbox) + 1
              /\ \A n \in 1..Len(inbox) : inbox'[n] = inbox[n]
          BY <1>1, <3>3, <4>1, AppendProperties
        <4>3. Len(inbox) <= Len(inbox)'
          BY <1>1, <4>2
        <4> QED
          BY <3>1, <4>2, <4>3 DEF Still, Kept
      <3> QED
        BY <2>4, <3>2, <3>3 DEF Recv
    <2> QED
      BY <1>4, <2>1, <2>2, <2>3, <2>4 DEF Main
  <1> QED
    BY <1>2, <1>3, <1>4

-----------------------------------------------------------------------------
(* The types and the relation of main thread, pool and workers. *)
LEMMA TypeInit == Init => TypeInv
  <1> SUFFICES ASSUME Init PROVE TypeInv
    OBVIOUS
  <1> USE DEF Init, Pool!NoJob
  <1>1. TypeOK
    <2>1. unread \in Seq(Messages) /\ inbox \in Seq(Messages)
      OBVIOUS
    <2>2. out \in Seq([job : Pool!Jobs, id : Nat, cancelled : BOOLEAN])
      OBVIOUS
    <2>3. at \in [Workers -> WorkerPCs] /\ main \in MainPCs
      BY DEF WorkerPCs, MainPCs
    <2>4. docs \in [Uris -> {NoText} \cup {m.text : m \in {n \in Messages : IsDoc(n) /\ n.method = "didChange"}}]
      OBVIOUS
    <2> QED
      BY <2>1, <2>2, <2>3, <2>4 DEF TypeOK
  <1>2. Queue!PoolInv
    BY Queue!PoolStarts DEF Queue!NoJob
  <1>3. MainInv
    BY MaxMessagesAssumption DEF MainInv
  <1>4. AtWork
    BY DEF AtWork
  <1> QED
    BY <1>1, <1>2, <1>3, <1>4 DEF TypeInv

(* Where nobody moves, the workers are where they were. *)
LEMMA AtWorkStill ==
  ASSUME TypeInv, Still
  PROVE  AtWork'
  <1>1. UNCHANGED <<at, curr>>
    BY DEF Still
  <1>2. ASSUME NEW w \in Workers, at[w] # "idle" PROVE Message(w)' = Message(w)
    <2>1. curr[w] \in 1..Len(inbox)
      BY <1>2, AtMessage
    <2> QED
      BY <1>1, <2>1 DEF Still, Kept, Message
  <1> QED
    BY <1>1, <1>2 DEF AtWork, TypeInv

(* A worker goes on in handle. *)
Moves(w, p) == Goto(w, p) /\ UNCHANGED <<inbox, main, running, poolVars>>

(* A worker that goes on in handle takes its message along. *)
LEMMA TypeMoves ==
  ASSUME TypeInv, NEW w \in Workers, NEW p \in WorkerPCs \ {"idle", "handle"},
         Moves(w, p), at[w] # "idle", IsRequest(Message(w)),
         p # "call" => IsRouted(Message(w))
  PROVE  Queue!PoolInv' /\ MainInv' /\ AtWork' /\ at' \in [Workers -> WorkerPCs]
  <1>1. at \in [Workers -> WorkerPCs]
    BY DEF TypeInv, TypeOK
  <1>2. at' = [at EXCEPT ![w] = p] /\ UNCHANGED <<inbox, main, running, poolVars>>
    BY DEF Moves, Goto
  <1>3. at' \in [Workers -> WorkerPCs]
    BY <1>1, <1>2
  <1>4. Queue!PoolInv'
    BY <1>2, Queue!PoolIdle DEF TypeInv, Queue!vars, poolVars
  <1>5. MainInv'
    BY <1>2 DEF TypeInv, MainInv, poolVars
  <1>6. ASSUME NEW v \in Workers
        PROVE  /\ (at'[v] = "idle") <=> (curr'[v] = 0)
               /\ at'[v] \notin {"idle", "handle"} => IsRequest(Message(v)')
               /\ at'[v] \notin {"idle", "handle", "call"} => IsRouted(Message(v)')
    <2>1. Message(v)' = Message(v) /\ curr' = curr
      BY <1>2 DEF Message, poolVars
    <2>2. at'[v] = IF v = w THEN p ELSE at[v]
      BY <1>1, <1>2
    <2>3. /\ (at[v] = "idle") <=> (curr[v] = 0)
          /\ at[v] \notin {"idle", "handle"} => IsRequest(Message(v))
          /\ at[v] \notin {"idle", "handle", "call"} => IsRouted(Message(v))
      BY DEF TypeInv, AtWork
    <2> QED
      BY <2>1, <2>2, <2>3
  <1>7. AtWork'
    BY <1>6 DEF AtWork
  <1> QED
    BY <1>3, <1>4, <1>5, <1>7

(* A worker returns from handle. *)
Leaves(w) == Return(w) /\ UNCHANGED <<inbox, main>>

(* A worker that returns has no message any more. *)
LEMMA TypeLeaves ==
  ASSUME TypeInv, NEW w \in Workers, Leaves(w), running' => running
  PROVE  Queue!PoolInv' /\ MainInv' /\ AtWork' /\ at' \in [Workers -> WorkerPCs]
  <1>1. at \in [Workers -> WorkerPCs] /\ curr \in [Workers -> Nat]
    BY PoolFacts DEF TypeInv, TypeOK
  <1>2. at' = [at EXCEPT ![w] = "idle"] /\ UNCHANGED <<inbox, main>>
    BY DEF Leaves, Return, Goto
  <1>3. at' \in [Workers -> WorkerPCs]
    BY <1>1, <1>2 DEF WorkerPCs
  <1>4. Pool!End(w)
    BY DEF Leaves, Return
  <1>5. /\ Queue!PoolInv' /\ curr' = [curr EXCEPT ![w] = 0]
        /\ queued' = queued /\ threads' = threads
    BY <1>4, Queue!PoolEnd DEF TypeInv, Pool!End, Queue!End, Queue!NoJob, Pool!NoJob
  <1>6. MainInv'
    BY <1>1, <1>2, <1>5 DEF TypeInv, MainInv
  <1>7. ASSUME NEW v \in Workers
        PROVE  /\ (at'[v] = "idle") <=> (curr'[v] = 0)
               /\ at'[v] \notin {"idle", "handle"} => IsRequest(Message(v)')
               /\ at'[v] \notin {"idle", "handle", "call"} => IsRouted(Message(v)')
    <2>1. CASE v = w
      <3>1. at'[v] = "idle" /\ curr'[v] = 0
        BY <1>1, <1>2, <1>5, <2>1
      <3> QED
        BY <3>1
    <2>2. CASE v # w
      <3>1. at'[v] = at[v] /\ curr'[v] = curr[v]
        BY <1>1, <1>2, <1>5, <2>2
      <3>2. Message(v)' = Message(v)
        BY <1>2, <3>1 DEF Message
      <3> QED
        BY <3>1, <3>2 DEF TypeInv, AtWork
    <2> QED
      BY <2>1, <2>2
  <1>8. AtWork'
    BY <1>7 DEF AtWork
  <1> QED
    BY <1>3, <1>5, <1>6, <1>8

(* The main thread and the client. *)
LEMMA TypeOthers ==
  ASSUME TypeInv, (\E m \in Messages : Send(m)) \/ Main \/ UNCHANGED vars
  PROVE  TypeInv'
  <1>1. Still
    BY OthersStill
  <1>2. AtWork'
    BY <1>1, AtWorkStill
  <1> USE DEF TypeInv
  <1>3. /\ inbox' \in Seq(Messages) /\ UNCHANGED <<stateVars, at, out, raced, curr>>
    BY <1>1 DEF Still, Kept
  <1>4. unread' \in Seq(Messages) /\ main' \in MainPCs => TypeOK'
    BY <1>3 DEF TypeOK, stateVars, Pool!Jobs
  <1>5. CASE \E m \in Messages : Send(m)
    <2> PICK m \in Messages : Send(m)
      BY <1>5
    <2>1. unread' \in Seq(Messages) /\ UNCHANGED <<main, inbox, running, poolVars>>
      BY DEF Send, stateVars, TypeOK
    <2>2. Queue!PoolInv'
      BY <2>1, Queue!PoolIdle DEF Queue!vars, poolVars
    <2>3. MainInv'
      BY <2>1 DEF MainInv, poolVars
    <2>4. TypeOK'
      BY <1>4, <2>1 DEF TypeOK
    <2> QED
      BY <1>2, <2>2, <2>3, <2>4
  <1>6. CASE UNCHANGED vars
    <2>1. Queue!PoolInv'
      BY <1>6, Queue!PoolIdle DEF Queue!vars, poolVars, vars
    <2>2. MainInv'
      BY <1>6 DEF MainInv, poolVars, vars, stateVars
    <2>3. TypeOK'
      BY <1>4, <1>6 DEF TypeOK, vars
    <2> QED
      BY <1>2, <2>1, <2>2, <2>3
  <1>7. CASE StayInLoop
    <2>1. /\ UNCHANGED <<unread, inbox, running, poolVars>>
          /\ main = "check" /\ main' = "recv"
      BY <1>7 DEF StayInLoop, clientVars, stateVars
    <2>2. Queue!PoolInv'
      BY <2>1, Queue!PoolIdle DEF Queue!vars, poolVars
    <2>3. MainInv'
      BY <2>1 DEF MainInv, poolVars
    <2>4. TypeOK'
      BY <1>4, <2>1 DEF TypeOK, MainPCs
    <2> QED
      BY <1>2, <2>2, <2>3, <2>4
  <1>8. CASE LeaveLoop
    <2>1. /\ UNCHANGED <<unread, inbox, running, threads, curr, queued>>
          /\ main = "check" /\ main' = "join" /\ ~running /\ Pool!Close
      BY <1>8 DEF LeaveLoop, clientVars, stateVars, Pool!Close
    <2>2. Queue!PoolInv'
      BY <2>1, Queue!PoolClose DEF Queue!Close, Pool!Close
    <2>3. MainInv'
      BY <2>1 DEF MainInv
    <2>4. TypeOK'
      BY <1>4, <2>1 DEF TypeOK, MainPCs
    <2> QED
      BY <1>2, <2>2, <2>3, <2>4
  <1>9. CASE Join
    <2>1. /\ UNCHANGED <<unread, inbox, running, curr, queued>>
          /\ main = "join" /\ main' = "stopped" /\ Pool!Dissolve
      BY <1>9 DEF Join, clientVars, stateVars, Pool!Dissolve
    <2>2. Queue!PoolInv'
      BY <2>1, Queue!PoolDissolve DEF Queue!Dissolve, Pool!Dissolve, Queue!NoJob, Pool!NoJob
    <2>3. MainInv'
      BY <2>1 DEF MainInv, Pool!Dissolve, Pool!NoJob
    <2>4. TypeOK'
      BY <1>4, <2>1 DEF TypeOK, MainPCs
    <2> QED
      BY <1>2, <2>2, <2>3, <2>4
  <1>10. CASE Recv
    <2>1. /\ main = "recv" /\ main' = "check" /\ unread # <<>> /\ unread' = Tail(unread)
          /\ running' = running
      BY <1>10 DEF Recv, stateVars
    <2>2. TypeOK'
      <3>1. unread' \in Seq(Messages)
        BY <2>1 DEF TypeOK
      <3> QED
        BY <1>4, <2>1, <3>1 DEF MainPCs
    <2>3. CASE UNCHANGED <<inbox, poolVars>>
      <3>1. Queue!PoolInv'
        BY <2>3, Queue!PoolIdle DEF Queue!vars, poolVars
      <3>2. MainInv'
        BY <2>1, <2>3 DEF MainInv, poolVars
      <3> QED
        BY <1>2, <2>2, <3>1, <3>2
    <2>4. CASE inbox' = Append(inbox, Head(unread)) /\ Pool!Submit
      <3>1. Queue!PoolInv' /\ queued' = queued + 1
        BY <2>4, Queue!PoolSubmit DEF Queue!Submit, Pool!Submit
      <3>2. queued < MaxMessages /\ UNCHANGED <<threads, curr>>
        BY <2>4 DEF Pool!Submit
      <3>3. Len(inbox) = queued /\ queued \in Nat /\ MaxMessages \in Nat
        BY PoolFacts, MaxMessagesAssumption DEF MainInv
      <3>4. Len(inbox)' = queued + 1
        <4>1. inbox \in Seq(Messages) /\ Head(unread) \in Messages
          BY <2>1 DEF TypeOK
        <4> QED
          BY <2>4, <3>3, <4>1, AppendProperties
      <3>5. MainInv'
        BY <2>1, <3>1, <3>2, <3>3, <3>4 DEF MainInv
      <3> QED
        BY <1>2, <2>2, <3>1, <3>5
    <2> QED
      BY <1>10, <2>3, <2>4 DEF Recv
  <1> QED
    BY <1>5, <1>6, <1>7, <1>8, <1>9, <1>10 DEF Main

(* What a worker that begins a job does: its message is the one after all that
   were begun. *)
LEMMA BeginFacts ==
  ASSUME TypeInv, NEW w \in Workers, BeginJob(w)
  PROVE  /\ Queue!PoolInv' /\ Head(jobs) = Len(begun) + 1
         /\ Len(begun)' = Len(begun) + 1 /\ Len(begun) + 1 <= Len(inbox)
         /\ curr[w] = 0 /\ curr' = [curr EXCEPT ![w] = Len(begun) + 1]
         /\ at[w] = "idle" /\ at' = [at EXCEPT ![w] = "handle"]
         /\ UNCHANGED <<unread, inbox, out, main, stateVars, done, queued, threads>>
         /\ raced' = (raced \/ /\ IsDoc(inbox[Len(begun) + 1])
                               /\ \E v \in Workers : curr[v] # 0 /\ IsDoc(Message(v)))
  <1>1. Queue!Begin(w)
    BY DEF BeginJob, Pool!Begin, Queue!Begin, Pool!NoJob, Queue!NoJob
  <1>2. /\ Queue!PoolInv'
        /\ Head(jobs) = Len(begun) + 1 /\ Len(begun)' = Len(begun) + 1
        /\ Len(begun) + 1 <= queued /\ curr[w] = 0
        /\ curr' = [curr EXCEPT ![w] = Len(begun) + 1]
        /\ done' = done /\ queued' = queued /\ threads' = threads
    BY <1>1, Queue!PoolBegin DEF TypeInv, Queue!NoJob
  <1>3. at[w] = "idle" /\ Len(inbox) = queued
    BY <1>2 DEF TypeInv, AtWork, MainInv
  <1>4. /\ at' = [at EXCEPT ![w] = "handle"]
        /\ UNCHANGED <<unread, inbox, out, main, stateVars>>
    BY DEF BeginJob, Goto, clientVars
  <1> QED
    BY <1>2, <1>3, <1>4 DEF BeginJob, Pool!NoJob

(* A worker begins a job. *)
LEMMA TypeBegin ==
  ASSUME TypeInv, NEW w \in Workers, BeginJob(w)
  PROVE  TypeInv'
  <1> USE DEF TypeInv
  <1>1. at \in [Workers -> WorkerPCs] /\ curr \in [Workers -> Nat] /\ Len(begun) \in Nat
    BY PoolFacts DEF TypeOK
  <1>2. /\ at' = [at EXCEPT ![w] = "handle"]
        /\ curr[w] = 0 /\ curr' = [curr EXCEPT ![w] = Len(begun) + 1]
        /\ UNCHANGED <<unread, inbox, out, main, stateVars, done, queued, threads>>
    BY BeginFacts
  <1>3. TypeOK'
    <2>1. at' \in [Workers -> WorkerPCs]
      BY <1>1, <1>2 DEF WorkerPCs
    <2>2. raced' \in BOOLEAN
      BY BeginFacts DEF TypeOK
    <2> QED
      BY <1>2, <2>1, <2>2 DEF TypeOK, stateVars, Pool!Jobs
  <1>4. MainInv'
    <2>1. main # "stopped"
      BY DEF MainInv, BeginJob, Pool!Begin
    <2> QED
      BY <1>2, <2>1 DEF MainInv, stateVars
  <1>5. ASSUME NEW v \in Workers
        PROVE  /\ (at'[v] = "idle") <=> (curr'[v] = 0)
               /\ at'[v] \notin {"idle", "handle"} => IsRequest(Message(v)')
               /\ at'[v] \notin {"idle", "handle", "call"} => IsRouted(Message(v)')
    <2>1. CASE v = w
      <3>1. at'[v] = "handle" /\ curr'[v] # 0
        BY <1>1, <1>2, <2>1
      <3> QED
        BY <3>1
    <2>2. CASE v # w
      <3>1. at'[v] = at[v] /\ curr'[v] = curr[v]
        BY <1>1, <1>2, <2>2
      <3>2. Message(v)' = Message(v)
        BY <1>2, <3>1 DEF Message
      <3> QED
        BY <3>1, <3>2 DEF AtWork
    <2> QED
      BY <2>1, <2>2
  <1>6. AtWork'
    BY <1>5 DEF AtWork
  <1> QED
    BY <1>3, <1>4, <1>6, BeginFacts

(* Within a message. *)
LEMMA TypeHandle ==
  ASSUME TypeInv, NEW w \in Workers, Handle(w)
  PROVE  TypeInv'
  <1> DEFINE m == Message(w)
  <1>1. at[w] # "idle"
    BY DEF Handle, Ignore, Notify, OnRecv, NoRoute, Call, CheckCancelled, Write, OnComplete
  <1>2. m \in Messages
    BY <1>1, AtMessage
  <1>3. at[w] \notin {"idle", "handle"} => IsRequest(m)
    BY DEF TypeInv, AtWork
  <1>4. at[w] \notin {"idle", "handle", "call"} => IsRouted(m)
    BY DEF TypeInv, AtWork
  <1>5. /\ IsRequest(m) => m.id \in Nat /\ m.id \in 0..MaxInt
        /\ IsNotify(m) /\ m.method = "cancelRequest" => m.target \in Nat
        /\ IsDoc(m) => m.uri \in Uris
    BY <1>2, MessageTypes
  <1>6. TypeOK
    BY DEF TypeInv
  <1> HIDE DEF m
  <1>7. /\ unread' = unread /\ inbox' = inbox /\ main' = main /\ at' \in [Workers -> WorkerPCs]
        /\ running' \in BOOLEAN /\ initialized' \in BOOLEAN /\ raced' \in BOOLEAN
        /\ inFlight' \subseteq Nat /\ cancelIds' \subseteq Nat
        /\ docs' \in [Uris -> {NoText} \cup {n.text : n \in {k \in Messages : IsDoc(k) /\ k.method = "didChange"}}]
        /\ out' \in Seq([job : 1..MaxMessages, id : Nat, cancelled : BOOLEAN])
        => TypeOK'
    BY <1>6 DEF TypeOK, Pool!Jobs
  <1>8. /\ unread \in Seq(Messages) /\ inbox \in Seq(Messages) /\ main \in MainPCs
        /\ running \in BOOLEAN /\ initialized \in BOOLEAN /\ raced \in BOOLEAN
        /\ inFlight \subseteq Nat /\ cancelIds \subseteq Nat
        /\ docs \in [Uris -> {NoText} \cup {n.text : n \in {k \in Messages : IsDoc(k) /\ k.method = "didChange"}}]
        /\ out \in Seq([job : 1..MaxMessages, id : Nat, cancelled : BOOLEAN])
    BY <1>6 DEF TypeOK, Pool!Jobs
  <1>9. CASE Ignore(w)
    <2>1. /\ Leaves(w) /\ UNCHANGED <<unread, inbox, out, main, running, initialized>>
          /\ UNCHANGED <<inFlight, cancelIds, docs, raced>>
      BY <1>9 DEF Ignore, Leaves, clientVars, stateVars
    <2>2. Queue!PoolInv' /\ MainInv' /\ AtWork' /\ at' \in [Workers -> WorkerPCs]
      BY <1>1, <2>1, TypeLeaves
    <2> QED
      BY <1>7, <1>8, <2>1, <2>2 DEF TypeInv
  <1>10. CASE NoRoute(w)
    <2>1. /\ Leaves(w) /\ UNCHANGED <<unread, inbox, out, main, running, initialized>>
          /\ UNCHANGED <<inFlight, cancelIds, docs, raced>>
      BY <1>10 DEF NoRoute, Leaves, clientVars, stateVars
    <2>2. Queue!PoolInv' /\ MainInv' /\ AtWork' /\ at' \in [Workers -> WorkerPCs]
      BY <1>1, <2>1, TypeLeaves
    <2> QED
      BY <1>7, <1>8, <2>1, <2>2 DEF TypeInv
  <1>11. CASE OnComplete(w)
    <2>1. /\ Leaves(w) /\ UNCHANGED <<unread, inbox, out, main, running, initialized>>
          /\ UNCHANGED <<docs, raced>>
          /\ inFlight' \subseteq inFlight /\ cancelIds' \subseteq cancelIds
      BY <1>11 DEF OnComplete, Leaves, clientVars
    <2>2. Queue!PoolInv' /\ MainInv' /\ AtWork' /\ at' \in [Workers -> WorkerPCs]
      BY <1>1, <2>1, TypeLeaves
    <2>3. inFlight' \subseteq Nat /\ cancelIds' \subseteq Nat
      BY <1>8, <2>1
    <2> QED
      BY <1>7, <1>8, <2>1, <2>2, <2>3 DEF TypeInv
  <1>12. CASE Notify(w)
    <2>1. /\ Leaves(w) /\ UNCHANGED <<unread, inbox, out, main, raced>> /\ IsNotify(m)
      BY <1>12 DEF Notify, Leaves, clientVars, m
    <2>2. \/ m.method = "cancelRequest" /\ OnCancel(m.target)
          \/ m.method = "initialized" /\ Initialized
          \/ m.method = "exit" /\ ExitServer
          \/ m.method = "didChange" /\ SetDoc(m.uri, m.text)
          \/ m.method = "didClose" /\ SetDoc(m.uri, NoText)
          \/ UNCHANGED stateVars
      BY <1>12 DEF Notify, m
    <2>3. running' => running
      BY <2>2 DEF OnCancel, Initialized, ExitServer, SetDoc, stateVars
    <2>4. Queue!PoolInv' /\ MainInv' /\ AtWork' /\ at' \in [Workers -> WorkerPCs]
      BY <1>1, <2>1, <2>3, TypeLeaves
    <2>5. /\ running' \in BOOLEAN /\ initialized' \in BOOLEAN /\ inFlight' \subseteq Nat
      BY <1>8, <2>2 DEF OnCancel, Initialized, ExitServer, SetDoc, stateVars
    <2>6. cancelIds' \subseteq Nat
      <3>1. CASE m.method = "cancelRequest" /\ OnCancel(m.target)
        <4>1. m.target \in Nat
          BY <1>5, <2>1, <3>1
        <4>2. cancelIds' = cancelIds \/ cancelIds' = cancelIds \cup {m.target}
          BY <3>1 DEF OnCancel
        <4> QED
          BY <1>8, <4>1, <4>2
      <3>2. CASE cancelIds' = cancelIds
        BY <1>8, <3>2
      <3> QED
        BY <2>2, <3>1, <3>2 DEF Initialized, ExitServer, SetDoc, stateVars
    <2>7. docs' \in [Uris -> {NoText} \cup {n.text : n \in {k \in Messages : IsDoc(k) /\ k.method = "didChange"}}]
      <3>1. CASE m.method = "didChange" /\ SetDoc(m.uri, m.text)
        <4>1. IsDoc(m)
          BY <2>1, <3>1 DEF IsDoc
        <4>2. m \in {k \in Messages : IsDoc(k) /\ k.method = "didChange"}
          BY <1>2, <3>1, <4>1 DEF m
        <4>3. docs' = [docs EXCEPT ![m.uri] = m.text]
          BY <3>1 DEF SetDoc
        <4> QED
          BY <1>8, <4>2, <4>3
      <3>2. CASE m.method = "didClose" /\ SetDoc(m.uri, NoText)
        <4>1. docs' = [docs EXCEPT ![m.uri] = NoText]
          BY <3>2 DEF SetDoc
        <4> QED
          BY <1>8, <4>1
      <3>3. CASE docs' = docs
        BY <1>8, <3>3
      <3> QED
        BY <2>2, <3>1, <3>2, <3>3 DEF OnCancel, Initialized, ExitServer, stateVars
    <2> QED
      BY <1>7, <1>8, <2>1, <2>4, <2>5, <2>6, <2>7 DEF TypeInv
  <1>13. CASE OnRecv(w)
    <2>1. /\ Moves(w, "call") /\ IsRequest(m)
          /\ UNCHANGED <<unread, inbox, out, main, running, initialized, cancelIds, docs, raced>>
          /\ inFlight' = inFlight \cup {m.id}
      BY <1>13 DEF OnRecv, Moves, clientVars, m
    <2>2. Queue!PoolInv' /\ MainInv' /\ AtWork' /\ at' \in [Workers -> WorkerPCs]
      BY <1>1, <2>1, TypeMoves DEF WorkerPCs, m
    <2>3. inFlight' \subseteq Nat
      BY <1>5, <1>8, <2>1
    <2> QED
      BY <1>7, <1>8, <2>1, <2>2, <2>3 DEF TypeInv
  <1>14. CASE Call(w)
    <2>1. /\ Moves(w, "check") /\ IsRequest(m) /\ IsRouted(m)
          /\ UNCHANGED <<unread, inbox, out, main, running, inFlight, cancelIds, docs, raced>>
      BY <1>3, <1>14 DEF Call, Moves, clientVars, m
    <2>2. Queue!PoolInv' /\ MainInv' /\ AtWork' /\ at' \in [Workers -> WorkerPCs]
      BY <1>1, <2>1, TypeMoves DEF WorkerPCs, m
    <2>3. initialized' \in BOOLEAN
      BY <1>8, <1>14 DEF Call
    <2> QED
      BY <1>7, <1>8, <2>1, <2>2, <2>3 DEF TypeInv
  <1>15. CASE CheckCancelled(w)
    <2>1. /\ IsRequest(m) /\ IsRouted(m)
          /\ UNCHANGED <<unread, inbox, out, main, running, initialized>>
          /\ UNCHANGED <<inFlight, cancelIds, docs, raced>>
      BY <1>3, <1>4, <1>15 DEF CheckCancelled, clientVars, stateVars
    <2>2. Moves(w, "writeError") \/ Moves(w, "writeResult")
      BY <1>15 DEF CheckCancelled, Moves, Goto, clientVars, stateVars
    <2>3. Queue!PoolInv' /\ MainInv' /\ AtWork' /\ at' \in [Workers -> WorkerPCs]
      BY <1>1, <2>1, <2>2, TypeMoves DEF WorkerPCs, m
    <2> QED
      BY <1>7, <1>8, <2>1, <2>3 DEF TypeInv
  <1>16. CASE Write(w)
    <2>1. /\ Moves(w, "complete") /\ IsRequest(m) /\ IsRouted(m)
          /\ UNCHANGED <<unread, inbox, main, running, initialized>>
          /\ UNCHANGED <<inFlight, cancelIds, docs, raced>>
      BY <1>3, <1>4, <1>16 DEF Write, Moves, stateVars
    <2>2. Queue!PoolInv' /\ MainInv' /\ AtWork' /\ at' \in [Workers -> WorkerPCs]
      BY <1>1, <2>1, TypeMoves DEF WorkerPCs, m
    <2>3. out' = Append(out, [job |-> curr[w], id |-> WireNumber(m.id),
                              cancelled |-> at[w] = "writeError"])
      BY <1>16 DEF Write, m
    <2>4. /\ curr[w] \in 1..MaxMessages /\ WireNumber(m.id) \in Nat
          /\ (at[w] = "writeError") \in BOOLEAN
      BY <1>1, <1>5, <2>1, AtMessage, WireNumberType
    <2>5. out' \in Seq([job : 1..MaxMessages, id : Nat, cancelled : BOOLEAN])
      BY <1>8, <2>3, <2>4
    <2> QED
      BY <1>7, <1>8, <2>1, <2>2, <2>5 DEF TypeInv
  <1> QED
    BY <1>9, <1>10, <1>11, <1>12, <1>13, <1>14, <1>15, <1>16 DEF Handle

(* Every step. *)
LEMMA TypeStep == TypeInv /\ [Next]_vars => TypeInv'
  BY TypeOthers, TypeBegin, TypeHandle DEF Next

-----------------------------------------------------------------------------
(* What the client has sent: it stays in order when the server reads it, ... *)
LEMMA BothParts ==
  ASSUME NEW s \in Seq(Messages), NEW t \in Seq(Messages)
  PROVE  /\ s \o t \in Seq(Messages) /\ Len(s \o t) = Len(s) + Len(t)
         /\ \A i \in 1..Len(s) : (s \o t)[i] = s[i]
         /\ \A i \in 1..Len(t) : (s \o t)[Len(s) + i] = t[i]
  <1> DEFINE a == Len(s)
             b == Len(t)
             both == s \o t
  <1>1. /\ both \in Seq(Messages) /\ Len(both) = a + b /\ a \in Nat /\ b \in Nat
        /\ \A i \in 1..(a + b) : both[i] = IF i <= a THEN s[i] ELSE t[i - a]
    BY ConcatProperties
  <1> HIDE DEF a, b, both
  <1>2. \A i \in 1..a : i \in 1..(a + b) /\ i <= a
    BY <1>1
  <1>3. ASSUME NEW i \in 1..b PROVE both[a + i] = t[i]
    <2>1. a + i \in 1..(a + b) /\ ~(a + i <= a) /\ (a + i) - a = i
      BY <1>1
    <2> QED
      BY <1>1, <2>1
  <1>4. \A i \in 1..a : both[i] = s[i]
    BY <1>1, <1>2
  <1> QED
    BY <1>1, <1>3, <1>4 DEF a, b, both

(* ... it grows by what the client may send next, ... *)
LEMMA ProperAppend ==
  ASSUME NEW s \in Seq(Messages), NEW t \in Seq(Messages), Proper(s), NEW m \in Messages,
         IsRequest(m) => \A i \in 1..Len(s) : ~(IsRequest(s[i]) /\ s[i].id = m.id),
         IsNotify(m) /\ m.method = "cancelRequest" =>
           \E i \in 1..Len(s) : IsRequest(s[i]) /\ s[i].id = m.target,
         Len(t) = Len(s) + 1, \A i \in 1..Len(s) : t[i] = s[i], t[Len(s) + 1] = m
  PROVE  Proper(t)
  <1> DEFINE l == Len(s)
  <1>1. l \in Nat /\ Len(t) = l + 1
    OBVIOUS
  <1>2. /\ \A i, j \in 1..l : IsRequest(s[i]) /\ IsRequest(s[j]) /\ s[i].id = s[j].id => i = j
        /\ \A c \in 1..l : IsNotify(s[c]) /\ s[c].method = "cancelRequest" =>
             \E i \in 1..(c - 1) : IsRequest(s[i]) /\ s[i].id = s[c].target
    BY DEF Proper
  <1>3. /\ IsRequest(m) => \A i \in 1..l : ~(IsRequest(s[i]) /\ s[i].id = m.id)
        /\ IsNotify(m) /\ m.method = "cancelRequest" =>
             \E i \in 1..l : IsRequest(s[i]) /\ s[i].id = m.target
        /\ \A i \in 1..l : t[i] = s[i]
        /\ t[l + 1] = m
    OBVIOUS
  <1> HIDE DEF l
  <1>4. \A i \in 1..(l + 1) : i \in 1..l \/ i = l + 1
    BY <1>1
  <1>5. ASSUME NEW i \in 1..(l + 1), NEW j \in 1..(l + 1),
               IsRequest(t[i]), IsRequest(t[j]), t[i].id = t[j].id
        PROVE  i = j
    <2>1. CASE i \in 1..l /\ j \in 1..l
      BY <1>2, <1>3, <1>5, <2>1
    <2>2. CASE i = l + 1 /\ j \in 1..l
      BY <1>3, <1>5, <2>2
    <2>3. CASE i \in 1..l /\ j = l + 1
      BY <1>3, <1>5, <2>3
    <2> QED
      BY <1>4, <2>1, <2>2, <2>3
  <1>6. ASSUME NEW c \in 1..(l + 1), IsNotify(t[c]), t[c].method = "cancelRequest"
        PROVE  \E i \in 1..(c - 1) : IsRequest(t[i]) /\ t[i].id = t[c].target
    <2>1. CASE c \in 1..l
      <3>1. PICK i \in 1..(c - 1) : IsRequest(s[i]) /\ s[i].id = s[c].target
        BY <1>2, <1>3, <1>6, <2>1
      <3>2. i \in 1..l
        BY <1>1, <2>1
      <3> QED
        BY <1>3, <2>1, <3>1, <3>2
    <2>2. CASE c = l + 1
      <3>1. PICK i \in 1..l : IsRequest(s[i]) /\ s[i].id = m.target
        BY <1>3, <1>6, <2>2
      <3>2. i \in 1..(c - 1)
        BY <1>1, <2>2
      <3> QED
        BY <1>3, <2>2, <3>1, <3>2
    <2> QED
      BY <1>4, <2>1, <2>2
  <1> QED
    BY <1>1, <1>5, <1>6 DEF Proper

(* ... and it only loses what is no message. *)
LEMMA ProperRemove ==
  ASSUME NEW s \in Seq(Messages), NEW t \in Seq(Messages), Proper(s),
         NEW k \in 1..Len(s), s[k].kind = "garbage", Len(t) = Len(s) - 1,
         \A i \in 1..Len(t) : t[i] = s[IF i < k THEN i ELSE i + 1]
  PROVE  Proper(t)
  <1> DEFINE l == Len(t)
             up(i) == IF i < k THEN i ELSE i + 1
  <1>1. l \in Nat /\ Len(s) = l + 1 /\ k \in 1..(l + 1)
    OBVIOUS
  <1>2. /\ \A i, j \in 1..(l + 1) : IsRequest(s[i]) /\ IsRequest(s[j]) /\ s[i].id = s[j].id => i = j
        /\ \A c \in 1..(l + 1) : IsNotify(s[c]) /\ s[c].method = "cancelRequest" =>
             \E i \in 1..(c - 1) : IsRequest(s[i]) /\ s[i].id = s[c].target
    BY <1>1 DEF Proper
  <1>3. \A i \in 1..l : t[i] = s[up(i)]
    OBVIOUS
  <1>4. ~IsRequest(s[k])
    BY DEF IsRequest
  <1> HIDE DEF l
  <1>5. /\ \A i \in 1..l : up(i) \in 1..(l + 1)
        /\ \A i, j \in 1..l : up(i) = up(j) => i = j
    BY <1>1
  <1>6. ASSUME NEW i \in 1..l, NEW j \in 1..l,
               IsRequest(t[i]), IsRequest(t[j]), t[i].id = t[j].id
        PROVE  i = j
    <2> HIDE DEF up
    <2>1. up(i) = up(j)
      BY <1>2, <1>3, <1>5, <1>6
    <2> QED
      BY <1>5, <2>1
  <1>7. ASSUME NEW c \in 1..l, IsNotify(t[c]), t[c].method = "cancelRequest"
        PROVE  \E i \in 1..(c - 1) : IsRequest(t[i]) /\ t[i].id = t[c].target
    <2>1. PICK j \in 1..(up(c) - 1) : IsRequest(s[j]) /\ s[j].id = s[up(c)].target
      <3> HIDE DEF up
      <3> QED
        BY <1>2, <1>3, <1>5, <1>7
    <2>2. j # k
      BY <1>4, <2>1
    <2>3. PICK i \in 1..(c - 1) : up(i) = j
      <3>1. CASE j < k
        <4>1. j \in 1..(c - 1) /\ up(j) = j
          BY <1>1, <3>1
        <4> QED
          BY <4>1
      <3>2. CASE j > k
        <4>1. j - 1 \in 1..(c - 1) /\ up(j - 1) = j
          BY <1>1, <3>2
        <4> QED
          BY <4>1
      <3>3. j \in Int /\ k \in Int
        BY <1>1, <1>5
      <3> QED
        BY <2>2, <3>1, <3>2, <3>3
    <2>4. i \in 1..l
      BY <1>1
    <2> HIDE DEF up
    <2> QED
      BY <1>3, <2>1, <2>3, <2>4
  <1> QED
    BY <1>6, <1>7 DEF Proper, l

(* Nothing changes for what is the same at every place. *)
LEMMA ProperSame ==
  ASSUME NEW s, NEW t, Proper(s), Len(s) \in Nat, Len(t) = Len(s),
         \A i \in 1..Len(s) : t[i] = s[i]
  PROVE  Proper(t)
  <1>1. ASSUME NEW c \in 1..Len(s), IsNotify(s[c]), s[c].method = "cancelRequest"
        PROVE  \E i \in 1..(c - 1) : IsRequest(t[i]) /\ t[i].id = t[c].target
    <2>1. PICK i \in 1..(c - 1) : IsRequest(s[i]) /\ s[i].id = s[c].target
      BY <1>1 DEF Proper
    <2>2. i \in 1..Len(s)
      OBVIOUS
    <2> QED
      BY <2>1, <2>2
  <1> QED
    BY <1>1 DEF Proper

(* Every step keeps it so. *)
LEMMA ClientStep ==
  ASSUME TypeInv, ClientInv, [Next]_vars
  PROVE  ClientInv'
  <1>0. TypeInv'
    BY TypeStep
  <1>1. inbox \in Seq(Messages) /\ unread \in Seq(Messages)
    BY DEF TypeInv, TypeOK
  <1>2. inbox' \in Seq(Messages) /\ unread' \in Seq(Messages)
    BY <1>0 DEF TypeInv, TypeOK
  <1> DEFINE a == Len(inbox)
             b == Len(unread)
  <1>3. /\ Sent \in Seq(Messages) /\ Len(Sent) = a + b /\ a \in Nat /\ b \in Nat
        /\ \A i \in 1..a : Sent[i] = inbox[i]
        /\ \A i \in 1..b : Sent[a + i] = unread[i]
    BY <1>1, BothParts DEF Sent
  <1>4. /\ Sent' \in Seq(Messages) /\ Len(Sent') = Len(inbox') + Len(unread')
        /\ \A i \in 1..Len(inbox') : Sent'[i] = inbox'[i]
        /\ \A i \in 1..Len(unread') : Sent'[Len(inbox') + i] = unread'[i]
    <2>1. Sent' = inbox' \o unread'
      BY DEF Sent
    <2> QED
      BY <1>2, <2>1, BothParts
  <1>5. CASE UNCHANGED <<unread, inbox>>
    BY <1>5 DEF ClientInv, Sent
  <1>6. ASSUME NEW m \in Messages, Send(m) PROVE ClientInv'
    <2>1. inbox' = inbox /\ unread' = Append(unread, m)
      BY <1>6 DEF Send
    <2>2. Len(unread') = b + 1 /\ (\A i \in 1..b : unread'[i] = unread[i]) /\ unread'[b + 1] = m
      BY <1>1, <2>1, AppendProperties
    <2>3. /\ IsRequest(m) => \A i \in 1..Len(Sent) : ~(IsRequest(Sent[i]) /\ Sent[i].id = m.id)
          /\ IsNotify(m) /\ m.method = "cancelRequest" =>
               \E i \in 1..Len(Sent) : IsRequest(Sent[i]) /\ Sent[i].id = m.target
      BY <1>6 DEF Send
    <2>4. /\ Len(Sent') = Len(Sent) + 1 /\ (\A i \in 1..Len(Sent) : Sent'[i] = Sent[i])
          /\ Sent'[Len(Sent) + 1] = m
      <3>1. /\ Len(inbox') = a /\ Len(Sent') = a + (b + 1)
            /\ \A i \in 1..a : Sent'[i] = Sent[i]
            /\ \A i \in 1..(b + 1) : Sent'[a + i] = unread'[i]
        BY <1>3, <1>4, <2>1, <2>2
      <3> HIDE DEF a, b
      <3>2. ASSUME NEW i \in 1..b PROVE Sent'[a + i] = Sent[a + i]
        <4>1. i \in 1..(b + 1)
          BY <1>3
        <4>2. Sent'[a + i] = unread'[i] /\ Sent[a + i] = unread[i]
          BY <1>3, <3>1, <4>1
        <4> QED
          BY <2>2, <4>2
      <3>3. Sent'[a + (b + 1)] = m
        BY <1>3, <2>2, <3>1
      <3>4. ASSUME NEW i \in 1..(a + b), i \notin 1..a PROVE Sent'[i] = Sent[i]
        <4>1. i - a \in 1..b /\ a + (i - a) = i
          BY <1>3, <3>4
        <4> QED
          BY <3>2, <4>1
      <3>5. a + (b + 1) = (a + b) + 1
        BY <1>3
      <3> QED
        BY <1>3, <3>1, <3>3, <3>4, <3>5
    <2> QED
      BY <1>3, <1>4, <2>3, <2>4, ProperAppend DEF ClientInv
  <1>7. CASE Recv
    <2>1. unread # <<>> /\ unread' = Tail(unread)
      BY <1>7 DEF Recv
    <2>2. /\ b >= 1 /\ Len(unread') = b - 1 /\ Head(unread) = unread[1]
          /\ \A i \in 1..(b - 1) : unread'[i] = unread[i + 1]
      BY <1>1, <2>1, HeadTailProperties
    <2>3. CASE inbox' = inbox /\ unread[1].kind = "garbage"
      <3>1. Len(inbox') = a /\ Len(Sent') = a + (b - 1)
        BY <1>4, <2>2, <2>3
      <3>2. /\ \A i \in 1..a : Sent'[i] = Sent[i]
            /\ \A i \in 1..(b - 1) : Sent'[a + i] = unread'[i]
        BY <1>3, <1>4, <2>2, <2>3
      <3> HIDE DEF a, b
      <3>3. ASSUME NEW i \in 1..(b - 1) PROVE Sent'[a + i] = Sent[a + (i + 1)]
        <4>1. i + 1 \in 1..b
          BY <1>3
        <4>2. Sent'[a + i] = unread'[i] /\ Sent[a + (i + 1)] = unread[i + 1]
          BY <1>3, <3>2, <4>1
        <4> QED
          BY <2>2, <4>2
      <3>4. a + 1 \in 1..Len(Sent) /\ Sent[a + 1].kind = "garbage"
        BY <1>3, <2>2, <2>3
      <3>5. ASSUME NEW i \in 1..Len(Sent') PROVE Sent'[i] = Sent[IF i < a + 1 THEN i ELSE i + 1]
        <4>1. CASE i < a + 1
          <5>1. i \in 1..a
            BY <1>3, <3>1, <4>1
          <5> QED
            BY <3>2, <4>1, <5>1
        <4>2. CASE ~(i < a + 1)
          <5>1. i - a \in 1..(b - 1) /\ a + (i - a) = i /\ a + ((i - a) + 1) = i + 1
            BY <1>3, <2>2, <3>1, <4>2
          <5> QED
            BY <3>3, <4>2, <5>1
        <4> QED
          BY <4>1, <4>2
      <3>6. Len(Sent') = Len(Sent) - 1
        BY <1>3, <2>2, <3>1
      <3> QED
        BY <1>3, <1>4, <3>4, <3>5, <3>6, ProperRemove DEF ClientInv
    <2>4. CASE inbox' = Append(inbox, unread[1])
      <3>1. unread[1] \in Messages
        BY <1>1, <1>3, <2>2, ElementOfSeq
      <3>2. Len(inbox') = a + 1 /\ (\A i \in 1..a : inbox'[i] = inbox[i]) /\ inbox'[a + 1] = unread[1]
        BY <1>1, <2>4, <3>1, AppendProperties
      <3>3. /\ Len(Sent') = (a + 1) + (b - 1)
            /\ \A i \in 1..(a + 1) : Sent'[i] = inbox'[i]
            /\ \A i \in 1..(b - 1) : Sent'[(a + 1) + i] = unread'[i]
        BY <1>4, <2>2, <3>2
      <3> HIDE DEF a, b
      <3>4. ASSUME NEW i \in 1..Len(Sent) PROVE Sent'[i] = Sent[i]
        <4>1. CASE i \in 1..a
          BY <1>3, <3>2, <3>3, <4>1
        <4>2. CASE i = a + 1
          BY <1>3, <2>2, <3>2, <3>3, <4>2
        <4>3. CASE i > a + 1
          <5>1. /\ i - (a + 1) \in 1..(b - 1) /\ (a + 1) + (i - (a + 1)) = i
                /\ (i - (a + 1)) + 1 \in 1..b /\ a + ((i - (a + 1)) + 1) = i
            BY <1>3, <2>2, <4>3
          <5>2. Sent'[i] = unread'[i - (a + 1)] /\ Sent[i] = unread[(i - (a + 1)) + 1]
            BY <1>3, <3>3, <5>1
          <5> QED
            BY <2>2, <5>1, <5>2
        <4> QED
          BY <1>3, <4>1, <4>2, <4>3
      <3>5. Len(Sent') = Len(Sent)
        BY <1>3, <2>2, <3>3
      <3> QED
        BY <1>3, <1>4, <3>4, <3>5, ProperSame DEF ClientInv
    <2> QED
      BY <1>7, <2>2, <2>3, <2>4 DEF Recv
  <1>8. CASE (\E w \in Workers : BeginJob(w) \/ Handle(w)) \/ StayInLoop \/ LeaveLoop \/ Join \/ UNCHANGED vars
    <2>1. UNCHANGED <<unread, inbox>>
      BY <1>8 DEF BeginJob, Handle, Ignore, Notify, OnRecv, NoRoute, Call, CheckCancelled, Write,
                  OnComplete, StayInLoop, LeaveLoop, Join, clientVars, vars
    <2> QED
      BY <1>5, <2>1
  <1> QED
    BY <1>6, <1>7, <1>8 DEF Next, Main

(* So the server sees one request of each id, and every cancellation behind *)
(* the request it names.                                                    *)
LEMMA InboxProper ==
  ASSUME TypeInv, ClientInv
  PROVE  Proper(inbox)
  <1> DEFINE a == Len(inbox)
  <1>1. /\ Sent \in Seq(Messages) /\ a \in Nat /\ Len(Sent) \in Nat /\ a <= Len(Sent)
        /\ \A i \in 1..a : Sent[i] = inbox[i]
    <2> DEFINE b == Len(unread)
    <2>1. inbox \in Seq(Messages) /\ unread \in Seq(Messages)
      BY DEF TypeInv, TypeOK
    <2>2. a \in Nat /\ b \in Nat
      BY <2>1
    <2>3. Sent \in Seq(Messages) /\ Len(Sent) = a + b /\ \A i \in 1..a : Sent[i] = inbox[i]
      BY <2>1, BothParts DEF Sent
    <2> HIDE DEF a, b
    <2> QED
      BY <2>2, <2>3
  <1>2. \A i \in 1..a : i \in 1..Len(Sent)
    <2> HIDE DEF a
    <2> QED
      BY <1>1
  <1>3. \A i, j \in 1..a :
          IsRequest(inbox[i]) /\ IsRequest(inbox[j]) /\ inbox[i].id = inbox[j].id => i = j
    BY <1>1, <1>2 DEF ClientInv, Proper
  <1>4. ASSUME NEW c \in 1..a, IsNotify(inbox[c]), inbox[c].method = "cancelRequest"
        PROVE  \E i \in 1..(c - 1) : IsRequest(inbox[i]) /\ inbox[i].id = inbox[c].target
    <2>1. PICK i \in 1..(c - 1) : IsRequest(Sent[i]) /\ Sent[i].id = Sent[c].target
      BY <1>1, <1>2, <1>4 DEF ClientInv, Proper
    <2>2. i \in 1..a
      <3> HIDE DEF a
      <3> QED
        BY <1>1
    <2> QED
      BY <1>1, <2>1, <2>2
  <1> QED
    BY <1>3, <1>4 DEF Proper

-----------------------------------------------------------------------------
(* What a step of a worker within handle does to the workers and the jobs. *)
LEMMA MovesFacts ==
  ASSUME TypeInv, NEW w \in Workers, NEW p \in WorkerPCs, Moves(w, p)
  PROVE  /\ UNCHANGED <<inbox, begun, done, curr>> /\ at'[w] = p
         /\ \A v \in Workers : v # w => at'[v] = at[v]
         /\ \A v \in Workers : Message(v)' = Message(v)
  <1>1. at \in [Workers -> WorkerPCs]
    BY DEF TypeInv, TypeOK
  <1>2. at' = [at EXCEPT ![w] = p] /\ UNCHANGED <<inbox, begun, done, curr>>
    BY DEF Moves, Goto, poolVars
  <1> QED
    BY <1>1, <1>2 DEF Message

(* The same of the step that returns: the job is done. *)
LEMMA LeavesFacts ==
  ASSUME TypeInv, NEW w \in Workers, Leaves(w), at[w] # "idle"
  PROVE  /\ UNCHANGED <<inbox, begun>> /\ done' = done \cup {curr[w]} /\ at'[w] = "idle" /\ curr'[w] = 0
         /\ curr[w] \in 1..Len(begun) /\ curr[w] \notin done
         /\ \A v \in Workers : v # w => /\ at'[v] = at[v] /\ curr'[v] = curr[v]
                                        /\ Message(v)' = Message(v)
                                        /\ curr[v] # curr[w]
  <1>1. at \in [Workers -> WorkerPCs] /\ curr \in [Workers -> Nat]
    BY PoolFacts DEF TypeInv, TypeOK
  <1>2. /\ at' = [at EXCEPT ![w] = "idle"] /\ UNCHANGED <<inbox, begun>>
        /\ curr' = [curr EXCEPT ![w] = 0] /\ done' = done \cup {curr[w]}
    BY DEF Leaves, Return, Goto, Pool!End, Pool!NoJob
  <1>3. curr[w] \in 1..Len(begun)
    BY AtMessage
  <1>4. curr[w] # 0
    BY <1>3
  <1>5. curr[w] \notin done /\ \A v \in Workers : curr[v] = curr[w] /\ curr[w] # 0 => v = w
    BY PoolFacts DEF TypeInv
  <1>6. ASSUME NEW v \in Workers, v # w
        PROVE  at'[v] = at[v] /\ curr'[v] = curr[v] /\ curr[v] # curr[w]
    BY <1>1, <1>2, <1>4, <1>5, <1>6
  <1>7. ASSUME NEW v \in Workers, v # w
        PROVE  Message(v)' = Message(v)
    BY <1>2, <1>6, <1>7 DEF Message
  <1> QED
    BY <1>1, <1>2, <1>3, <1>5, <1>6, <1>7

(* Which of the two it is. *)
LEMMA HandleIs ==
  ASSUME TypeInv, NEW w \in Workers, Handle(w)
  PROVE  /\ at[w] # "idle" /\ raced' = raced
         /\ \/ Leaves(w) /\ out' = out /\ at[w] = "handle" /\ Ignore(w)
            \/ Leaves(w) /\ out' = out /\ at[w] = "handle" /\ Notify(w)
            \/ Leaves(w) /\ out' = out /\ at[w] = "call" /\ NoRoute(w)
            \/ Leaves(w) /\ out' = out /\ at[w] = "complete" /\ OnComplete(w)
            \/ Moves(w, "call") /\ out' = out /\ at[w] = "handle" /\ OnRecv(w)
            \/ Moves(w, "check") /\ out' = out /\ at[w] = "call" /\ Call(w)
            \/ Moves(w, "writeError") /\ out' = out /\ at[w] = "check" /\ CheckCancelled(w)
            \/ Moves(w, "writeResult") /\ out' = out /\ at[w] = "check" /\ CheckCancelled(w)
            \/ Moves(w, "complete") /\ at[w] \in {"writeError", "writeResult"} /\ Write(w)
  <1>1. CASE Ignore(w)
    BY <1>1 DEF Ignore, Leaves, clientVars
  <1>2. CASE Notify(w)
    BY <1>2 DEF Notify, Leaves, clientVars
  <1>3. CASE NoRoute(w)
    BY <1>3 DEF NoRoute, Leaves, clientVars
  <1>4. CASE OnComplete(w)
    BY <1>4 DEF OnComplete, Leaves, clientVars
  <1>5. CASE OnRecv(w)
    BY <1>5 DEF OnRecv, Moves, clientVars
  <1>6. CASE Call(w)
    BY <1>6 DEF Call, Moves, clientVars
  <1>7. CASE CheckCancelled(w)
    BY <1>7 DEF CheckCancelled, Moves, Goto, clientVars, stateVars
  <1>8. CASE Write(w)
    BY <1>8 DEF Write, Moves, stateVars
  <1> QED
    BY <1>1, <1>2, <1>3, <1>4, <1>5, <1>6, <1>7, <1>8 DEF Handle

(* Messages of jobs that were begun are the same after any step, and done is done. *)
LEMMA BegunKept ==
  ASSUME TypeInv, [Next]_vars
  PROVE  /\ Len(begun) \in Nat /\ Len(begun)' \in Nat /\ Len(begun) <= Len(begun)'
         /\ \A n \in 1..Len(begun) : inbox'[n] = inbox[n]
         /\ done \subseteq done'
  <1>1. Len(begun) \in Nat /\ Len(begun) <= queued /\ queued \in Nat /\ Len(inbox) = queued
    BY PoolFacts DEF TypeInv, MainInv
  <1>2. CASE Still
    <2>1. \A n \in 1..Len(begun) : n \in 1..Len(inbox)
      <3> DEFINE b == Len(begun)
      <3> HIDE DEF b
      <3>1. b \in Nat /\ b <= queued /\ queued \in Nat
        BY <1>1 DEF b
      <3>2. \A n \in 1..b : n \in 1..queued
        BY <3>1
      <3> QED
        BY <1>1, <3>2 DEF b
    <2> QED
      BY <1>1, <1>2, <2>1 DEF Still, Kept
  <1>3. ASSUME NEW w \in Workers, BeginJob(w)
        PROVE  Len(begun)' = Len(begun) + 1 /\ inbox' = inbox /\ done' = done
    BY <1>3, BeginFacts
  <1>4. ASSUME NEW w \in Workers, Handle(w)
        PROVE  begun' = begun /\ inbox' = inbox /\ done \subseteq done'
    BY <1>4, HandleIs DEF Leaves, Return, Pool!End, Moves, poolVars
  <1>5. CASE \E w \in Workers : BeginJob(w)
    <2> DEFINE b == Len(begun)
    <2>1. b \in Nat /\ Len(begun)' = b + 1 /\ inbox' = inbox
      BY <1>1, <1>3, <1>5
    <2> HIDE DEF b
    <2>2. Len(begun)' \in Nat /\ b <= Len(begun)' /\ inbox' = inbox
      BY <2>1
    <2> QED
      BY <1>1, <1>3, <1>5, <2>2 DEF b
  <1>6. CASE \E w \in Workers : Handle(w)
    BY <1>1, <1>4, <1>6
  <1> QED
    BY <1>2, <1>5, <1>6, OthersStill DEF Next

-----------------------------------------------------------------------------
(* Answers.  A step that writes none keeps the invariant when a job that ends *)
(* with it needs no answer, or has one.                                       *)
LEMMA AnswersSame ==
  ASSUME TypeInv, AnswersInv, [Next]_vars, out' = out, done \subseteq done',
         \A n \in done' \ done :
           n \in 1..Len(begun) /\ (IsRequest(inbox[n]) /\ IsRouted(inbox[n]) => Answered(n)),
         \A w \in Workers : at[w] = "complete" =>
           curr[w] \in done' \/ (at'[w] = "complete" /\ curr'[w] = curr[w]),
         \A w \in Workers : at'[w] = "complete" => at[w] = "complete" /\ curr'[w] = curr[w]
  PROVE  AnswersInv'
  <1>1. /\ Len(begun) \in Nat /\ Len(begun)' \in Nat /\ Len(begun) <= Len(begun)'
        /\ \A n \in 1..Len(begun) : inbox'[n] = inbox[n]
    BY BegunKept
  <1>2. \A n \in 1..Len(begun) : n \in 1..Len(begun)'
    BY <1>1
  <1>3. \A n : Answered(n) => \E i \in 1..Len(out') : out'[i].job = n
    BY DEF Answered
  <1>4. done \subseteq 1..Len(begun)
    BY PoolFacts DEF TypeInv
  <1>5. ASSUME NEW i \in 1..Len(out')
        PROVE  LET n == out'[i].job IN
               /\ n \in 1..Len(begun)' /\ IsRequest(inbox'[n]) /\ IsRouted(inbox'[n])
               /\ out'[i].id = WireNumber(inbox'[n].id)
               /\ n \in done' \/ \E w \in Workers : curr'[w] = n /\ at'[w] = "complete"
    <2> DEFINE n == out[i].job
    <2>1. /\ n \in 1..Len(begun) /\ IsRequest(inbox[n]) /\ IsRouted(inbox[n])
          /\ out[i].id = WireNumber(inbox[n].id)
          /\ n \in done \/ \E w \in Workers : curr[w] = n /\ at[w] = "complete"
      BY DEF AnswersInv
    <2>2. out'[i].job = n
      OBVIOUS
    <2> HIDE DEF n
    <2>3. n \in 1..Len(begun)' /\ inbox'[n] = inbox[n]
      BY <1>1, <1>2, <2>1
    <2>4. n \in done' \/ \E w \in Workers : curr'[w] = n /\ at'[w] = "complete"
      BY <2>1
    <2> QED
      BY <2>1, <2>2, <2>3, <2>4
  <1>6. \A i, j \in 1..Len(out') : out'[i].job = out'[j].job => i = j
    BY DEF AnswersInv
  <1>7. ASSUME NEW n \in done', IsRequest(inbox'[n]), IsRouted(inbox'[n])
        PROVE  \E i \in 1..Len(out') : out'[i].job = n
    <2>1. n \in 1..Len(begun)
      BY <1>4
    <2>2. inbox'[n] = inbox[n]
      BY <1>1, <2>1
    <2>3. CASE n \in done
      BY <1>3, <1>7, <2>2, <2>3 DEF AnswersInv
    <2>4. CASE n \notin done
      BY <1>3, <1>7, <2>2, <2>4
    <2> QED
      BY <2>3, <2>4
  <1>8. ASSUME NEW w \in Workers, at'[w] = "complete"
        PROVE  \E i \in 1..Len(out') : out'[i].job = curr'[w]
    <2>1. Answered(curr[w])
      BY <1>8 DEF AnswersInv
    <2> QED
      BY <1>8, <2>1 DEF Answered
  <1> QED
    BY <1>5, <1>6, <1>7, <1>8 DEF AnswersInv, Answered

(* What is on stdout after a write: all that was there, and the response. *)
LEMMA WriteFacts ==
  ASSUME TypeInv, NEW w \in Workers, Write(w)
  PROVE  /\ Len(out) \in Nat /\ Len(out') = Len(out) + 1
         /\ \A i \in 1..Len(out) : out'[i] = out[i]
         /\ \A i \in 1..Len(out') : i \in 1..Len(out) \/ i = Len(out) + 1
         /\ \A i \in 1..Len(out) : i \in 1..Len(out') /\ i # Len(out) + 1
         /\ Len(out) + 1 \in 1..Len(out')
         /\ out'[Len(out) + 1] = [job |-> curr[w], id |-> WireNumber(Message(w).id),
                                  cancelled |-> at[w] = "writeError"]
         /\ UNCHANGED <<inbox, begun, done, curr>>
         /\ at[w] \in {"writeError", "writeResult"} /\ at'[w] = "complete"
         /\ \A v \in Workers : v # w => at'[v] = at[v]
         /\ IsRequest(Message(w)) /\ IsRouted(Message(w))
         /\ curr[w] \in 1..Len(begun) /\ curr[w] \notin done
  <1> DEFINE l == Len(out)
             r == [job |-> curr[w], id |-> WireNumber(Message(w).id),
                   cancelled |-> at[w] = "writeError"]
  <1>1. /\ Moves(w, "complete") /\ out' = Append(out, r)
        /\ at[w] \in {"writeError", "writeResult"}
    BY DEF Write, Moves, stateVars
  <1>2. out \in Seq([job : Pool!Jobs, id : Nat, cancelled : BOOLEAN])
    BY DEF TypeInv, TypeOK
  <1>3. r \in [job : Pool!Jobs, id : Nat, cancelled : BOOLEAN]
    <2>1. IsRequest(Message(w)) /\ curr[w] \in 1..MaxMessages /\ Message(w) \in Messages
      BY <1>1, AtMessage DEF TypeInv, AtWork
    <2>2. WireNumber(Message(w).id) \in Nat
      BY <2>1, MessageTypes, WireNumberType
    <2> QED
      BY <2>1, <2>2 DEF Pool!Jobs
  <1> HIDE DEF r
  <1>4. l \in Nat /\ Len(out') = l + 1 /\ (\A i \in 1..l : out'[i] = out[i]) /\ out'[l + 1] = r
    BY <1>1, <1>2, <1>3, AppendProperties
  <1>5. /\ \A i \in 1..(l + 1) : i \in 1..l \/ i = l + 1
        /\ \A i \in 1..l : i \in 1..(l + 1) /\ i # l + 1
        /\ l + 1 \in 1..(l + 1)
    <2> HIDE DEF l
    <2> QED
      BY <1>4
  <1>6. /\ UNCHANGED <<inbox, begun, done, curr>> /\ at'[w] = "complete"
        /\ \A v \in Workers : v # w => at'[v] = at[v]
    BY <1>1, MovesFacts DEF WorkerPCs
  <1>7. /\ IsRequest(Message(w)) /\ IsRouted(Message(w))
        /\ curr[w] \in 1..Len(begun) /\ curr[w] \notin done
    BY <1>1, AtMessage, PoolFacts DEF TypeInv, AtWork
  <1> QED
    BY <1>1, <1>4, <1>5, <1>6, <1>7 DEF r

(* The response is the first to its request. *)
LEMMA AnswersWrite ==
  ASSUME TypeInv, AnswersInv, NEW w \in Workers, Write(w)
  PROVE  AnswersInv'
  <1> DEFINE l == Len(out)
             n == curr[w]
             r == [job |-> n, id |-> WireNumber(Message(w).id), cancelled |-> at[w] = "writeError"]
  <1>1. /\ l \in Nat /\ Len(out') = l + 1
        /\ \A i \in 1..l : out'[i] = out[i]
        /\ \A i \in 1..Len(out') : i \in 1..l \/ i = l + 1
        /\ \A i \in 1..l : i \in 1..Len(out') /\ i # l + 1
        /\ l + 1 \in 1..Len(out')
        /\ out'[l + 1] = r
        /\ UNCHANGED <<inbox, begun, done, curr>>
        /\ at[w] \in {"writeError", "writeResult"} /\ at'[w] = "complete"
        /\ \A v \in Workers : v # w => at'[v] = at[v]
        /\ IsRequest(Message(w)) /\ IsRouted(Message(w))
        /\ n \in 1..Len(begun) /\ n \notin done
    BY WriteFacts
  <1>2. r.job = n /\ r.id = WireNumber(inbox[n].id) /\ IsRequest(inbox[n]) /\ IsRouted(inbox[n])
    BY <1>1 DEF Message
  <1>3. \A v \in Workers : curr[v] = n => v = w
    <2>1. n # 0
      BY <1>1
    <2> QED
      BY <2>1, PoolFacts DEF TypeInv
  <1> HIDE DEF l, n, r
  <1>4. \A i \in 1..l :
          /\ out[i].job \in 1..Len(begun)
          /\ IsRequest(inbox[out[i].job]) /\ IsRouted(inbox[out[i].job])
          /\ out[i].id = WireNumber(inbox[out[i].job].id)
          /\ out[i].job \in done \/ \E v \in Workers : curr[v] = out[i].job /\ at[v] = "complete"
    BY DEF AnswersInv, l
  <1>5. \A i \in 1..l : out[i].job # n
    BY <1>1, <1>3, <1>4
  <1>6. ASSUME NEW i \in 1..Len(out')
        PROVE  /\ out'[i].job \in 1..Len(begun')
               /\ IsRequest(inbox'[out'[i].job]) /\ IsRouted(inbox'[out'[i].job])
               /\ out'[i].id = WireNumber(inbox'[out'[i].job].id)
               /\ \/ out'[i].job \in done'
                  \/ \E v \in Workers : curr'[v] = out'[i].job /\ at'[v] = "complete"
    <2>1. CASE i \in 1..l
      <3>1. out'[i] = out[i]
        BY <1>1, <2>1
      <3>2. \A v \in Workers : at[v] = "complete" => at'[v] = "complete"
        BY <1>1
      <3> QED
        BY <1>1, <1>4, <2>1, <3>1, <3>2
    <2>2. CASE i = l + 1
      <3>1. out'[i].job = n /\ out'[i].id = WireNumber(inbox[n].id)
        BY <1>1, <1>2, <2>2
      <3>2. curr'[w] = n /\ at'[w] = "complete"
        BY <1>1 DEF n
      <3> QED
        BY <1>1, <1>2, <3>1, <3>2
    <2> QED
      BY <1>1, <2>1, <2>2
  <1>7. ASSUME NEW i \in 1..Len(out'), NEW j \in 1..Len(out'), out'[i].job = out'[j].job
        PROVE  i = j
    <2>1. \A k \in 1..l : out'[k].job # n
      BY <1>1, <1>5
    <2>2. out'[l + 1].job = n
      BY <1>1, <1>2
    <2>3. CASE i \in 1..l /\ j \in 1..l
      <3>1. out[i].job = out[j].job
        BY <1>1, <1>7, <2>3
      <3> QED
        BY <2>3, <3>1 DEF AnswersInv, l
    <2> QED
      BY <1>1, <1>7, <2>1, <2>2, <2>3
  <1>8. \A k : Answered(k) => \E i \in 1..Len(out') : out'[i].job = k
    BY <1>1 DEF Answered, l
  <1>9. \A k \in done' : IsRequest(inbox'[k]) /\ IsRouted(inbox'[k]) =>
          \E i \in 1..Len(out') : out'[i].job = k
    BY <1>1, <1>8 DEF AnswersInv
  <1>10. ASSUME NEW v \in Workers, at'[v] = "complete"
         PROVE  \E i \in 1..Len(out') : out'[i].job = curr'[v]
    <2>1. CASE v = w
      <3>1. curr'[v] = n
        BY <1>1, <2>1 DEF n
      <3> QED
        BY <1>1, <1>2, <3>1
    <2>2. CASE v # w
      <3>1. Answered(curr[v]) /\ curr'[v] = curr[v]
        BY <1>1, <1>10, <2>2 DEF AnswersInv
      <3> QED
        BY <1>8, <3>1
    <2> QED
      BY <2>1, <2>2
  <1> QED
    BY <1>6, <1>7, <1>9, <1>10 DEF AnswersInv, Answered

(* Every step keeps the answers. *)
LEMMA AnswersStep ==
  ASSUME TypeInv, AnswersInv, [Next]_vars
  PROVE  AnswersInv'
  <1>1. CASE Still
    <2>1. out' = out /\ done' = done /\ at' = at /\ curr' = curr
      BY <1>1 DEF Still
    <2> QED
      BY <2>1, AnswersSame
  <1>2. ASSUME NEW w \in Workers, BeginJob(w) PROVE AnswersInv'
    <2>1. at \in [Workers -> WorkerPCs] /\ curr \in [Workers -> Nat]
      BY PoolFacts DEF TypeInv, TypeOK
    <2>2. /\ out' = out /\ done' = done /\ at[w] = "idle" /\ at' = [at EXCEPT ![w] = "handle"]
          /\ curr' = [curr EXCEPT ![w] = Len(begun) + 1]
      BY <1>2, BeginFacts
    <2>3. \A v \in Workers : at[v] = "complete" => at'[v] = "complete" /\ curr'[v] = curr[v]
      BY <2>1, <2>2
    <2>4. \A v \in Workers : at'[v] = "complete" => at[v] = "complete" /\ curr'[v] = curr[v]
      BY <2>1, <2>2
    <2> QED
      BY <2>2, <2>3, <2>4, AnswersSame
  <1>3. ASSUME NEW w \in Workers, Handle(w) PROVE AnswersInv'
    <2>1. at[w] # "idle"
      BY <1>3, HandleIs
    <2>2. CASE Leaves(w) /\ out' = out /\ (IsRequest(Message(w)) /\ IsRouted(Message(w)) => at[w] = "complete")
      <3>1. /\ UNCHANGED <<inbox, begun>> /\ done' = done \cup {curr[w]} /\ at'[w] = "idle"
            /\ curr[w] \in 1..Len(begun)
            /\ \A v \in Workers : v # w => at'[v] = at[v] /\ curr'[v] = curr[v]
        BY <2>1, <2>2, LeavesFacts
      <3>2. IsRequest(inbox[curr[w]]) /\ IsRouted(inbox[curr[w]]) => Answered(curr[w])
        BY <2>2 DEF AnswersInv, Message
      <3>3. ASSUME NEW v \in Workers, at[v] = "complete"
            PROVE  curr[v] \in done' \/ (at'[v] = "complete" /\ curr'[v] = curr[v])
        <4>1. CASE v = w
          <5>1. curr[w] \in done'
            BY <3>1
          <5> QED
            BY <4>1, <5>1
        <4>2. CASE v # w
          BY <3>1, <3>3, <4>2
        <4> QED
          BY <4>1, <4>2
      <3>4. ASSUME NEW v \in Workers, at'[v] = "complete"
            PROVE  at[v] = "complete" /\ curr'[v] = curr[v]
        <4>1. v # w
          BY <3>1, <3>4
        <4> QED
          BY <3>1, <3>4, <4>1
      <3>5. \A n \in done' \ done :
              n \in 1..Len(begun) /\ (IsRequest(inbox[n]) /\ IsRouted(inbox[n]) => Answered(n))
        BY <3>1, <3>2
      <3> QED
        BY <1>3, <2>2, <3>1, <3>3, <3>4, <3>5, AnswersSame DEF Next
    <2>3. ASSUME NEW p \in WorkerPCs, Moves(w, p), p # "complete", at[w] # "complete", out' = out
          PROVE  AnswersInv'
      <3>1. /\ done' = done /\ curr' = curr /\ at'[w] = p
            /\ \A v \in Workers : v # w => at'[v] = at[v]
        BY <2>3, MovesFacts
      <3>2. \A v \in Workers : at[v] = "complete" => at'[v] = "complete" /\ curr'[v] = curr[v]
        BY <2>3, <3>1
      <3>3. \A v \in Workers : at'[v] = "complete" => at[v] = "complete" /\ curr'[v] = curr[v]
        BY <2>3, <3>1
      <3> QED
        BY <1>3, <2>3, <3>1, <3>2, <3>3, AnswersSame DEF Next
    <2>4. CASE Write(w)
      BY <2>4, AnswersWrite
    <2>5. CASE Leaves(w) /\ out' = out /\ at[w] \in {"handle", "call"} /\ (Ignore(w) \/ Notify(w) \/ NoRoute(w))
      <3>1. ~(IsRequest(Message(w)) /\ IsRouted(Message(w)))
        BY <2>5 DEF Ignore, Notify, NoRoute, IsRequest, IsNotify
      <3> QED
        BY <2>2, <2>5, <3>1
    <2> QED
      BY <1>3, <2>2, <2>3, <2>4, <2>5, HandleIs DEF WorkerPCs
  <1> QED
    BY <1>1, <1>2, <1>3, OthersStill DEF Next

(* No request is answered yet. *)
LEMMA AnswersInit == Init => AnswersInv
  BY DEF Init, AnswersInv

(* What the invariant says of a message is what OneAnswerEach says. *)
LEMMA AnswersSuffice ==
  ASSUME TypeInv, AnswersInv
  PROVE  OneAnswerEach
  <1>1. inbox \in Seq(Messages)
    BY DEF TypeInv, TypeOK
  <1>2. ASSUME NEW n \in 1..Len(inbox)
        PROVE  LET m == inbox[n] IN
               /\ \A i, j \in Answers(n) : i = j
               /\ Answers(n) # {} => IsRequest(m) /\ IsRouted(m)
               /\ n \in done /\ IsRequest(m) /\ IsRouted(m) => Answers(n) # {}
               /\ \A i \in Answers(n) : ShortId(m.id) => out[i].id = m.id
    <2>1. \A i, j \in Answers(n) : i = j
      BY DEF Answers, AnswersInv
    <2>2. Answers(n) # {} => IsRequest(inbox[n]) /\ IsRouted(inbox[n])
      BY DEF Answers, AnswersInv
    <2>3. n \in done /\ IsRequest(inbox[n]) /\ IsRouted(inbox[n]) => Answers(n) # {}
      BY DEF Answers, AnswersInv, Answered
    <2>4. ASSUME NEW i \in Answers(n), ShortId(inbox[n].id) PROVE out[i].id = inbox[n].id
      <3>1. out[i].id = WireNumber(inbox[n].id) /\ IsRequest(inbox[n])
        BY DEF Answers, AnswersInv
      <3>2. inbox[n].id \in Nat
        BY <1>1, <3>1, ElementOfSeq, MessageTypes
      <3>3. WireNumber(inbox[n].id) = inbox[n].id
        BY <2>4, <3>2, ShortIdKept
      <3> QED
        BY <3>1, <3>3
    <2> QED
      BY <2>1, <2>2, <2>3, <2>4
  <1> QED
    BY <1>2 DEF OneAnswerEach

-----------------------------------------------------------------------------
(* The ids in flight.  Most steps move no request in or out of the set. *)
LEMMA FlightSame ==
  ASSUME TypeInv, FlightInv, [Next]_vars, inFlight' = inFlight, cancelIds' \subseteq inFlight,
         done \subseteq done', \A n \in done' \ done : n \in 1..Len(begun) /\ ~Stuck(n),
         \A w \in Workers : /\ Active(w)' <=> Active(w)
                            /\ Active(w) => Message(w)' = Message(w)
  PROVE  FlightInv'
  <1>1. \A n \in done' : n \in 1..Len(begun)
    BY PoolFacts DEF TypeInv
  <1>2. \A n \in done' : inbox'[n] = inbox[n]
    BY <1>1, BegunKept
  <1>3. \A n \in done' : (Stuck(n)' <=> Stuck(n)) /\ (Stuck(n) => n \in done)
    BY <1>2 DEF Stuck
  <1>4. \A w \in Workers : Active(w)' => Message(w)'.id \in inFlight'
    BY DEF FlightInv
  <1>5. \A n \in done' : Stuck(n)' => inbox'[n].id \in inFlight'
    BY <1>2, <1>3 DEF FlightInv
  <1>6. ASSUME NEW id \in inFlight'
        PROVE  \/ \E w \in Workers : Active(w)' /\ Message(w)'.id = id
               \/ \E n \in done' : Stuck(n)' /\ inbox'[n].id = id
    <2>1. CASE \E w \in Workers : Active(w) /\ Message(w).id = id
      BY <2>1
    <2>2. CASE \E n \in done : Stuck(n) /\ inbox[n].id = id
      BY <1>2, <1>3, <2>2
    <2> QED
      BY <2>1, <2>2 DEF FlightInv
  <1>7. cancelIds' \subseteq inFlight'
    OBVIOUS
  <1> QED
    BY <1>4, <1>5, <1>6, <1>7 DEF FlightInv

(* on_recv puts the request in, ... *)
LEMMA FlightRecv ==
  ASSUME TypeInv, FlightInv, NEW w \in Workers, OnRecv(w)
  PROVE  FlightInv'
  <1>1. /\ inFlight' = inFlight \cup {Message(w).id} /\ cancelIds' = cancelIds
        /\ Moves(w, "call") /\ at[w] = "handle"
    BY DEF OnRecv, Moves, clientVars
  <1>2. /\ UNCHANGED <<inbox, done>> /\ at'[w] = "call"
        /\ \A v \in Workers : v # w => at'[v] = at[v]
        /\ \A v \in Workers : Message(v)' = Message(v)
    BY <1>1, MovesFacts DEF WorkerPCs
  <1>3. /\ Active(w)' /\ ~Active(w)
        /\ \A v \in Workers : v # w => (Active(v)' <=> Active(v))
    BY <1>1, <1>2 DEF Active
  <1>4. \A n : Stuck(n)' <=> Stuck(n)
    BY <1>2 DEF Stuck
  <1>5. ASSUME NEW v \in Workers, Active(v)' PROVE Message(v)'.id \in inFlight'
    <2>1. CASE v = w
      BY <1>1, <1>2, <2>1
    <2>2. CASE v # w
      BY <1>1, <1>2, <1>3, <1>5, <2>2 DEF FlightInv
    <2> QED
      BY <2>1, <2>2
  <1>6. \A n \in done' : Stuck(n)' => inbox'[n].id \in inFlight'
    BY <1>1, <1>2, <1>4 DEF FlightInv
  <1>7. ASSUME NEW id \in inFlight'
        PROVE  \/ \E v \in Workers : Active(v)' /\ Message(v)'.id = id
               \/ \E n \in done' : Stuck(n)' /\ inbox'[n].id = id
    <2>1. CASE id = Message(w).id
      BY <1>2, <1>3, <2>1
    <2>2. CASE id \in inFlight
      <3>1. CASE \E v \in Workers : Active(v) /\ Message(v).id = id
        BY <1>2, <1>3, <3>1
      <3>2. CASE \E n \in done : Stuck(n) /\ inbox[n].id = id
        BY <1>2, <1>4, <3>2
      <3> QED
        BY <2>2, <3>1, <3>2 DEF FlightInv
    <2> QED
      BY <1>1, <2>1, <2>2
  <1>8. cancelIds' \subseteq inFlight'
    BY <1>1 DEF FlightInv
  <1> QED
    BY <1>5, <1>6, <1>7, <1>8 DEF FlightInv

(* ... a request without a route stays there when its worker leaves, ... *)
LEMMA FlightNoRoute ==
  ASSUME TypeInv, FlightInv, NEW w \in Workers, NoRoute(w)
  PROVE  FlightInv'
  <1> DEFINE n0 == curr[w]
  <1>1. /\ Leaves(w) /\ at[w] = "call" /\ inFlight' = inFlight /\ cancelIds' = cancelIds
        /\ ~IsRouted(Message(w))
    BY DEF NoRoute, Leaves, clientVars, stateVars
  <1>2. /\ inbox' = inbox /\ done' = done \cup {n0} /\ at'[w] = "idle"
        /\ \A v \in Workers : v # w => at'[v] = at[v] /\ Message(v)' = Message(v)
    BY <1>1, LeavesFacts
  <1>3. Stuck(n0) /\ inbox[n0].id = Message(w).id /\ Active(w)
    BY <1>1 DEF Stuck, Message, Active, TypeInv, AtWork
  <1>4. /\ ~Active(w)'
        /\ \A v \in Workers : v # w => (Active(v)' <=> Active(v))
    BY <1>2 DEF Active
  <1>5. \A n : Stuck(n)' <=> Stuck(n)
    BY <1>2 DEF Stuck
  <1> HIDE DEF n0
  <1>6. \A v \in Workers : Active(v)' => Message(v)'.id \in inFlight'
    BY <1>1, <1>2, <1>4 DEF FlightInv
  <1>7. ASSUME NEW n \in done', Stuck(n)' PROVE inbox'[n].id \in inFlight'
    <2>1. CASE n = n0
      BY <1>1, <1>2, <1>3, <2>1 DEF FlightInv
    <2>2. CASE n \in done
      BY <1>1, <1>2, <1>5, <1>7, <2>2 DEF FlightInv
    <2> QED
      BY <1>2, <2>1, <2>2
  <1>8. ASSUME NEW id \in inFlight'
        PROVE  \/ \E v \in Workers : Active(v)' /\ Message(v)'.id = id
               \/ \E n \in done' : Stuck(n)' /\ inbox'[n].id = id
    <2>1. ASSUME NEW v \in Workers, Active(v), Message(v).id = id
          PROVE  \/ \E u \in Workers : Active(u)' /\ Message(u)'.id = id
                 \/ \E n \in done' : Stuck(n)' /\ inbox'[n].id = id
      <3>1. CASE v = w
        <4> PICK n : n = n0
          OBVIOUS
        <4>1. n \in done' /\ Stuck(n)' /\ inbox'[n].id = id
          BY <1>2, <1>3, <1>5, <2>1, <3>1
        <4> QED
          BY <4>1
      <3>2. CASE v # w
        BY <1>2, <1>4, <2>1, <3>2
      <3> QED
        BY <3>1, <3>2
    <2>2. CASE \E n \in done : Stuck(n) /\ inbox[n].id = id
      BY <1>2, <1>5, <2>2
    <2> QED
      BY <1>1, <2>1, <2>2 DEF FlightInv
  <1>9. cancelIds' \subseteq inFlight'
    BY <1>1 DEF FlightInv
  <1> QED
    BY <1>6, <1>7, <1>8, <1>9 DEF FlightInv

(* ... and on_complete takes out the id of this request and of no other. *)
LEMMA FlightComplete ==
  ASSUME TypeInv, ClientInv, FlightInv, NEW w \in Workers, OnComplete(w)
  PROVE  FlightInv'
  <1> DEFINE n0 == curr[w]
             gone == Message(w).id
  <1>1. /\ Leaves(w) /\ at[w] = "complete" /\ inFlight' = inFlight \ {gone}
        /\ cancelIds' = cancelIds \ {gone}
    BY DEF OnComplete, Leaves, clientVars
  <1>2. /\ inbox' = inbox /\ done' = done \cup {n0} /\ at'[w] = "idle"
        /\ n0 \in 1..Len(inbox) /\ n0 \notin done
        /\ \A v \in Workers : v # w => /\ at'[v] = at[v] /\ Message(v)' = Message(v)
                                       /\ curr[v] # n0
    BY <1>1, LeavesFacts, AtMessage
  <1>3. IsRequest(inbox[n0]) /\ IsRouted(inbox[n0]) /\ inbox[n0].id = gone
    BY <1>1 DEF Message, TypeInv, AtWork
  <1>4. /\ ~Active(w)'
        /\ \A v \in Workers : v # w => (Active(v)' <=> Active(v))
    BY <1>2 DEF Active
  <1>5. \A n : Stuck(n)' <=> Stuck(n)
    BY <1>2 DEF Stuck
  <1>6. \A i, j \in 1..Len(inbox) :
          IsRequest(inbox[i]) /\ IsRequest(inbox[j]) /\ inbox[i].id = inbox[j].id => i = j
    BY InboxProper DEF Proper
  <1>7. ASSUME NEW v \in Workers, v # w, Active(v) PROVE Message(v).id # gone
    <2>1. curr[v] \in 1..Len(inbox) /\ curr[v] # n0
      BY <1>2, <1>7, AtMessage DEF Active
    <2>2. IsRequest(inbox[curr[v]]) /\ Message(v).id = inbox[curr[v]].id
      BY <1>7 DEF Active, Message, TypeInv, AtWork
    <2> QED
      BY <1>2, <1>3, <1>6, <2>1, <2>2
  <1>8. ASSUME NEW n \in done, Stuck(n) PROVE inbox[n].id # gone
    <2>1. n \in 1..Len(inbox)
      <3> DEFINE b == Len(begun)
      <3>1. n \in 1..b /\ b \in Nat /\ b <= queued /\ queued \in Nat /\ Len(inbox) = queued
        BY PoolFacts DEF TypeInv, MainInv
      <3> HIDE DEF b
      <3>2. n \in 1..queued
        BY <3>1
      <3> QED
        BY <3>1, <3>2
    <2>2. IsRequest(inbox[n]) /\ n # n0
      BY <1>2, <1>8 DEF Stuck
    <2> QED
      BY <1>2, <1>3, <1>6, <2>1, <2>2
  <1> HIDE DEF n0, gone
  <1>9. \A v \in Workers : Active(v)' => Message(v)'.id \in inFlight'
    BY <1>1, <1>2, <1>4, <1>7 DEF FlightInv
  <1>10. ~Stuck(n0)
    BY <1>3 DEF Stuck
  <1>11. ASSUME NEW n \in done', Stuck(n)' PROVE inbox'[n].id \in inFlight'
    <2>1. n \in done /\ Stuck(n)
      BY <1>2, <1>5, <1>10, <1>11
    <2> QED
      BY <1>1, <1>2, <1>8, <2>1 DEF FlightInv
  <1>12. ASSUME NEW id \in inFlight'
        PROVE  \/ \E v \in Workers : Active(v)' /\ Message(v)'.id = id
               \/ \E n \in done' : Stuck(n)' /\ inbox'[n].id = id
    <2>1. id \in inFlight /\ id # gone
      BY <1>1
    <2>2. ASSUME NEW v \in Workers, Active(v), Message(v).id = id
          PROVE  Active(v)' /\ Message(v)'.id = id
      <3>1. v # w
        BY <2>1, <2>2 DEF gone
      <3> QED
        BY <1>2, <1>4, <2>2, <3>1
    <2>3. CASE \E n \in done : Stuck(n) /\ inbox[n].id = id
      BY <1>2, <1>5, <2>3
    <2> QED
      BY <2>1, <2>2, <2>3 DEF FlightInv
  <1>13. cancelIds' \subseteq inFlight'
    BY <1>1 DEF FlightInv
  <1> QED
    BY <1>9, <1>11, <1>12, <1>13 DEF FlightInv

(* Nothing is in flight yet. *)
LEMMA FlightInit == Init => FlightInv
  BY DEF Init, FlightInv, Active

(* Every step keeps the ids in flight. *)
LEMMA FlightStep ==
  ASSUME TypeInv, ClientInv, FlightInv, [Next]_vars
  PROVE  FlightInv'
  <1>0. cancelIds \subseteq inFlight
    BY DEF FlightInv
  <1>1. CASE Still
    <2>1. UNCHANGED <<inFlight, cancelIds, done, at, curr>> /\ Kept
      BY <1>1 DEF Still, stateVars
    <2>2. \A w \in Workers : Active(w) => curr[w] \in 1..Len(inbox)
      BY AtMessage DEF Active
    <2>3. \A w \in Workers : Active(w) => Message(w)' = Message(w)
      BY <2>1, <2>2 DEF Message, Kept
    <2>4. \A w \in Workers : Active(w)' <=> Active(w)
      BY <2>1 DEF Active
    <2> QED
      BY <1>0, <2>1, <2>3, <2>4, FlightSame
  <1>2. ASSUME NEW w \in Workers, BeginJob(w) PROVE FlightInv'
    <2>1. at \in [Workers -> WorkerPCs] /\ curr \in [Workers -> Nat]
      BY PoolFacts DEF TypeInv, TypeOK
    <2>2. /\ UNCHANGED <<inFlight, cancelIds, done, inbox>> /\ at[w] = "idle"
          /\ at' = [at EXCEPT ![w] = "handle"] /\ curr' = [curr EXCEPT ![w] = Len(begun) + 1]
      BY <1>2, BeginFacts DEF stateVars
    <2>3. ~Active(w) /\ ~Active(w)'
      BY <2>1, <2>2 DEF Active
    <2>4. \A v \in Workers : v # w => (Active(v)' <=> Active(v)) /\ Message(v)' = Message(v)
      BY <2>1, <2>2 DEF Active, Message
    <2> QED
      BY <1>0, <1>2, <2>2, <2>3, <2>4, FlightSame DEF Next
  <1>3. ASSUME NEW w \in Workers, Handle(w) PROVE FlightInv'
    <2>1. CASE Leaves(w) /\ at[w] = "handle" /\ inFlight' = inFlight /\ cancelIds' \subseteq inFlight /\ ~Stuck(curr[w])
      <3>1. /\ done' = done \cup {curr[w]} /\ at'[w] = "idle" /\ curr[w] \in 1..Len(begun)
            /\ \A v \in Workers : v # w => at'[v] = at[v] /\ Message(v)' = Message(v)
        BY <2>1, LeavesFacts
      <3>2. ~Active(w) /\ ~Active(w)'
        BY <2>1, <3>1 DEF Active
      <3>3. \A v \in Workers : v # w => (Active(v)' <=> Active(v)) /\ Message(v)' = Message(v)
        BY <3>1 DEF Active
      <3>4. \A n \in done' \ done : n \in 1..Len(begun) /\ ~Stuck(n)
        BY <2>1, <3>1
      <3> QED
        BY <1>3, <2>1, <3>1, <3>2, <3>3, <3>4, FlightSame DEF Next
    <2>2. ASSUME NEW p \in WorkerPCs \ {"idle", "handle"}, Moves(w, p), Active(w),
                 inFlight' = inFlight, cancelIds' = cancelIds
          PROVE  FlightInv'
      <3>1. /\ done' = done /\ at'[w] = p
            /\ \A v \in Workers : v # w => at'[v] = at[v]
            /\ \A v \in Workers : Message(v)' = Message(v)
        BY <2>2, MovesFacts
      <3>2. Active(w)'
        BY <3>1 DEF Active
      <3>3. \A v \in Workers : v # w => (Active(v)' <=> Active(v))
        BY <3>1 DEF Active
      <3> QED
        BY <1>0, <1>3, <2>2, <3>1, <3>2, <3>3, FlightSame DEF Next
    <2>3. CASE Ignore(w)
      <3>1. Leaves(w) /\ at[w] = "handle" /\ inFlight' = inFlight /\ cancelIds' = cancelIds
        BY <2>3 DEF Ignore, Leaves, clientVars, stateVars
      <3>2. ~Stuck(curr[w])
        BY <2>3 DEF Ignore, Stuck, IsRequest, IsNotify, Message
      <3> QED
        BY <1>0, <2>1, <3>1, <3>2
    <2>4. CASE Notify(w)
      <3>1. Leaves(w) /\ at[w] = "handle"
        BY <2>4 DEF Notify, Leaves, clientVars
      <3>2. inFlight' = inFlight /\ cancelIds' \subseteq inFlight
        BY <1>0, <2>4 DEF Notify, OnCancel, Initialized, ExitServer, SetDoc, stateVars
      <3>3. ~Stuck(curr[w])
        BY <2>4 DEF Notify, Stuck, IsRequest, IsNotify, Message
      <3> QED
        BY <2>1, <3>1, <3>2, <3>3
    <2>5. CASE Call(w)
      <3>1. Moves(w, "check") /\ Active(w) /\ inFlight' = inFlight /\ cancelIds' = cancelIds
        BY <2>5 DEF Call, Moves, clientVars, Active
      <3> QED
        BY <2>2, <3>1 DEF WorkerPCs
    <2>6. CASE CheckCancelled(w)
      <3>1. Active(w) /\ inFlight' = inFlight /\ cancelIds' = cancelIds
        BY <2>6 DEF CheckCancelled, Active, stateVars
      <3>2. Moves(w, "writeError") \/ Moves(w, "writeResult")
        BY <2>6 DEF CheckCancelled, Moves, Goto, clientVars, stateVars
      <3> QED
        BY <2>2, <3>1, <3>2 DEF WorkerPCs
    <2>7. CASE Write(w)
      <3>1. Moves(w, "complete") /\ Active(w) /\ inFlight' = inFlight /\ cancelIds' = cancelIds
        BY <2>7 DEF Write, Moves, Active, stateVars
      <3> QED
        BY <2>2, <3>1 DEF WorkerPCs
    <2> QED
      BY <1>3, <2>3, <2>4, <2>5, <2>6, <2>7, FlightRecv, FlightNoRoute, FlightComplete DEF Handle
  <1> QED
    BY <1>1, <1>2, <1>3, OthersStill DEF Next

(* One id at a time, or all of them. *)
LEMMA FlightSuffices ==
  ASSUME FlightInv
  PROVE  InFlightExact
  BY DEF FlightInv, InFlightExact, Active, Stuck

(* The client has sent nothing yet. *)
LEMMA ClientInit == Init => ClientInv
  <1>1. Init => Len(inbox \o unread) = 0
    BY BothParts DEF Init
  <1> QED
    BY <1>1 DEF ClientInv, Proper, Sent

-----------------------------------------------------------------------------
(* Cancellations.  One that was handled was handled for good. *)
LEMMA CancelKept ==
  ASSUME TypeInv, [Next]_vars, NEW id, CancelHandled(id)
  PROVE  \E c \in done' : Cancels(inbox'[c], id)
  <1>1. done \subseteq 1..Len(begun)
    BY PoolFacts DEF TypeInv
  <1>2. PICK c \in done : Cancels(inbox[c], id)
    BY DEF CancelHandled
  <1>3. c \in done' /\ inbox'[c] = inbox[c]
    BY <1>1, BegunKept
  <1> QED
    BY <1>2, <1>3

(* What was written about a job that was begun stays true. *)
LEMMA CancelOutKept ==
  ASSUME TypeInv, AnswersInv, CancelInv, [Next]_vars, NEW i \in 1..Len(out), out[i].cancelled
  PROVE  \E c \in done' : Cancels(inbox'[c], inbox'[out[i].job].id)
  <1>1. out[i].job \in 1..Len(begun)
    BY DEF AnswersInv
  <1>2. inbox'[out[i].job] = inbox[out[i].job]
    BY <1>1, BegunKept
  <1>3. CancelHandled(inbox[out[i].job].id)
    BY DEF CancelInv
  <1> QED
    BY <1>2, <1>3, CancelKept

(* Most steps cancel nothing and write nothing. *)
LEMMA CancelSame ==
  ASSUME TypeInv, AnswersInv, CancelInv, [Next]_vars, out' = out, cancelIds' \subseteq cancelIds,
         \A w \in Workers : at'[w] = "writeError" =>
           /\ at[w] = "writeError" \/ Message(w).id \in cancelIds
           /\ Message(w)' = Message(w)
  PROVE  CancelInv'
  <1>1. \A id \in cancelIds' : \E c \in done' : Cancels(inbox'[c], id)
    BY CancelKept DEF CancelInv
  <1>2. ASSUME NEW w \in Workers, at'[w] = "writeError"
        PROVE  \E c \in done' : Cancels(inbox'[c], Message(w)'.id)
    <2>1. CancelHandled(Message(w).id)
      BY <1>2 DEF CancelInv
    <2> QED
      BY <1>2, <2>1, CancelKept
  <1>3. \A i \in 1..Len(out') : out'[i].cancelled =>
          \E c \in done' : Cancels(inbox'[c], inbox'[out'[i].job].id)
    BY CancelOutKept
  <1> QED
    BY <1>1, <1>2, <1>3 DEF CancelInv, CancelHandled

(* on_cancel marks what the notification of this very job names. *)
LEMMA CancelNotify ==
  ASSUME TypeInv, AnswersInv, CancelInv, NEW w \in Workers, Notify(w)
  PROVE  CancelInv'
  <1>0. [Next]_vars
    BY DEF Next, Handle
  <1>1. Leaves(w) /\ out' = out /\ at[w] = "handle"
    BY DEF Notify, Leaves, clientVars
  <1>2. /\ inbox' = inbox /\ done' = done \cup {curr[w]} /\ at'[w] = "idle"
        /\ \A v \in Workers : v # w => at'[v] = at[v] /\ Message(v)' = Message(v)
    BY <1>1, LeavesFacts
  <1>3. \A v \in Workers : at'[v] = "writeError" => at[v] = "writeError" /\ Message(v)' = Message(v)
    BY <1>2
  <1>4. CASE cancelIds' \subseteq cancelIds
    BY <1>0, <1>1, <1>3, <1>4, CancelSame
  <1>5. CASE /\ IsNotify(Message(w)) /\ Message(w).method = "cancelRequest"
             /\ cancelIds' = cancelIds \cup {Message(w).target}
    <2>1. \A id \in cancelIds : \E c \in done' : Cancels(inbox'[c], id)
      BY <1>0, CancelKept DEF CancelInv
    <2>2. \E c \in done' : Cancels(inbox'[c], Message(w).target)
      <3>1. Cancels(inbox[curr[w]], Message(w).target)
        BY <1>5 DEF Cancels, Message
      <3> QED
        BY <1>2, <3>1
    <2>3. \A id \in cancelIds' : \E c \in done' : Cancels(inbox'[c], id)
      BY <1>5, <2>1, <2>2
    <2>4. ASSUME NEW v \in Workers, at'[v] = "writeError"
          PROVE  \E c \in done' : Cancels(inbox'[c], Message(v)'.id)
      <3>1. CancelHandled(Message(v).id) /\ Message(v)' = Message(v)
        BY <1>3, <2>4 DEF CancelInv
      <3> QED
        BY <1>0, <3>1, CancelKept
    <2>5. \A i \in 1..Len(out') : out'[i].cancelled =>
            \E c \in done' : Cancels(inbox'[c], inbox'[out'[i].job].id)
      BY <1>0, <1>1, CancelOutKept
    <2> QED
      BY <2>3, <2>4, <2>5 DEF CancelInv, CancelHandled
  <1>6. \/ cancelIds' \subseteq cancelIds
        \/ /\ IsNotify(Message(w)) /\ Message(w).method = "cancelRequest"
           /\ cancelIds' = cancelIds \cup {Message(w).target}
    BY DEF Notify, OnCancel, Initialized, ExitServer, SetDoc, stateVars
  <1> QED
    BY <1>4, <1>5, <1>6

(* The response says what the worker was told. *)
LEMMA CancelWrite ==
  ASSUME TypeInv, AnswersInv, CancelInv, NEW w \in Workers, Write(w)
  PROVE  CancelInv'
  <1> DEFINE l == Len(out)
             r == [job |-> curr[w], id |-> WireNumber(Message(w).id),
                   cancelled |-> at[w] = "writeError"]
  <1>0. [Next]_vars
    BY DEF Next, Handle
  <1>1. /\ \A i \in 1..l : out'[i] = out[i]
        /\ \A i \in 1..Len(out') : i \in 1..l \/ i = l + 1
        /\ out'[l + 1] = r
        /\ inbox' = inbox /\ curr' = curr /\ done' = done /\ at'[w] = "complete"
        /\ \A v \in Workers : v # w => at'[v] = at[v]
    BY WriteFacts
  <1>2. cancelIds' = cancelIds
    BY DEF Write, stateVars
  <1>3. out'[l + 1].job = curr[w] /\ (out'[l + 1].cancelled => at[w] = "writeError")
    <2>1. r.job = curr[w]
      OBVIOUS
    <2>2. r.cancelled = (at[w] = "writeError")
      OBVIOUS
    <2>3. r.cancelled => at[w] = "writeError"
      BY Zenon, <2>2
    <2> HIDE DEF r, l
    <2> QED
      BY <1>1, <2>1, <2>3
  <1> HIDE DEF l, r
  <1>4. \A id \in cancelIds' : CancelHandled(id)'
    BY <1>1, <1>2 DEF CancelInv, CancelHandled
  <1>5. \A v \in Workers : at'[v] = "writeError" => CancelHandled(Message(v).id)'
    BY <1>1 DEF CancelInv, CancelHandled, Message
  <1>6. ASSUME NEW i \in 1..Len(out'), out'[i].cancelled
        PROVE  \E c \in done' : Cancels(inbox'[c], inbox'[out'[i].job].id)
    <2>1. CASE i \in 1..l
      BY <1>0, <1>1, <1>6, <2>1, CancelOutKept DEF l
    <2>2. CASE i = l + 1
      <3>1. CancelHandled(Message(w).id) /\ out'[i].job = curr[w]
        BY <1>3, <1>6, <2>2 DEF CancelInv
      <3> QED
        BY <1>1, <3>1 DEF CancelHandled, Message
    <2> QED
      BY <1>1, <2>1, <2>2
  <1> QED
    BY <1>4, <1>5, <1>6 DEF CancelInv, CancelHandled

(* Every step keeps the cancellations. *)
LEMMA CancelStep ==
  ASSUME TypeInv, AnswersInv, CancelInv, [Next]_vars
  PROVE  CancelInv'
  <1>1. CASE Still
    <2>1. out' = out /\ cancelIds' = cancelIds /\ at' = at /\ curr' = curr /\ Kept
      BY <1>1 DEF Still, stateVars
    <2>2. \A w \in Workers : at'[w] = "writeError" => at[w] = "writeError" /\ curr[w] \in 1..Len(inbox)
      BY <2>1, AtMessage
    <2>3. \A w \in Workers : at'[w] = "writeError" => Message(w)' = Message(w)
      BY <2>1, <2>2 DEF Message, Kept
    <2> QED
      BY <2>1, <2>2, <2>3, CancelSame
  <1>2. ASSUME NEW w \in Workers, BeginJob(w) PROVE CancelInv'
    <2>1. at \in [Workers -> WorkerPCs] /\ curr \in [Workers -> Nat]
      BY PoolFacts DEF TypeInv, TypeOK
    <2>2. /\ UNCHANGED <<cancelIds, out, inbox>>
          /\ at' = [at EXCEPT ![w] = "handle"] /\ curr' = [curr EXCEPT ![w] = Len(begun) + 1]
      BY <1>2, BeginFacts DEF stateVars
    <2>3. \A v \in Workers : at'[v] = "writeError" => at[v] = "writeError" /\ Message(v)' = Message(v)
      BY <2>1, <2>2 DEF Message
    <2> QED
      BY <1>2, <2>2, <2>3, CancelSame DEF Next
  <1>3. ASSUME NEW w \in Workers, Handle(w) PROVE CancelInv'
    <2>1. CASE Leaves(w) /\ at[w] # "idle" /\ out' = out /\ cancelIds' \subseteq cancelIds
      <3>1. /\ at'[w] = "idle"
            /\ \A v \in Workers : v # w => at'[v] = at[v] /\ Message(v)' = Message(v)
        BY <2>1, LeavesFacts
      <3>2. \A v \in Workers : at'[v] = "writeError" => at[v] = "writeError" /\ Message(v)' = Message(v)
        BY <3>1
      <3> QED
        BY <1>3, <2>1, <3>2, CancelSame DEF Next
    <2>2. ASSUME NEW p \in WorkerPCs, Moves(w, p), p = "writeError" => Message(w).id \in cancelIds,
                 out' = out, cancelIds' = cancelIds
          PROVE  CancelInv'
      <3>1. /\ at'[w] = p
            /\ \A v \in Workers : v # w => at'[v] = at[v]
            /\ \A v \in Workers : Message(v)' = Message(v)
        BY <2>2, MovesFacts
      <3>2. \A v \in Workers : at'[v] = "writeError" => at[v] = "writeError" \/ Message(v).id \in cancelIds
        BY <2>2, <3>1
      <3> QED
        BY <1>3, <2>2, <3>1, <3>2, CancelSame DEF Next
    <2>3. CASE Ignore(w) \/ NoRoute(w) \/ OnComplete(w)
      <3>1. Leaves(w) /\ at[w] # "idle" /\ out' = out /\ cancelIds' \subseteq cancelIds
        BY <2>3 DEF Ignore, NoRoute, OnComplete, Leaves, clientVars, stateVars
      <3> QED
        BY <2>1, <3>1
    <2>4. CASE OnRecv(w)
      <3>1. Moves(w, "call") /\ out' = out /\ cancelIds' = cancelIds
        BY <2>4 DEF OnRecv, Moves, clientVars
      <3> QED
        BY <2>2, <3>1 DEF WorkerPCs
    <2>5. CASE Call(w)
      <3>1. Moves(w, "check") /\ out' = out /\ cancelIds' = cancelIds
        BY <2>5 DEF Call, Moves, clientVars
      <3> QED
        BY <2>2, <3>1 DEF WorkerPCs
    <2>6. CASE CheckCancelled(w)
      <3>1. out' = out /\ cancelIds' = cancelIds
        BY <2>6 DEF CheckCancelled, clientVars, stateVars
      <3>2. \/ Moves(w, "writeError") /\ Message(w).id \in cancelIds
            \/ Moves(w, "writeResult")
        BY <2>6 DEF CheckCancelled, Moves, Goto, clientVars, stateVars
      <3> QED
        BY <2>2, <3>1, <3>2 DEF WorkerPCs
    <2> QED
      BY <1>3, <2>3, <2>4, <2>5, <2>6, CancelNotify, CancelWrite DEF Handle
  <1> QED
    BY <1>1, <1>2, <1>3, OthersStill DEF Next

(* Nothing is cancelled yet. *)
LEMMA CancelInit == Init => CancelInv
  BY DEF Init, CancelInv

(* A cancellation comes behind its request, and ids are not used twice: so the *)
(* cancellation that was handled is one the client sent for this request.      *)
LEMMA CancelSuffices ==
  ASSUME TypeInv, ClientInv, AnswersInv, CancelInv
  PROVE  CancelledByClient
  <1> SUFFICES ASSUME NEW i \in 1..Len(out), out[i].cancelled
               PROVE  \E c \in (out[i].job + 1)..Len(inbox) :
                        c \in done /\ Cancels(inbox[c], inbox[out[i].job].id)
    BY DEF CancelledByClient
  <1> DEFINE n == out[i].job
             b == Len(begun)
             l == Len(inbox)
  <1>1. n \in 1..b /\ IsRequest(inbox[n])
    BY DEF AnswersInv
  <1>2. b \in Nat /\ b <= l /\ l \in Nat /\ done \subseteq 1..b
    BY PoolFacts DEF TypeInv, MainInv
  <1>3. PICK c \in done : Cancels(inbox[c], inbox[n].id)
    BY DEF CancelInv, CancelHandled
  <1>4. /\ \A k, j \in 1..l :
             IsRequest(inbox[k]) /\ IsRequest(inbox[j]) /\ inbox[k].id = inbox[j].id => k = j
        /\ \A d \in 1..l : IsNotify(inbox[d]) /\ inbox[d].method = "cancelRequest" =>
             \E k \in 1..(d - 1) : IsRequest(inbox[k]) /\ inbox[k].id = inbox[d].target
    BY InboxProper DEF Proper
  <1> HIDE DEF n, b, l
  <1>5. c \in 1..l /\ n \in 1..l
    BY <1>1, <1>2
  <1>6. PICK k \in 1..(c - 1) : IsRequest(inbox[k]) /\ inbox[k].id = inbox[n].id
    BY <1>3, <1>4, <1>5 DEF Cancels
  <1>7. k \in 1..l
    BY <1>2, <1>5
  <1>8. k = n
    BY <1>1, <1>4, <1>5, <1>6, <1>7
  <1>9. c \in (n + 1)..l
    BY <1>2, <1>5, <1>6, <1>8
  <1> QED
    BY <1>3, <1>9 DEF n, l

-----------------------------------------------------------------------------
(* The end.  Only the handling of an exit notification stops the loop. *)
LEMMA ExitStep ==
  ASSUME TypeInv, ExitInv, [Next]_vars
  PROVE  ExitInv'
  <1>1. CASE running' = running
    <2>1. done \subseteq 1..Len(begun)
      BY PoolFacts DEF TypeInv
    <2>2. \A e \in done : e \in done' /\ inbox'[e] = inbox[e]
      BY <2>1, BegunKept
    <2> QED
      BY <1>1, <2>2 DEF ExitInv
  <1>2. ASSUME NEW w \in Workers, Notify(w), running' # running PROVE ExitInv'
    <2>1. Leaves(w) /\ at[w] = "handle" /\ IsNotify(Message(w)) /\ Message(w).method = "exit"
      BY <1>2 DEF Notify, Leaves, clientVars, OnCancel, Initialized, SetDoc, stateVars
    <2>2. inbox' = inbox /\ done' = done \cup {curr[w]}
      BY <2>1, LeavesFacts
    <2>3. curr[w] \in done' /\ IsNotify(inbox'[curr[w]]) /\ inbox'[curr[w]].method = "exit"
      BY <2>1, <2>2 DEF Message
    <2> QED
      BY <2>3 DEF ExitInv
  <1>3. CASE Still
    BY <1>1, <1>3 DEF Still, stateVars
  <1>4. ASSUME NEW w \in Workers, BeginJob(w) PROVE running' = running
    BY <1>4 DEF BeginJob, stateVars
  <1>5. ASSUME NEW w \in Workers, Handle(w), ~Notify(w) PROVE running' = running
    BY <1>5 DEF Handle, Ignore, OnRecv, NoRoute, Call, CheckCancelled, Write, OnComplete, stateVars
  <1> QED
    BY <1>1, <1>2, <1>3, <1>4, <1>5, OthersStill DEF Next

(* The server runs. *)
LEMMA ExitInit == Init => ExitInv
  BY DEF Init, ExitInv

(* When the server has stopped nobody has a job, so all that were begun are *)
(* done, those before the exit among them, and answered.                    *)
LEMMA DrainSuffices ==
  ASSUME TypeInv, AnswersInv, ExitInv
  PROVE  DrainedAtStop
  <1> SUFFICES ASSUME main = "stopped" PROVE
        \E e \in done :
          /\ IsNotify(inbox[e]) /\ inbox[e].method = "exit"
          /\ \A n \in 1..e : n \in done
          /\ \A n \in 1..e : IsRequest(inbox[n]) /\ IsRouted(inbox[n]) => Answers(n) # {}
    BY DEF DrainedAtStop
  <1> DEFINE b == Len(begun)
  <1>1. ~running /\ \A w \in Workers : curr[w] = 0
    BY DEF TypeInv, MainInv
  <1>2. PICK e \in done : IsNotify(inbox[e]) /\ inbox[e].method = "exit"
    BY <1>1 DEF ExitInv
  <1>3. /\ b \in Nat /\ done \subseteq 1..b
        /\ \A n \in 1..b : n \in done \/ \E w \in Workers : curr[w] = n
    BY PoolFacts DEF TypeInv
  <1> HIDE DEF b
  <1>4. ASSUME NEW n \in 1..e PROVE n \in done
    <2>1. n \in 1..b /\ n # 0
      BY <1>3
    <2> QED
      BY <1>1, <1>3, <2>1
  <1>5. ASSUME NEW n \in 1..e, IsRequest(inbox[n]), IsRouted(inbox[n]) PROVE Answers(n) # {}
    <2>1. Answered(n)
      BY <1>4, <1>5 DEF AnswersInv
    <2> QED
      BY <2>1 DEF Answered, Answers
  <1> QED
    BY <1>2, <1>4, <1>5

-----------------------------------------------------------------------------
(* Documents.  The last of the notifications about one: LastText's CHOOSE. *)
LastOf(S) == CHOOSE n \in S : \A k \in S : k <= n

(* It is what it should be ... *)
LEMMA LastOfIs ==
  ASSUME NEW S \in SUBSET Int, NEW n \in S, \A k \in S : k <= n
  PROVE  LastOf(S) = n
  <1>1. ASSUME NEW m \in S, \A k \in S : k <= m PROVE m = n
    <2>1. m <= n /\ n <= m /\ m \in Int /\ n \in Int
      BY <1>1
    <2> QED
      BY <2>1
  <1> QED
    BY <1>1 DEF LastOf

(* ... and there is one. *)
LEMMA LastOfIn ==
  ASSUME NEW b \in Nat, NEW S \in SUBSET (1..b), S # {}
  PROVE  LastOf(S) \in S
  <1>1. IsFiniteSet(S) /\ S \in SUBSET Int
    <2>1. b \in Int /\ 1 \in Int /\ S \subseteq 1..b
      OBVIOUS
    <2>2. IsFiniteSet(1..b)
      BY <2>1, FS_Interval
    <2>3. IsFiniteSet(S)
      BY <2>1, <2>2, FS_Subset
    <2> QED
      BY <2>3
  <1>2. \E n \in S : \A k \in S : k <= n
    BY <1>1, Maximum
  <1> QED
    BY <1>2 DEF LastOf

Touching(u) == {n \in 1..Len(begun) : IsDoc(inbox[n]) /\ inbox[n].uri = u}

(* A step after which the same notifications touch a document leaves its last *)
(* text what it was.                                                          *)
LEMMA LastTextSame ==
  ASSUME TypeInv, [Next]_vars, NEW u, Touching(u)' = Touching(u)
  PROVE  LastText(u)' = LastText(u)
  <1> DEFINE S == Touching(u)
             T == {n \in 1..Len(begun') : IsDoc(inbox'[n]) /\ inbox'[n].uri = u}
  <1>1. LastText(u) = IF S = {} \/ inbox[LastOf(S)].method = "didClose" THEN NoText
                      ELSE inbox[LastOf(S)].text
    BY DEF LastText, LastOf, Touching
  <1>2. LastText(u)' = IF T = {} \/ inbox'[LastOf(T)].method = "didClose" THEN NoText
                       ELSE inbox'[LastOf(T)].text
    BY DEF LastText, LastOf
  <1>3. T = S
    BY DEF Touching
  <1>4. S \in SUBSET (1..Len(begun)) /\ Len(begun) \in Nat
    BY PoolFacts DEF TypeInv, Touching
  <1> HIDE DEF S, T
  <1>5. CASE S = {}
    BY <1>1, <1>2, <1>3, <1>5
  <1>6. CASE S # {}
    <2>1. LastOf(S) \in 1..Len(begun)
      BY <1>4, <1>6, LastOfIn
    <2>2. inbox'[LastOf(S)] = inbox[LastOf(S)]
      BY <2>1, BegunKept
    <2> QED
      BY <1>1, <1>2, <1>3, <2>2
  <1> QED
    BY <1>5, <1>6

(* Which is so unless a job is begun. *)
LEMMA TouchingSame ==
  ASSUME TypeInv, [Next]_vars, begun' = begun, NEW u
  PROVE  Touching(u)' = Touching(u)
  <1>1. \A n \in 1..Len(begun) : inbox'[n] = inbox[n]
    BY BegunKept
  <1> QED
    BY <1>1 DEF Touching

(* What becomes of a document is up to the steps below: all others leave the *)
(* store, and who is at a document, alone.                                   *)
LEMMA DocsSame ==
  ASSUME TypeInv, DocsInv, [Next]_vars, docs' = docs, raced' = raced, begun' = begun,
         \A w \in Workers : curr[w] # 0 /\ IsDoc(Message(w)) =>
           curr'[w] = curr[w] /\ Message(w)' = Message(w),
         \A w \in Workers : curr'[w] # 0 => curr'[w] = curr[w] /\ Message(w)' = Message(w)
  PROVE  DocsInv'
  <1> SUFFICES ASSUME ~raced'
               PROVE  /\ \A w \in Workers : curr'[w] # 0 /\ IsDoc(Message(w)') =>
                           \A k \in (curr'[w] + 1)..Len(begun') : ~IsDoc(inbox'[k])
                      /\ \A u \in Uris : (\A w \in Workers : ~AtDoc(w, u)') => docs'[u] = LastText(u)'
    BY DEF DocsInv
  <1>1. /\ \A w \in Workers : curr[w] # 0 /\ IsDoc(Message(w)) =>
             \A k \in (curr[w] + 1)..Len(begun) : ~IsDoc(inbox[k])
        /\ \A u \in Uris : (\A w \in Workers : ~AtDoc(w, u)) => docs[u] = LastText(u)
    BY DEF DocsInv
  <1>2. ASSUME NEW w \in Workers, curr'[w] # 0, IsDoc(Message(w)'),
               NEW k \in (curr'[w] + 1)..Len(begun')
        PROVE  ~IsDoc(inbox'[k])
    <2>1. curr'[w] = curr[w] /\ Message(w)' = Message(w)
      BY <1>2
    <2>2. ~IsDoc(inbox[k])
      BY <1>1, <1>2, <2>1
    <2>3. k \in 1..Len(begun)
      <3> DEFINE b == Len(begun)
                 n == curr[w]
      <3>1. b \in Nat /\ n \in Nat /\ k \in (n + 1)..b
        BY <1>2, <2>1, PoolFacts DEF TypeInv
      <3> HIDE DEF b, n
      <3>2. k \in 1..b
        BY <3>1
      <3> QED
        BY <3>2 DEF b
    <2> QED
      BY <2>2, <2>3, BegunKept
  <1>3. ASSUME NEW u \in Uris, \A w \in Workers : ~AtDoc(w, u)'
        PROVE  docs'[u] = LastText(u)'
    <2>1. \A w \in Workers : ~AtDoc(w, u)
      BY <1>3 DEF AtDoc
    <2>2. LastText(u)' = LastText(u)
      BY TouchingSame, LastTextSame
    <2> QED
      BY <1>1, <2>1, <2>2
  <1> QED
    BY <1>2, <1>3

(* A notification that is begun without a race leaves its document open. *)
LEMMA DocsBegin ==
  ASSUME TypeInv, DocsInv, NEW w \in Workers, BeginJob(w)
  PROVE  DocsInv'
  <1> DEFINE b == Len(begun)
  <1>1. /\ b \in Nat /\ Len(begun') = b + 1 /\ UNCHANGED <<docs, inbox>>
        /\ curr[w] = 0 /\ curr' = [curr EXCEPT ![w] = b + 1]
        /\ raced' = (raced \/ /\ IsDoc(inbox[b + 1])
                              /\ \E v \in Workers : curr[v] # 0 /\ IsDoc(Message(v)))
    BY BeginFacts, PoolFacts DEF TypeInv, stateVars
  <1>2. curr \in [Workers -> Nat] /\ [Next]_vars
    BY PoolFacts DEF TypeInv, Next
  <1> SUFFICES ASSUME ~raced'
               PROVE  /\ \A v \in Workers : curr'[v] # 0 /\ IsDoc(Message(v)') =>
                           \A k \in (curr'[v] + 1)..Len(begun') : ~IsDoc(inbox'[k])
                      /\ \A u \in Uris : (\A v \in Workers : ~AtDoc(v, u)') => docs'[u] = LastText(u)'
    BY DEF DocsInv
  <1>3. ~raced /\ ~(IsDoc(inbox[b + 1]) /\ \E v \in Workers : curr[v] # 0 /\ IsDoc(Message(v)))
    BY <1>1
  <1>4. /\ \A v \in Workers : curr[v] # 0 /\ IsDoc(Message(v)) =>
             \A k \in (curr[v] + 1)..b : ~IsDoc(inbox[k])
        /\ \A u \in Uris : (\A v \in Workers : ~AtDoc(v, u)) => docs[u] = LastText(u)
    BY <1>3 DEF DocsInv
  <1>5. /\ curr'[w] = b + 1 /\ Message(w)' = inbox[b + 1]
        /\ \A v \in Workers : v # w => curr'[v] = curr[v] /\ Message(v)' = Message(v)
    BY <1>1, <1>2 DEF Message
  <1>6. ASSUME NEW v \in Workers, curr'[v] # 0, IsDoc(Message(v)'),
               NEW k \in (curr'[v] + 1)..Len(begun')
        PROVE  ~IsDoc(inbox'[k])
    <2> HIDE DEF b
    <2>1. v # w
      BY <1>1, <1>5, <1>6
    <2>2. curr[v] # 0 /\ IsDoc(Message(v)) /\ curr'[v] = curr[v]
      BY <1>5, <1>6, <2>1
    <2>3. k \in (curr[v] + 1)..b \/ k = b + 1
      <3> DEFINE n == curr[v]
      <3>1. n \in Nat /\ k \in (n + 1)..(b + 1)
        BY <1>1, <1>2, <1>6, <2>2
      <3> HIDE DEF n
      <3>2. k \in (n + 1)..b \/ k = b + 1
        BY <1>1, <3>1
      <3> QED
        BY <3>2 DEF n
    <2> QED
      BY <1>1, <1>3, <1>4, <2>2, <2>3
  <1>7. ASSUME NEW u \in Uris, \A v \in Workers : ~AtDoc(v, u)'
        PROVE  docs'[u] = LastText(u)'
    <2>1. b + 1 # 0
      <3> HIDE DEF b
      <3> QED
        BY <1>1
    <2>2. ~(IsDoc(inbox[b + 1]) /\ inbox[b + 1].uri = u)
      BY <1>5, <1>7, <2>1 DEF AtDoc
    <2>3. \A v \in Workers : ~AtDoc(v, u)
      BY <1>1, <1>5, <1>7 DEF AtDoc
    <2>4. Touching(u)' = Touching(u)
      <3>1. /\ Touching(u) = {n \in 1..b : IsDoc(inbox[n]) /\ inbox[n].uri = u}
            /\ Touching(u)' = {n \in 1..(b + 1) : IsDoc(inbox[n]) /\ inbox[n].uri = u}
        BY <1>1 DEF Touching
      <3> HIDE DEF b
      <3>2. \A n : n \in 1..(b + 1) <=> n \in 1..b \/ n = b + 1
        BY <1>1
      <3> QED
        BY <2>2, <3>1, <3>2
    <2>5. LastText(u)' = LastText(u)
      BY <1>2, <2>4, LastTextSame
    <2> QED
      BY <1>1, <1>4, <2>3, <2>5
  <1> QED
    BY <1>6, <1>7

(* One that is handled without a race is the last about its document. *)
LEMMA DocsNotify ==
  ASSUME TypeInv, DocsInv, NEW w \in Workers, Notify(w), IsDoc(Message(w))
  PROVE  DocsInv'
  <1> DEFINE b  == Len(begun)
             m  == Message(w)
             n0 == curr[w]
             u0 == m.uri
             t0 == IF m.method = "didClose" THEN NoText ELSE m.text
  <1>1. Leaves(w) /\ at[w] = "handle" /\ raced' = raced
    BY DEF Notify, Leaves, clientVars
  <1>2. docs' = [docs EXCEPT ![u0] = t0]
    BY DEF Notify, IsDoc, SetDoc
  <1>3. /\ UNCHANGED <<inbox, begun>> /\ curr'[w] = 0 /\ n0 \in 1..b
        /\ \A v \in Workers : v # w => curr'[v] = curr[v] /\ Message(v)' = Message(v)
    BY <1>1, LeavesFacts
  <1>4. [Next]_vars /\ b \in Nat
    BY PoolFacts DEF TypeInv, Next, Handle
  <1>5. m \in Messages /\ u0 \in Uris
    BY <1>1, AtMessage, MessageTypes
  <1>6. \A u \in Uris : docs'[u] = IF u = u0 THEN t0 ELSE docs[u]
    BY <1>2 DEF TypeInv, TypeOK
  <1> SUFFICES ASSUME ~raced'
               PROVE  /\ \A v \in Workers : curr'[v] # 0 /\ IsDoc(Message(v)') =>
                           \A k \in (curr'[v] + 1)..Len(begun') : ~IsDoc(inbox'[k])
                      /\ \A u \in Uris : (\A v \in Workers : ~AtDoc(v, u)') => docs'[u] = LastText(u)'
    BY DEF DocsInv
  <1>7. /\ \A v \in Workers : curr[v] # 0 /\ IsDoc(Message(v)) =>
             \A k \in (curr[v] + 1)..b : ~IsDoc(inbox[k])
        /\ \A u \in Uris : (\A v \in Workers : ~AtDoc(v, u)) => docs[u] = LastText(u)
    BY <1>1 DEF DocsInv
  <1>8. ASSUME NEW v \in Workers, curr'[v] # 0, IsDoc(Message(v)'),
               NEW k \in (curr'[v] + 1)..Len(begun')
        PROVE  ~IsDoc(inbox'[k])
    <2>1. v # w
      BY <1>3, <1>8
    <2> QED
      BY <1>3, <1>7, <1>8, <2>1
  <1>9. \A u : LastText(u)' = LastText(u)
    BY <1>3, <1>4, TouchingSame, LastTextSame
  <1>10. LastText(u0) = t0
    <2> DEFINE S == Touching(u0)
    <2>1. n0 \in S /\ S \subseteq 1..b
      BY <1>3 DEF Touching, Message
    <2>2. ASSUME NEW k \in S PROVE k <= n0
      <3>1. k \in 1..b /\ IsDoc(inbox[k])
        BY DEF Touching
      <3>2. n0 # 0 /\ n0 \in Nat
        BY <1>3
      <3>3. k \notin (n0 + 1)..b
        BY <1>7, <3>1, <3>2
      <3> HIDE DEF b, n0
      <3> QED
        BY <1>4, <3>1, <3>2, <3>3
    <2>3. S \in SUBSET Int
      BY <2>1
    <2>4. LastText(u0) = IF S = {} \/ inbox[LastOf(S)].method = "didClose" THEN NoText
                         ELSE inbox[LastOf(S)].text
      BY DEF LastText, LastOf, Touching
    <2>5. LastOf(S) = n0
      <3> HIDE DEF S, n0
      <3> QED
        BY <2>1, <2>2, <2>3, LastOfIs
    <2>6. S # {}
      BY <2>1
    <2> HIDE DEF S
    <2> QED
      BY <2>4, <2>5, <2>6 DEF Message
  <1>11. ASSUME NEW u \in Uris, \A v \in Workers : ~AtDoc(v, u)', u # u0
         PROVE  docs'[u] = LastText(u)'
    <2>1. ASSUME NEW v \in Workers PROVE ~AtDoc(v, u)
      <3>1. CASE v = w
        BY <1>11, <3>1 DEF AtDoc
      <3>2. CASE v # w
        BY <1>3, <1>11, <3>2 DEF AtDoc
      <3> QED
        BY <3>1, <3>2
    <2> QED
      BY <1>6, <1>7, <1>9, <1>11, <2>1
  <1>12. docs'[u0] = LastText(u0)
    BY <1>5, <1>6, <1>10
  <1>13. ASSUME NEW u \in Uris, u = u0 PROVE docs'[u] = LastText(u)'
    <2>1. LastText(u) = LastText(u0)
      BY <1>13
    <2> QED
      BY <1>9, <1>12, <1>13, <2>1
  <1> QED
    BY <1>8, <1>11, <1>13

(* Every step keeps the documents. *)
LEMMA DocsStep ==
  ASSUME TypeInv, DocsInv, [Next]_vars
  PROVE  DocsInv'
  <1>0. curr \in [Workers -> Nat]
    BY PoolFacts DEF TypeInv
  <1>1. CASE Still
    <2>1. UNCHANGED <<docs, raced, begun, curr, at>> /\ Kept
      BY <1>1 DEF Still, stateVars
    <2>2. \A w \in Workers : curr[w] # 0 => curr[w] \in 1..Len(inbox)
      BY AtMessage DEF TypeInv, AtWork
    <2>3. \A w \in Workers : curr[w] # 0 => Message(w)' = Message(w)
      BY <2>1, <2>2 DEF Message, Kept
    <2> QED
      BY <2>1, <2>3, DocsSame
  <1>2. ASSUME NEW w \in Workers, Handle(w), docs' = docs, ~(Leaves(w) /\ IsDoc(Message(w)))
        PROVE  DocsInv'
    <2>1. at[w] # "idle" /\ raced' = raced
      BY <1>2, HandleIs
    <2>2. CASE Leaves(w)
      <3>1. /\ begun' = begun /\ curr'[w] = 0
            /\ \A v \in Workers : v # w => curr'[v] = curr[v] /\ Message(v)' = Message(v)
        BY <2>1, <2>2, LeavesFacts
      <3>2. \A v \in Workers : curr[v] # 0 /\ IsDoc(Message(v)) =>
              curr'[v] = curr[v] /\ Message(v)' = Message(v)
        BY <1>2, <2>2, <3>1
      <3>3. \A v \in Workers : curr'[v] # 0 => curr'[v] = curr[v] /\ Message(v)' = Message(v)
        BY <3>1
      <3> QED
        BY <1>2, <2>1, <3>1, <3>2, <3>3, DocsSame DEF Next
    <2>3. ASSUME NEW p \in WorkerPCs, Moves(w, p) PROVE DocsInv'
      <3>1. begun' = begun /\ curr' = curr /\ \A v \in Workers : Message(v)' = Message(v)
        BY <2>3, MovesFacts
      <3> QED
        BY <1>2, <2>1, <3>1, DocsSame DEF Next
    <2> QED
      BY <1>2, <2>2, <2>3, HandleIs DEF WorkerPCs
  <1>3. ASSUME NEW w \in Workers, Handle(w) PROVE DocsInv'
    <2>1. CASE Notify(w) /\ IsDoc(Message(w))
      BY <2>1, DocsNotify
    <2>2. CASE Notify(w) /\ ~IsDoc(Message(w))
      <3>1. docs' = docs
        BY <2>2 DEF Notify, IsDoc, OnCancel, Initialized, ExitServer, stateVars
      <3> QED
        BY <1>2, <1>3, <2>2, <3>1
    <2>3. CASE Ignore(w)
      <3>1. docs' = docs /\ ~IsDoc(Message(w))
        BY <2>3 DEF Ignore, IsDoc, IsNotify, IsRouted, NotifyMethods, stateVars
      <3> QED
        BY <1>2, <1>3, <3>1
    <2>4. CASE NoRoute(w) \/ OnComplete(w)
      <3>1. docs' = docs /\ at[w] \in {"call", "complete"}
        BY <2>4 DEF NoRoute, OnComplete, stateVars
      <3>2. IsRequest(Message(w))
        BY <3>1 DEF TypeInv, AtWork
      <3>3. ~IsDoc(Message(w))
        BY <3>2 DEF IsRequest, IsDoc, IsNotify
      <3> QED
        BY <1>2, <1>3, <3>1, <3>3
    <2>5. CASE OnRecv(w) \/ Call(w) \/ CheckCancelled(w) \/ Write(w)
      <3>1. docs' = docs
        BY <2>5 DEF OnRecv, Call, CheckCancelled, Write, stateVars
      <3>2. at'[w] # "idle"
        <4>1. \E p \in WorkerPCs : Moves(w, p) /\ p # "idle"
          BY <2>5 DEF OnRecv, Call, CheckCancelled, Write, Moves, Goto, clientVars, stateVars, WorkerPCs
        <4> QED
          BY <4>1, MovesFacts
      <3>3. ~Leaves(w)
        <4>1. at \in [Workers -> WorkerPCs]
          BY DEF TypeInv, TypeOK
        <4> QED
          BY <3>2, <4>1 DEF Leaves, Return, Goto
      <3> QED
        BY <1>2, <1>3, <3>1, <3>3
    <2> QED
      BY <1>3, <2>1, <2>2, <2>3, <2>4, <2>5 DEF Handle
  <1> QED
    BY <1>1, <1>3, OthersStill, DocsBegin DEF Next

(* No document is known yet. *)
LEMMA DocsInit == Init => DocsInv
  <1> SUFFICES ASSUME Init PROVE DocsInv
    OBVIOUS
  <1>1. Len(begun) = 0 /\ (\A w \in Workers : curr[w] = 0) /\ \A u \in Uris : docs[u] = NoText
    BY DEF Init, Pool!NoJob
  <1>2. ASSUME NEW u \in Uris PROVE LastText(u) = NoText
    <2>1. {n \in 1..Len(begun) : IsDoc(inbox[n]) /\ inbox[n].uri = u} = {}
      BY <1>1
    <2> QED
      BY <2>1 DEF LastText
  <1> QED
    BY <1>1, <1>2 DEF DocsInv

(* Nobody at any document is nobody at each. *)
LEMMA DocsSuffice ==
  ASSUME DocsInv
  PROVE  DocsFollowTheClient
  BY DEF DocsInv, DocsFollowTheClient, AtDoc, Pool!NoJob

-----------------------------------------------------------------------------
(* The theorems.  All that was shown of a step, together; *)
LEMMA ServerStep == IInv /\ [Next]_vars => IInv'
  BY TypeStep, ClientStep, AnswersStep, FlightStep, CancelStep, ExitStep, DocsStep DEF IInv

(* the server keeps its invariant in every behaviour: each property is a part *)
(* of it, or follows from parts of it.                                        *)
THEOREM ServerInv == Spec => []IInv
  <1>1. Init => IInv
    BY TypeInit, ClientInit, AnswersInit, FlightInit, CancelInit, ExitInit, DocsInit DEF IInv
  <1> QED
    BY <1>1, ServerStep, PTL DEF Spec

(* The types of the server's state, its shared sets and its answers. *)
THEOREM ServerTypes == Spec => []TypeOK
  <1>1. IInv => TypeOK
    BY DEF IInv, TypeInv
  <1> QED
    BY <1>1, ServerInv, PTL

(* handle_request answers every request it has a route for exactly once, under *)
(* its own id, and nothing else, however the workers interleave.               *)
THEOREM EveryRequestAnsweredOnce == Spec => []OneAnswerEach
  <1>1. IInv => OneAnswerEach
    BY AnswersSuffice DEF IInv
  <1> QED
    BY <1>1, ServerInv, PTL

(* in_flight_requests holds what a worker is at, and what met no route, and  *)
(* nothing is marked as cancelled but what is in it, however the requests    *)
(* and their cancellations interleave.                                       *)
THEOREM NothingLeftInFlight == Spec => []InFlightExact
  <1>1. IInv => InFlightExact
    BY FlightSuffices DEF IInv
  <1> QED
    BY <1>1, ServerInv, PTL

(* A response says REQUEST_CANCELLED only when the client cancelled that very *)
(* request, by a notification behind it that was handled before.              *)
THEOREM OnlyTheClientCancels == Spec => []CancelledByClient
  <1>1. IInv => CancelledByClient
    BY CancelSuffices DEF IInv
  <1> QED
    BY <1>1, ServerInv, PTL

(* When server::run returns, an exit was handled, and every message before it *)
(* has been handled completely: stop() and join() lose none of them.          *)
THEOREM NothingBeforeExitIsLost == Spec => []DrainedAtStop
  <1>1. IInv => DrainedAtStop
    BY DrainSuffices DEF IInv
  <1> QED
    BY <1>1, ServerInv, PTL

(* Without a race between two document notifications the store holds what the *)
(* last one about each document left, in the client's order.                  *)
THEOREM DocumentsFollow == Spec => []DocsFollowTheClient
  <1>1. IInv => DocsFollowTheClient
    BY DocsSuffice DEF IInv
  <1> QED
    BY <1>1, ServerInv, PTL
=============================================================================

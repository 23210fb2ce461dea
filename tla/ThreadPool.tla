---------------------------- MODULE ThreadPool ----------------------------
(***************************************************************************)
(* hill::utils::thread_pool, src/src/utils/thread_pool.hh.                 *)
(*                                                                         *)
(* One owner thread calls start, queue_job, stop and join in any order;    *)
(* every worker runs thread_loop.  `jobs' and `should_terminate' are read  *)
(* and written under queue_mutex only (start writes should_terminate       *)
(* without it, when there is no other thread), so one step of this module  *)
(* is one critical section, and the notify calls, which the code makes     *)
(* after it has released the mutex, are steps of their own.                *)
(*                                                                         *)
(* mutex_condition is the set of the workers whose pc is "waiting": wait   *)
(* releases the mutex and goes to sleep in one step, a notified worker     *)
(* has to get the mutex and evaluate the predicate again, and it may also  *)
(* wake up without any notification.                                       *)
(***************************************************************************)
EXTENDS Naturals, Sequences, FiniteSets

CONSTANTS Workers,   \* one for each thread start() creates; may be empty
          MaxJobs    \* bound on the number of queue_job calls

ASSUME WorkersAssumption == IsFiniteSet(Workers)
ASSUME MaxJobsAssumption == MaxJobs \in Nat

VARIABLES threads,          \* the member `threads': created, not yet joined
          pc,               \* where each worker is in thread_loop
          curr,             \* the local variable `job' of each worker
          jobs,             \* the member `jobs', front first
          shouldTerminate,  \* the member `should_terminate'
          owner,            \* where the owner is inside a call, or "idle"
          queued,           \* history: number of queue_job calls
          begun,            \* history: the jobs popped, in that order
          done              \* the jobs that returned or threw std::exception

vars == <<threads, pc, curr, jobs, shouldTerminate, owner, queued, begun, done>>

NoJob == 0
Jobs  == 1..MaxJobs

(* "off": no thread.  "lock": about to lock queue_mutex (on entry, after a
   job, after a wake-up).  "waiting": asleep in mutex_condition.  "run": in
   job().  "exited": thread_loop returned. *)
WorkerPCs == {"off", "lock", "waiting", "run", "exited"}

(* "spawn": in the loop of start.  "notifyOne", "notifyAll": queue_job, stop
   have released the mutex and not notified yet.  "join": in t.join(). *)
OwnerPCs == {"idle", "spawn", "notifyOne", "notifyAll", "join"}

At(p) == {w \in Workers : pc[w] = p}

Init ==
  /\ threads = {}
  /\ pc = [w \in Workers |-> "off"]
  /\ curr = [w \in Workers |-> NoJob]
  /\ jobs = <<>>
  /\ shouldTerminate = FALSE
  /\ owner = "idle"
  /\ queued = 0
  /\ begun = <<>>
  /\ done = {}

-----------------------------------------------------------------------------
(* The owner.  start() of a running pool and join() of a pool that was not   *)
(* stopped return false and change nothing.                                  *)

Start ==
  /\ owner = "idle"
  /\ threads = {}
  /\ shouldTerminate' = FALSE
  /\ owner' = IF Workers = {} THEN "idle" ELSE "spawn"
  /\ UNCHANGED <<threads, pc, curr, jobs, queued, begun, done>>

Spawn(w) ==
  /\ owner = "spawn"
  /\ w \notin threads
  /\ threads' = threads \cup {w}
  /\ pc' = [pc EXCEPT ![w] = "lock"]
  /\ owner' = IF threads' = Workers THEN "idle" ELSE "spawn"
  /\ UNCHANGED <<curr, jobs, shouldTerminate, queued, begun, done>>

(* Mutant: only the first job of a queue is announced. *)
QueueJob_announcesFirstOnly ==
  /\ owner = "idle"
  /\ queued < MaxJobs
  /\ queued' = queued + 1
  /\ jobs' = Append(jobs, queued + 1)
  /\ owner' = IF jobs = <<>> THEN "notifyOne" ELSE "idle"
  /\ UNCHANGED <<threads, pc, curr, shouldTerminate, begun, done>>

(* Mutant: no notify_one. *)
QueueJob_silent ==
  /\ owner = "idle"
  /\ queued < MaxJobs
  /\ queued' = queued + 1
  /\ jobs' = Append(jobs, queued + 1)
  /\ UNCHANGED <<threads, pc, curr, shouldTerminate, owner, begun, done>>

QueueJob ==
  /\ owner = "idle"
  /\ queued < MaxJobs
  /\ queued' = queued + 1
  /\ jobs' = Append(jobs, queued + 1)
  /\ owner' = "notifyOne"
  /\ UNCHANGED <<threads, pc, curr, shouldTerminate, begun, done>>

NotifyOne ==
  /\ owner = "notifyOne"
  /\ owner' = "idle"
  /\ \/ /\ At("waiting") = {}
        /\ UNCHANGED pc
     \/ \E w \in At("waiting") : pc' = [pc EXCEPT ![w] = "lock"]
  /\ UNCHANGED <<threads, curr, jobs, shouldTerminate, queued, begun, done>>

Stop ==
  /\ owner = "idle"
  /\ shouldTerminate' = TRUE
  /\ owner' = "notifyAll"
  /\ UNCHANGED <<threads, pc, curr, jobs, queued, begun, done>>

(* Mutant: stop() calls notify_one. *)
NotifyAll_one ==
  /\ owner = "notifyAll"
  /\ owner' = "idle"
  /\ \/ At("waiting") = {} /\ UNCHANGED pc
     \/ \E w \in At("waiting") : pc' = [pc EXCEPT ![w] = "lock"]
  /\ UNCHANGED <<threads, curr, jobs, shouldTerminate, queued, begun, done>>

NotifyAll ==
  /\ owner = "notifyAll"
  /\ owner' = "idle"
  /\ pc' = [w \in Workers |-> IF pc[w] = "waiting" THEN "lock" ELSE pc[w]]
  /\ UNCHANGED <<threads, curr, jobs, shouldTerminate, queued, begun, done>>

Join ==
  /\ owner = "idle"
  /\ shouldTerminate
  /\ owner' = "join"
  /\ UNCHANGED <<threads, pc, curr, jobs, shouldTerminate, queued, begun, done>>

(* Mutant: the threads are detached. *)
JoinReturn_detaches ==
  /\ owner = "join"
  /\ threads' = {}
  /\ pc' = [w \in Workers |-> "off"]
  /\ owner' = "idle"
  /\ UNCHANGED <<curr, jobs, shouldTerminate, queued, begun, done>>

JoinReturn ==
  /\ owner = "join"
  /\ threads \subseteq At("exited")
  /\ threads' = {}
  /\ pc' = [w \in Workers |-> "off"]
  /\ owner' = "idle"
  /\ UNCHANGED <<curr, jobs, shouldTerminate, queued, begun, done>>

-----------------------------------------------------------------------------
(* A worker.  The predicate of the wait is !jobs.empty() || should_terminate,*)
(* and a worker that gets past it looks at should_terminate first.           *)

(* Mutant: the predicate of the wait is !jobs.empty() alone. *)
Exit_onlyWithJobs(w) ==
  /\ pc[w] = "lock"
  /\ shouldTerminate
  /\ jobs # <<>>
  /\ pc' = [pc EXCEPT ![w] = "exited"]
  /\ UNCHANGED <<threads, curr, jobs, shouldTerminate, owner, queued, begun, done>>

Exit(w) ==
  /\ pc[w] = "lock"
  /\ shouldTerminate
  /\ pc' = [pc EXCEPT ![w] = "exited"]
  /\ UNCHANGED <<threads, curr, jobs, shouldTerminate, owner, queued, begun, done>>

(* Mutant: the newest job first. *)
Take_newest(w) ==
  /\ pc[w] = "lock"
  /\ ~shouldTerminate
  /\ jobs # <<>>
  /\ pc' = [pc EXCEPT ![w] = "run"]
  /\ curr' = [curr EXCEPT ![w] = jobs[Len(jobs)]]
  /\ begun' = Append(begun, jobs[Len(jobs)])
  /\ jobs' = SubSeq(jobs, 1, Len(jobs) - 1)
  /\ UNCHANGED <<threads, shouldTerminate, owner, queued, done>>

(* Mutant: a stopped pool is drained. *)
Take_drains(w) ==
  /\ pc[w] = "lock"
  /\ jobs # <<>>
  /\ pc' = [pc EXCEPT ![w] = "run"]
  /\ curr' = [curr EXCEPT ![w] = Head(jobs)]
  /\ begun' = Append(begun, Head(jobs))
  /\ jobs' = Tail(jobs)
  /\ UNCHANGED <<threads, shouldTerminate, owner, queued, done>>

(* Mutant: the job is looked at and left in the queue. *)
Take_peeks(w) ==
  /\ pc[w] = "lock"
  /\ ~shouldTerminate
  /\ jobs # <<>>
  /\ Len(begun) < MaxJobs
  /\ pc' = [pc EXCEPT ![w] = "run"]
  /\ curr' = [curr EXCEPT ![w] = Head(jobs)]
  /\ begun' = Append(begun, Head(jobs))
  /\ UNCHANGED <<threads, jobs, shouldTerminate, owner, queued, done>>

Take(w) ==
  /\ pc[w] = "lock"
  /\ ~shouldTerminate
  /\ jobs # <<>>
  /\ pc' = [pc EXCEPT ![w] = "run"]
  /\ curr' = [curr EXCEPT ![w] = Head(jobs)]
  /\ begun' = Append(begun, Head(jobs))
  /\ jobs' = Tail(jobs)
  /\ UNCHANGED <<threads, shouldTerminate, owner, queued, done>>

(* Mutant: wait(lock) without the predicate. *)
Wait_noPredicate(w) ==
  /\ pc[w] = "lock"
  /\ ~shouldTerminate
  /\ pc' = [pc EXCEPT ![w] = "waiting"]
  /\ UNCHANGED <<threads, curr, jobs, shouldTerminate, owner, queued, begun, done>>

Wait(w) ==
  /\ pc[w] = "lock"
  /\ ~shouldTerminate
  /\ jobs = <<>>
  /\ pc' = [pc EXCEPT ![w] = "waiting"]
  /\ UNCHANGED <<threads, curr, jobs, shouldTerminate, owner, queued, begun, done>>

(* A wake-up nobody asked for: the worker checks the predicate again. *)
WakeSpuriously(w) ==
  /\ pc[w] = "waiting"
  /\ pc' = [pc EXCEPT ![w] = "lock"]
  /\ UNCHANGED <<threads, curr, jobs, shouldTerminate, owner, queued, begun, done>>

(* Mutant: the job is forgotten before it is recorded. *)
Finish_forgets(w) ==
  /\ pc[w] = "run"
  /\ pc' = [pc EXCEPT ![w] = "lock"]
  /\ curr' = [curr EXCEPT ![w] = NoJob]
  /\ done' = done \cup {curr'[w]}
  /\ UNCHANGED <<threads, jobs, shouldTerminate, owner, queued, begun>>

(* job() returned, or threw a std::exception that is caught and dropped. *)
Finish(w) ==
  /\ pc[w] = "run"
  /\ pc' = [pc EXCEPT ![w] = "lock"]
  /\ done' = done \cup {curr[w]}
  /\ curr' = [curr EXCEPT ![w] = NoJob]
  /\ UNCHANGED <<threads, jobs, shouldTerminate, owner, queued, begun>>

-----------------------------------------------------------------------------
Owner ==
  \/ Start \/ QueueJob \/ NotifyOne \/ Stop \/ NotifyAll \/ Join \/ JoinReturn
  \/ \E w \in Workers : Spawn(w)

Loop(w) == Exit(w) \/ Take(w) \/ Wait(w) \/ Finish(w)

Next == Owner \/ \E w \in Workers : Loop(w) \/ WakeSpuriously(w)

(* The scheduler lets every thread go on: a worker that wants the mutex gets
   it, a job comes to its end, and the owner finishes the call it is in.
   Nothing makes the owner call stop or join, and nothing makes a worker wake
   up by itself. *)
Fairness ==
  /\ \A w \in Workers : WF_vars(Loop(w))
  /\ WF_vars(NotifyOne \/ NotifyAll \/ JoinReturn \/ \E w \in Workers : Spawn(w))

Spec == Init /\ [][Next]_vars
FairSpec == Spec /\ Fairness

-----------------------------------------------------------------------------
TypeOK ==
  /\ threads \subseteq Workers
  /\ pc \in [Workers -> WorkerPCs]
  /\ curr \in [Workers -> Jobs \cup {NoJob}]
  /\ jobs \in Seq(Jobs)
  /\ shouldTerminate \in BOOLEAN
  /\ owner \in OwnerPCs
  /\ queued \in 0..MaxJobs
  /\ begun \in Seq(Jobs)
  /\ done \subseteq Jobs

(* The queue is first in, first out and loses nothing: what was popped,      *)
(* followed by what is still queued, is what was queued, in its order        *)
(* (queue_job pushes at the back, thread_loop takes front and pops it).      *)
Fifo == begun \o jobs = [n \in 1..queued |-> n]

(* A job is run once, by one worker: no two workers are in the same job, and *)
(* no worker is in a job that has returned before.                           *)
OneWorkerPerJob ==
  \A v \in Workers : curr[v] # NoJob =>
    /\ curr[v] \notin done
    /\ \A w \in Workers : curr[v] = curr[w] => v = w

(* No wake-up is lost: while any worker of a pool that is not stopped sleeps,*)
(* there are at least as many workers on their way to the mutex as there are *)
(* jobs in the queue, not counting the job whose notify_one is still to      *)
(* come.  Without it a queued job would stay behind while the threads that   *)
(* could run it sleep.                                                       *)
AwakeForEveryJob ==
  At("waiting") # {} /\ ~shouldTerminate =>
    Len(jobs) <= Cardinality(At("lock")) + (IF owner = "notifyOne" THEN 1 ELSE 0)

(* stop() reaches every worker: once it has notified, nobody sleeps, so that *)
(* the t.join() calls of join() wait for running jobs only.                  *)
NobodySleepsAfterStop ==
  shouldTerminate /\ owner # "notifyAll" => At("waiting") = {}

(* join() returns only when every job that was begun has returned: the data  *)
(* a job captured by reference may be destroyed after it.                    *)
JoinedMeansQuiet ==
  threads = {} => \A n \in 1..Len(begun) : begun[n] \in done

(* What makes the invariants above inductive: a worker has a job exactly     *)
(* while it runs one, there is a thread behind every worker that is not      *)
(* "off", the owner creates threads only in an open pool and joins only a    *)
(* stopped one, and every job that was begun is in a worker or has returned. *)
WorkersConsistent ==
  \A w \in Workers : /\ curr[w] # NoJob <=> pc[w] = "run"
                     /\ w \in threads <=> pc[w] # "off"

OwnerConsistent ==
  /\ owner = "spawn" => ~shouldTerminate
  /\ owner = "join" => shouldTerminate

BegunAccounted ==
  /\ done \subseteq 1..Len(begun)
  /\ \A w \in Workers : curr[w] \in 0..Len(begun)
  /\ \A n \in 1..Len(begun) : n \in done \/ \E w \in Workers : curr[w] = n

IInv ==
  /\ TypeOK /\ Fifo /\ OneWorkerPerJob /\ AwakeForEveryJob
  /\ NobodySleepsAfterStop /\ WorkersConsistent /\ OwnerConsistent
  /\ BegunAccounted

(* stop() is final: while the pool is stopped no further job is begun, even  *)
(* when the queue holds some and a worker was just about to take one.        *)
NothingBegunWhileStopped == [][shouldTerminate => begun' = begun]_vars

(* Every job that is queued in a started pool runs to its end, unless the    *)
(* owner stops the pool first.                                               *)
QueuedJobsRun ==
  \A n \in Jobs : queued >= n /\ threads = Workers /\ Workers # {}
                    ~> n \in done \/ shouldTerminate

(* join() of a stopped pool returns. *)
JoinReturns == owner = "join" ~> owner = "idle"

(* The pool keeps the promise of JobPool, what its users may rely on: every  *)
(* step of the owner and of the workers, mutex, wake-ups and all, is a step  *)
(* of a first come first served job queue or is not visible there; ...       *)
Promise == INSTANCE JobPool
KeepsPromise == Promise!SafeSpec

(* ... and an open pool with an idle thread and a queued job hands the job   *)
(* over, however the wake-ups fall.                                          *)
KeepsFairness == Promise!Fairness
=============================================================================

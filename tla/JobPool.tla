------------------------------ MODULE JobPool ------------------------------
(***************************************************************************)
(* What hill::utils::thread_pool (src/src/utils/thread_pool.hh) promises   *)
(* its two users, the language server and the formatter: a queue of jobs   *)
(* served first come first served by a set of worker threads, until the    *)
(* owner closes the pool.  There is no mutex and no condition variable     *)
(* here; ThreadPool.tla has them and implements this module.               *)
(*                                                                         *)
(* Jobs are numbered in the order of their queue_job calls.                *)
(***************************************************************************)
EXTENDS Naturals, Sequences

CONSTANTS Workers,   \* the threads start() creates (hardware_concurrency of them)
          MaxJobs    \* bound on the number of queue_job calls

VARIABLES threads,          \* the workers that were created and not yet joined
          curr,             \* the job a worker is in, NoJob when it is in none
          jobs,             \* the queue, front first
          shouldTerminate,  \* stop() was called and start() was not called since
          queued,           \* history: how many jobs were ever queued
          begun,            \* history: the jobs handed to workers, in that order
          done              \* the jobs that returned (or threw a std::exception)

vars == <<threads, curr, jobs, shouldTerminate, queued, begun, done>>

NoJob == 0
Jobs  == 1..MaxJobs

Init ==
  /\ threads = {}
  /\ curr = [w \in Workers |-> NoJob]
  /\ jobs = <<>>
  /\ shouldTerminate = FALSE
  /\ queued = 0
  /\ begun = <<>>
  /\ done = {}

(* The owner puts one more job at the back of the queue. *)
Submit ==
  /\ queued < MaxJobs
  /\ queued' = queued + 1
  /\ jobs' = Append(jobs, queued + 1)
  /\ UNCHANGED <<threads, curr, shouldTerminate, begun, done>>

(* A pool with no threads can be opened again, ... *)
Open ==
  /\ threads = {}
  /\ shouldTerminate' = FALSE
  /\ UNCHANGED <<threads, curr, jobs, queued, begun, done>>

(* ... its workers join one by one, ... *)
Enrol(w) ==
  /\ ~shouldTerminate
  /\ w \notin threads
  /\ threads' = threads \cup {w}
  /\ UNCHANGED <<curr, jobs, shouldTerminate, queued, begun, done>>

(* Mutant: the newest job first. *)
Begin_newest(w) ==
  /\ ~shouldTerminate
  /\ w \in threads
  /\ curr[w] = NoJob
  /\ jobs # <<>>
  /\ curr' = [curr EXCEPT ![w] = jobs[Len(jobs)]]
  /\ begun' = Append(begun, jobs[Len(jobs)])
  /\ jobs' = SubSeq(jobs, 1, Len(jobs) - 1)
  /\ UNCHANGED <<threads, shouldTerminate, queued, done>>

(* Mutant: the job stays in the queue. *)
Begin_peeks(w) ==
  /\ ~shouldTerminate
  /\ w \in threads
  /\ curr[w] = NoJob
  /\ jobs # <<>>
  /\ curr' = [curr EXCEPT ![w] = Head(jobs)]
  /\ begun' = Append(begun, Head(jobs))
  /\ UNCHANGED <<threads, jobs, shouldTerminate, queued, done>>

(* ... and an idle one takes the job at the front of the queue. *)
Begin(w) ==
  /\ ~shouldTerminate
  /\ w \in threads
  /\ curr[w] = NoJob
  /\ jobs # <<>>
  /\ curr' = [curr EXCEPT ![w] = Head(jobs)]
  /\ begun' = Append(begun, Head(jobs))
  /\ jobs' = Tail(jobs)
  /\ UNCHANGED <<threads, shouldTerminate, queued, done>>

(* The worker's job returns. *)
End(w) ==
  /\ curr[w] # NoJob
  /\ done' = done \cup {curr[w]}
  /\ curr' = [curr EXCEPT ![w] = NoJob]
  /\ UNCHANGED <<threads, jobs, shouldTerminate, queued, begun>>

(* The owner closes the pool: what is still queued is not begun any more. *)
Close ==
  /\ shouldTerminate' = TRUE
  /\ UNCHANGED <<threads, curr, jobs, queued, begun, done>>

(* The workers of a closed pool are gone once the jobs they were in are over. *)
Dissolve ==
  /\ shouldTerminate
  /\ \A w \in threads : curr[w] = NoJob
  /\ threads' = {}
  /\ UNCHANGED <<curr, jobs, shouldTerminate, queued, begun, done>>

Next ==
  \/ Submit \/ Open \/ Close \/ Dissolve
  \/ \E w \in Workers : Enrol(w) \/ Begin(w) \/ End(w)

(* An open pool with an idle worker and a queued job hands the job over (to
   whichever worker is fastest), and a job that was begun comes to its end. *)
Fairness ==
  /\ WF_vars(\E w \in Workers : Begin(w))
  /\ \A w \in Workers : WF_vars(End(w))

SafeSpec == Init /\ [][Next]_vars
Spec == SafeSpec /\ Fairness
=============================================================================

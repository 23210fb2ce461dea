------------------------- MODULE ThreadPool_proofs -------------------------
(***************************************************************************)
(* Theorems of ThreadPool for any finite set of workers and any number of  *)
(* jobs: type correctness, the safety invariants, the finality of stop,    *)
(* and the step simulation that makes ThreadPool implement JobPool.        *)
(***************************************************************************)
EXTENDS ThreadPool, FiniteSetTheorems, SequenceTheorems, TLAPS

(* Types, together with what they rest on: a worker in "run" has a job.      *)
Typed == TypeOK /\ WorkersConsistent

(* The initial state has the types. *)
LEMMA InitTyped == Init => Typed
  <1> SUFFICES ASSUME Init PROVE Typed
    OBVIOUS
  <1>1. jobs \in Seq(Jobs) /\ begun \in Seq(Jobs)
    BY EmptySeq DEF Init
  <1>2. TypeOK
    <2>1. queued \in 0..MaxJobs
      BY MaxJobsAssumption DEF Init
    <2>2. pc \in [Workers -> WorkerPCs] /\ owner \in OwnerPCs
      BY DEF Init, WorkerPCs, OwnerPCs
    <2> QED
      BY <1>1, <2>1, <2>2 DEF Init, TypeOK
  <1>3. WorkersConsistent
    BY DEF Init, WorkersConsistent
  <1> QED
    BY <1>2, <1>3 DEF Typed

(* Every step keeps the types, and a worker has a job exactly in "run". *)
LEMMA StepTyped == Typed /\ [Next]_vars => Typed'
  <1> SUFFICES ASSUME Typed, [Next]_vars PROVE Typed'
    OBVIOUS
  <1> USE MaxJobsAssumption
      DEF Typed, TypeOK, WorkersConsistent, WorkerPCs, OwnerPCs, NoJob
  <1>1. CASE Start
    BY <1>1 DEF Start
  <1>2. CASE QueueJob
    <2>1. queued + 1 \in Jobs /\ queued' \in 0..MaxJobs
      BY <1>2 DEF QueueJob, Jobs
    <2>2. jobs' \in Seq(Jobs)
      BY <1>2, <2>1 DEF QueueJob
    <2> QED
      BY <1>2, <2>1, <2>2 DEF QueueJob
  <1>3. CASE NotifyOne
    BY <1>3 DEF NotifyOne, At
  <1>4. CASE Stop
    BY <1>4 DEF Stop
  <1>5. CASE NotifyAll
    BY <1>5 DEF NotifyAll
  <1>6. CASE Join
    BY <1>6 DEF Join
  <1>7. CASE JoinReturn
    BY <1>7 DEF JoinReturn, At
  <1>8. ASSUME NEW w \in Workers, Spawn(w) PROVE Typed'
    BY <1>8 DEF Spawn
  <1>9. ASSUME NEW w \in Workers, Loop(w) \/ WakeSpuriously(w) PROVE Typed'
    <2>1. CASE Exit(w)
      BY <2>1 DEF Exit
    <2>2. CASE Take(w)
      <3>1. Head(jobs) \in Jobs /\ Tail(jobs) \in Seq(Jobs)
        BY <2>2 DEF Take
      <3>2. begun' \in Seq(Jobs) /\ jobs' \in Seq(Jobs)
        BY <2>2, <3>1 DEF Take
      <3>3. Head(jobs) # NoJob
        BY <3>1 DEF Jobs
      <3> QED
        BY <2>2, <3>1, <3>2, <3>3 DEF Take
    <2>3. CASE Wait(w)
      BY <2>3 DEF Wait
    <2>4. CASE Finish(w)
      BY <2>4 DEF Finish
    <2>5. CASE WakeSpuriously(w)
      BY <2>5 DEF WakeSpuriously
    <2> QED
      BY <1>9, <2>1, <2>2, <2>3, <2>4, <2>5 DEF Loop
  <1>10. CASE UNCHANGED vars
    BY <1>10 DEF vars
  <1> QED
    BY <1>1, <1>2, <1>3, <1>4, <1>5, <1>6, <1>7, <1>8, <1>9, <1>10
       DEF Next, Owner

(* thread_pool keeps its types, whatever its owner calls and however the     *)
(* workers interleave.                                                       *)
THEOREM TypeCorrect == Spec => []TypeOK
  <1>1. Typed => TypeOK
    BY DEF Typed
  <1> QED
    BY <1>1, InitTyped, StepTyped, PTL DEF Spec

-----------------------------------------------------------------------------
(* Two facts about the queue: popping the front moves one element over the   *)
(* boundary, and pushing appends to the whole.                               *)
LEMMA PopKeepsOrder ==
  ASSUME NEW S, NEW s \in Seq(S), NEW t \in Seq(S), t # <<>>
  PROVE  Append(s, Head(t)) \o Tail(t) = s \o t
  <1>1. Append(s, Head(t)) \in Seq(S) /\ Tail(t) \in Seq(S)
    OBVIOUS
  <1>2. Len(Append(s, Head(t)) \o Tail(t)) = Len(s \o t)
    BY <1>1
  <1>3. ASSUME NEW i \in 1..Len(s \o t)
        PROVE  (Append(s, Head(t)) \o Tail(t))[i] = (s \o t)[i]
    BY <1>1, <1>3
  <1> QED
    BY <1>1, <1>2, <1>3

(* Pushing at the back of the second part pushes at the back of the whole. *)
LEMMA PushAppends ==
  ASSUME NEW S, NEW s \in Seq(S), NEW t \in Seq(S), NEW e \in S
  PROVE  s \o Append(t, e) = Append(s \o t, e)
  OBVIOUS

(* The first n numbers, and one more, are the first n + 1 numbers. *)
LEMMA FirstNumbersGrow ==
  ASSUME NEW n \in Nat
  PROVE  Append([i \in 1..n |-> i], n + 1) = [i \in 1..n+1 |-> i]
  OBVIOUS

(* The job at the front is the one after all those that were begun. *)
LEMMA FifoFront ==
  ASSUME TypeOK, Fifo
  PROVE  /\ \A n \in 1..Len(begun) : begun[n] = n
         /\ jobs # <<>> => Head(jobs) = Len(begun) + 1
  <1>1. Len(begun \o jobs) = queued
    BY DEF TypeOK, Fifo
  <1>2. ASSUME NEW n \in 1..Len(begun) PROVE begun[n] = n
    <2>1. (begun \o jobs)[n] = begun[n] /\ n \in 1..queued
      BY <1>1, <1>2 DEF TypeOK
    <2> QED
      BY <2>1 DEF Fifo
  <1>3. ASSUME jobs # <<>> PROVE Head(jobs) = Len(begun) + 1
    <2>1. (begun \o jobs)[Len(begun) + 1] = Head(jobs) /\ Len(begun) + 1 \in 1..queued
      BY <1>1, <1>3 DEF TypeOK
    <2> QED
      BY <2>1 DEF Fifo
  <1> QED
    BY <1>2, <1>3

-----------------------------------------------------------------------------
(* Only queue_job, thread_loop's pop and the return of a job touch the queue *)
(* and its history.                                                          *)
JobVars == <<curr, jobs, queued, begun, done>>

(* A step that leaves the queue alone leaves its history alone, too. *)
LEMMA QuietSteps ==
  ASSUME [Next]_vars
  PROVE  \/ UNCHANGED JobVars
         \/ QueueJob
         \/ \E w \in Workers : Take(w) \/ Finish(w)
  BY DEF Next, Owner, Loop, Start, NotifyOne, Stop, NotifyAll, Join, JoinReturn,
         Spawn, Exit, Wait, WakeSpuriously, vars, JobVars

(* queue_job and the pop keep the order. *)
LEMMA StepFifo ==
  ASSUME TypeOK, Fifo, [Next]_vars
  PROVE  Fifo'
  <1>1. CASE UNCHANGED JobVars
    BY <1>1 DEF JobVars, Fifo
  <1>2. CASE QueueJob
    <2>1. queued + 1 \in Jobs /\ queued \in Nat
      BY <1>2, MaxJobsAssumption DEF QueueJob, Jobs, TypeOK
    <2>2. begun \o Append(jobs, queued + 1) = Append(begun \o jobs, queued + 1)
      BY <2>1, PushAppends DEF TypeOK
    <2>3. Append(begun \o jobs, queued + 1) = [n \in 1..queued+1 |-> n]
      BY <2>1, FirstNumbersGrow DEF Fifo
    <2> QED
      BY <1>2, <2>2, <2>3 DEF QueueJob, Fifo
  <1>3. ASSUME NEW w \in Workers, Take(w) PROVE Fifo'
    <2>1. Append(begun, Head(jobs)) \o Tail(jobs) = begun \o jobs
      BY <1>3, PopKeepsOrder DEF TypeOK, Take
    <2> QED
      BY <1>3, <2>1 DEF Take, Fifo
  <1>4. ASSUME NEW w \in Workers, Finish(w) PROVE Fifo'
    BY <1>4 DEF Finish, Fifo
  <1> QED
    BY <1>1, <1>2, <1>3, <1>4, QuietSteps

(* A job that was begun stays in its worker until it returns. *)
LEMMA StepBegun ==
  ASSUME TypeOK, Fifo, WorkersConsistent, OneWorkerPerJob, BegunAccounted, [Next]_vars
  PROVE  OneWorkerPerJob' /\ BegunAccounted'
  <1> USE DEF OneWorkerPerJob, BegunAccounted, TypeOK, NoJob
  <1>0. Len(begun) \in Nat
    OBVIOUS
  <1>1. CASE UNCHANGED JobVars
    BY <1>1 DEF JobVars
  <1>2. CASE QueueJob
    BY <1>2 DEF QueueJob
  <1>3. ASSUME NEW w \in Workers, Take(w)
        PROVE  OneWorkerPerJob' /\ BegunAccounted'
    <2>1. Head(jobs) = Len(begun) + 1 /\ Head(jobs) \in Jobs
      BY <1>3, FifoFront DEF Take
    <2>2. Len(begun') = Len(begun) + 1
      BY <1>3, <2>1 DEF Take
    <2>3. curr[w] = NoJob
      BY <1>3 DEF Take, WorkersConsistent
    <2>4. /\ curr' = [curr EXCEPT ![w] = Len(begun) + 1]
          /\ done' = done
      BY <1>3, <2>1 DEF Take
    <2>5. OneWorkerPerJob'
      BY <1>0, <2>4
    <2>6. BegunAccounted'
      <3>1. done' \subseteq 1..Len(begun')
        BY <1>0, <2>2, <2>4
      <3>2. \A v \in Workers : curr'[v] \in 0..Len(begun')
        BY <1>0, <2>2, <2>4
      <3>3. ASSUME NEW n \in 1..Len(begun')
            PROVE  n \in done' \/ \E v \in Workers : curr'[v] = n
        <4>1. CASE n = Len(begun) + 1
          BY <2>4, <4>1
        <4>2. CASE n \in 1..Len(begun) /\ n \in done
          BY <2>4, <4>2
        <4>3. CASE n \in 1..Len(begun) /\ n \notin done
          <5>1. PICK v \in Workers : curr[v] = n
            BY <4>3
          <5>2. v # w
            BY <2>3, <4>3, <5>1
          <5> QED
            BY <2>4, <5>1, <5>2
        <4> QED
          BY <1>0, <2>2, <4>1, <4>2, <4>3
      <3> QED
        BY <3>1, <3>2, <3>3
    <2> QED
      BY <2>5, <2>6
  <1>4. ASSUME NEW w \in Workers, Finish(w)
        PROVE  OneWorkerPerJob' /\ BegunAccounted'
    <2>1. curr[w] # NoJob
      BY <1>4 DEF Finish, WorkersConsistent
    <2>2. /\ curr' = [curr EXCEPT ![w] = NoJob]
          /\ done' = done \cup {curr[w]}
          /\ begun' = begun
      BY <1>4 DEF Finish
    <2>3. OneWorkerPerJob'
      BY <2>1, <2>2
    <2>4. BegunAccounted'
      <3>1. done' \subseteq 1..Len(begun')
        <4>1. curr[w] \in 1..Len(begun)
          BY <1>0, <2>1
        <4> QED
          BY <2>2, <4>1
      <3>2. \A v \in Workers : curr'[v] \in 0..Len(begun')
        BY <1>0, <2>2
      <3>3. ASSUME NEW n \in 1..Len(begun')
            PROVE  n \in done' \/ \E v \in Workers : curr'[v] = n
        <4>1. CASE n \in done \/ n = curr[w]
          BY <2>2, <4>1
        <4>2. CASE n \notin done /\ n # curr[w]
          <5>1. PICK v \in Workers : curr[v] = n
            BY <2>2, <4>2
          <5> QED
            BY <2>2, <4>2, <5>1
        <4> QED
          BY <4>1, <4>2
      <3> QED
        BY <3>1, <3>2, <3>3
    <2> QED
      BY <2>3, <2>4
  <1> QED
    BY <1>1, <1>2, <1>3, <1>4, QuietSteps

-----------------------------------------------------------------------------
(* The wake-ups.  A step of one worker moves that worker into or out of the  *)
(* set of those on their way to the mutex.                                   *)
LEMMA AtFinite ==
  ASSUME NEW p
  PROVE  IsFiniteSet(At(p)) /\ Cardinality(At(p)) \in Nat
  BY WorkersAssumption, FS_Subset, FS_CardinalityType DEF At

(* A worker that was woken up makes one more on the way to the mutex. *)
LEMMA MoreAwake ==
  ASSUME TypeOK, NEW w \in Workers, pc' = [pc EXCEPT ![w] = "lock"]
  PROVE  /\ At("waiting")' \subseteq At("waiting")
         /\ Cardinality(At("lock")') \in Nat
         /\ Cardinality(At("lock")') >= Cardinality(At("lock"))
         /\ pc[w] # "lock" => Cardinality(At("lock")') = Cardinality(At("lock")) + 1
  <1>1. At("lock")' = At("lock") \cup {w} /\ At("waiting")' \subseteq At("waiting")
    <2>1. \A v \in Workers : pc'[v] = IF v = w THEN "lock" ELSE pc[v]
      BY DEF TypeOK
    <2> QED
      BY <2>1 DEF At
  <1>2. w \in At("lock") <=> pc[w] = "lock"
    BY DEF At
  <1>3. IsFiniteSet(At("lock")) /\ Cardinality(At("lock")) \in Nat
    BY AtFinite
  <1>4. Cardinality(At("lock") \cup {w}) =
          IF w \in At("lock") THEN Cardinality(At("lock")) ELSE Cardinality(At("lock")) + 1
    BY <1>3, FS_AddElement
  <1> QED
    BY <1>1, <1>2, <1>3, <1>4

(* A worker that leaves the mutex makes one less. *)
LEMMA LessAwake ==
  ASSUME TypeOK, NEW w \in Workers, NEW p, p # "lock", p # "waiting", pc[w] = "lock",
         pc' = [pc EXCEPT ![w] = p]
  PROVE  /\ At("waiting")' = At("waiting")
         /\ Cardinality(At("lock")') = Cardinality(At("lock")) - 1
  <1>1. At("lock")' = At("lock") \ {w} /\ At("waiting")' = At("waiting")
    BY DEF At, TypeOK
  <1>2. w \in At("lock")
    BY DEF At
  <1> QED
    BY <1>1, <1>2, AtFinite, FS_RemoveElement

(* No step loses a wake-up. *)
LEMMA StepAwake ==
  ASSUME Typed, AwakeForEveryJob, [Next]_vars
  PROVE  AwakeForEveryJob'
  <1> DEFINE L == Cardinality(At("lock"))
  <1>0. TypeOK /\ WorkersConsistent /\ Len(jobs) \in Nat /\ L \in Nat
    BY AtFinite DEF Typed, TypeOK
  <1>1. CASE Start
    BY <1>0, <1>1 DEF Start, At, WorkersConsistent, AwakeForEveryJob
  <1>2. CASE QueueJob
    <2>1. Len(jobs') = Len(jobs) + 1 /\ owner = "idle" /\ owner' = "notifyOne"
      BY <1>0, <1>2 DEF QueueJob, TypeOK
    <2>2. At("lock")' = At("lock") /\ At("waiting")' = At("waiting")
      BY <1>2 DEF QueueJob, At
    <2> QED
      BY <1>0, <1>2, <2>1, <2>2 DEF QueueJob, AwakeForEveryJob
  <1>3. CASE NotifyOne
    <2>1. CASE At("waiting") = {} /\ UNCHANGED pc
      BY <2>1 DEF AwakeForEveryJob, At
    <2>2. ASSUME NEW w \in At("waiting"), pc' = [pc EXCEPT ![w] = "lock"]
          PROVE  AwakeForEveryJob'
      <3>1. w \in Workers /\ pc[w] # "lock"
        BY DEF At
      <3>2. L' = L + 1 /\ At("waiting")' \subseteq At("waiting")
        BY <1>0, <2>2, <3>1, MoreAwake
      <3> QED
        BY <1>0, <1>3, <3>2 DEF NotifyOne, AwakeForEveryJob
    <2> QED
      BY <1>3, <2>1, <2>2 DEF NotifyOne
  <1>4. CASE Stop \/ NotifyAll \/ JoinReturn
    BY <1>0, <1>4 DEF Stop, NotifyAll, JoinReturn, AwakeForEveryJob, At, TypeOK
  <1>5. CASE Join \/ UNCHANGED vars
    <2>1. At("lock")' = At("lock") /\ At("waiting")' = At("waiting")
      BY <1>5 DEF Join, vars, At
    <2> QED
      BY <1>5, <2>1 DEF Join, vars, AwakeForEveryJob
  <1>6. ASSUME NEW w \in Workers, Spawn(w) PROVE AwakeForEveryJob'
    <2>1. L' >= L /\ L' \in Nat /\ At("waiting")' \subseteq At("waiting")
      BY <1>0, <1>6, MoreAwake DEF Spawn
    <2> QED
      BY <1>0, <1>6, <2>1 DEF Spawn, AwakeForEveryJob
  <1>7. ASSUME NEW w \in Workers, Take(w) PROVE AwakeForEveryJob'
    <2>1. L' = L - 1 /\ At("waiting")' = At("waiting")
      BY <1>0, <1>7, LessAwake DEF Take
    <2>2. Len(jobs') = Len(jobs) - 1
      BY <1>0, <1>7 DEF Take, TypeOK
    <2> QED
      BY <1>0, <1>7, <2>1, <2>2 DEF Take, AwakeForEveryJob
  <1>8. ASSUME NEW w \in Workers, Wait(w) PROVE AwakeForEveryJob'
    <2>1. Len(jobs') = 0
      BY <1>8 DEF Wait
    <2>2. IsFiniteSet(At("lock")')
      BY WorkersAssumption, FS_Subset DEF At
    <2>3. L' \in Nat
      BY <2>2, FS_CardinalityType
    <2> QED
      BY <2>1, <2>3 DEF AwakeForEveryJob
  <1>9. ASSUME NEW w \in Workers, Exit(w) PROVE AwakeForEveryJob'
    BY <1>9 DEF Exit, AwakeForEveryJob
  <1>10. ASSUME NEW w \in Workers, Finish(w) \/ WakeSpuriously(w) PROVE AwakeForEveryJob'
    <2>1. L' >= L /\ L' \in Nat /\ At("waiting")' \subseteq At("waiting")
      BY <1>0, <1>10, MoreAwake DEF Finish, WakeSpuriously
    <2> QED
      BY <1>0, <1>10, <2>1 DEF Finish, WakeSpuriously, AwakeForEveryJob
  <1> QED
    BY <1>1, <1>2, <1>3, <1>4, <1>5, <1>6, <1>7, <1>8, <1>9, <1>10
       DEF Next, Owner, Loop

(* After stop() has notified nobody falls asleep again. *)
LEMMA StepStop ==
  ASSUME Typed, NobodySleepsAfterStop, OwnerConsistent, [Next]_vars
  PROVE  NobodySleepsAfterStop' /\ OwnerConsistent'
  <1> USE DEF Typed, TypeOK, NobodySleepsAfterStop, OwnerConsistent, At
  <1>1. CASE Start \/ QueueJob \/ NotifyOne \/ Stop \/ NotifyAll \/ Join \/ JoinReturn
    BY <1>1 DEF Start, QueueJob, NotifyOne, Stop, NotifyAll, Join, JoinReturn
  <1>2. ASSUME NEW w \in Workers, Spawn(w)
        PROVE  NobodySleepsAfterStop' /\ OwnerConsistent'
    BY <1>2 DEF Spawn
  <1>3. ASSUME NEW w \in Workers, Loop(w) \/ WakeSpuriously(w)
        PROVE  NobodySleepsAfterStop' /\ OwnerConsistent'
    BY <1>3 DEF Loop, Exit, Take, Wait, Finish, WakeSpuriously
  <1>4. CASE UNCHANGED vars
    BY <1>4 DEF vars
  <1> QED
    BY <1>1, <1>2, <1>3, <1>4 DEF Next, Owner

-----------------------------------------------------------------------------
(* All of it together: IInv is inductive.                                    *)
LEMMA InitIInv == Init => IInv
  <1> SUFFICES ASSUME Init PROVE IInv
    OBVIOUS
  <1>1. TypeOK /\ WorkersConsistent
    BY InitTyped DEF Typed
  <1>2. Fifo
    BY DEF Init, Fifo
  <1>3. OneWorkerPerJob /\ BegunAccounted
    BY DEF Init, OneWorkerPerJob, BegunAccounted, NoJob
  <1>4. At("waiting") = {}
    BY DEF Init, At
  <1> QED
    BY <1>1, <1>2, <1>3, <1>4
       DEF IInv, Init, AwakeForEveryJob, NobodySleepsAfterStop, OwnerConsistent

(* ... is kept by every step, ... *)
LEMMA StepIInv == IInv /\ [Next]_vars => IInv'
  <1> SUFFICES ASSUME IInv, [Next]_vars PROVE IInv'
    OBVIOUS
  <1>1. Typed'
    BY StepTyped DEF IInv, Typed
  <1>2. Fifo'
    BY StepFifo DEF IInv
  <1>3. OneWorkerPerJob' /\ BegunAccounted'
    BY StepBegun DEF IInv
  <1>4. AwakeForEveryJob'
    BY StepAwake DEF IInv, Typed
  <1>5. NobodySleepsAfterStop' /\ OwnerConsistent'
    BY StepStop DEF IInv, Typed
  <1> QED
    BY <1>1, <1>2, <1>3, <1>4, <1>5 DEF IInv, Typed

(* ... and so holds in every reachable state. *)
LEMMA AlwaysIInv == Spec => []IInv
  BY InitIInv, StepIInv, PTL DEF Spec

(* The queue of jobs is first in, first out, and no job is dropped by it.    *)
THEOREM FirstInFirstOut == Spec => []Fifo
  <1>1. IInv => Fifo
    BY DEF IInv
  <1> QED
    BY <1>1, AlwaysIInv, PTL

(* No job is run by two workers or run again after it returned.              *)
THEOREM EachJobOnce == Spec => []OneWorkerPerJob
  <1>1. IInv => OneWorkerPerJob
    BY DEF IInv
  <1> QED
    BY <1>1, AlwaysIInv, PTL

(* notify_one after the mutex is released is enough: no wake-up is lost.     *)
THEOREM NoLostWakeup == Spec => []AwakeForEveryJob
  <1>1. IInv => AwakeForEveryJob
    BY DEF IInv
  <1> QED
    BY <1>1, AlwaysIInv, PTL

(* stop() leaves no worker asleep, so that join() cannot hang on a sleeper.  *)
THEOREM StopWakesAll == Spec => []NobodySleepsAfterStop
  <1>1. IInv => NobodySleepsAfterStop
    BY DEF IInv
  <1> QED
    BY <1>1, AlwaysIInv, PTL

(* After join() every job that was begun has returned.                       *)
THEOREM JoinWaitsForJobs == Spec => []JoinedMeansQuiet
  <1>1. IInv => JoinedMeansQuiet
    <2> SUFFICES ASSUME IInv, threads = {}, NEW n \in 1..Len(begun)
                 PROVE  begun[n] \in done
      BY DEF JoinedMeansQuiet
    <2>1. begun[n] = n
      BY FifoFront DEF IInv
    <2>2. \A w \in Workers : curr[w] = NoJob
      BY DEF IInv, WorkersConsistent
    <2>3. n # NoJob
      BY DEF NoJob
    <2> QED
      BY <2>1, <2>2, <2>3 DEF IInv, BegunAccounted
  <1> QED
    BY <1>1, AlwaysIInv, PTL

(* While the pool is stopped, no worker begins a job.                        *)
THEOREM StopIsFinal == Spec => NothingBegunWhileStopped
  <1>1. [Next]_vars => [shouldTerminate => begun' = begun]_vars
    <2> SUFFICES ASSUME [Next]_vars, shouldTerminate PROVE begun' = begun
      OBVIOUS
    <2>1. CASE UNCHANGED JobVars
      BY <2>1 DEF JobVars
    <2>2. CASE QueueJob
      BY <2>2 DEF QueueJob
    <2>3. ASSUME NEW w \in Workers, Take(w) \/ Finish(w) PROVE begun' = begun
      BY <2>3 DEF Take, Finish
    <2> QED
      BY <2>1, <2>2, <2>3, QuietSteps
  <1> QED
    BY <1>1, PTL DEF Spec, NothingBegunWhileStopped

(* ThreadPool implements JobPool: every call and every iteration of          *)
(* thread_loop is one step of a first come first served job queue, or is     *)
(* not visible there (the wake-ups, the waiting).                            *)
THEOREM Implements == Spec => KeepsPromise
  <1>1. Init => Promise!Init
    BY DEF Init, Promise!Init, NoJob, Promise!NoJob
  <1>2. IInv /\ [Next]_vars => [Promise!Next]_(Promise!vars)
    <2> SUFFICES ASSUME IInv, [Next]_vars
                 PROVE  Promise!Next \/ UNCHANGED Promise!vars
      OBVIOUS
    <2> USE DEF Promise!vars, Promise!NoJob, NoJob
    <2>1. CASE Start
      BY <2>1 DEF Start, Promise!Next, Promise!Open
    <2>2. CASE QueueJob
      BY <2>2 DEF QueueJob, Promise!Next, Promise!Submit
    <2>3. CASE NotifyOne \/ NotifyAll \/ Join
      BY <2>3 DEF NotifyOne, NotifyAll, Join
    <2>4. CASE Stop
      BY <2>4 DEF Stop, Promise!Next, Promise!Close
    <2>5. CASE JoinReturn
      <3>1. \A w \in threads : curr[w] = NoJob
        BY <2>5 DEF JoinReturn, IInv, TypeOK, WorkersConsistent, At
      <3>2. shouldTerminate
        BY <2>5 DEF JoinReturn, IInv, OwnerConsistent
      <3> QED
        BY <2>5, <3>1, <3>2 DEF JoinReturn, Promise!Next, Promise!Dissolve
    <2>6. ASSUME NEW w \in Workers, Spawn(w) PROVE Promise!Next
      <3>1. ~shouldTerminate
        BY <2>6 DEF Spawn, IInv, OwnerConsistent
      <3> QED
        BY <2>6, <3>1 DEF Spawn, Promise!Next, Promise!Enrol
    <2>7. ASSUME NEW w \in Workers, Exit(w) \/ Wait(w) \/ WakeSpuriously(w)
          PROVE  UNCHANGED Promise!vars
      BY <2>7 DEF Exit, Wait, WakeSpuriously
    <2>8. ASSUME NEW w \in Workers, Take(w) PROVE Promise!Next
      <3>1. w \in threads /\ curr[w] = NoJob
        BY <2>8 DEF Take, IInv, WorkersConsistent
      <3> QED
        BY <2>8, <3>1 DEF Take, Promise!Next, Promise!Begin
    <2>9. ASSUME NEW w \in Workers, Finish(w) PROVE Promise!Next
      <3>1. curr[w] # NoJob
        BY <2>9 DEF Finish, IInv, WorkersConsistent
      <3> QED
        BY <2>9, <3>1 DEF Finish, Promise!Next, Promise!End
    <2>10. CASE UNCHANGED vars
      BY <2>10 DEF vars
    <2> QED
      BY <2>1, <2>2, <2>3, <2>4, <2>5, <2>6, <2>7, <2>8, <2>9, <2>10
         DEF Next, Owner, Loop
  <1> QED
    BY <1>1, <1>2, AlwaysIInv, PTL DEF Spec, KeepsPromise, Promise!SafeSpec
=============================================================================

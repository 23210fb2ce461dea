--------------------------- MODULE JobPool_proofs ---------------------------
(***************************************************************************)
(* What JobPool keeps, for any number of workers and of jobs: jobs are     *)
(* handed out in the order they were queued, none twice, and a job that    *)
(* was handed out is in the hands of one worker until it is done.          *)
(*                                                                         *)
(* The users of the pool, LspServer and Formatter, take one step of the    *)
(* pool with each of their own steps that touches it: the lemmas, one per  *)
(* action of JobPool, are what their proofs cite.                          *)
(***************************************************************************)
EXTENDS JobPool, SequenceTheorems, TLAPS

-----------------------------------------------------------------------------
PoolTypes ==
  /\ threads \subseteq Workers
  /\ curr \in [Workers -> Nat]
  /\ jobs \in Seq(Nat)
  /\ shouldTerminate \in BOOLEAN
  /\ queued \in Nat
  /\ begun \in Seq(Nat)
  /\ done \subseteq Nat

(* The queue is what was queued and not begun, in order. *)
InOrder ==
  /\ Len(begun) + Len(jobs) = queued
  /\ \A i \in 1..Len(begun) : begun[i] = i
  /\ \A i \in 1..Len(jobs) : jobs[i] = Len(begun) + i

(* What was begun is done, or in the hands of one worker. *)
OneWorkerEach ==
  /\ done \subseteq 1..Len(begun)
  /\ \A w \in Workers : curr[w] <= Len(begun) /\ curr[w] \notin done
  /\ \A v, w \in Workers : curr[v] = curr[w] /\ curr[w] # NoJob => v = w
  /\ \A n \in 1..Len(begun) : n \in done \/ \E w \in Workers : curr[w] = n

PoolInv == PoolTypes /\ InOrder /\ OneWorkerEach

-----------------------------------------------------------------------------
(* The pool as start() leaves it (its users begin there), or not yet started. *)
LEMMA PoolStarts ==
  ASSUME threads \subseteq Workers,
         curr = [w \in Workers |-> NoJob],
         jobs = <<>>, shouldTerminate = FALSE, queued = 0, begun = <<>>, done = {}
  PROVE  PoolInv
  <1>1. PoolTypes
    <2>1. jobs \in Seq(Nat) /\ begun \in Seq(Nat)
      OBVIOUS
    <2>2. curr \in [Workers -> Nat]
      BY DEF NoJob
    <2> QED
      BY <2>1, <2>2 DEF PoolTypes
  <1>2. Len(begun) = 0 /\ Len(jobs) = 0
    OBVIOUS
  <1> QED
    BY <1>1, <1>2 DEF PoolInv, InOrder, OneWorkerEach, NoJob

(* A step that leaves the pool alone. *)
LEMMA PoolIdle ==
  ASSUME PoolInv, UNCHANGED vars
  PROVE  PoolInv'
  BY DEF PoolInv, PoolTypes, InOrder, OneWorkerEach, vars

(* queue_job puts the next number at the back. *)
LEMMA PoolSubmit ==
  ASSUME PoolInv, Submit
  PROVE  PoolInv' /\ queued' = queued + 1
  <1> DEFINE b == Len(begun)
             k == Len(jobs)
  <1> USE DEF PoolInv, PoolTypes
  <1>1. b \in Nat /\ k \in Nat /\ b + k = queued
    BY DEF InOrder
  <1>2. /\ jobs' \in Seq(Nat) /\ Len(jobs') = k + 1
        /\ \A i \in 1..k : jobs'[i] = jobs[i]
        /\ jobs'[k + 1] = queued + 1
    <2>1. queued + 1 \in Nat
      OBVIOUS
    <2> QED
      BY <2>1, AppendProperties DEF Submit
  <1>3. UNCHANGED <<threads, curr, shouldTerminate, begun, done>> /\ queued' = queued + 1
    BY DEF Submit
  <1>4. PoolTypes'
    BY <1>2, <1>3
  <1>5. InOrder'
    <2>1. Len(begun)' = b /\ Len(jobs)' = k + 1
      BY <1>2, <1>3
    <2>2. \A i \in 1..k : jobs[i] = b + i
      BY DEF InOrder
    <2>3. \A i \in 1..b : begun[i] = i
      BY DEF InOrder
    <2>4. \A i \in 1..(k + 1) : jobs'[i] = b + i
      <3> HIDE DEF b, k
      <3>1. \A i \in 1..(k + 1) : i \in 1..k \/ i = k + 1
        BY <1>1
      <3>2. queued + 1 = b + (k + 1)
        BY <1>1
      <3> QED
        BY <1>2, <2>2, <3>1, <3>2
    <2>5. b + (k + 1) = queued + 1
      <3> HIDE DEF b, k
      <3> QED
        BY <1>1
    <2> HIDE DEF b, k
    <2> QED
      BY <1>3, <2>1, <2>3, <2>4, <2>5 DEF InOrder
  <1>6. OneWorkerEach'
    BY <1>3 DEF OneWorkerEach
  <1> QED
    BY <1>3, <1>4, <1>5, <1>6

(* Start() and the workers it creates leave the queue alone. *)
LEMMA PoolOpen ==
  ASSUME PoolInv, Open
  PROVE  PoolInv'
  BY DEF PoolInv, PoolTypes, InOrder, OneWorkerEach, Open

(* The same for a worker that starts. *)
LEMMA PoolEnrol ==
  ASSUME PoolInv, NEW w \in Workers, Enrol(w)
  PROVE  PoolInv'
  BY DEF PoolInv, PoolTypes, InOrder, OneWorkerEach, Enrol

(* An idle worker gets the job whose number follows all that were begun; *)
(* it was queued, and nobody had it.                                     *)
LEMMA PoolBegin ==
  ASSUME PoolInv, NEW w \in Workers, Begin(w)
  PROVE  /\ PoolInv'
         /\ Head(jobs) = Len(begun) + 1 /\ Len(begun)' = Len(begun) + 1
         /\ Len(begun) + 1 <= queued
         /\ curr[w] = NoJob
         /\ curr' = [curr EXCEPT ![w] = Len(begun) + 1]
         /\ done' = done /\ queued' = queued /\ threads' = threads
         /\ shouldTerminate' = shouldTerminate
  <1> DEFINE b == Len(begun)
             k == Len(jobs)
  <1> USE DEF PoolInv, PoolTypes
  <1>1. b \in Nat /\ k \in Nat /\ b + k = queued /\ k >= 1
    <2>1. b \in Nat /\ k \in Nat /\ b + k = queued
      BY DEF InOrder
    <2>2. k # 0
      BY EmptySeq DEF Begin
    <2> HIDE DEF b, k
    <2> QED
      BY <2>1, <2>2
  <1>2. Head(jobs) = b + 1
    <2>1. Head(jobs) = jobs[1] /\ 1 \in 1..k
      BY <1>1, HeadTailProperties DEF Begin
    <2> QED
      BY <2>1 DEF InOrder
  <1>3. /\ jobs' \in Seq(Nat) /\ Len(jobs') = k - 1
        /\ \A i \in 1..(k - 1) : jobs'[i] = jobs[i + 1]
    BY HeadTailProperties DEF Begin
  <1>4. /\ begun' \in Seq(Nat) /\ Len(begun') = b + 1
        /\ \A i \in 1..b : begun'[i] = begun[i]
        /\ begun'[b + 1] = b + 1
    <2>1. begun' = Append(begun, b + 1) /\ b + 1 \in Nat
      BY <1>1, <1>2 DEF Begin
    <2> QED
      BY <2>1, AppendProperties
  <1>5. /\ curr' = [curr EXCEPT ![w] = b + 1] /\ curr[w] = NoJob
        /\ UNCHANGED <<threads, shouldTerminate, queued, done>>
    BY <1>2 DEF Begin
  <1>6. PoolTypes'
    <2>1. b + 1 \in Nat
      BY <1>1
    <2> HIDE DEF b, k
    <2> QED
      BY <1>3, <1>4, <1>5, <2>1
  <1>7. Len(begun)' = b + 1 /\ Len(jobs)' = k - 1
    BY <1>3, <1>4
  <1>8. InOrder'
    <2>1. (\A i \in 1..k : jobs[i] = b + i) /\ (\A i \in 1..b : begun[i] = i)
      BY DEF InOrder
    <2> HIDE DEF b, k
    <2>2. \A i \in 1..(k - 1) : jobs'[i] = (b + 1) + i
      BY <1>1, <1>3, <2>1
    <2>3. \A i \in 1..(b + 1) : begun'[i] = i
      BY <1>1, <1>4, <2>1
    <2>4. (b + 1) + (k - 1) = queued'
      BY <1>1, <1>5
    <2> QED
      BY <1>7, <2>2, <2>3, <2>4 DEF InOrder
  <1>9. OneWorkerEach'
    <2>1. /\ done \subseteq 1..b
          /\ \A v \in Workers : curr[v] \in Nat /\ curr[v] <= b /\ curr[v] \notin done
          /\ \A u, v \in Workers : curr[u] = curr[v] /\ curr[v] # 0 => u = v
          /\ \A n \in 1..b : n \in done \/ \E v \in Workers : curr[v] = n
      BY DEF OneWorkerEach, NoJob
    <2> HIDE DEF b, k
    <2>2. \A v \in Workers : curr'[v] = IF v = w THEN b + 1 ELSE curr[v]
      BY <1>5
    <2>3. done' = done /\ b + 1 \notin done /\ done \subseteq 1..(b + 1)
      BY <1>1, <1>5, <2>1
    <2>4. \A v \in Workers : curr'[v] <= b + 1 /\ curr'[v] \notin done
      BY <1>1, <2>1, <2>2, <2>3
    <2>5. ASSUME NEW v \in Workers PROVE curr[v] # b + 1
      <3>1. curr[v] \in Nat /\ curr[v] <= b /\ b \in Nat
        BY <1>1, <2>1
      <3> QED
        BY <3>1
    <2>6. \A u, v \in Workers : curr'[u] = curr'[v] /\ curr'[v] # 0 => u = v
      BY <2>1, <2>2, <2>5
    <2>7. ASSUME NEW n \in 1..(b + 1) PROVE n \in done \/ \E v \in Workers : curr'[v] = n
      <3>1. CASE n = b + 1
        BY <2>2, <3>1
      <3>2. CASE n # b + 1
        <4>1. n \in 1..b /\ n # 0
          BY <1>1, <3>2
        <4>2. CASE n \in done
          BY <4>2
        <4>3. CASE n \notin done
          <5>1. PICK v \in Workers : curr[v] = n
            BY <2>1, <4>1, <4>3
          <5>2. v # w
            BY <1>5, <4>1, <5>1 DEF NoJob
          <5> QED
            BY <2>2, <5>1, <5>2
        <4> QED
          BY <4>2, <4>3
      <3> QED
        BY <3>1, <3>2
    <2> QED
      BY <1>7, <2>3, <2>4, <2>6, <2>7 DEF OneWorkerEach, NoJob
  <1>10. b + 1 <= queued
    <2> HIDE DEF b, k
    <2> QED
      BY <1>1
  <1> QED
    BY <1>2, <1>5, <1>6, <1>7, <1>8, <1>9, <1>10

(* The job of a worker comes to its end. *)
LEMMA PoolEnd ==
  ASSUME PoolInv, NEW w \in Workers, End(w)
  PROVE  /\ PoolInv'
         /\ curr[w] \in 1..Len(begun) /\ curr[w] \notin done
         /\ curr' = [curr EXCEPT ![w] = NoJob]
         /\ done' = done \cup {curr[w]}
         /\ begun' = begun /\ queued' = queued /\ threads' = threads
         /\ shouldTerminate' = shouldTerminate
  <1> DEFINE b == Len(begun)
  <1> USE DEF PoolInv, PoolTypes
  <1>1. /\ curr[w] # 0 /\ curr' = [curr EXCEPT ![w] = 0] /\ done' = done \cup {curr[w]}
        /\ UNCHANGED <<threads, jobs, shouldTerminate, queued, begun>>
    BY DEF End, NoJob
  <1>2. b \in Nat /\ Len(begun)' = b
    BY <1>1
  <1>3. /\ done \subseteq 1..b
        /\ \A v \in Workers : curr[v] \in Nat /\ curr[v] <= b /\ curr[v] \notin done
        /\ \A u, v \in Workers : curr[u] = curr[v] /\ curr[v] # 0 => u = v
        /\ \A n \in 1..b : n \in done \/ \E v \in Workers : curr[v] = n
    BY DEF OneWorkerEach, NoJob
  <1>4. PoolTypes' /\ InOrder'
    BY <1>1 DEF InOrder
  <1>5. OneWorkerEach'
    <2> HIDE DEF b
    <2>1. \A v \in Workers : curr'[v] = IF v = w THEN 0 ELSE curr[v]
      BY <1>1
    <2>2. done' \subseteq 1..b
      <3>1. curr[w] \in 1..b
        BY <1>1, <1>2, <1>3
      <3> QED
        BY <1>1, <1>3, <3>1
    <2>3. \A v \in Workers : curr'[v] <= b /\ curr'[v] \notin done'
      BY <1>1, <1>2, <1>3, <2>1, <2>2
    <2>4. \A u, v \in Workers : curr'[u] = curr'[v] /\ curr'[v] # 0 => u = v
      BY <1>3, <2>1
    <2>5. \A n \in 1..b : n \in done' \/ \E v \in Workers : curr'[v] = n
      BY <1>1, <1>3, <2>1
    <2> QED
      BY <1>2, <2>2, <2>3, <2>4, <2>5 DEF OneWorkerEach, NoJob
  <1>6. curr[w] \in 1..b /\ curr[w] \notin done
    <2> HIDE DEF b
    <2> QED
      BY <1>1, <1>2, <1>3
  <1> QED
    BY <1>1, <1>4, <1>5, <1>6 DEF NoJob

(* Closing the pool leaves the queue alone. *)
LEMMA PoolClose ==
  ASSUME PoolInv, Close
  PROVE  PoolInv'
  BY DEF PoolInv, PoolTypes, InOrder, OneWorkerEach, Close

(* So does the end of its workers, who by then have no job. *)
LEMMA PoolDissolve ==
  ASSUME PoolInv, Dissolve
  PROVE  PoolInv'
  BY DEF PoolInv, PoolTypes, InOrder, OneWorkerEach, Dissolve

-----------------------------------------------------------------------------
(* In every behaviour of the pool jobs are begun in the order they were      *)
(* queued and each by one worker (queue_job, job_loop).                      *)
THEOREM PoolKeepsOrder == SafeSpec => []PoolInv
  <1>1. Init => PoolInv
    BY PoolStarts DEF Init
  <1>2. PoolInv /\ [Next]_vars => PoolInv'
    <2> SUFFICES ASSUME PoolInv, [Next]_vars PROVE PoolInv'
      OBVIOUS
    <2>1. CASE UNCHANGED vars
      BY <2>1, PoolIdle
    <2>2. CASE Submit
      BY <2>2, PoolSubmit
    <2>3. CASE Open
      BY <2>3, PoolOpen
    <2>4. CASE Close
      BY <2>4, PoolClose
    <2>5. CASE Dissolve
      BY <2>5, PoolDissolve
    <2>6. ASSUME NEW w \in Workers, Enrol(w) \/ Begin(w) \/ End(w)
          PROVE  PoolInv'
      BY <2>6, PoolEnrol, PoolBegin, PoolEnd
    <2> QED
      BY <2>1, <2>2, <2>3, <2>4, <2>5, <2>6 DEF Next
  <1> QED
    BY <1>1, <1>2, PTL DEF SafeSpec
=============================================================================

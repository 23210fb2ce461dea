-------------------------- MODULE Formatter_proofs --------------------------
(***************************************************************************)
(* Theorems of Formatter for any number of workers, any command line, any  *)
(* tree of directories, and an exception or a short write at any point:    *)
(* its types, that a file loses its text only when two threads come to it  *)
(* or a write of it falls short, that only the tail of the command line    *)
(* and of the queue is skipped, and that two threads come to a file only   *)
(* when the command line leads to it twice.                                *)
(***************************************************************************)
EXTENDS Formatter, SequenceTheorems, TLAPS

-----------------------------------------------------------------------------
(* The inductive invariant.  First what format does with a file, in any thread:
   a thread has a file exactly while it is in format; ... *)
FileTypes ==
  /\ step \in [Actors -> {"idle", "read", "truncate", "write"}]
  /\ file \in [Actors -> Files \cup {NoFile}]
  /\ result \in [Actors -> Texts]
  /\ disk \in [Files -> Texts]
  /\ written \subseteq Hill
  /\ collided \subseteq Hill /\ torn \subseteq Hill /\ missed \subseteq Files

Busy == \A a \in Actors : /\ step[a] = "idle" <=> file[a] = NoFile
                          /\ step[a] \in {"truncate", "write"} => file[a] \in Hill

(* ... without a collision no two are at the same one, ... *)
Apart == \A a, b \in Actors : a # b /\ file[a] \in Hill \ collided => file[a] # file[b]

(* ... and what a thread will write back is all of the file, when it was all there
   to be read, ... *)
Sound == (Readable \cap Files) \ (collided \cup torn)

HoldsAll ==
  \A a \in Actors :
    step[a] \in {"truncate", "write"} /\ file[a] \in Sound => result[a] = "whole"

(* ... which some thread is about to do while the file is incomplete. *)
BeingWritten ==
  \A f \in Sound :
    disk[f] = "prefix" =>
      \E a \in Actors : file[a] = f /\ step[a] = "write" /\ result[a] = "whole"

ReadOnlyKept == \A f \in Files \ Writable : disk[f] = "whole"

FileInv ==
  FileTypes /\ Busy /\ ReadOnlyKept /\ Apart /\ HoldsAll /\ BeingWritten

(* Then the main thread and the pool: a worker is in format exactly while it has
   a job, and when main has exited nobody is in format. *)
MainTypes ==
  /\ arg \in 0..Len(Args)
  /\ walk \in Seq(SUBSET (Dirs \cup Files))
  /\ main \in {"walk", "join", "exited", "terminated"}
  /\ found \in Seq(Files) /\ Len(found) = queued

Working ==
  /\ curr \in [Workers -> Nat] /\ queued \in Nat
  /\ jobs \in Seq(Nat) /\ \A i \in 1..Len(jobs) : jobs[i] \in 1..queued
  /\ \A w \in Workers : step[w] = "idle" <=> curr[w] = 0

Ending ==
  /\ main # "walk" => step[MainThread] = "idle"
  /\ main \in {"join", "exited"} => shouldTerminate = TRUE
  /\ main # "exited" => threads = Workers
  /\ main = "exited" => threads = {} /\ \A a \in Actors : step[a] = "idle"

IInv == FileInv /\ MainTypes /\ Working /\ Ending

-----------------------------------------------------------------------------
(* Coming to a file keeps what is said of files: the thread has not read it yet,
   and who else is at it is a collision. *)
LEMMA EnterKeeps ==
  ASSUME FileInv, NEW a \in Actors, step[a] = "idle", NEW f \in Files, Enter(a, f)
  PROVE  FileInv'
  <1>1. /\ file' = [file EXCEPT ![a] = f] /\ step' = [step EXCEPT ![a] = "read"]
        /\ UNCHANGED <<result, disk, written, torn, missed>>
        /\ collided' = collided \cup {g \in Hill : g = f /\ \E b \in Actors : file[b] = f}
    BY DEF Enter
  <1>2. f # NoFile /\ Sound' \subseteq Sound
    BY <1>1, TreeAssumption DEF Sound
  <1>3. FileTypes'
    BY <1>1 DEF FileInv, FileTypes
  <1>4. Busy'
    BY <1>1, <1>2 DEF FileInv, FileTypes, Busy
  <1>5. ReadOnlyKept'
    BY <1>1 DEF FileInv, ReadOnlyKept
  <1>6. Apart'
    <2>1. f \in Hill \ collided' => \A b \in Actors : file[b] # f
      BY <1>1
    <2> QED
      BY <1>1, <2>1 DEF FileInv, FileTypes, Apart
  <1>7. HoldsAll'
    BY <1>1, <1>2 DEF FileInv, FileTypes, HoldsAll
  <1>8. BeingWritten'
    <2> SUFFICES ASSUME NEW g \in Sound', disk[g] = "prefix"
                 PROVE  \E b \in Actors : file'[b] = g /\ step'[b] = "write"
                                          /\ result'[b] = "whole"
      BY <1>1 DEF BeingWritten
    <2>1. PICK b \in Actors : file[b] = g /\ step[b] = "write" /\ result[b] = "whole"
      BY <1>2 DEF FileInv, BeingWritten
    <2>2. b # a
      BY <2>1
    <2>3. file'[b] = g /\ step'[b] = "write" /\ result'[b] = "whole"
      BY <1>1, <2>1, <2>2 DEF FileInv, FileTypes
    <2> QED
      BY <2>3
  <1> QED
    BY <1>3, <1>4, <1>5, <1>6, <1>7, <1>8 DEF FileInv

(* Leaving a file, when the disk and what was read are left as they are for the
   other files, keeps it as well. *)
LEMMA LeaveKeeps ==
  ASSUME FileInv, NEW a \in Actors, step[a] # "idle", Leave(a),
         UNCHANGED <<result, collided>>, written' \subseteq Hill,
         torn \subseteq torn', torn' \subseteq Hill, missed' \subseteq Files,
         disk' \in [Files -> Texts],
         \A f \in Files : f # file[a] => disk'[f] = disk[f],
         \A f \in Files \ Writable : disk'[f] = disk[f],
         file[a] \in Sound' =>
           disk'[file[a]] = "whole" \/ (disk'[file[a]] = disk[file[a]] /\ step[a] # "write")
  PROVE  FileInv'
  <1>1. /\ file' = [file EXCEPT ![a] = NoFile] /\ step' = [step EXCEPT ![a] = "idle"]
        /\ result' = result /\ collided' = collided
    BY DEF Leave
  <1>2. FileTypes'
    BY <1>1 DEF FileInv, FileTypes
  <1>3. Busy'
    BY <1>1 DEF FileInv, FileTypes, Busy
  <1>4. ReadOnlyKept'
    BY <1>1 DEF FileInv, ReadOnlyKept
  <1>5. Apart'
    <2>1. NoFile \notin Hill
      BY TreeAssumption DEF Files
    <2> QED
      BY <1>1, <2>1 DEF FileInv, FileTypes, Apart
  <1>6. Sound' \subseteq Sound
    BY <1>1 DEF Sound
  <1>7. HoldsAll'
    BY <1>1, <1>6 DEF FileInv, FileTypes, HoldsAll
  <1>8. BeingWritten'
    <2> SUFFICES ASSUME NEW f \in Sound', disk'[f] = "prefix"
                 PROVE  \E b \in Actors : file'[b] = f /\ step'[b] = "write"
                                          /\ result'[b] = "whole"
      BY DEF BeingWritten
    <2>1. disk[f] = "prefix" /\ (f = file[a] => step[a] # "write")
      BY DEF Sound
    <2>2. PICK b \in Actors : file[b] = f /\ step[b] = "write" /\ result[b] = "whole"
      BY <1>6, <2>1 DEF FileInv, BeingWritten
    <2>3. b # a
      BY <2>1, <2>2
    <2>4. file'[b] = f /\ step'[b] = "write" /\ result'[b] = "whole"
      BY <1>1, <2>2, <2>3 DEF FileInv, FileTypes
    <2> QED
      BY <2>4
  <1> QED
    BY <1>2, <1>3, <1>4, <1>5, <1>7, <1>8 DEF FileInv

(* So does reading it: nobody else can have truncated it. *)
LEMMA ReadKeeps ==
  ASSUME FileInv, NEW a \in Actors, Read(a)
  PROVE  FileInv'
  <1>1. /\ step[a] = "read" /\ file[a] \in Hill
        /\ result' = [result EXCEPT ![a] = IF file[a] \in Readable THEN disk[file[a]] ELSE "prefix"]
        /\ step' = [step EXCEPT ![a] = "truncate"]
        /\ UNCHANGED <<file, disk, written, collided, torn, missed>>
    BY DEF Read
  <1>2. FileTypes'
    BY <1>1 DEF FileInv, FileTypes, Texts, Files
  <1>3. Busy' /\ ReadOnlyKept'
    BY <1>1 DEF FileInv, FileTypes, Busy, ReadOnlyKept
  <1>4. Apart' /\ Sound' = Sound
    BY <1>1 DEF FileInv, FileTypes, Apart, Sound
  <1>5. file[a] \in Sound => disk[file[a]] = "whole"
    <2> SUFFICES ASSUME file[a] \in Sound, disk[file[a]] # "whole" PROVE FALSE
      OBVIOUS
    <2>1. disk[file[a]] = "prefix" /\ file[a] \in Hill \ collided
      BY <1>1 DEF FileInv, FileTypes, Files, Texts, Sound
    <2>2. PICK b \in Actors : file[b] = file[a] /\ step[b] = "write"
      BY <2>1 DEF FileInv, BeingWritten
    <2>3. a # b
      BY <1>1, <2>2
    <2> QED
      BY <2>1, <2>2, <2>3 DEF FileInv, Apart
  <1>6. HoldsAll'
    <2>1. file[a] \in Sound => result'[a] = "whole"
      BY <1>1, <1>5 DEF FileInv, FileTypes, Sound
    <2> QED
      BY <1>1, <1>4, <2>1 DEF FileInv, FileTypes, HoldsAll
  <1>7. BeingWritten'
    <2> SUFFICES ASSUME NEW f \in Sound, disk[f] = "prefix"
                 PROVE  \E b \in Actors : file'[b] = f /\ step'[b] = "write"
                                          /\ result'[b] = "whole"
      BY <1>1, <1>4 DEF BeingWritten
    <2>1. PICK b \in Actors : file[b] = f /\ step[b] = "write" /\ result[b] = "whole"
      BY DEF FileInv, BeingWritten
    <2>2. file'[b] = f /\ step'[b] = "write" /\ result'[b] = "whole"
      BY <1>1, <2>1 DEF FileInv, FileTypes
    <2> QED
      BY <2>2
  <1> QED
    BY <1>2, <1>3, <1>4, <1>6, <1>7 DEF FileInv

(* And truncating it: from here on the thread itself is the one about to write. *)
LEMMA TruncateKeeps ==
  ASSUME FileInv, NEW a \in Actors, Truncate(a)
  PROVE  FileInv'
  <1>1. /\ step[a] = "truncate" /\ file[a] \in Files
        /\ disk' = [disk EXCEPT ![file[a]] = IF file[a] \in Writable THEN "prefix" ELSE @]
        /\ step' = [step EXCEPT ![a] = "write"]
        /\ UNCHANGED <<file, result, written, collided, torn, missed>>
    BY DEF Truncate, FileInv, Busy, Files
  <1>2. FileTypes'
    BY <1>1 DEF FileInv, FileTypes, Texts
  <1>3. Busy' /\ ReadOnlyKept'
    BY <1>1 DEF FileInv, FileTypes, Busy, ReadOnlyKept
  <1>4. Sound' = Sound
    BY <1>1 DEF Sound
  <1>5. Apart' /\ HoldsAll'
    BY <1>1, <1>4 DEF FileInv, FileTypes, Apart, HoldsAll
  <1>6. BeingWritten'
    <2> SUFFICES ASSUME NEW f \in Sound, disk'[f] = "prefix"
                 PROVE  \E b \in Actors : file'[b] = f /\ step'[b] = "write"
                                          /\ result'[b] = "whole"
      BY <1>4 DEF BeingWritten
    <2>1. CASE f = file[a]
      <3>1. result[a] = "whole"
        BY <1>1, <2>1 DEF FileInv, HoldsAll
      <3> QED
        BY <1>1, <2>1, <3>1 DEF FileInv, FileTypes
    <2>2. CASE f # file[a]
      <3>1. disk[f] = "prefix"
        BY <1>1, <2>2 DEF FileInv, FileTypes, Sound
      <3>2. PICK b \in Actors : file[b] = f /\ step[b] = "write" /\ result[b] = "whole"
        BY <3>1 DEF FileInv, BeingWritten
      <3>3. file'[b] = f /\ step'[b] = "write" /\ result'[b] = "whole"
        BY <1>1, <3>2 DEF FileInv, FileTypes
      <3> QED
        BY <3>3
    <2> QED
      BY <2>1, <2>2
  <1> QED
    BY <1>2, <1>3, <1>5, <1>6 DEF FileInv

(* What a thread does in format(path), and a worker that gives its file up. *)
InFormat(a) == Format(a) \/ (Running /\ a \in Workers /\ GiveUp(a))

(* It keeps what is said of files. *)
LEMMA FormatKeeps ==
  ASSUME FileInv, NEW a \in Actors, InFormat(a)
  PROVE  FileInv'
  <1>0. disk \in [Files -> Texts] /\ written \subseteq Hill /\ torn \subseteq Hill
        /\ missed \subseteq Files
    BY DEF FileInv, FileTypes
  <1>1. CASE Read(a)
    BY <1>1, ReadKeeps
  <1>2. CASE Truncate(a)
    BY <1>2, TruncateKeeps
  <1>3. CASE SkipOther(a)
    <2>1. /\ step[a] # "idle" /\ step[a] # "write" /\ Leave(a)
          /\ UNCHANGED <<result, disk, written, collided, torn, missed>>
      BY <1>3 DEF SkipOther
    <2> QED
      BY <1>0, <2>1, LeaveKeeps
  <1>4. CASE GiveUp(a)
    <2>1. /\ step[a] # "idle" /\ step[a] # "write" /\ Leave(a)
          /\ UNCHANGED <<result, disk, written, collided, torn>>
          /\ missed' = missed \cup {file[a]}
      BY <1>4 DEF GiveUp
    <2>2. missed' \subseteq Files
      BY <1>0, <2>1 DEF FileInv, FileTypes, Busy
    <2> QED
      BY <1>0, <2>1, <2>2, LeaveKeeps
  <1>5. CASE Write(a)
    <2>1. /\ step[a] = "write" /\ Leave(a) /\ UNCHANGED <<result, collided, missed>>
          /\ written' = written \cup {file[a]}
      BY <1>5 DEF Write
    <2>2. \/ /\ disk' = [disk EXCEPT ![file[a]] = IF file[a] \in Writable THEN result[a] ELSE @]
             /\ torn' = torn
          \/ /\ disk' = [disk EXCEPT ![file[a]] = "prefix"] /\ file[a] \in Writable
             /\ torn' = torn \cup {file[a]}
      BY <1>5 DEF Write
    <2>3. file[a] \in Hill /\ file[a] \in Files /\ result[a] \in Texts /\ written' \subseteq Hill
      BY <1>0, <2>1 DEF FileInv, FileTypes, Busy, Files
    <2>4. /\ disk' \in [Files -> Texts]
          /\ \A f \in Files : f # file[a] => disk'[f] = disk[f]
          /\ \A f \in Files \ Writable : disk'[f] = disk[f]
          /\ torn \subseteq torn' /\ torn' \subseteq Hill
      BY <1>0, <2>2, <2>3 DEF Texts
    <2>5. file[a] \in Sound' => disk'[file[a]] = "whole"
      <3> SUFFICES ASSUME file[a] \in Sound' PROVE disk'[file[a]] = "whole"
        OBVIOUS
      <3>1. file[a] \in Sound /\ file[a] \notin torn'
        BY <2>1, <2>4 DEF Sound
      <3>2. disk' = [disk EXCEPT ![file[a]] = IF file[a] \in Writable THEN result[a] ELSE @]
        BY <2>2, <3>1
      <3>3. result[a] = "whole"
        BY <2>1, <3>1 DEF FileInv, HoldsAll
      <3>4. file[a] \notin Writable => disk[file[a]] = "whole"
        BY <2>3 DEF FileInv, ReadOnlyKept
      <3> QED
        BY <1>0, <2>3, <3>2, <3>3, <3>4
    <2> QED
      BY <1>0, <2>1, <2>3, <2>4, <2>5, LeaveKeeps
  <1> QED
    BY <1>1, <1>2, <1>3, <1>4, <1>5 DEF Format, InFormat
-----------------------------------------------------------------------------
(* What format does for the main thread and the pool: only leaving a file is
   seen there, and only of a worker. *)
LEMMA FormatOutside ==
  ASSUME IInv, NEW a \in Actors, InFormat(a)
  PROVE  MainTypes' /\ Working' /\ Ending'
  <1>1. UNCHANGED <<arg, walk, main, found>>
    BY DEF InFormat, GiveUp, Format, SkipOther, Read, Truncate, Write
  <1>2. UNCHANGED <<jobs, queued, threads, shouldTerminate>>
    BY DEF InFormat, GiveUp, Format, SkipOther, Read, Truncate, Write, Leave, poolVars, Pool!End
  <1>3. step[a] # "idle" /\ step \in [Actors -> {"idle", "read", "truncate", "write"}]
    BY DEF IInv, FileInv, FileTypes, InFormat, GiveUp, Format, SkipOther, Read, Truncate, Write
  <1>4. MainTypes'
    BY <1>1, <1>2 DEF IInv, MainTypes
  <1>5. Working'
    <2>1. CASE SkipOther(a) \/ GiveUp(a) \/ Write(a)
      <3>1. Leave(a) /\ step' = [step EXCEPT ![a] = "idle"]
        BY <2>1 DEF SkipOther, GiveUp, Write, Leave
      <3>2. CASE a = MainThread
        <4>1. curr' = curr /\ \A w \in Workers : step'[w] = step[w]
          BY <1>3, <3>1, <3>2, WorkersAssumption DEF Leave, poolVars, Actors
        <4> QED
          BY <1>2, <4>1 DEF IInv, Working
      <3>3. CASE a # MainThread
        <4>1. a \in Workers /\ curr' = [curr EXCEPT ![a] = 0]
          BY <3>1, <3>3 DEF Leave, Actors, Pool!End, Pool!NoJob
        <4>2. \A w \in Workers : step'[w] = IF w = a THEN "idle" ELSE step[w]
          BY <1>3, <3>1 DEF Actors
        <4>3. curr' \in [Workers -> Nat]
          BY <4>1 DEF IInv, Working
        <4>4. \A w \in Workers : step'[w] = "idle" <=> curr'[w] = 0
          BY <4>1, <4>2 DEF IInv, Working
        <4> QED
          BY <1>2, <4>3, <4>4 DEF IInv, Working
      <3> QED
        BY <3>2, <3>3
    <2>2. CASE Read(a) \/ Truncate(a)
      <3>1. curr' = curr /\ \A w \in Workers : step'[w] = "idle" <=> step[w] = "idle"
        BY <1>3, <2>2 DEF Read, Truncate, poolVars, Actors
      <3> QED
        BY <1>2, <3>1 DEF IInv, Working
    <2> QED
      BY <2>1, <2>2 DEF Format, InFormat
  <1>6. Ending'
    <2>1. main # "exited" /\ (main # "walk" => a # MainThread)
      BY <1>3 DEF IInv, Ending
    <2>2. a # MainThread => step'[MainThread] = step[MainThread]
      BY <1>3 DEF InFormat, GiveUp, Format, SkipOther, Read, Truncate, Write, Leave, Actors
    <2> QED
      BY <1>1, <1>2, <2>1, <2>2 DEF IInv, Ending
  <1> QED
    BY <1>4, <1>5, <1>6

(* A step of the main thread keeps the invariant. *)
LEMMA MainKeeps ==
  ASSUME IInv, Main
  PROVE  IInv'
  <1>1. UNCHANGED fileVars => FileInv'
    BY DEF IInv, fileVars, FileInv, FileTypes, Busy, ReadOnlyKept, Apart, HoldsAll, BeingWritten,
           Sound
  <1>2. UNCHANGED poolVars /\ step' = step => Working'
    BY DEF IInv, Working, poolVars
  <1>3. UNCHANGED poolVars /\ step' = step /\ main' = main => Ending'
    BY DEF IInv, Ending, poolVars
  <1>4. CASE NextArg
    <2>1. /\ main = "walk" /\ step[MainThread] = "idle" /\ walk = <<>> /\ arg < Len(Args)
          /\ arg' = arg + 1 /\ main' = main /\ found' = found /\ UNCHANGED poolVars
      BY <1>4 DEF NextArg, Walking
    <2>2. arg' \in 0..Len(Args)
      BY <2>1, ArgsAssumption DEF IInv, MainTypes
    <2> DEFINE path == Args[arg + 1]
    <2>3. CASE path \notin Files
      <3>1. UNCHANGED fileVars /\ (walk' = walk \/ (path \in Dirs /\ walk' = <<Children[path]>>))
        BY <1>4, <2>3 DEF NextArg
      <3>2. walk' \in Seq(SUBSET (Dirs \cup Files))
        <4>1. CASE walk' = walk
          BY <4>1 DEF IInv, MainTypes
        <4>2. CASE path \in Dirs /\ walk' = <<Children[path]>>
          <5>1. Children[path] \in SUBSET (Dirs \cup Files)
            BY <4>2, TreeAssumption
          <5> QED
            BY <4>2, <5>1
        <4> QED
          BY <3>1, <4>1, <4>2
      <3>3. MainTypes'
        BY <2>1, <2>2, <3>2 DEF IInv, MainTypes, poolVars
      <3> QED
        BY <1>1, <1>2, <1>3, <2>1, <3>1, <3>3 DEF IInv, fileVars
    <2>4. CASE path \in Files
      <3>1. Enter(MainThread, path) /\ walk' = walk
        BY <1>4, <2>1, <2>4, TreeAssumption DEF NextArg
      <3>2. FileInv'
        BY <2>1, <2>4, <3>1, EnterKeeps DEF IInv, Actors
      <3>3. \A w \in Workers : step'[w] = step[w]
        BY <3>1, WorkersAssumption DEF Enter, IInv, FileInv, FileTypes, Actors
      <3>4. Working'
        BY <2>1, <3>3 DEF IInv, Working, poolVars
      <3>5. MainTypes' /\ Ending'
        BY <2>1, <2>2, <3>1 DEF IInv, MainTypes, Ending, poolVars
      <3> QED
        BY <3>2, <3>4, <3>5 DEF IInv
    <2> QED
      BY <2>3, <2>4
  <1>5. ASSUME NEW e \in Dirs \cup Files, Descend(e) PROVE IInv'
    <2>1. /\ UNCHANGED <<arg, main, found, fileVars, poolVars>> /\ walk # <<>>
          /\ walk' = Append([walk EXCEPT ![Len(walk)] = @ \ {e}], Children[e]) /\ e \in Dirs
      BY <1>5 DEF Descend, Rest
    <2>2. walk' \in Seq(SUBSET (Dirs \cup Files))
      BY <2>1, TreeAssumption DEF IInv, MainTypes
    <2> QED
      BY <1>1, <1>2, <1>3, <2>1, <2>2 DEF IInv, MainTypes, fileVars, poolVars
  <1>6. ASSUME NEW e \in Dirs \cup Files, QueueFile(e) PROVE IInv'
    <2>1. /\ UNCHANGED <<arg, main, fileVars>> /\ walk # <<>> /\ e \in Files
          /\ walk' = [walk EXCEPT ![Len(walk)] = @ \ {e}]
          /\ found' = Append(found, e) /\ queued' = queued + 1 /\ jobs' = Append(jobs, queued + 1)
          /\ UNCHANGED <<threads, curr, shouldTerminate>>
      BY <1>6 DEF QueueFile, Rest, Pool!Submit
    <2>2. walk' \in Seq(SUBSET (Dirs \cup Files))
      BY <2>1 DEF IInv, MainTypes
    <2>3. MainTypes'
      <3>1. found \in Seq(Files) /\ Len(found) = queued
        BY DEF IInv, MainTypes
      <3>2. Append(found, e) \in Seq(Files) /\ Len(Append(found, e)) = Len(found) + 1
        BY <2>1, <3>1
      <3>3. found' \in Seq(Files) /\ Len(found') = queued'
        BY <2>1, <3>1, <3>2
      <3>4. arg' \in 0..Len(Args) /\ main' \in {"walk", "join", "exited", "terminated"}
        BY <2>1 DEF IInv, MainTypes
      <3> QED
        BY <2>2, <3>3, <3>4 DEF MainTypes
    <2>4. Working'
      <3>1. jobs' \in Seq(Nat) /\ \A j \in 1..Len(jobs') : jobs'[j] \in 1..queued'
        BY <2>1 DEF IInv, Working
      <3> QED
        BY <2>1, <3>1 DEF IInv, Working, fileVars
    <2>5. Ending'
      BY <2>1 DEF IInv, Ending, fileVars
    <2> QED
      BY <1>1, <2>1, <2>3, <2>4, <2>5 DEF IInv
  <1>7. CASE Ascend
    <2>1. /\ UNCHANGED <<arg, main, found, fileVars, poolVars>> /\ walk # <<>>
          /\ walk' = SubSeq(walk, 1, Len(walk) - 1)
      BY <1>7 DEF Ascend
    <2>2. walk' \in Seq(SUBSET (Dirs \cup Files))
      BY <2>1 DEF IInv, MainTypes
    <2> QED
      BY <1>1, <1>2, <1>3, <2>1, <2>2 DEF IInv, MainTypes, fileVars, poolVars
  <1>8. CASE Stop
    <2>1. /\ main = "walk" /\ step[MainThread] = "idle" /\ main' = "join" /\ shouldTerminate' = TRUE
          /\ UNCHANGED <<arg, walk, found, fileVars, threads, curr, jobs, queued>>
      BY <1>8 DEF Stop, Walking, Pool!Close
    <2> QED
      BY <1>1, <2>1 DEF IInv, MainTypes, Working, Ending, fileVars
  <1>9. CASE Join
    <2>1. /\ main = "join" /\ main' = "exited" /\ threads' = {}
          /\ \A w \in threads : curr[w] = 0
          /\ UNCHANGED <<arg, walk, found, fileVars, curr, jobs, shouldTerminate, queued>>
      BY <1>9 DEF Join, Pool!Dissolve, Pool!NoJob
    <2>2. \A a \in Actors : step[a] = "idle"
      <3>1. threads = Workers /\ step[MainThread] = "idle"
        BY <2>1 DEF IInv, Ending
      <3>2. \A w \in Workers : step[w] = "idle"
        BY <2>1, <3>1 DEF IInv, Working
      <3> QED
        BY <3>1, <3>2 DEF Actors
    <2> QED
      BY <1>1, <2>1, <2>2 DEF IInv, MainTypes, Working, Ending, fileVars
  <1> QED
    BY <1>4, <1>5, <1>6, <1>7, <1>8, <1>9 DEF Main

(* So does an exception in it, which changes nothing but that it is there. *)
LEMMA ThrowKeeps ==
  ASSUME IInv, Throw
  PROVE  IInv'
  <1>1. /\ main = "walk" /\ step[MainThread] = "idle" /\ main' = "terminated"
        /\ UNCHANGED <<arg, walk, found, fileVars, poolVars>>
    BY DEF Throw, Walking
  <1>2. FileInv'
    BY <1>1 DEF IInv, fileVars, FileInv, FileTypes, Busy, ReadOnlyKept, Apart, HoldsAll,
                BeingWritten, Sound
  <1>3. MainTypes' /\ Working' /\ Ending'
    BY <1>1 DEF IInv, MainTypes, Working, Ending, fileVars, poolVars
  <1> QED
    BY <1>2, <1>3 DEF IInv

(* So does a worker that takes a job: its number is that of a file that was
   found. *)
LEMMA BeginKeeps ==
  ASSUME IInv, NEW w \in Workers, BeginJob(w)
  PROVE  IInv'
  <1>1. /\ w \in threads /\ curr[w] = 0 /\ jobs # <<>> /\ ~shouldTerminate
        /\ curr' = [curr EXCEPT ![w] = Head(jobs)] /\ jobs' = Tail(jobs)
        /\ Enter(w, found[Head(jobs)])
        /\ UNCHANGED <<threads, shouldTerminate, queued, arg, walk, main, found>>
        /\ main # "terminated"
    <2>1. curr' = [curr EXCEPT ![w] = Head(jobs)] /\ curr \in [Workers -> Nat]
      BY DEF BeginJob, Pool!Begin, IInv, Working
    <2>2. curr'[w] = Head(jobs)
      BY <2>1
    <2> QED
      BY <2>2 DEF BeginJob, Running, Pool!Begin, Pool!NoJob
  <1>2. Head(jobs) \in 1..queued /\ Head(jobs) \in Nat /\ found[Head(jobs)] \in Files
    BY <1>1 DEF IInv, Working, MainTypes
  <1>3. step[w] = "idle" /\ w \in Actors
    BY <1>1 DEF IInv, Working, Actors
  <1>4. FileInv'
    BY <1>1, <1>2, <1>3, EnterKeeps DEF IInv
  <1>5. step' = [step EXCEPT ![w] = "read"] /\ step \in [Actors -> {"idle", "read", "truncate", "write"}]
    BY <1>1 DEF Enter, IInv, FileInv, FileTypes
  <1>6. Working'
    <2>1. curr' \in [Workers -> Nat]
      BY <1>1, <1>2 DEF IInv, Working
    <2>2. jobs' \in Seq(Nat) /\ \A i \in 1..Len(jobs') : jobs'[i] \in 1..queued'
      BY <1>1 DEF IInv, Working
    <2>3. ASSUME NEW v \in Workers PROVE step'[v] = "idle" <=> curr'[v] = 0
      <3>1. v \in Actors /\ curr \in [Workers -> Nat] /\ (step[v] = "idle" <=> curr[v] = 0)
        BY DEF IInv, Working, Actors
      <3>2. CASE v = w
        <4>1. step'[v] = "read" /\ curr'[v] = Head(jobs)
          BY <1>1, <1>5, <3>1, <3>2
        <4>2. Head(jobs) # 0
          BY <1>2 DEF IInv, Working
        <4> QED
          BY <4>1, <4>2
      <3>3. CASE v # w
        <4>1. step'[v] = step[v] /\ curr'[v] = curr[v]
          BY <1>1, <1>5, <3>1, <3>3
        <4> QED
          BY <3>1, <4>1
      <3> QED
        BY <3>2, <3>3
    <2> QED
      BY <1>1, <2>1, <2>2, <2>3 DEF IInv, Working
  <1>7. MainTypes'
    BY <1>1 DEF IInv, MainTypes
  <1>8. Ending'
    <2>1. main = "walk"
      BY <1>1 DEF IInv, Ending, MainTypes
    <2> QED
      BY <1>1, <2>1 DEF IInv, Ending
  <1> QED
    BY <1>4, <1>6, <1>7, <1>8 DEF IInv

(* The process begins with every file whole and nobody at any. *)
LEMMA InitInv == Init => IInv
  <1> SUFFICES ASSUME Init PROVE IInv
    OBVIOUS
  <1>1. FileInv
    BY TreeAssumption DEF Init, FileInv, FileTypes, Busy, ReadOnlyKept, Apart, HoldsAll,
                          BeingWritten, Sound, Texts, Files
  <1>2. MainTypes /\ Working /\ Ending
    BY ArgsAssumption, WorkersAssumption DEF Init, MainTypes, Working, Ending, Pool!NoJob, Actors
  <1> QED
    BY <1>1, <1>2 DEF IInv

(* Whatever the threads do, and in whatever order, the invariant holds. *)
THEOREM Invariant == Spec => []IInv
  <1>1. IInv /\ UNCHANGED vars => IInv'
    BY DEF IInv, vars, fileVars, poolVars, FileInv, FileTypes, Busy, ReadOnlyKept, Apart,
           HoldsAll, BeingWritten, Sound, MainTypes, Working, Ending
  <1>2. IInv /\ Next => IInv'
    <2> SUFFICES ASSUME IInv, Next PROVE IInv'
      OBVIOUS
    <2>1. ASSUME NEW a \in Actors, InFormat(a) PROVE IInv'
      BY <2>1, FormatKeeps, FormatOutside DEF IInv
    <2> QED
      BY <2>1, MainKeeps, ThrowKeeps, BeginKeeps DEF Next, InFormat, Actors
  <1> QED
    BY InitInv, <1>1, <1>2, PTL DEF Spec

(* The state of the formatter has its types. *)
THEOREM TypeCorrect == Spec => []TypeOK
  <1>1. IInv => TypeOK
    BY DEF IInv, FileInv, FileTypes, MainTypes, TypeOK
  <1> QED
    BY Invariant, <1>1, PTL
-----------------------------------------------------------------------------
(* What is skipped.  The queue is first in, first out, as JobPool_proofs has it
   for any owner of a pool; ... *)
Queue == INSTANCE JobPool_proofs WITH MaxJobs <- MaxFound

(* ... a worker in job n is at the file n; ... *)
AtItsFile == \A w \in Workers : curr[w] # 0 => file[w] = found[curr[w]]

(* ... a job that is over has written its file back or given it up; ... *)
DoneIsWritten == \A n \in done : found[n] \in Hill => found[n] \in written \cup missed

(* ... and so has main every file it was given, except the one it is at; it ends
   the pool when it has come to its last argument. *)
NamedAreWritten ==
  \A i \in 1..arg : Args[i] \in Hill => Args[i] \in written \/ file[MainThread] = Args[i]

TailInv ==
  /\ Queue!PoolInv /\ AtItsFile /\ DoneIsWritten /\ NamedAreWritten
  /\ main \in {"join", "exited"} => arg = Len(Args)
(* What is said of written files is about the files that are found, and their
   number is the pool's. *)
LEMMA FoundBounds ==
  ASSUME IInv, TailInv
  PROVE  /\ queued \in Nat /\ Len(found) = queued /\ found \in Seq(Files)
         /\ Len(begun) \in Nat /\ Len(begun) <= queued
         /\ \A n \in done : n \in 1..queued
         /\ \A w \in Workers : curr[w] # 0 => curr[w] \in 1..queued
  <1> DEFINE b == Len(begun)
             k == Len(jobs)
  <1>1. queued \in Nat /\ Len(found) = queued /\ found \in Seq(Files)
    BY DEF IInv, MainTypes, Working
  <1>2. /\ begun \in Seq(Nat) /\ jobs \in Seq(Nat) /\ curr \in [Workers -> Nat]
        /\ b + k = queued /\ done \subseteq 1..b
        /\ \A w \in Workers : curr[w] <= b
    BY DEF TailInv, Queue!PoolInv, Queue!PoolTypes, Queue!InOrder, Queue!OneWorkerEach
  <1>3. b \in Nat /\ k \in Nat
    BY <1>2
  <1> HIDE DEF b, k
  <1>4. b <= queued
    BY <1>1, <1>2, <1>3
  <1>5. ASSUME NEW n \in done PROVE n \in 1..queued
    BY <1>1, <1>2, <1>3, <1>4
  <1>6. ASSUME NEW w \in Workers, curr[w] # 0 PROVE curr[w] \in 1..queued
    <2>1. curr[w] \in Nat /\ curr[w] <= b
      BY <1>2
    <2> QED
      BY <1>1, <1>3, <1>4, <1>6, <2>1
  <1> QED
    BY <1>1, <1>3, <1>4, <1>5, <1>6 DEF b

(* A thread leaves a file when it has written it back, or when it need not be
   formatted; a worker also when it gives the file up. *)
LEMMA FormatKeepsTail ==
  ASSUME IInv, TailInv, NEW a \in Actors, InFormat(a)
  PROVE  TailInv'
  <1>1. /\ UNCHANGED <<arg, walk, main, found>>
        /\ step[a] # "idle" /\ file \in [Actors -> Files \cup {NoFile}]
        /\ curr \in [Workers -> Nat]
    BY DEF InFormat, GiveUp, Format, SkipOther, Read, Truncate, Write, IInv, FileInv, FileTypes, Working
  <1>2. CASE Read(a) \/ Truncate(a)
    <2>1. UNCHANGED <<file, written, missed>> /\ UNCHANGED poolVars
      BY <1>2 DEF Read, Truncate
    <2>2. Queue!PoolInv'
      BY <2>1, Queue!PoolIdle DEF TailInv, Queue!vars, poolVars
    <2> QED
      BY <1>1, <2>1, <2>2
         DEF TailInv, AtItsFile, DoneIsWritten, NamedAreWritten, poolVars
  <1>3. CASE SkipOther(a) \/ (a \in Workers /\ GiveUp(a)) \/ Write(a)
    <2>1. /\ Leave(a)
          /\ written \subseteq written' /\ missed \subseteq missed'
          /\ file[a] \in Hill => file[a] \in written' \cup missed'
          /\ a = MainThread /\ file[a] \in Hill => file[a] \in written'
      <3>1. CASE SkipOther(a)
        <4>1. file[a] \notin Hill
          BY <3>1, TreeAssumption DEF SkipOther
        <4> QED
          BY <3>1, <4>1 DEF SkipOther
      <3>2. CASE Write(a)
        BY <3>2 DEF Write
      <3>3. CASE a \in Workers /\ GiveUp(a)
        BY <3>3, WorkersAssumption DEF GiveUp
      <3> QED
        BY <1>3, <3>1, <3>2, <3>3
    <2>2. file' = [file EXCEPT ![a] = NoFile]
      BY <2>1 DEF Leave
    <2>3. NamedAreWritten'
      <3> SUFFICES ASSUME NEW i \in 1..arg, Args[i] \in Hill
                   PROVE  Args[i] \in written' \/ file'[MainThread] = Args[i]
        BY <1>1 DEF NamedAreWritten
      <3>1. Args[i] \in written \/ file[MainThread] = Args[i]
        BY DEF TailInv, NamedAreWritten
      <3> QED
        BY <1>1, <2>1, <2>2, <3>1 DEF Actors
    <2>4. CASE a = MainThread
      <3>1. UNCHANGED poolVars
        BY <2>1, <2>4 DEF Leave
      <3>2. Queue!PoolInv'
        BY <3>1, Queue!PoolIdle DEF TailInv, Queue!vars, poolVars
      <3>3. AtItsFile'
        <4>1. \A w \in Workers : file'[w] = file[w]
          BY <1>1, <2>2, <2>4, WorkersAssumption DEF Actors
        <4> QED
          BY <1>1, <3>1, <4>1 DEF TailInv, AtItsFile, poolVars
      <3>4. DoneIsWritten'
        BY <1>1, <2>1, <3>1 DEF TailInv, DoneIsWritten, poolVars
      <3> QED
        BY <1>1, <2>3, <3>2, <3>3, <3>4 DEF TailInv
    <2>5. CASE a # MainThread
      <3>1. a \in Workers /\ Pool!End(a)
        BY <2>1, <2>5 DEF Leave, Actors
      <3>2. /\ Queue!PoolInv' /\ curr[a] # 0
            /\ curr' = [curr EXCEPT ![a] = 0] /\ done' = done \cup {curr[a]}
        <4>1. Queue!End(a)
          BY <3>1 DEF Pool!End, Queue!End, Pool!NoJob, Queue!NoJob
        <4> QED
          BY <3>1, <4>1, Queue!PoolEnd DEF TailInv, Queue!End, Queue!NoJob
      <3>3. file[a] = found[curr[a]]
        BY <3>1, <3>2 DEF TailInv, AtItsFile
      <3>4. AtItsFile'
        <4> SUFFICES ASSUME NEW w \in Workers, curr'[w] # 0
                     PROVE  file'[w] = found[curr'[w]]
          BY <1>1 DEF AtItsFile
        <4>1. w # a /\ curr'[w] = curr[w]
          BY <1>1, <3>1, <3>2
        <4>2. file'[w] = file[w]
          BY <1>1, <2>2, <4>1 DEF Actors
        <4> QED
          BY <4>1, <4>2 DEF TailInv, AtItsFile
      <3>5. DoneIsWritten'
        BY <1>1, <2>1, <3>2, <3>3 DEF TailInv, DoneIsWritten
      <3> QED
        BY <1>1, <2>3, <3>2, <3>4, <3>5 DEF TailInv
    <2> QED
      BY <2>4, <2>5
  <1> QED
    BY <1>2, <1>3 DEF Format, InFormat

(* The main thread comes to its next argument when it is done with the last, and
   ends the pool when it is done with all. *)
LEMMA MainKeepsTail ==
  ASSUME IInv, TailInv, Main
  PROVE  TailInv'
  <1>1. UNCHANGED poolVars => Queue!PoolInv'
    BY Queue!PoolIdle DEF TailInv, Queue!vars, poolVars
  <1>2. ASSUME UNCHANGED <<arg, main, found, fileVars, poolVars>> PROVE TailInv'
    BY <1>1, <1>2
       DEF TailInv, AtItsFile, DoneIsWritten, NamedAreWritten, fileVars, poolVars
  <1>3. CASE Ascend
    BY <1>2, <1>3 DEF Ascend
  <1>4. ASSUME NEW e \in Dirs \cup Files, Descend(e) PROVE TailInv'
    BY <1>2, <1>4 DEF Descend
  <1>5. ASSUME NEW e \in Dirs \cup Files, QueueFile(e) PROVE TailInv'
    <2>1. /\ UNCHANGED <<arg, main, fileVars>>
          /\ found' = Append(found, e) /\ e \in Files /\ Pool!Submit
      BY <1>5 DEF QueueFile
    <2>2. Queue!PoolInv' /\ UNCHANGED <<curr, done>>
      <3>1. Queue!Submit
        BY <2>1 DEF Pool!Submit, Queue!Submit
      <3> QED
        BY <3>1, Queue!PoolSubmit DEF TailInv, Queue!Submit
    <2>3. \A n \in 1..queued : found'[n] = found[n]
      BY <2>1, FoundBounds, AppendProperties
    <2>4. AtItsFile'
      <3> SUFFICES ASSUME NEW w \in Workers, curr[w] # 0
                   PROVE  file[w] = found'[curr[w]]
        BY <2>1, <2>2 DEF AtItsFile, fileVars
      <3>1. curr[w] \in 1..queued
        BY FoundBounds
      <3> QED
        BY <2>3, <3>1 DEF TailInv, AtItsFile
    <2>5. DoneIsWritten'
      <3> SUFFICES ASSUME NEW n \in done, found'[n] \in Hill
                   PROVE  found'[n] \in written \cup missed
        BY <2>1, <2>2 DEF DoneIsWritten, fileVars
      <3>1. n \in 1..queued
        BY FoundBounds
      <3> QED
        BY <2>3, <3>1 DEF TailInv, DoneIsWritten
    <2> QED
      BY <2>1, <2>2, <2>4, <2>5 DEF TailInv, NamedAreWritten, fileVars
  <1>6. CASE NextArg
    <2> DEFINE path == Args[arg + 1]
    <2>1. /\ main = "walk" /\ step[MainThread] = "idle" /\ arg < Len(Args) /\ arg' = arg + 1
          /\ UNCHANGED <<main, found>> /\ UNCHANGED poolVars
      BY <1>6 DEF NextArg, Walking
    <2>2. arg \in Nat /\ \A i \in 1..(arg + 1) : i \in 1..arg \/ i = arg + 1
      BY ArgsAssumption DEF IInv, MainTypes
    <2>3. file[MainThread] \notin Hill
      BY <2>1, TreeAssumption DEF IInv, FileInv, Busy, Actors, Files
    <2>4. \A i \in 1..arg : Args[i] \in Hill => Args[i] \in written
      BY <2>3 DEF TailInv, NamedAreWritten
    <2>5. CASE path \notin Files
      <3>1. UNCHANGED fileVars
        BY <1>6, <2>5 DEF NextArg
      <3>2. path \notin Hill
        BY <2>5 DEF Files
      <3>3. NamedAreWritten'
        BY <2>1, <2>2, <2>4, <3>1, <3>2 DEF NamedAreWritten, fileVars
      <3> QED
        BY <1>1, <2>1, <3>1, <3>3 DEF TailInv, AtItsFile, DoneIsWritten, fileVars, poolVars
    <2>6. CASE path \in Files
      <3>1. Enter(MainThread, path)
        BY <1>6, <2>1, <2>6, TreeAssumption DEF NextArg
      <3>2. file' = [file EXCEPT ![MainThread] = path] /\ UNCHANGED <<written, missed>>
            /\ file \in [Actors -> Files \cup {NoFile}]
        BY <3>1 DEF Enter, IInv, FileInv, FileTypes
      <3>3. file'[MainThread] = path /\ \A w \in Workers : file'[w] = file[w]
        BY <3>2, WorkersAssumption DEF Actors
      <3>4. NamedAreWritten'
        BY <2>1, <2>2, <2>4, <3>2, <3>3 DEF NamedAreWritten
      <3>5. AtItsFile'
        BY <2>1, <3>3 DEF TailInv, AtItsFile, poolVars
      <3> QED
        BY <1>1, <2>1, <3>2, <3>4, <3>5 DEF TailInv, DoneIsWritten, poolVars
    <2> QED
      BY <2>5, <2>6
  <1>7. CASE Stop
    <2>1. arg = Len(Args) /\ UNCHANGED <<arg, found, fileVars>> /\ Pool!Close
      BY <1>7 DEF Stop
    <2>2. Queue!PoolInv' /\ UNCHANGED <<curr, done>>
      <3>1. Queue!Close
        BY <2>1 DEF Pool!Close, Queue!Close
      <3> QED
        BY <3>1, Queue!PoolClose DEF TailInv, Queue!Close
    <2> QED
      BY <2>1, <2>2 DEF TailInv, AtItsFile, DoneIsWritten, NamedAreWritten, fileVars
  <1>8. CASE Join
    <2>1. main = "join" /\ UNCHANGED <<arg, found, fileVars>> /\ Pool!Dissolve
      BY <1>8 DEF Join
    <2>2. Queue!PoolInv' /\ UNCHANGED <<curr, done>>
      <3>1. Queue!Dissolve
        BY <2>1 DEF Pool!Dissolve, Queue!Dissolve, Pool!NoJob, Queue!NoJob
      <3> QED
        BY <3>1, Queue!PoolDissolve DEF TailInv, Queue!Dissolve
    <2> QED
      BY <2>1, <2>2 DEF TailInv, AtItsFile, DoneIsWritten, NamedAreWritten, fileVars
  <1> QED
    BY <1>3, <1>4, <1>5, <1>6, <1>7, <1>8 DEF Main

(* An exception stops it where it is, which is at no file. *)
LEMMA ThrowKeepsTail ==
  ASSUME IInv, TailInv, Throw
  PROVE  TailInv'
  <1>1. main' = "terminated" /\ UNCHANGED <<arg, found, fileVars, poolVars>>
    BY DEF Throw
  <1>2. Queue!PoolInv'
    BY <1>1, Queue!PoolIdle DEF TailInv, Queue!vars, poolVars
  <1> QED
    BY <1>1, <1>2 DEF TailInv, AtItsFile, DoneIsWritten, NamedAreWritten, fileVars, poolVars

(* A worker gets the oldest job of the queue, and with it the file that was found
   then. *)
LEMMA BeginKeepsTail ==
  ASSUME IInv, TailInv, NEW w \in Workers, BeginJob(w)
  PROVE  TailInv'
  <1>1. /\ Enter(w, found[Head(jobs)]) /\ Pool!Begin(w)
        /\ UNCHANGED <<arg, walk, main, found>>
    <2>1. curr' = [curr EXCEPT ![w] = Head(jobs)] /\ curr \in [Workers -> Nat]
      BY DEF BeginJob, Pool!Begin, IInv, Working
    <2>2. curr'[w] = Head(jobs)
      BY <2>1
    <2> QED
      BY <2>2 DEF BeginJob
  <1>2. Queue!PoolInv' /\ done' = done /\ curr' = [curr EXCEPT ![w] = Head(jobs)]
    <2>1. Queue!Begin(w)
      BY <1>1 DEF Pool!Begin, Queue!Begin, Pool!NoJob, Queue!NoJob
    <2> QED
      BY <2>1, Queue!PoolBegin DEF TailInv, Queue!Begin
  <1>3. /\ file' = [file EXCEPT ![w] = found[Head(jobs)]] /\ UNCHANGED <<written, missed>>
        /\ file \in [Actors -> Files \cup {NoFile}] /\ curr \in [Workers -> Nat]
    BY <1>1 DEF Enter, IInv, FileInv, FileTypes, Working
  <1>4. AtItsFile'
    <2> SUFFICES ASSUME NEW v \in Workers, curr'[v] # 0
                 PROVE  file'[v] = found[curr'[v]]
      BY <1>1 DEF AtItsFile
    <2>1. CASE v = w
      BY <1>2, <1>3, <2>1 DEF Actors
    <2>2. CASE v # w
      BY <1>2, <1>3, <2>2 DEF Actors, TailInv, AtItsFile
    <2> QED
      BY <2>1, <2>2
  <1>5. file'[MainThread] = file[MainThread]
    BY <1>3, WorkersAssumption DEF Actors
  <1> QED
    BY <1>1, <1>2, <1>3, <1>4, <1>5 DEF TailInv, DoneIsWritten, NamedAreWritten

(* The pool starts empty, before the first argument. *)
LEMMA InitTail == Init => TailInv
  <1> SUFFICES ASSUME Init PROVE TailInv
    OBVIOUS
  <1>1. Queue!PoolInv
    BY Queue!PoolStarts DEF Init, Queue!NoJob, Pool!NoJob
  <1>2. AtItsFile /\ DoneIsWritten /\ NamedAreWritten /\ main = "walk"
    BY DEF Init, AtItsFile, DoneIsWritten, NamedAreWritten, Pool!NoJob
  <1> QED
    BY <1>1, <1>2 DEF TailInv

(* The queue, the jobs and the files they are about keep together. *)
LEMMA TailInvariant == Spec => []TailInv
  <1>1. IInv /\ TailInv /\ UNCHANGED vars => TailInv'
    <2> SUFFICES ASSUME IInv, TailInv, UNCHANGED vars PROVE TailInv'
      OBVIOUS
    <2>1. Queue!PoolInv'
      BY Queue!PoolIdle DEF TailInv, Queue!vars, vars, poolVars
    <2> QED
      BY <2>1 DEF TailInv, AtItsFile, DoneIsWritten, NamedAreWritten, vars, fileVars, poolVars
  <1>2. IInv /\ TailInv /\ Next => TailInv'
    BY FormatKeepsTail, MainKeepsTail, ThrowKeepsTail, BeginKeepsTail DEF Next, InFormat, Actors
  <1> QED
    BY Invariant, InitTail, <1>1, <1>2, PTL DEF Spec

(* An exception in the main thread leaves out the rest of the command line; when
   the pool is stopped the jobs still queued are dropped, and they are the last
   that were found.  So however the process ends, every file given by name as far
   as main came is written back, and so is every file found before one that a
   worker is done with, but for those a worker gave up and those a termination
   caught a worker at (format, main; thread_pool::stop). *)
THEOREM TailSkipped == Spec => []OnlyTheTailIsSkipped
  <1>1. IInv /\ TailInv => OnlyTheTailIsSkipped
    <2> SUFFICES ASSUME IInv, TailInv, main \in {"exited", "terminated"}
                 PROVE  /\ main = "exited" => arg = Len(Args)
                        /\ \A i \in 1..arg : Args[i] \in Hill => Args[i] \in written
                        /\ \A n \in done, k \in 1..Len(found) :
                             k <= n /\ found[k] \in Hill =>
                               \/ found[k] \in written \cup missed
                               \/ main = "terminated" /\ \E w \in Workers : curr[w] = k
      BY DEF OnlyTheTailIsSkipped
    <2>1. file[MainThread] \notin Hill
      <3>1. step[MainThread] = "idle" /\ MainThread \in Actors
        BY DEF IInv, Ending, Actors
      <3> QED
        BY <3>1, TreeAssumption DEF IInv, FileInv, Busy, Files
    <2>2. \A i \in 1..arg : Args[i] \in Hill => Args[i] \in written
      BY <2>1 DEF TailInv, NamedAreWritten
    <2>3. ASSUME NEW n \in done, NEW k \in 1..Len(found), k <= n, found[k] \in Hill
          PROVE  \/ found[k] \in written \cup missed
                 \/ main = "terminated" /\ \E w \in Workers : curr[w] = k
      <3>1. n \in 1..Len(begun)
        BY DEF TailInv, Queue!PoolInv, Queue!OneWorkerEach
      <3>2. k \in 1..Len(begun)
        <4> DEFINE b == Len(begun)
                   m == Len(found)
        <4>1. b \in Nat /\ m \in Nat /\ n \in 1..b /\ k \in 1..m /\ k <= n
          BY <2>3, <3>1, FoundBounds
        <4> HIDE DEF b, m
        <4>2. k \in 1..b
          BY <4>1
        <4> QED
          BY <4>2 DEF b
      <3>3. k \in done \/ \E w \in Workers : curr[w] = k
        BY <3>2 DEF TailInv, Queue!PoolInv, Queue!OneWorkerEach
      <3>4. main = "exited" => \A w \in Workers : curr[w] # k
        <4>1. main = "exited" => \A w \in Workers : curr[w] = 0
          BY DEF IInv, Ending, Working, Actors
        <4>2. k # 0
          BY FoundBounds
        <4> QED
          BY <4>1, <4>2
      <3> QED
        BY <2>3, <3>3, <3>4 DEF TailInv, DoneIsWritten
    <2>4. main = "exited" => arg = Len(Args)
      BY DEF TailInv
    <2> QED
      BY <2>2, <2>3, <2>4
  <1> QED
    BY Invariant, TailInvariant, <1>1, PTL
-----------------------------------------------------------------------------
(* What is formatted twice at a time.  Main is only at files it was given, and a
   worker at the one its job is about, so that two threads at one file have come
   to it by two ways. *)
MainAtNamed == file[MainThread] # NoFile => \E i \in 1..arg : Args[i] = file[MainThread]

OnlySharedFilesCollide == \A f \in collided : ReachedTwice(f)

SharedInv == MainAtNamed /\ OnlySharedFilesCollide

(* What leads to a file twice goes on doing so. *)
LEMMA SharedStays ==
  ASSUME IInv, IInv', OnlySharedFilesCollide, collided' = collided, arg' \in Nat, arg <= arg',
         \/ found' = found
         \/ \E e \in Files : found' = Append(found, e)
  PROVE  OnlySharedFilesCollide'
  <1>1. arg \in Nat /\ found \in Seq(Files)
    BY ArgsAssumption DEF IInv, MainTypes
  <1>2. /\ Len(found) \in Nat /\ Len(found') \in Nat /\ Len(found) <= Len(found')
        /\ \A n \in 1..Len(found) : found'[n] = found[n]
    BY <1>1, AppendProperties
  <1> DEFINE k == Len(found)
             m == Len(found')
  <1>3. /\ \A i \in 1..arg : i \in 1..arg'
        /\ \A n \in 1..k : n \in 1..m
    <2>1. k \in Nat /\ m \in Nat /\ k <= m
      BY <1>2
    <2> HIDE DEF k, m
    <2> QED
      BY <1>1, <2>1
  <1> QED
    BY <1>2, <1>3 DEF OnlySharedFilesCollide, ReachedTwice

(* In format a thread comes to no file it was not at. *)
LEMMA FormatKeepsShared ==
  ASSUME IInv, IInv', SharedInv, NEW a \in Actors, InFormat(a)
  PROVE  SharedInv'
  <1>1. UNCHANGED <<arg, found, collided>> /\ file \in [Actors -> Files \cup {NoFile}]
    BY DEF InFormat, GiveUp, Format, SkipOther, Read, Truncate, Write, IInv, FileInv, FileTypes
  <1>2. file' = file \/ file' = [file EXCEPT ![a] = NoFile]
    BY DEF InFormat, GiveUp, Format, SkipOther, Read, Truncate, Write, Leave
  <1>3. file'[MainThread] # NoFile => file'[MainThread] = file[MainThread]
    BY <1>1, <1>2 DEF Actors
  <1> QED
    BY <1>1, <1>3 DEF SharedInv, MainAtNamed, OnlySharedFilesCollide, ReachedTwice

(* Main comes to a file that a worker is at because it was found as well; what it
   finds itself adds to what leads to a file. *)
LEMMA MainKeepsShared ==
  ASSUME IInv, IInv', TailInv, SharedInv, Main
  PROVE  SharedInv'
  <1>1. arg \in Nat /\ arg' \in Nat
    BY ArgsAssumption DEF IInv, MainTypes
  <1>2. CASE NextArg /\ Args[arg + 1] \in Files
    <2> DEFINE path == Args[arg + 1]
    <2>1. /\ Enter(MainThread, path) /\ arg' = arg + 1 /\ found' = found
          /\ step[MainThread] = "idle"
      BY <1>2, TreeAssumption DEF NextArg, Walking
    <2>2. /\ file' = [file EXCEPT ![MainThread] = path]
          /\ file \in [Actors -> Files \cup {NoFile}]
          /\ collided' = collided \cup {g \in Hill : g = path /\ \E b \in Actors : file[b] = path}
      BY <2>1 DEF Enter, IInv, FileInv, FileTypes
    <2>3. arg + 1 \in 1..arg' /\ \A i \in 1..arg : i \in 1..arg'
      BY <1>1, <2>1
    <2>4. MainAtNamed'
      <3>1. file'[MainThread] = path
        BY <2>2 DEF Actors
      <3> QED
        BY <2>3, <3>1 DEF MainAtNamed
    <2>5. ASSUME NEW f \in collided'
          PROVE  \/ /\ \E i \in 1..arg' : Args[i] = f
                    /\ \E n \in 1..Len(found) : found[n] = f
                 \/ \E m, n \in 1..Len(found) : m # n /\ found[m] = f /\ found[n] = f
      <3>1. CASE f \in collided
        BY <2>3, <3>1 DEF SharedInv, OnlySharedFilesCollide, ReachedTwice
      <3>2. CASE f = path /\ \E b \in Actors : file[b] = path
        <4>1. PICK b \in Actors : file[b] = path
          BY <3>2
        <4>2. b # MainThread /\ step[b] # "idle"
          BY <1>2, <2>1, <4>1, TreeAssumption DEF IInv, FileInv, Busy, Actors
        <4>3. b \in Workers /\ curr[b] # 0
          BY <4>2 DEF Actors, IInv, Working
        <4>4. found[curr[b]] = path /\ curr[b] \in 1..queued /\ Len(found) = queued
          BY <4>1, <4>3, FoundBounds DEF TailInv, AtItsFile
        <4> QED
          BY <2>3, <3>2, <4>4
      <3> QED
        BY <2>2, <3>1, <3>2
    <2> QED
      BY <2>1, <2>4, <2>5 DEF SharedInv, OnlySharedFilesCollide, ReachedTwice
  <1>3. CASE ~(NextArg /\ Args[arg + 1] \in Files)
    <2>1. UNCHANGED fileVars /\ (arg' = arg \/ arg' = arg + 1)
          /\ (found' = found \/ \E e \in Files : found' = Append(found, e))
      BY <1>3 DEF Main, NextArg, Ascend, Stop, Join, Descend, QueueFile
    <2>2. arg <= arg' /\ \A i \in 1..arg : i \in 1..arg'
      BY <1>1, <2>1
    <2>3. OnlySharedFilesCollide'
      BY <1>1, <2>1, <2>2, SharedStays DEF SharedInv, fileVars
    <2> QED
      BY <2>1, <2>2, <2>3 DEF SharedInv, MainAtNamed, fileVars
  <1> QED
    BY <1>2, <1>3

(* A worker that begins a job may meet main at a file that was given by name, or
   another worker in another job. *)
LEMMA BeginKeepsShared ==
  ASSUME IInv, TailInv, TailInv', SharedInv, NEW w \in Workers, BeginJob(w)
  PROVE  SharedInv'
  <1>1. /\ Pool!Begin(w) /\ Enter(w, found[curr'[w]])
        /\ UNCHANGED <<arg, walk, main, found>>
    BY DEF BeginJob
  <1> DEFINE k == curr'[w]
  <1>2. /\ curr[w] = 0 /\ jobs # <<>> /\ curr' = [curr EXCEPT ![w] = Head(jobs)]
        /\ curr \in [Workers -> Nat] /\ jobs \in Seq(Nat)
        /\ \A i \in 1..Len(jobs) : jobs[i] \in 1..queued
        /\ queued \in Nat /\ Len(found) = queued
    BY <1>1 DEF Pool!Begin, Pool!NoJob, IInv, Working, MainTypes
  <1>3. k = Head(jobs) /\ k \in 1..queued /\ k # 0
    BY <1>2
  <1>4. /\ file' = [file EXCEPT ![w] = found[k]]
        /\ file \in [Actors -> Files \cup {NoFile}]
        /\ collided' = collided \cup {g \in Hill : g = found[k] /\ \E b \in Actors : file[b] = found[k]}
    BY <1>1 DEF Enter, IInv, FileInv, FileTypes
  <1>5. file'[MainThread] = file[MainThread]
    BY <1>4, WorkersAssumption DEF Actors
  <1>6. ASSUME NEW f \in collided'
        PROVE  \/ /\ \E i \in 1..arg : Args[i] = f
                  /\ \E n \in 1..Len(found) : found[n] = f
               \/ \E m, n \in 1..Len(found) : m # n /\ found[m] = f /\ found[n] = f
    <2>1. CASE f \in collided
      BY <2>1 DEF SharedInv, OnlySharedFilesCollide, ReachedTwice
    <2>2. CASE f = found[k] /\ f \in Hill /\ \E b \in Actors : file[b] = found[k]
      <3>1. PICK b \in Actors : file[b] = f
        BY <2>2
      <3>2. f # NoFile
        BY <2>2, TreeAssumption DEF Files
      <3>3. CASE b = MainThread
        BY <1>2, <1>3, <2>2, <3>1, <3>2, <3>3 DEF SharedInv, MainAtNamed
      <3>4. CASE b # MainThread
        <4>1. b \in Workers /\ step[b] # "idle"
          BY <3>1, <3>2, <3>4 DEF Actors, IInv, FileInv, Busy
        <4>2. curr[b] # 0 /\ b # w
          BY <1>2, <4>1 DEF IInv, Working
        <4>3. curr'[b] = curr[b]
          BY <1>2, <4>1, <4>2
        <4>4. curr'[b] # k
          <5>1. Queue!OneWorkerEach'
            BY DEF TailInv, Queue!PoolInv
          <5> QED
            BY <1>3, <4>1, <4>2, <4>3, <5>1 DEF Queue!OneWorkerEach, Queue!NoJob
        <4>5. found[curr[b]] = f /\ curr[b] \in 1..queued
          BY <3>1, <4>1, <4>2, FoundBounds DEF TailInv, AtItsFile
        <4> QED
          BY <1>2, <1>3, <2>2, <4>3, <4>4, <4>5
      <3> QED
        BY <3>3, <3>4
    <2> QED
      BY <1>4, <2>1, <2>2
  <1> QED
    BY <1>1, <1>5, <1>6 DEF SharedInv, MainAtNamed, OnlySharedFilesCollide, ReachedTwice

(* Two threads are at a file at the same time only when the command line leads to
   it by two ways, by name and through a directory or through two directories: a
   file it leads to once is read and written by one thread (format, queue_job). *)
THEOREM SharedOnly == Spec => []OnlySharedFilesCollide
  <1>1. Init => SharedInv
    BY DEF Init, SharedInv, MainAtNamed, OnlySharedFilesCollide, ReachedTwice, Actors
  <1>2. IInv /\ IInv' /\ TailInv /\ TailInv' /\ SharedInv /\ [Next]_vars => SharedInv'
    <2> SUFFICES ASSUME IInv, IInv', TailInv, TailInv', SharedInv, [Next]_vars PROVE SharedInv'
      OBVIOUS
    <2>1. CASE UNCHANGED vars
      BY <2>1 DEF vars, fileVars, SharedInv, MainAtNamed, OnlySharedFilesCollide, ReachedTwice
    <2>2. CASE Throw
      BY <2>2 DEF Throw, fileVars, SharedInv, MainAtNamed, OnlySharedFilesCollide, ReachedTwice
    <2>3. CASE Next /\ ~Throw
      BY <2>3, FormatKeepsShared, MainKeepsShared, BeginKeepsShared DEF Next, InFormat, Actors
    <2> QED
      BY <2>1, <2>2, <2>3
  <1>3. SharedInv => OnlySharedFilesCollide
    BY DEF SharedInv
  <1> QED
    BY Invariant, TailInvariant, <1>1, <1>2, <1>3, PTL DEF Spec

(* fmt keeps the text of a file that it could read, whatever fails and wherever
   an exception ends the process: unless a write of it fell short, or two threads
   were at the file and the command line leads to it twice, it is not whole only
   while a thread that holds all of it is about to write it, and no thread is
   when the pool was stopped and the process ends by itself (format, main). *)
THEOREM TextKept == Spec => []NoTextLost
  <1>1. IInv /\ OnlySharedFilesCollide => NoTextLost
    <2> SUFFICES ASSUME IInv, NEW f \in Sound, disk[f] = "prefix"
                 PROVE  /\ main # "exited"
                        /\ \E a \in Actors : file[a] = f /\ step[a] = "write" /\ result[a] = "whole"
      BY DEF NoTextLost, Sound, OnlySharedFilesCollide
    <2>1. PICK a \in Actors : file[a] = f /\ step[a] = "write" /\ result[a] = "whole"
      BY DEF IInv, FileInv, BeingWritten
    <2>2. main # "exited"
      BY <2>1 DEF IInv, Ending
    <2> QED
      BY <2>1, <2>2
  <1> QED
    BY Invariant, SharedOnly, <1>1, PTL
=============================================================================

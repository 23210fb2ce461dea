----------------------------- MODULE Formatter -----------------------------
(***************************************************************************)
(* `hill fmt <files/directories>': hill::fmt::formatter                    *)
(* (src/src/fmt/formatter.hh) driven by main (src/src/main.cc).            *)
(*                                                                         *)
(* The main thread formats the files it is given itself, walks the         *)
(* directories and queues one job for every file it finds there; then the  *)
(* destructor stops and joins the pool.  The pool is JobPool, which        *)
(* ThreadPool implements; job n formats found[n].                          *)
(*                                                                         *)
(* The text of a file is either whole or not: while it is open for writing *)
(* it is some prefix of what it should be, down to nothing.                *)
(*                                                                         *)
(* Nothing that the file system is asked is sure to succeed.  The queries  *)
(* of format(path) throw: in a worker the pool swallows that, in the main  *)
(* thread nobody does and the process is gone.  A write may fall short,    *)
(* and nobody looks.                                                       *)
(***************************************************************************)
EXTENDS Naturals, Sequences

CONSTANTS Workers,   \* the threads of the pool
          Args,      \* the command line: a sequence of paths
          Children,  \* the directories, each with the set of its entries
          Hill,      \* the files named *.hill
          Other,     \* the other files
          Readable,  \* the files that can be opened and read to their end ...
          Writable,  \* ... and those that can be opened for writing
          MaxFound   \* bound on how many files are found in directories

ASSUME MaxFoundAssumption == MaxFound \in Nat

ASSUME ArgsAssumption == Len(Args) \in Nat

Files == Hill \cup Other
Dirs  == DOMAIN Children
NoFile == "no file"

ASSUME TreeAssumption ==
  /\ Dirs \cap Files = {} /\ Hill \cap Other = {} /\ NoFile \notin Files
  /\ \A d \in Dirs : Children[d] \subseteq Dirs \cup Files

MainThread == "main"
Actors == Workers \cup {MainThread}

ASSUME WorkersAssumption == MainThread \notin Workers

VARIABLES arg,      \* the number of arguments main has dealt with
          walk,     \* the directories being iterated: what is left of each, innermost last
          main,     \* where main is
          found,    \* history: the files that were queued, in order
          step,     \* where each thread is in format(path) for a file
          file,     \* the file it is at
          result,   \* the text it has read
          disk,     \* the files
          written,  \* history: the files that were written back, or were tried to
          collided, \* history: the files two threads were at at the same time
          torn,     \* history: the files a write of which fell short
          missed    \* history: the files a worker gave up before it opened them

VARIABLES threads, curr, jobs, shouldTerminate, queued, begun, done

poolVars == <<threads, curr, jobs, shouldTerminate, queued, begun, done>>
fileVars == <<step, file, result, disk, written, collided, torn, missed>>
vars     == <<arg, walk, main, found, fileVars, poolVars>>

Pool == INSTANCE JobPool WITH MaxJobs <- MaxFound

Init ==
  /\ arg = 0 /\ walk = <<>> /\ main = "walk" /\ found = <<>>
  /\ step = [a \in Actors |-> "idle"]
  /\ file = [a \in Actors |-> NoFile]
  /\ result = [a \in Actors |-> "whole"]
  /\ disk = [f \in Files |-> "whole"]
  /\ written = {} /\ collided = {} /\ torn = {} /\ missed = {}
  \* the constructor has started the pool
  /\ threads = Workers
  /\ curr = [w \in Workers |-> Pool!NoJob]
  /\ jobs = <<>> /\ shouldTerminate = FALSE
  /\ queued = 0 /\ begun = <<>> /\ done = {}

-----------------------------------------------------------------------------
(* format(path) for a file, in thread a. *)

Enter(a, f) ==
  /\ file' = [file EXCEPT ![a] = f]
  /\ step' = [step EXCEPT ![a] = "read"]
  /\ collided' = collided \cup {g \in Hill : g = f /\ \E b \in Actors : file[b] = f}
  /\ UNCHANGED <<result, disk, written, torn, missed>>

(* The thread is done with its file; for a worker that ends the job. *)
Leave(a) ==
  /\ file' = [file EXCEPT ![a] = NoFile]
  /\ step' = [step EXCEPT ![a] = "idle"]
  /\ IF a = MainThread THEN UNCHANGED poolVars ELSE Pool!End(a)

SkipOther(a) ==
  /\ step[a] = "read"
  /\ file[a] \in Other
  /\ Leave(a)
  /\ UNCHANGED <<arg, walk, main, found, result, disk, written, collided, torn, missed>>

(* A worker gives its file up: the file is gone by now, or to ask for its
   status throws, which ends the job and no more. *)
GiveUp(w) ==
  /\ step[w] = "read"
  /\ missed' = missed \cup {file[w]}
  /\ Leave(w)
  /\ UNCHANGED <<arg, walk, main, found, result, disk, written, collided, torn>>

(* Mutant: the output is opened first. *)
Read_afterTruncate(a) ==
  /\ step[a] = "read"
  /\ file[a] \in Hill
  /\ disk' = [disk EXCEPT ![file[a]] = IF file[a] \in Writable THEN "prefix" ELSE @]
  /\ result' = [result EXCEPT ![a] = IF file[a] \in Readable THEN disk'[file[a]] ELSE "prefix"]
  /\ step' = [step EXCEPT ![a] = "truncate"]
  /\ UNCHANGED <<arg, walk, main, found, file, written, collided, torn, missed,
                 poolVars>>

(* All of the file is read; a file that cannot be opened reads as empty. *)
Read(a) ==
  /\ step[a] = "read"
  /\ file[a] \in Hill
  /\ result' = [result EXCEPT ![a] =
                  IF file[a] \in Readable THEN disk[file[a]] ELSE "prefix"]
  /\ step' = [step EXCEPT ![a] = "truncate"]
  /\ UNCHANGED <<arg, walk, main, found, file, disk, written, collided, torn,
                 missed, poolVars>>

(* Opening the file for writing truncates it. *)
Truncate(a) ==
  /\ step[a] = "truncate"
  /\ disk' = [disk EXCEPT ![file[a]] = IF file[a] \in Writable THEN "prefix" ELSE @]
  /\ step' = [step EXCEPT ![a] = "write"]
  /\ UNCHANGED <<arg, walk, main, found, file, result, written, collided, torn,
                 missed, poolVars>>

(* The result is written out and the file closed; when the disk is full only
   some of it, which goes unnoticed. *)
Write(a) ==
  /\ step[a] = "write"
  /\ \/ /\ disk' = [disk EXCEPT ![file[a]] = IF file[a] \in Writable THEN result[a] ELSE @]
        /\ UNCHANGED torn
     \/ /\ file[a] \in Writable
        /\ disk' = [disk EXCEPT ![file[a]] = "prefix"]
        /\ torn' = torn \cup {file[a]}
  /\ written' = written \cup {file[a]}
  /\ Leave(a)
  /\ UNCHANGED <<arg, walk, main, found, result, collided, missed>>

(* A process that is gone has no threads. *)
Running == main # "terminated"

Format(a) == Running /\ (SkipOther(a) \/ Read(a) \/ Truncate(a) \/ Write(a))

-----------------------------------------------------------------------------
(* The main thread. *)

Walking == main = "walk" /\ step[MainThread] = "idle"

(* The next argument: a path that does not exist is ignored, a directory is
   walked, a file is formatted here and now. *)
NextArg ==
  /\ Walking /\ walk = <<>> /\ arg < Len(Args)
  /\ arg' = arg + 1
  /\ LET path == Args[arg + 1] IN
     \/ /\ path \notin Dirs \cup Files
        /\ UNCHANGED <<walk, fileVars>>
     \/ /\ path \in Dirs
        /\ walk' = <<Children[path]>>
        /\ UNCHANGED fileVars
     \/ /\ path \in Files
        /\ Enter(MainThread, path)
        /\ UNCHANGED walk
  /\ UNCHANGED <<main, found, poolVars>>

Rest(e) == [walk EXCEPT ![Len(walk)] = @ \ {e}]

(* The main thread asks for the status of a path, opens a directory or moves an
   iterator on, and that throws: it may not read the directory, or the disk
   fails.  Nobody catches it: the process ends where its threads are. *)
Throw ==
  /\ Walking /\ (walk # <<>> \/ arg < Len(Args))
  /\ main' = "terminated"
  /\ UNCHANGED <<arg, walk, found, fileVars, poolVars>>

(* The directory iterator comes to an entry, in no particular order. *)
Descend(e) ==
  /\ Walking /\ walk # <<>> /\ e \in walk[Len(walk)]
  /\ e \in Dirs
  /\ walk' = Append(Rest(e), Children[e])
  /\ UNCHANGED <<arg, main, found, fileVars, poolVars>>

(* Mutant: whatever is in a directory is queued. *)
QueueFile_any(e) ==
  /\ Walking /\ walk # <<>> /\ e \in walk[Len(walk)]
  /\ walk' = Rest(e)
  /\ found' = Append(found, e)
  /\ Pool!Submit
  /\ UNCHANGED <<arg, main, fileVars>>

QueueFile(e) ==
  /\ Walking /\ walk # <<>> /\ e \in walk[Len(walk)]
  /\ e \in Files
  /\ walk' = Rest(e)
  /\ found' = Append(found, e)
  /\ Pool!Submit
  /\ UNCHANGED <<arg, main, fileVars>>

(* Mutant: the iteration of a directory that has a subdirectory does not end. *)
Ascend_stays ==
  /\ Walking /\ Len(walk) = 1 /\ walk[Len(walk)] = {}
  /\ walk' = SubSeq(walk, 1, Len(walk) - 1)
  /\ UNCHANGED <<arg, main, found, fileVars, poolVars>>

Ascend ==
  /\ Walking /\ walk # <<>> /\ walk[Len(walk)] = {}
  /\ walk' = SubSeq(walk, 1, Len(walk) - 1)
  /\ UNCHANGED <<arg, main, found, fileVars, poolVars>>

(* The destructor: stop, then join. *)
Stop ==
  /\ Walking /\ walk = <<>> /\ arg = Len(Args)
  /\ Pool!Close
  /\ main' = "join"
  /\ UNCHANGED <<arg, walk, found, fileVars>>

Join ==
  /\ main = "join"
  /\ Pool!Dissolve
  /\ main' = "exited"
  /\ UNCHANGED <<arg, walk, found, fileVars>>

BeginJob(w) ==
  /\ Running
  /\ Pool!Begin(w)
  /\ Enter(w, found[curr'[w]])
  /\ UNCHANGED <<arg, walk, main, found>>

-----------------------------------------------------------------------------
Main == \/ NextArg \/ Ascend \/ Stop \/ Join
        \/ \E e \in Dirs \cup Files : Descend(e) \/ QueueFile(e)

Next == \/ Main \/ Throw
        \/ \E w \in Workers : BeginJob(w) \/ (Running /\ GiveUp(w))
        \/ \E a \in Actors : Format(a)

Fairness ==
  /\ WF_vars(Main)
  /\ WF_vars(\E w \in Workers : BeginJob(w))
  /\ \A a \in Actors : WF_vars(Format(a))

Spec == Init /\ [][Next]_vars
FairSpec == Spec /\ Fairness

-----------------------------------------------------------------------------
Texts == {"whole", "prefix"}

TypeOK ==
  /\ arg \in 0..Len(Args)
  /\ walk \in Seq(SUBSET (Dirs \cup Files))
  /\ main \in {"walk", "join", "exited", "terminated"}
  /\ found \in Seq(Files) /\ Len(found) = queued
  /\ step \in [Actors -> {"idle", "read", "truncate", "write"}]
  /\ file \in [Actors -> Files \cup {NoFile}]
  /\ result \in [Actors -> Texts]
  /\ disk \in [Files -> Texts]
  /\ written \subseteq Hill
  /\ collided \subseteq Hill /\ torn \subseteq Hill /\ missed \subseteq Files

(* The command line leads to a file twice: by name and through a directory, or *)
(* through two directories.                                                    *)
ReachedTwice(f) ==
  \/ /\ \E i \in 1..arg : Args[i] = f
     /\ \E n \in 1..Len(found) : found[n] = f
  \/ \E m, n \in 1..Len(found) : m # n /\ found[m] = f /\ found[n] = f

(* A file that could be read keeps its text.  Unless a write of it fell short,  *)
(* or the command line leads to it twice and two threads were at it at once, it *)
(* is incomplete only while one thread is between opening it for writing and    *)
(* closing it, and that thread holds all of it.  So it is whole when the        *)
(* command ends by itself; when the process is terminated the files it cuts     *)
(* short are among those its threads were writing.                              *)
NoTextLost ==
  \A f \in (Readable \cap Files) \ ({c \in collided : ReachedTwice(c)} \cup torn) :
    disk[f] = "prefix" =>
      /\ main # "exited"
      /\ \E a \in Actors : file[a] = f /\ step[a] = "write" /\ result[a] = "whole"

(* However the process ends, it leaves out only what comes last.  The files    *)
(* given by name are written back in the order they were given in, up to the   *)
(* argument the main thread was stopped at by an exception, and to the end when *)
(* there was none.  Of the files found in directories, each that was found     *)
(* before one a worker is done with was written back, unless it was given up   *)
(* or a termination caught a worker at it.                                     *)
OnlyTheTailIsSkipped ==
  main \in {"exited", "terminated"} =>
    /\ main = "exited" => arg = Len(Args)
    /\ \A i \in 1..arg : Args[i] \in Hill => Args[i] \in written
    /\ \A n \in done, k \in 1..Len(found) :
         k <= n /\ found[k] \in Hill =>
           \/ found[k] \in written \cup missed
           \/ main = "terminated" /\ \E w \in Workers : curr[w] = k

(* The command comes to an end, by itself or by an exception. *)
Ends == <>(main \in {"exited", "terminated"})

(* "fmt <files/directories> - Run formatter on one or more                   *)
(* files/directories" (usage, main.cc): when the command has ended by itself *)
(* every file in a directory it was given has been formatted, but for those  *)
(* that a worker had to give up.                                             *)
EveryFileFormatted ==
  main = "exited" =>
    \A n \in 1..Len(found) : found[n] \in Hill => found[n] \in written \cup missed
=============================================================================

--------------------------- MODULE MCThreadPool ---------------------------
(* ThreadPool for TLC: more jobs than workers, so that a queue builds up. *)
EXTENDS ThreadPool

MCJobs == Cardinality(Workers) + 1
=============================================================================

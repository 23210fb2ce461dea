---------------------------- MODULE MCFormatter ----------------------------
(* Formatter for TLC: files by name before and after a directory, one of which
   lies in it, so that two threads can get at that file, and a subdirectory by
   name as well, so that two workers can; a path that does not exist, a file
   that cannot be read, one that cannot be written and one of another kind. *)
EXTENDS Formatter

MCArgs == <<"d.hill", "gone", "dir", "e.txt", "a.hill", "sub">>
MCHill == {"a.hill", "b.hill", "c.hill", "d.hill"}
MCOther == {"e.txt"}
MCChildren == [d \in {"dir", "sub"} |->
                 IF d = "dir" THEN {"a.hill", "c.hill", "sub"} ELSE {"b.hill"}]
MCReadable == (MCHill \cup MCOther) \ {"c.hill"}
MCWritable == (MCHill \cup MCOther) \ {"d.hill"}
=============================================================================

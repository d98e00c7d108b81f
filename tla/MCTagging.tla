---- MODULE MCTagging ----
(* Small instances of Tagging. *)
EXTENDS Tagging, TLC

MCGenreIn == [i \in Isbns |-> IF i = "one" THEN "fiction" ELSE "nonfiction"]
AnyOrder == Permutations(Tasks)
====

----------------------------- MODULE MCMainLoop -----------------------------
(* Small instances of MainLoop for TLC. *)
EXTENDS MainLoop, TLC

Alike == Permutations(Apps) \cup Permutations(Threads)
=============================================================================

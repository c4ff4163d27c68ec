----------------------------- MODULE MCLiveHub -----------------------------
(* Small instances of LiveHub for TLC. *)
EXTENDS LiveHub

\* Rows of the history are alike.
Symmetry == Permutations(Rows)
=============================================================================

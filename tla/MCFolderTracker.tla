-------------------------- MODULE MCFolderTracker --------------------------
(* FolderTracker on the instances of the Folder*.cfg files.               *)
EXTENDS FolderTracker, TLC

Symmetry == Permutations(Paths)
=============================================================================

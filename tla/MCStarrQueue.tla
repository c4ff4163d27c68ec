---------------------------- MODULE MCStarrQueue ----------------------------
(* Small instances of StarrQueue for TLC. *)
EXTENDS StarrQueue

OneApp == [s \in Servers |-> "Sonarr"]

DeleteExtracted == [s \in Servers |-> "extracted"]
DeleteMixed == [s \in Servers |-> IF s = 1 THEN "orig" ELSE "extracted"]
=============================================================================

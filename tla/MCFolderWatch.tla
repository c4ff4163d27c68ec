---------------------------- MODULE MCFolderWatch ----------------------------
(* A small tree for TLC: an archive a beside its output folder o, an archive *)
(* c in d/s, and an excluded folder d/e.  With extract_path set to d, what   *)
(* comes out of a lands in d/s; so does, with move_back, what comes out of   *)
(* d/s as a whole.                                                           *)
EXTENDS FolderWatch

Tree == [d |-> "root", o |-> "root", e |-> "d", a |-> "root", s |-> "d", c |-> "s", x |-> "o", y |-> "s"]
AboveOf[p \in DOMAIN Tree \union {"root"}] ==
    IF p = "root" THEN {} ELSE {Tree[p]} \union AboveOf[Tree[p]]
Beside == [a |-> "o"]
ExtractPath == [a |-> "s"]
Set(skipEmpty, logged, moveBack, elsewhere) ==
    [skipEmpty |-> skipEmpty, logged |-> logged, moveBack |-> moveBack, elsewhere |-> elsewhere]
FourSettings ==
    {Set(TRUE, TRUE, FALSE, FALSE), Set(FALSE, FALSE, FALSE, FALSE), Set(TRUE, TRUE, TRUE, FALSE), Set(FALSE, TRUE, FALSE, TRUE)}
=============================================================================

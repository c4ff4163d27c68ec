--------------------------- MODULE MCConfigCommit ---------------------------
(* Small instances of ConfigCommit for TLC. *)
EXTENDS ConfigCommit

Strings == STRING
Inst(url, key) == [url |-> url, key |-> key]
Key(name, secret, role) == [name |-> name, secret |-> secret, role |-> role]
NoKey == Key("", "", "admin")
Same == [pw |-> NoPw, confirm |-> "", drop |-> {}, add |-> <<>>, roles |-> {}, listen |-> "keep"]

(* A key for statistics and leftovers of two instances; a password, a log  *)
(* level and an instance; nothing.                                         *)
KeyEnv == [general |-> [interval |-> 0, debug |-> 0], pw |-> NoPw, key |-> Key("e", "ke", "ops"),
           maps |-> [l \in Lists |-> [s \in Slugs |-> IF l = "starr" THEN Inst("ue", "") ELSE Inst("", "k5")]]]
PwEnv == [general |-> [interval |-> 0, debug |-> 1], pw |-> Pw("plain", "pe"), key |-> NoKey,
          maps |-> [l \in Lists |-> [s \in Slugs |-> IF l = "starr" THEN Inst("ue", "ki") ELSE NoInst]]]
NoEnv == [KeyEnv EXCEPT !.key = NoKey, !.maps = [l \in Lists |-> [s \in Slugs |-> NoInst]]]

(* A fresh file with a role; one with everything in it.                    *)
FreshFile == [Default EXCEPT !.web.roles = [r \in Roles |-> {"stats"}],
                             !.maps["folder"] = [s \in Slugs |-> Inst("f1", "")]]
UsedFile == [FreshFile EXCEPT !.web.pw = Pw("plain", "p0"), !.web.roleHeader = "groups", !.general.debug = 1,
                              !.maps["starr"] = [s \in Slugs |-> Inst("u1", Ref)],
                              !.web.keys = <<Key("a", "ka", "admin"), Key("o", "filepath:", "ops")>>]
AllSetups == {[env |-> NoEnv, file |-> FreshFile], [env |-> KeyEnv, file |-> FreshFile],
              [env |-> KeyEnv, file |-> UsedFile], [env |-> PwEnv, file |-> UsedFile]}
KeySetup == {[env |-> KeyEnv, file |-> FreshFile]}

Generals == {[interval |-> 0, debug |-> 0], [interval |-> 2, debug |-> 1]}
Maps == [l \in Lists |-> IF l = "starr"
           THEN {[s \in Slugs |-> Inst("u2", "k2")], [s \in Slugs |-> NoInst], [s \in Slugs |-> Inst("u2", "")]}
           ELSE {[s \in Slugs |-> NoInst]}]

NewPw == [Same EXCEPT !.pw = Pw("kdf", "p1"), !.confirm = "t1", !.roles = {"stats", "queue"}, !.drop = {"a"}]
ToProxy == [Same EXCEPT !.pw = Pw("webauth", ""), !.confirm = "g1", !.listen = "L2"]
MoreKeys == [Same EXCEPT !.pw = Pw("path", ""), !.add = <<Key("e", "", "ops"), Key("b", "filepath:", "admin")>>]
Edits == {Same, NewPw, ToProxy, MoreKeys}
Tried == <<"admin", "ui", "ui-2", "ui-3", "ui-4">>
Made == <<"g1", "g2", "g3", "g4", "g5", "g6", "g7">>
=============================================================================

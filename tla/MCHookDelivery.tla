--------------------------- MODULE MCHookDelivery ---------------------------
(* Small instances of HookDelivery for TLC. *)
EXTENDS HookDelivery

DiscordAndScript == <<"discord", "script">>
AllAndFailed ==
  [h \in Hooks |-> IF h = "script" THEN {"EXTRACTFAILED"} ELSE {"WAITING"}]
JustDiscord == <<"discord">>
JustQueued == [h \in Hooks |-> {"QUEUED"}]
NoneExcluded == [h \in Hooks |-> {}]
=============================================================================

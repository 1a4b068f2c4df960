---------------------------- MODULE MCReplyLock -----------------------------
(***************************************************************************)
(* A message that may hang in the LLM, a second delivery of it, and a       *)
(* message of somebody else: in one group chat, or in a chat of his own.    *)
(***************************************************************************)
EXTENDS ReplyLock

MCJob == {"first", "again", "other"}
MCIdOf == [j \in MCJob |-> IF j = "other" THEN "m2" ELSE "m1"]
MCId == {"m1", "m2"}

OneChat == {"group"}
InOneChat == [j \in MCJob |-> "group"]

TwoChats == {"group", "private"}
InTwoChats == [j \in MCJob |-> IF j = "other" THEN "private" ELSE "group"]
=============================================================================

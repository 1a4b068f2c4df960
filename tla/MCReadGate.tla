----------------------------- MODULE MCReadGate -----------------------------
(***************************************************************************)
(* Two chats whose handlers share the list and the flag; the first has two  *)
(* messages, so that replies and timers follow each other; the LLM has no   *)
(* answer to the one of the second, whose thread only asks and judges.      *)
(***************************************************************************)
EXTENDS ReadGate

CONSTANTS c1, c2

MCChats   == {c1, c2}
MCPerChat == [c \in MCChats |-> IF c = c1 THEN 2 ELSE 1]
=============================================================================

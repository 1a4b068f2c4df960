--------------------------- MODULE MCDeadLetters ----------------------------
(***************************************************************************)
(* One chat with one message, room for three rows, and two requests.  A row *)
(* is replayed under an id of its own, so that its replay stands to the     *)
(* others of the chat as another message would.                             *)
(***************************************************************************)
EXTENDS DeadLetters

CONSTANTS m1, d1, d2, d3, q1, q2, chat

MCMessage == {m1}
MCRow     == {d1, d2, d3}
MCRequest == {q1, q2}
MCChat    == {chat}
MCHomeOf  == [x \in MCMessage \cup MCRow |-> chat]
MCReplay  == {<<d1, q1>>, <<d1, q2>>, <<d2, q1>>}
=============================================================================

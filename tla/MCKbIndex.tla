------------------------------ MODULE MCKbIndex ------------------------------
(***************************************************************************)
(* A bot and a web back end with one thread each; two chunks, so that one   *)
(* may be exchanged for another while their number stays the same.          *)
(***************************************************************************)
EXTENDS KbIndex, TLC

CONSTANTS bot, web, b1, w1, v1, v2

MCHome  == b1 :> bot @@ w1 :> web
MCAlone == b1 :> bot

\* Past an accident the properties that name it claim nothing.
MCNoAccident == flaws = {}
=============================================================================

---------------------------- MODULE MCPollCycle -----------------------------
(***************************************************************************)
(* A team chat that both channels return, where one person writes two       *)
(* polite words and, in the second of the latter, a question; or a group    *)
(* that can only be fetched by itself, with two people asking and my own    *)
(* words between, which may fill a page of one second.  A friend whom only  *)
(* list-all returns is silent.                                              *)
(***************************************************************************)
EXTENDS PollCycle

MCConvOf == [m \in Msg |-> IF m \in {"p1", "p2", "q"} THEN "team" ELSE "group"]

MCNoise == {"own", "own0"} \cap Msg

MCPolite == {"p1", "p2"} \cap Msg

MCSenderOf == [m \in Msg |-> CASE m \in MCNoise            -> "me"
                               [] m \in {"p1", "p2", "q"} -> "bob"
                               [] m = "g2"                -> "carl"
                               [] OTHER                   -> "ann"]

MCStamp == [m \in Msg |-> CASE m \in {"p1", "g1", "own0"} -> 0
                            [] m \in {"p2", "q", "own"}    -> 1
                            [] OTHER                       -> 2]
=============================================================================

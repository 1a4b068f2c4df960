----------------------------- MODULE MCDebounce -----------------------------
(***************************************************************************)
(* Four deliveries for the debounce buffer: a message of structured data,   *)
(* a captioned picture that holds the request, a second copy of the first   *)
(* message under another key of the same chat, and the same data sent once  *)
(* more on purpose, so late that the first copy is stale beside it.         *)
(***************************************************************************)
EXTENDS Debounce

MCDelivery == {"data", "picture", "copy", "again"}
MCKey == {"k1", "k2"}
MCKeyOf == [d \in MCDelivery |-> IF d = "copy" THEN "k2" ELSE "k1"]
MCChatOf == [k \in MCKey |-> "chat"]
MCMsgId == [d \in MCDelivery |-> d]
MCContent == [d \in MCDelivery |-> IF d = "picture" THEN "scan" ELSE "table"]
MCStamp == [d \in MCDelivery |-> CASE d = "again" -> 16
                                   [] d = "picture" -> 12
                                   [] OTHER -> 10]
MCTraits == [d \in MCDelivery |-> IF d = "picture" THEN {"image", "verb"} ELSE {"data"}]
MCPlatformOf == [k \in MCKey |-> "dingtalk"]
=============================================================================

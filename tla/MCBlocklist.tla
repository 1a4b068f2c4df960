---------------------------- MODULE MCBlocklist -----------------------------
(***************************************************************************)
(* A group and a friend, one thread of the send tool that writes to the     *)
(* latter, one request to clear the list.                                   *)
(***************************************************************************)
EXTENDS Blocklist

TwoChats == {"group", "friend"}
OneFriend == {"friend"}
OneSender == {"s1"}
=============================================================================

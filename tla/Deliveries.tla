----------------------------- MODULE Deliveries -----------------------------
(***************************************************************************)
(* The messages the engine works on, as far as its decisions tell them     *)
(* apart.  A delivery is one call of handle_message: the same message can   *)
(* be delivered several times, under one msg_id or, when two polling paths  *)
(* build it, under two (src/src/platform/message_loop.py).                  *)
(***************************************************************************)
EXTENDS Integers

CONSTANTS
    Delivery,    \* the calls of handle_message
    Key,         \* the (chat_id, sender_id) pairs
    KeyOf,       \* [Delivery -> Key]
    ChatOf,      \* [Key -> chat_id]
    MsgId,       \* [Delivery -> msg_id]
    Content,     \* [Delivery -> content]
    Stamp,       \* [Delivery -> server timestamp]
    Traits,      \* [Delivery -> SUBSET {"image", "data", "verb"}]
    DupWindow,   \* _DUP_CONTENT_WINDOW_SECONDS
    StaleGap     \* _STALE_BATCH_GAP_SECONDS

ASSUME DeliveryAssumption ==
    /\ KeyOf \in [Delivery -> Key]
    /\ Stamp \in [Delivery -> Nat]
    /\ DupWindow \in Nat
    /\ StaleGap \in Nat

\* what may become of a delivery
Fates == {"new", "ignored", "queued", "handed", "stale", "lost"}

Distance(a, b) == IF a < b THEN b - a ELSE a - b

\* _is_same_physical_message
SamePhysical(a, b) ==
    Content[a] = Content[b] /\ Distance(Stamp[a], Stamp[b]) <= DupWindow

SameChat(a, b) == ChatOf[KeyOf[a]] = ChatOf[KeyOf[b]]

\* _batch_has_request
HasRequest(batch) == \E d \in batch : "verb" \in Traits[d]

HasImage(batch) == \E d \in batch : "image" \in Traits[d]

\* _drop_stale_messages_in_batch: what survives of a batch
Fresh(batch) ==
    {d \in batch : \A e \in batch : Stamp[e] - Stamp[d] <= StaleGap}
=============================================================================

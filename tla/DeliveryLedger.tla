--------------------------- MODULE DeliveryLedger ---------------------------
(***************************************************************************)
(* What the debounce buffer promises, with no buffer, no timer and no clock *)
(* in it: a ledger of the fate of every delivery.  A delivery is accepted   *)
(* once, or ignored because a copy of it is accepted and still waiting; and *)
(* what is accepted leaves the ledger once, with a batch of its own key.    *)
(***************************************************************************)
EXTENDS Deliveries

VARIABLE fate

LedgerInit == fate = [d \in Delivery |-> "new"]

Waiting == {d \in Delivery : fate[d] = "queued"}

\* the batches of waiting deliveries of one key
Batches == {batch \in SUBSET Waiting :
               batch # {} /\ \A a, b \in batch : KeyOf[a] = KeyOf[b]}

Accept(d) ==
    /\ fate[d] = "new"
    /\ fate' = [fate EXCEPT ![d] = "queued"]

Discard(d) ==
    /\ fate[d] = "new"
    /\ \E p \in Waiting : SameChat(p, d) /\ (MsgId[p] = MsgId[d] \/ SamePhysical(p, d))
    /\ fate' = [fate EXCEPT ![d] = "ignored"]

\* _handle_message_impl gets the batch, less what is stale beside the rest
Settle(batch) ==
    fate' = [d \in Delivery |-> IF d \notin batch THEN fate[d]
                                ELSE IF d \in Fresh(batch) THEN "handed" ELSE "stale"]

\* the one way a running engine loses a batch: an OCR task that raises
Lose(batch) ==
    /\ HasImage(batch)
    /\ fate' = [d \in Delivery |-> IF d \in batch THEN "lost" ELSE fate[d]]

LedgerNext ==
    \/ \E d \in Delivery : Accept(d) \/ Discard(d)
    \/ \E batch \in Batches : Settle(batch) \/ Lose(batch)

LedgerSpec == LedgerInit /\ [][LedgerNext]_fate
=============================================================================

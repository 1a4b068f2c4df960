----------------------------- MODULE ReplyLock ------------------------------
(***************************************************************************)
(* The reply section of the engine: _handle_message_with_rid with the       *)
(* per-chat reply lock, its watchdog and its retries, the platform's reply  *)
(* slots (src/src/platform/runtime_inbound.py), and _send_reply with the    *)
(* cooldown and the de-duplication by last replied message                  *)
(* (src/src/platform/runtime_dispatch.py, runtime_reply_guard.py).          *)
(*                                                                          *)
(* A job is one merged message handed over by the debounce buffer, or put   *)
(* back by a replay: a thread that runs _handle_message_impl.  The chats    *)
(* here are those of one platform, which share one semaphore of slots.      *)
(* Every job is there from the start: when it arrives is when its thread is *)
(* first scheduled.  Durations are abstracted: what has lasted too long (a  *)
(* lock, a cooldown, a back-off) is so by a step of its own.                *)
(***************************************************************************)
EXTENDS Integers, FiniteSets

CONSTANTS
    None,
    Job,         \* the calls of _handle_message_impl
    Chat,
    ChatOf,      \* [Job -> Chat]
    Id,          \* message ids
    IdOf,        \* [Job -> Id]: two jobs with one id are a redelivery
    Media,       \* jobs of a graceful_fallback_msg_types type
    Followup,    \* jobs whose text passes _is_followup_message
    Hung,        \* jobs whose LLM or tool call may never return
    Slots,       \* max_concurrent_replies
    MaxRetries   \* _REPLY_LOCK_MAX_RETRIES

ASSUME JobAssumption ==
    /\ ChatOf \in [Job -> Chat] /\ IdOf \in [Job -> Id]
    /\ Media \cup Followup \cup Hung \subseteq Job
    /\ None \notin Job \cup Id
    /\ IsFiniteSet(Job)

ASSUME LimitAssumption == Slots \in Nat \ {0} /\ MaxRetries \in Nat

VARIABLES
    pc,           \* where the thread of a job is
    owner,        \* _replying_chats: whose token is registered for a chat
    overdue,      \* chats whose lock is older than _REPLY_LOCK_MAX_SECONDS
    retries,      \* _reply_lock_retries, one counter per chat
    evicted,      \* history: jobs whose lock the watchdog took away
    permits,      \* the value of reply_semaphore
    slotHeld,     \* jobs with reply_slot_acquired
    cooling,      \* chats answered less than reply_cooldown_seconds ago
    lastReplied,  \* last_replied_msg_id of a chat
    backoff,      \* ids in _send_backoff_until, all of them while rate limited
    told,         \* history: jobs whose message was answered, by one of them or
                  \* another, as long as the store has the mark
    recent        \* history: chats _send_reply has sent an answer to less than a
                  \* cooldown ago, unless the store lost its time

lockVars  == <<owner, overdue, retries, evicted>>
slotVars  == <<permits, slotHeld>>
coolVars  == <<cooling, recent>>
markVars  == <<lastReplied, told>>
replyVars == <<coolVars, markVars, backoff>>
vars == <<pc, lockVars, slotVars, replyVars>>

Locked  == {"held", "slot", "gates", "llm", "selfSent", "freeSlot", "unlock"}
Sending == {"check", "fallback", "send", "record"}
PC      == {"entry", "again", "contend", "retrying", "done"} \cup Locked \cup Sending

\* the threads that went through the lock and have not left its section
InSection(j) == pc[j] \in Locked \/ (pc[j] \in Sending /\ j \notin Media)

TypeOK ==
    /\ pc \in [Job -> PC]
    /\ owner \in [Chat -> Job \cup {None}]
    /\ overdue \in SUBSET Chat
    /\ retries \in [Chat -> 0 .. MaxRetries]
    /\ evicted \in SUBSET Job
    /\ permits \in Nat
    /\ slotHeld \in SUBSET Job
    /\ cooling \in SUBSET Chat
    /\ lastReplied \in [Chat -> Id \cup {None}]
    /\ backoff \in SUBSET Id
    /\ told \in SUBSET Job
    /\ recent \in SUBSET Chat

Init ==
    /\ pc = [j \in Job |-> "entry"]
    /\ owner = [c \in Chat |-> None]
    /\ overdue = {}
    /\ retries = [c \in Chat |-> 0]
    /\ evicted = {}
    /\ permits = Slots
    /\ slotHeld = {}
    /\ cooling = {}
    /\ lastReplied = [c \in Chat |-> None]
    /\ backoff = {}
    /\ told = {}
    /\ recent = {}

\* the jobs of one message: its deliveries
Twins(j) == {k \in Job : ChatOf[k] = ChatOf[j] /\ IdOf[k] = IdOf[j]}

Goto(j, from, to) == pc[j] = from /\ pc' = [pc EXCEPT ![j] = to]

-----------------------------------------------------------------------------
(* Before the lock.                                                         *)

\* _reply_cooldown_active: a follow-up question passes
Cools(j) == j \notin Followup /\ ChatOf[j] \in cooling

\* a job the retry timer runs again starts from the beginning
Enters(j, to) == pc[j] \in {"entry", "again"} /\ pc' = [pc EXCEPT ![j] = to]

\* _should_skip_inbound, which does not change its mind, or the cooldown
Dismiss(j) ==
    /\ pc[j] = "entry" \/ Cools(j)
    /\ Enters(j, "done")
    /\ UNCHANGED <<lockVars, slotVars, replyVars>>

\* the store cannot tell when the chat was last answered
CannotTell(j) ==
    /\ pc[j] = "again" /\ j \notin Followup
    /\ Enters(j, "done")
    /\ UNCHANGED <<lockVars, slotVars, replyVars>>

\* a voice or a video gets its fixed answer without the lock
Admit(j) ==
    /\ ~Cools(j)
    /\ Enters(j, IF j \in Media THEN "check" ELSE "contend")
    /\ UNCHANGED <<lockVars, slotVars, replyVars>>

-----------------------------------------------------------------------------
(* The critical section of _replying_lock.                                  *)

Register(j) ==
    /\ Goto(j, "contend", "held")
    /\ owner' = [owner EXCEPT ![ChatOf[j]] = j]
    /\ overdue' = overdue \ {ChatOf[j]}
    /\ UNCHANGED <<retries, slotVars, replyVars>>

Acquire(j) ==
    /\ owner[ChatOf[j]] = None
    /\ Register(j)
    /\ UNCHANGED evicted

\* the watchdog: the thread that holds the lock runs on, without knowing
TakeOver(j) ==
    /\ owner[ChatOf[j]] # None /\ ChatOf[j] \in overdue
    /\ Register(j)
    /\ evicted' = evicted \cup {owner[ChatOf[j]]}

Held(j) == owner[ChatOf[j]] # None /\ ChatOf[j] \notin overdue

\* mutant: the limit is off by one
PutOffOnceMore(j) ==
    /\ Held(j) /\ retries[ChatOf[j]] <= MaxRetries
    /\ Goto(j, "contend", "retrying")
    /\ retries' = [retries EXCEPT ![ChatOf[j]] = @ + 1]
    /\ UNCHANGED <<owner, overdue, evicted, slotVars, replyVars>>

\* mutant: the retry is not counted
PutOffUncounted(j) ==
    /\ Held(j) /\ retries[ChatOf[j]] < MaxRetries
    /\ Goto(j, "contend", "retrying")
    /\ UNCHANGED <<lockVars, slotVars, replyVars>>

PutOff(j) ==
    /\ Held(j) /\ retries[ChatOf[j]] < MaxRetries
    /\ Goto(j, "contend", "retrying")
    /\ retries' = [retries EXCEPT ![ChatOf[j]] = @ + 1]
    /\ UNCHANGED <<owner, overdue, evicted, slotVars, replyVars>>

GiveUp(j) ==
    /\ Held(j) /\ retries[ChatOf[j]] >= MaxRetries
    /\ Goto(j, "contend", "done")
    /\ UNCHANGED <<lockVars, slotVars, replyVars>>

\* the retry timer runs _handle_message_impl from its beginning
RetryFires(j) ==
    /\ Goto(j, "retrying", "again")
    /\ UNCHANGED <<lockVars, slotVars, replyVars>>

\* after the critical section
ResetRetries(j) ==
    /\ Goto(j, "held", "slot")
    /\ retries' = [retries EXCEPT ![ChatOf[j]] = 0]
    /\ UNCHANGED <<owner, overdue, evicted, slotVars, replyVars>>

-----------------------------------------------------------------------------
(* The slot of the platform.                                                *)

GetSlot(j) ==
    /\ permits > 0
    /\ Goto(j, "slot", "gates")
    /\ permits' = permits - 1
    /\ slotHeld' = slotHeld \cup {j}
    /\ UNCHANGED <<lockVars, replyVars>>

\* mutant: the acquire is outside the try whose finally frees the lock
SlotTimeoutOutsideTry(j) ==
    /\ permits = 0
    /\ Goto(j, "slot", "done")
    /\ UNCHANGED <<lockVars, slotVars, replyVars>>

SlotTimeout(j) ==
    /\ permits = 0
    /\ Goto(j, "slot", "freeSlot")
    /\ UNCHANGED <<lockVars, slotVars, replyVars>>

-----------------------------------------------------------------------------
(* The gates, and the answer of a rule, a gate or the LLM.                   *)

\* _mark_inbound_processed and its kind swallow what goes wrong in the store: the
\* answer is then forgotten, as are those whose mark this one replaces
Mark(j) ==
    /\ lastReplied' \in {lastReplied, [lastReplied EXCEPT ![ChatOf[j]] = IdOf[j]]}
    /\ told' = {k \in told :
                  ChatOf[k] = ChatOf[j] => IdOf[k] = lastReplied'[ChatOf[j]]}

\* _has_replied_after
Answered(j) == lastReplied[ChatOf[j]] = IdOf[j]

AlreadyAnswered(j) ==
    /\ Answered(j)
    /\ Goto(j, "gates", "freeSlot")
    /\ Mark(j)
    /\ UNCHANGED <<lockVars, slotVars, coolVars, backoff>>

\* taken over, owner present, a skip rule, a read conversation: some of these
\* mark the message, some do not
Gate(j) ==
    /\ ~Answered(j)
    /\ Goto(j, "gates", "freeSlot")
    /\ Mark(j)
    /\ UNCHANGED <<lockVars, slotVars, coolVars, backoff>>

\* mutant: a redelivery of the message just answered passes
PassAnswered(j) ==
    /\ pc[j] = "gates"
    /\ \E next \in {"llm", "check"} : pc' = [pc EXCEPT ![j] = next]
    /\ UNCHANGED <<lockVars, slotVars, replyVars>>

\* an urge of an approval, a reply gate and a fixed reply answer without the LLM
Pass(j) ==
    /\ ~Answered(j)
    /\ pc[j] = "gates"
    /\ \E next \in {"llm", "check"} : pc' = [pc EXCEPT ![j] = next]
    /\ UNCHANGED <<lockVars, slotVars, replyVars>>

\* an answer, or the fallback for a failed call
LlmReturns(j) ==
    /\ Goto(j, "llm", "check")
    /\ UNCHANGED <<lockVars, slotVars, replyVars>>

\* nothing to send: a dead letter, an empty answer, a draft for the owner
LlmKeepsQuiet(j) ==
    /\ Goto(j, "llm", "freeSlot")
    /\ Mark(j)
    /\ UNCHANGED <<lockVars, slotVars, coolVars, backoff>>

\* mutant: that the agent has answered is not noticed
AgentSendsUnnoticed(j) ==
    /\ pc[j] = "llm"
    /\ told' = told \cup Twins(j)
    /\ UNCHANGED <<pc, lockVars, slotVars, coolVars, lastReplied, backoff>>

\* the agent answers with its send_message tool, past the tests of _send_reply
AgentSends(j) ==
    /\ Goto(j, "llm", "selfSent")
    /\ told' = told \cup Twins(j)
    /\ UNCHANGED <<lockVars, slotVars, coolVars, lastReplied, backoff>>

\* _mark_agent_self_replied, or the mark after an error in what followed; no
\* cooldown begins
SelfReplied(j) ==
    /\ Goto(j, "selfSent", "freeSlot")
    /\ Mark(j)
    /\ UNCHANGED <<lockVars, slotVars, coolVars, backoff>>

-----------------------------------------------------------------------------
(* _send_reply.                                                             *)

AfterSend(j) == IF j \in Media THEN "done" ELSE "freeSlot"

\* the back-off of this id, the rate limit of the platform, the cooldown of the
\* chat, or a store that cannot tell; the callers then mark the message or not
Withhold(j) ==
    /\ IdOf[j] \in backoff \/ j \notin Followup
    /\ Goto(j, "check", AfterSend(j))
    /\ (j \notin Media /\ Mark(j)) \/ UNCHANGED markVars
    /\ UNCHANGED <<lockVars, slotVars, coolVars, backoff>>

\* an error of the store or of a rule, at the gates or when they are looked at
\* again before the send, which only the path of the LLM catches
Raises(j) ==
    /\ Goto(j, "gates", "freeSlot") \/ Goto(j, "check", AfterSend(j))
    /\ UNCHANGED <<lockVars, slotVars, replyVars>>

\* an empty text, a gate that has closed since the first look, nobody to send to
Veto(j) ==
    /\ IdOf[j] \notin backoff /\ ~Cools(j)
    /\ Goto(j, "check", AfterSend(j))
    /\ Mark(j)
    /\ UNCHANGED <<lockVars, slotVars, coolVars, backoff>>

\* _handle_sensitive_blocked_reply sends the fallback itself, with no cooldown
\* to follow, and marks the message; the caller's False is that of no answer
SensitiveWord(j) ==
    /\ IdOf[j] \notin backoff /\ ~Cools(j)
    /\ Goto(j, "check", "fallback")
    /\ told' = told \cup Twins(j)
    /\ UNCHANGED <<lockVars, slotVars, coolVars, lastReplied, backoff>>

FallbackSent(j) ==
    /\ Goto(j, "fallback", AfterSend(j))
    /\ Mark(j)
    /\ UNCHANGED <<lockVars, slotVars, coolVars, backoff>>

\* mutant: the cooldown is not looked at again before the message goes out
ClearedWithoutCooldown(j) ==
    /\ IdOf[j] \notin backoff
    /\ Goto(j, "check", "send")
    /\ UNCHANGED <<lockVars, slotVars, replyVars>>

Cleared(j) ==
    /\ IdOf[j] \notin backoff /\ ~Cools(j)
    /\ Goto(j, "check", "send")
    /\ UNCHANGED <<lockVars, slotVars, replyVars>>

Sends(j) ==
    /\ Goto(j, "send", "record")
    /\ told' = told \cup Twins(j)
    /\ recent' = recent \cup {ChatOf[j]}
    /\ UNCHANGED <<lockVars, slotVars, cooling, lastReplied, backoff>>

\* a back-off of this id, or of all while the platform limits the rate
BacksOff(j) == backoff' \in {backoff \cup {IdOf[j]}, Id}

\* The adapter raises or returns nothing, whether the message went out or not.
SendFails(j) ==
    /\ Goto(j, "send", AfterSend(j))
    /\ BacksOff(j)
    /\ (j \notin Media /\ Mark(j)) \/ UNCHANGED markVars
    /\ UNCHANGED <<lockVars, slotVars, coolVars>>

\* _record_reply_success: time and id are written one after the other, and
\* either may fail without the other
Writes(j) ==
    /\ Goto(j, "record", AfterSend(j))
    /\ \/ cooling' = cooling \cup {ChatOf[j]} /\ UNCHANGED recent
       \/ recent' = recent \ {ChatOf[j]} /\ UNCHANGED cooling
    /\ Mark(j)
    /\ UNCHANGED <<lockVars, slotVars>>

Record(j) ==
    /\ Writes(j)
    /\ UNCHANGED backoff

\* an error while the answer is saved: what was sent counts as not sent
RecordBreaks(j) ==
    /\ Writes(j)
    /\ BacksOff(j)

-----------------------------------------------------------------------------
(* The finally block.                                                       *)

\* mutant: the slot is given back whether or not it was got
FreeAnySlot(j) ==
    /\ Goto(j, "freeSlot", "unlock")
    /\ permits' = permits + 1 /\ slotHeld' = slotHeld \ {j}
    /\ UNCHANGED <<lockVars, replyVars>>

FreeSlot(j) ==
    /\ Goto(j, "freeSlot", "unlock")
    /\ permits' = IF j \in slotHeld THEN permits + 1 ELSE permits
    /\ slotHeld' = slotHeld \ {j}
    /\ UNCHANGED <<lockVars, replyVars>>

\* mutant: the lock of the chat is freed without a look at the token
UnlockAny(j) ==
    /\ Goto(j, "unlock", "done")
    /\ owner' = [owner EXCEPT ![ChatOf[j]] = None]
    /\ overdue' = overdue \ {ChatOf[j]}
    /\ UNCHANGED <<retries, evicted, slotVars, replyVars>>

Unlock(j) ==
    LET mine == owner[ChatOf[j]] = j IN
    /\ Goto(j, "unlock", "done")
    /\ owner' = IF mine THEN [owner EXCEPT ![ChatOf[j]] = None] ELSE owner
    /\ overdue' = IF mine THEN overdue \ {ChatOf[j]} ELSE overdue
    /\ UNCHANGED <<retries, evicted, slotVars, replyVars>>

-----------------------------------------------------------------------------
(* Time.                                                                    *)

LockGrowsOld(c) ==
    /\ owner[c] # None /\ c \notin overdue
    /\ overdue' = overdue \cup {c}
    /\ UNCHANGED <<pc, owner, retries, evicted, slotVars, replyVars>>

CooldownEnds(c) ==
    /\ c \in cooling \cup recent
    /\ cooling' = cooling \ {c} /\ recent' = recent \ {c}
    /\ UNCHANGED <<pc, lockVars, slotVars, markVars, backoff>>

BackoffEnds(i) ==
    /\ i \in backoff
    /\ backoff' = backoff \ {i}
    /\ UNCHANGED <<pc, lockVars, slotVars, coolVars, markVars>>

-----------------------------------------------------------------------------
BeforeLock(j) == Dismiss(j) \/ CannotTell(j) \/ Admit(j)
Contend(j)    == Acquire(j) \/ TakeOver(j) \/ PutOff(j) \/ GiveUp(j)
Slot(j)       == ResetRetries(j) \/ GetSlot(j) \/ SlotTimeout(j)
Gates(j)      == AlreadyAnswered(j) \/ Gate(j) \/ Raises(j) \/ Pass(j)
Llm(j)        == LlmReturns(j) \/ LlmKeepsQuiet(j) \/ AgentSends(j) \/ SelfReplied(j)
SendReply(j)  == \/ Withhold(j) \/ Veto(j) \/ SensitiveWord(j) \/ FallbackSent(j)
                 \/ Cleared(j) \/ Sends(j) \/ SendFails(j) \/ Record(j) \/ RecordBreaks(j)
Leave(j)      == FreeSlot(j) \/ Unlock(j)

\* what the thread of a job does without waiting for an answer of the LLM
Runs(j) == \/ BeforeLock(j) \/ Contend(j) \/ RetryFires(j) \/ Slot(j)
           \/ Gates(j) \/ SendReply(j) \/ Leave(j)

Time ==
    \/ \E c \in Chat : LockGrowsOld(c) \/ CooldownEnds(c)
    \/ \E i \in Id : BackoffEnds(i)

Next == (\E j \in Job : Runs(j) \/ Llm(j)) \/ Time

Spec == Init /\ [][Next]_vars

(* A started thread is scheduled, and a call that does not hang returns.    *)
Fairness ==
    /\ \A j \in Job : WF_vars(Runs(j))
    /\ \A j \in Job \ Hung : WF_vars(Llm(j))

FairSpec == Spec /\ Fairness

-----------------------------------------------------------------------------
(* Properties.                                                              *)

\* Every slot of the platform is free or held by one thread that still runs: no
\* timeout, takeover or failure leaks a slot or frees one twice.
SlotsConserved ==
    /\ permits + Cardinality(slotHeld) = Slots
    /\ \A j \in slotHeld : InSection(j) /\ pc[j] \notin {"held", "slot", "unlock"}

\* The thread whose token is registered for a chat is still on its way to the
\* finally block that frees it: a lock is never left behind.
OwnerInside ==
    \A c \in Chat : owner[c] # None => ChatOf[owner[c]] = c /\ InSection(owner[c])

\* Two threads work on one chat at a time only if the watchdog has taken the
\* lock away from one of them, and that one never frees the lock of the other.
OneAtATime ==
    \A j, k \in Job :
        (j # k /\ ChatOf[j] = ChatOf[k] /\ InSection(j) /\ InSection(k))
            => j \in evicted \/ k \in evicted

\* what the lock does not keep apart: media answers, and threads past the watchdog
Interfered(j) ==
    \E k \in Job : ChatOf[k] = ChatOf[j] /\ k \in Media \cup evicted

\* A message is not answered twice in two calls while the store has the mark of its
\* answer: from the test of the mark to the answer, by whichever of three ways it
\* goes out, no other answer of the chat comes in between (runtime_inbound.py:60-65).
\* A mark is lost when it cannot be written and when a later one replaces it.
NoRepeatedAnswer ==
    [][\A j \in Job :
          AgentSends(j) \/ SensitiveWord(j) \/ Sends(j) =>
             j \notin told \/ Interfered(j)]_vars

\* _send_reply sends nothing into a chat it has just sent an answer to, a follow-up
\* question apart: the cooldown tested before the lock and again before the send
\* leaves no gap (runtime_inbound.py:423, runtime_dispatch.py:410).  The fallback for
\* a sensitive word and what the agent sends begin no cooldown, nor does an answer
\* whose time cannot be written.
CooldownSeparates ==
    [][\A j \in Job :
          SensitiveWord(j) \/ Sends(j) =>
             ChatOf[j] \notin recent \/ j \in Followup \/ Interfered(j)]_vars

\* Whatever hangs, times out or is put off, a started thread that does not hang
\* itself comes to its end.
EventuallyDone ==
    <>(\A j \in Job \ Hung : pc[j] = "done")

-----------------------------------------------------------------------------
(* Statements of the comments that the code does not keep.                  *)

\* runtime_inbound.py: a message that finds its chat locked is put off, not
\* dropped, and handled when the answer before it is done.
PutOffIsNotDropped ==
    [][\A j \in Job : Dismiss(j) => pc[j] = "entry"]_vars
=============================================================================

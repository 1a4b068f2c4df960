---------------------------- MODULE DeadLetters -----------------------------
(***************************************************************************)
(* The queue of dead letters (src/src/memory/draft_repo.py), the failures   *)
(* of the LLM that fill it (src/src/platform/runtime_llm_reply.py) and the  *)
(* requests that replay or discard its rows (src/web/routers/               *)
(* dead_letters.py), composed with the reply section of module ReplyLock:   *)
(* a message and a replay of one of its rows are both jobs there.           *)
(*                                                                          *)
(* A replay tests the row's status, runs the whole reply section under an   *)
(* id made of the row's number, and sets the status: three steps, with the  *)
(* chat's lock, cooldown and last replied id in between, and with other     *)
(* requests for the same row beside it.                                     *)
(*                                                                          *)
(* The watchdog of the reply lock, what fails in the call of a send or after *)
(* it, media, and follow-up questions, which the cooldown lets pass, are    *)
(* left to ReplyLock.  The id of a replay is unique to the row, so the row  *)
(* stands for it.  Poller and web server run in one process (mode "both"):  *)
(* with two of them the locks of the chats would not be shared.             *)
(***************************************************************************)
EXTENDS Naturals, FiniteSets

CONSTANTS
    None,
    Message,     \* the messages the poller hands over
    Chat,
    Row,         \* rows the table can hold, each for a chat
    HomeOf,      \* [Message \cup Row -> Chat]
    Request,     \* threads of the web server, which also serve batch replays
    Replay,      \* which requests may replay which rows
    Slots, MaxRetries

ASSUME LettersAssumption ==
    /\ HomeOf \in [Message \cup Row -> Chat]
    /\ Message \cap Row = {} /\ Replay \subseteq Row \X Request
    /\ Message \cap ((Row \cup {None}) \X Request) = {}
    /\ None \notin Message \cup Row \cup (Row \X Request)
    /\ IsFiniteSet(Message) /\ IsFiniteSet(Row) /\ IsFiniteSet(Request)
    /\ Slots \in Nat \ {0} /\ MaxRetries \in Nat

VARIABLES
    \* the reply section
    pc, owner, overdue, retries, evicted, permits, slotHeld,
    cooling, lastReplied, backoff, told, recent,
    \* the table and the requests
    letter,    \* dead_letter_messages
    request,   \* the row a request replays
    returned,  \* requests whose call of _handle_message_impl has returned
    raised,    \* ... with an error
    \* history
    answered,  \* messages that were answered
    twice,     \* ... more than once
    refiled,   \* messages that got a row after an answer had gone out
    dropped    \* messages whose handling ended at a gate, a limit or an error

sectionVars == <<pc, owner, overdue, retries, evicted, permits, slotHeld,
                 cooling, lastReplied, backoff, told, recent>>
tableVars   == <<letter, request, raised>>
historyVars == <<answered, twice, refiled, dropped>>
vars == <<sectionVars, tableVars, returned, historyVars>>

-----------------------------------------------------------------------------
\* The jobs of the reply section: a message, or a row replayed by a request.

Job    == Message \cup Replay
IdOf == [j \in Job |-> IF j \in Message THEN j ELSE j[1]]
ChatOf == [j \in Job |-> HomeOf[IdOf[j]]]

Section == INSTANCE ReplyLock WITH
    Job <- Job, Chat <- Chat, ChatOf <- ChatOf, Id <- Message \cup Row,
    IdOf <- IdOf, Media <- {}, Followup <- {}, Hung <- {}

\* The message a job is about: replays of replays lead back to it.
About(j) == IF j \in Message THEN j ELSE letter[j[1]].of

NoLetter == [id |-> None, of |-> None, status |-> "none"]
Statuses == {"pending", "replayed", "failed", "discarded"}

TypeOK ==
    /\ Section!TypeOK
    /\ letter \in [Row -> {NoLetter} \cup
         [id : Message \cup Row, of : Message, status : Statuses]]
    /\ \A r \in Row : letter[r].id \in Row => letter[letter[r].id].of = letter[r].of
    /\ request \in [Request -> Row \cup {None}]
    /\ \A q \in Request : request[q] # None => letter[request[q]] # NoLetter
    /\ returned \cup raised \subseteq {q \in Request : request[q] # None}
    /\ answered \subseteq Message /\ twice \subseteq answered
    /\ refiled \cup dropped \subseteq Message

Init ==
    /\ Section!Init
    /\ letter = [r \in Row |-> NoLetter]
    /\ request = [q \in Request |-> None] /\ returned = {} /\ raised = {}
    /\ answered = {} /\ twice = {} /\ refiled = {} /\ dropped = {}

-----------------------------------------------------------------------------
\* How a job moves through the reply section.

Running == {<<request[q], q>> : q \in Request}   \* what requests replay

\* in a thread of the poller, of a request or of a retry timer
UnderWay(j) == pc[j] # "done" /\ (pc[j] # "entry" \/ j \in Message \cup Running)

\* The call of _handle_message_impl returns to its request when the job ends or
\* is put off; the retry runs in a timer thread of its own.
Returns(j) ==
    returned' = IF j \in Running /\ pc'[j] \in {"retrying", "done"}
                THEN returned \cup {j[2]} ELSE returned

Goes(j) ==
    /\ \/ Section!Admit(j) \/ Section!Acquire(j) \/ Section!PutOff(j)
       \/ Section!RetryFires(j) \/ Section!ResetRetries(j) \/ Section!GetSlot(j)
       \/ Section!AlreadyAnswered(j) \/ Section!Pass(j) \/ Section!LlmReturns(j)
       \/ Section!SelfReplied(j) \/ Section!FallbackSent(j) \/ Section!Cleared(j)
       \/ Section!Record(j) \/ Section!FreeSlot(j) \/ Section!Unlock(j)
    /\ UNCHANGED <<tableVars, historyVars>>

\* The message is done with, unanswered: a filter or the cooldown, the limit of
\* retries, no slot, a gate, an empty or uncertain answer, a last look at all
\* that before the send.
Drops(j) ==
    /\ \/ Section!Dismiss(j) \/ Section!CannotTell(j) \/ Section!GiveUp(j)
       \/ Section!SlotTimeout(j) \/ Section!Gate(j) \/ Section!LlmKeepsQuiet(j)
       \/ Section!Withhold(j) \/ Section!Veto(j)
    /\ dropped' = dropped \cup {About(j)}
    /\ UNCHANGED <<tableVars, answered, twice, refiled>>

\* An answer goes out: that of a rule or the LLM, the agent's own, or the fallback
\* for an answer with a sensitive word.
Answers(j) ==
    /\ Section!Sends(j) \/ Section!AgentSends(j) \/ Section!SensitiveWord(j)
    /\ answered' = answered \cup {About(j)}
    /\ twice' = IF About(j) \in answered THEN twice \cup {About(j)} ELSE twice
    /\ UNCHANGED <<tableVars, refiled, dropped>>

Fresh(j) == [id |-> IdOf[j], of |-> About(j), status |-> "pending"]
Free(j)  == {r \in Row : letter[r] = NoLetter /\ HomeOf[r] = ChatOf[j]}

\* mutant: a pending row of the chat will do
AddOncePerChat(j) ==
    IF \E r \in Row : HomeOf[r] = ChatOf[j] /\ letter[r].status = "pending"
    THEN UNCHANGED letter
    ELSE \E r \in Free(j) : letter' = [letter EXCEPT ![r] = Fresh(j)]

\* add_dead_letter: a pending row of the same message is used again
AddDeadLetter(j) ==
    IF \E r \in Row : letter[r].id = IdOf[j] /\ letter[r].status = "pending"
    THEN UNCHANGED letter
    ELSE \E r \in Free(j) : letter' = [letter EXCEPT ![r] = Fresh(j)]

\* _handle_rate_limit_exhausted and the like, and the sensitive word of an answer
\* that has no fallback: the row is written, then the message is marked.  The queue
\* may be disabled, and what goes wrong when the row is written is swallowed.
DeadLetter(j) ==
    /\ Section!LlmKeepsQuiet(j) \/ Section!Veto(j)
    /\ \/ AddDeadLetter(j) /\ UNCHANGED dropped
       \/ UNCHANGED letter /\ dropped' = dropped \cup {About(j)}
    /\ UNCHANGED <<request, raised, answered, twice, refiled>>

\* The row of an answered message: of the blocked answer after its fallback, after
\* an error in what follows the answer (_auto_save_memory) or the agent's own.
LetterAfterAnswer(j) ==
    /\ Section!FallbackSent(j) \/ Section!Record(j) \/ Section!SelfReplied(j)
    /\ AddDeadLetter(j)
    /\ refiled' = refiled \cup {About(j)}
    /\ UNCHANGED <<request, raised, answered, twice, dropped>>

\* An error that the reply section does not catch, in the thread of a request too.
Breaks(j) ==
    /\ Section!Raises(j)
    /\ raised' = IF j \in Running /\ j[2] \notin returned
                 THEN raised \cup {j[2]} ELSE raised
    /\ dropped' = dropped \cup {About(j)}
    /\ UNCHANGED <<letter, request, answered, twice, refiled>>

Handle(j) ==
    /\ UnderWay(j)
    /\ \/ Goes(j) \/ Drops(j) \/ Answers(j)
       \/ DeadLetter(j) \/ LetterAfterAnswer(j) \/ Breaks(j)
    /\ Returns(j)

Time ==
    /\ \E c \in Chat : Section!CooldownEnds(c)
    /\ UNCHANGED <<tableVars, returned, historyVars>>

-----------------------------------------------------------------------------
\* Requests.

MayReplay(r) == letter[r].status = "pending"

\* replay_dead_letter up to the call.  A number of a request is not used twice
\* for a row.
Begin(q, r) ==
    /\ <<r, q>> \in Replay
    /\ request[q] = None /\ pc[<<r, q>>] = "entry"
    /\ MayReplay(r)
    /\ request' = [request EXCEPT ![q] = r]
    /\ UNCHANGED <<sectionVars, letter, returned, raised, historyVars>>

\* The request has its answer.
Finish(q) ==
    /\ request' = [request EXCEPT ![q] = None]
    /\ returned' = returned \ {q} /\ raised' = raised \ {q}
    /\ UNCHANGED <<sectionVars, historyVars>>

\* mutant: the status is set only when the call raised
ResolveFailure(q) ==
    /\ q \in returned
    /\ letter' = [letter EXCEPT ![request[q]].status =
                    IF q \in raised THEN "failed" ELSE @]
    /\ Finish(q)

\* mutant: what the call came to is left behind
ResolveLeaving(q) ==
    /\ q \in returned
    /\ letter' = [letter EXCEPT ![request[q]].status =
                    IF q \in raised THEN "failed" ELSE "replayed"]
    /\ request' = [request EXCEPT ![q] = None]
    /\ UNCHANGED <<sectionVars, historyVars, returned, raised>>

\* Whatever the call has come to, unless it raised.
Resolve(q) ==
    /\ q \in returned
    /\ letter' = [letter EXCEPT ![request[q]].status =
                    IF q \in raised THEN "failed" ELSE "replayed"]
    /\ Finish(q)

\* The page offers it for pending rows; a replay may have begun.
Discard(r) ==
    /\ letter[r].status = "pending"
    /\ letter' = [letter EXCEPT ![r].status = "discarded"]
    /\ dropped' = dropped \cup {letter[r].of}
    /\ UNCHANGED <<sectionVars, request, returned, raised, answered, twice, refiled>>

Next ==
    \/ \E j \in Job : Handle(j)
    \/ Time
    \/ \E q \in Request, r \in Row : Begin(q, r)
    \/ \E q \in Request : Resolve(q)
    \/ \E r \in Row : Discard(r)

Spec == Init /\ [][Next]_vars

-----------------------------------------------------------------------------
\* Two requests have passed the test of the status of one row of the message.
Begun(r, q) == <<r, q>> \in Replay /\ (request[q] = r \/ pc[<<r, q>>] # "entry")
Raced(m) == \E r \in Row : \E p, q \in Request :
                letter[r].of = m /\ p # q /\ Begun(r, p) /\ Begun(r, q)

\* A message is answered again only if two requests raced for one of its rows, or
\* if it got a row after its answer had gone out: no replay that fails again, is put
\* off, or runs beside the answer of another message answers what was answered, nor
\* does the LLM's answer follow the agent's own (runtime_llm_reply.py:228-279,
\* runtime_inbound.py:66-70, agent_steps/reply.py:232-240).
TwiceOnlyByName == \A m \in twice : Raced(m) \/ m \in refiled

\* A message without an answer is under way, or has a row that waits for the
\* administrator, or was dropped at a gate, a limit or an error: a failure of
\* the LLM alone, first or repeated, never loses it while rows can be written
\* (runtime_llm_reply.py:185-227, draft_repo.py:45-82).
LostOnlyByName ==
    \A m \in Message \ (answered \cup dropped) :
        \/ \E j \in Job : About(j) = m /\ UnderWay(j)
        \/ \E r \in Row : letter[r].of = m /\ letter[r].status = "pending"

\* A message has two rows that wait only while a request replays one of them, or
\* if two raced for one: a replay that fails again takes its own row off the list
\* and leaves one (draft_repo.py:45-82, runtime_llm_reply.py:265-279).
OneRowWaits ==
    \A r, s \in Row :
        /\ r # s /\ letter[r].of = letter[s].of
        /\ letter[r].status = "pending" /\ letter[s].status = "pending"
        => Raced(letter[r].of) \/ \E q \in Request : request[q] \in {r, s}
=============================================================================

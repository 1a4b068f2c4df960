------------------------------ MODULE ReadGate ------------------------------
(***************************************************************************)
(* The gate for conversations the owner has read, and the delayed read      *)
(* mark of the bot itself (src/src/platform/runtime_inbound.py,             *)
(* runtime_dispatch.py, runtime_reply_guard.py).                            *)
(*                                                                          *)
(* A reply asks the platform twice which conversations are unread: before   *)
(* the LLM call, where a list of up to 30 seconds ago will do, and before   *)
(* it is sent.  All threads share one list and one flag for an answer that  *)
(* could not be understood, and no lock guards either.  After the reply a   *)
(* timer marks the conversation read, which changes what the next question  *)
(* to the platform returns.                                                 *)
(*                                                                          *)
(* The reply lock (module ReplyLock) keeps two replies of one chat apart,   *)
(* so there is one handler per chat; messages of a chat are numbered in the *)
(* order they came.  The other gates (own message, taken over, owner        *)
(* present) end a reply by a step that may always be taken.                 *)
(***************************************************************************)
EXTENDS Naturals, FiniteSets

CONSTANTS
    Chats,
    PerChat,   \* how many messages come into each chat
    Most,      \* a bound of PerChat
    Answered,  \* chats whose messages the LLM has an answer to
    ListSize   \* unread_conversation_count

ASSUME ReadGateAssumption ==
    /\ IsFiniteSet(Chats) /\ Answered \subseteq Chats
    /\ PerChat \in [Chats -> Nat]
    /\ Most \in Nat /\ \A c \in Chats : PerChat[c] <= Most
    /\ ListSize \in Nat \ {0}

VARIABLES
    came,     \* platform: how many messages a chat has
    read,     \* platform: up to which of them it is read
    owner,    \* history: up to which of them the owner read it himself
    cache,    \* _unread_conv_cache, or NoList
    young,    \* that list is less than 30 seconds old
    unknown,  \* _unread_conv_unknown
    handler,  \* the thread that replies in a chat
    timers,   \* _mark_read_timers: the message whose token is registered, or 0
    threads,  \* Timer threads: waiting, past their wait, or calling mark_read
    sent,     \* the latest message of a chat that was replied to, or 0
    missed    \* history: whether the mark of that message failed

platformVars == <<came, read, owner>>
listVars     == <<cache, young, unknown>>
markVars     == <<timers, threads, sent, missed>>
vars == <<platformVars, listVars, handler, markVars>>

Numbers == 0..Most

\* What a question to the platform gives: the chats of the list, and, as
\* history, how many messages each chat had when it was made.
Lists == [kind : {"list", "none", "malformed"},
          chats : SUBSET Chats, asOf : [Chats -> Numbers]]
ListOf(S) == [kind |-> "list", chats |-> S, asOf |-> came]
Empty(kind) == [kind |-> kind, chats |-> {}, asOf |-> [c \in Chats |-> 0]]
NoList == Empty("none")

\* quiet and sure are history: all messages of the chat were read when the
\* recheck asked, and none has come since; the question was answered with a
\* list, and the flag was not set when it was judged.
Idle == [at |-> "idle", msg |-> 0, fresh |-> FALSE, list |-> NoList,
         quiet |-> FALSE, sure |-> TRUE]

Handlers == [at : {"idle", "query", "store", "judge", "recheck", "send"},
             msg : Numbers, fresh : BOOLEAN, list : Lists,
             quiet : BOOLEAN, sure : BOOLEAN]

TimerThreads == [chat : Chats, msg : Numbers \ {0},
                 at : {"waiting", "elapsed", "marking"}]

Unread(c) == came[c] > read[c]

-----------------------------------------------------------------------------
TypeOK ==
    /\ came \in [Chats -> Numbers] /\ read \in [Chats -> Numbers]
    /\ owner \in [Chats -> Numbers]
    /\ \A c \in Chats : owner[c] <= read[c] /\ read[c] <= came[c]
    /\ cache \in Lists /\ cache.kind # "malformed" /\ young \in BOOLEAN /\ unknown \in BOOLEAN
    /\ handler \in [Chats -> Handlers]
    /\ \A c \in Chats : handler[c].msg <= came[c]
    /\ timers \in [Chats -> Numbers]
    /\ threads \subseteq TimerThreads
    /\ sent \in [Chats -> Numbers] /\ missed \in [Chats -> BOOLEAN]
    /\ \A c \in Chats : sent[c] <= came[c]

Init ==
    /\ came = [c \in Chats |-> 0] /\ read = [c \in Chats |-> 0]
    /\ owner = [c \in Chats |-> 0]
    /\ cache = NoList /\ young = FALSE /\ unknown = FALSE
    /\ handler = [c \in Chats |-> Idle]
    /\ timers = [c \in Chats |-> 0] /\ threads = {}
    /\ sent = [c \in Chats |-> 0] /\ missed = [c \in Chats |-> FALSE]

-----------------------------------------------------------------------------
\* The platform and the owner.

Arrive(c) ==
    /\ came[c] < PerChat[c]
    /\ came' = [came EXCEPT ![c] = @ + 1]
    /\ handler' = [handler EXCEPT ![c].quiet = FALSE]
    /\ UNCHANGED <<read, owner, listVars, markVars>>

OwnerReads(c) ==
    /\ owner[c] < came[c]
    /\ read' = [read EXCEPT ![c] = came[c]]
    /\ owner' = [owner EXCEPT ![c] = came[c]]
    /\ UNCHANGED <<came, listVars, handler, markVars>>

\* Thirty seconds pass.
ListAges ==
    /\ young /\ young' = FALSE
    /\ UNCHANGED <<platformVars, cache, unknown, handler, markVars>>

-----------------------------------------------------------------------------
\* The handler.  A message comes here again after a send that failed, and a
\* merged one stands for those before it.  What other gates end before the
\* first question is asked is left out.

\* Another gate, an LLM call without an answer, a send that fails.
End(c) ==
    /\ handler[c].at \in {"recheck", "send"}
    /\ handler' = [handler EXCEPT ![c] = Idle]
    /\ UNCHANGED <<platformVars, listVars, markVars>>

\* mutant: the recheck is content with the list kept, too
AnyKept(fresh)  == cache.kind = "list" /\ young

\* Whether a question is answered from the list kept.
FromKept(fresh) == ~fresh /\ cache.kind = "list" /\ young

\* _unread_conversation_ids up to its call.  The list kept is read here, and
\* is what remains when the call fails.
Ask(c, k, fresh) ==
    /\ unknown' = FALSE
    /\ handler' = [handler EXCEPT ![c] =
         [at |-> IF FromKept(fresh) THEN "judge" ELSE "query",
          msg |-> k, fresh |-> fresh, list |-> cache,
          quiet |-> fresh /\ ~Unread(c),
          sure |-> TRUE]]
    /\ UNCHANGED <<platformVars, cache, young, markVars>>

AskFirst(c) ==
    /\ handler[c].at = "idle"
    /\ \E k \in sent[c] + 1 .. came[c] : Ask(c, k, FALSE)

\* The LLM has answered and read_grace_seconds have passed.
AskAgain(c) ==
    /\ handler[c].at = "recheck" /\ c \in Answered
    /\ Ask(c, handler[c].msg, TRUE)

\* The platform names at most ListSize unread conversations.
Page == {S \in SUBSET {c \in Chats : Unread(c)} :
           \/ Cardinality(S) = ListSize
           \/ Cardinality(S) < ListSize /\ S = {c \in Chats : Unread(c)}}

Listed(c) ==
    /\ handler[c].at = "query"
    /\ \E S \in Page :
         handler' = [handler EXCEPT ![c] =
           [@ EXCEPT !.at = "store", !.list = ListOf(S)]]
    /\ UNCHANGED <<platformVars, listVars, markVars>>

NotAList(c) ==
    /\ handler[c].at = "query"
    /\ unknown' = TRUE
    /\ handler' = [handler EXCEPT ![c] =
         [@ EXCEPT !.at = "judge", !.list = Empty("malformed"), !.sure = FALSE]]
    /\ UNCHANGED <<platformVars, cache, young, markVars>>

\* Without an error the reply goes on to here.
Onward(c) == IF handler[c].fresh THEN "send" ELSE "recheck"

\* A call that fails falls back on the list read before it; without one the
\* error is caught in _owner_conversation_is_read, which lets the reply pass.
CallFails(c) ==
    /\ handler[c].at = "query"
    /\ handler' = [handler EXCEPT ![c] =
         [@ EXCEPT !.at = IF handler[c].list.kind = "none" THEN Onward(c) ELSE "judge",
                   !.sure = FALSE]]
    /\ UNCHANGED <<platformVars, listVars, markVars>>

Store(c) ==
    /\ handler[c].at = "store"
    /\ cache' = handler[c].list /\ young' = TRUE
    /\ handler' = [handler EXCEPT ![c].at = "judge"]
    /\ UNCHANGED <<platformVars, unknown, markVars>>

\* _owner_conversation_is_read: the flag may be another thread's by now.
JudgedRead(c) == ~unknown /\ c \notin handler[c].list.chats

Suppress(c) ==
    /\ handler[c].at = "judge" /\ JudgedRead(c)
    /\ handler' = [handler EXCEPT ![c] = Idle]
    /\ UNCHANGED <<platformVars, listVars, markVars>>

Proceed(c) ==
    /\ handler[c].at = "judge" /\ ~JudgedRead(c)
    /\ handler' = [handler EXCEPT ![c] =
         [@ EXCEPT !.at = Onward(c), !.list = NoList,
                   !.sure = handler[c].sure /\ ~unknown]]
    /\ UNCHANGED <<platformVars, listVars, markVars>>

-----------------------------------------------------------------------------
\* The delayed read mark.  The number of the message replied to is the token.

Timer(c, k, at) == [chat |-> c, msg |-> k, at |-> at]

\* mutant: the timer registered before is dropped, but not cancelled
RescheduleOnly(c, k) ==
    /\ timers' = [timers EXCEPT ![c] = k]
    /\ threads' = threads \cup {Timer(c, k, "waiting")}

\* mutant: a chat with a timer gets no other
ScheduleOnce(c, k) ==
    /\ timers' = [timers EXCEPT ![c] = IF @ = 0 THEN k ELSE @]
    /\ threads' = threads \cup
         (IF timers[c] = 0 THEN {Timer(c, k, "waiting")} ELSE {})

\* _schedule_mark_read_after_reply: the timer registered before is cancelled,
\* which ends its thread if it still waits.
Reschedule(c, k) ==
    /\ timers' = [timers EXCEPT ![c] = k]
    /\ threads' = (threads \ {Timer(c, timers[c], "waiting")})
                     \cup {Timer(c, k, "waiting")}

Send(c) ==
    /\ handler[c].at = "send"
    /\ sent' = [sent EXCEPT ![c] = handler[c].msg]
    /\ Reschedule(c, handler[c].msg)
    /\ missed' = [missed EXCEPT ![c] = FALSE]
    /\ handler' = [handler EXCEPT ![c] = Idle]
    /\ UNCHANGED <<platformVars, listVars>>

Elapse(t) ==
    /\ t \in threads /\ t.at = "waiting"
    /\ threads' = (threads \ {t}) \cup {[t EXCEPT !.at = "elapsed"]}
    /\ UNCHANGED <<platformVars, listVars, handler, timers, sent, missed>>

\* _fire under the lock: only the timer whose token is registered goes on.
Fire(t) ==
    /\ t \in threads /\ t.at = "elapsed"
    /\ IF timers[t.chat] = t.msg
       THEN /\ timers' = [timers EXCEPT ![t.chat] = 0]
            /\ threads' = (threads \ {t}) \cup {[t EXCEPT !.at = "marking"]}
       ELSE /\ threads' = threads \ {t}
            /\ UNCHANGED timers
    /\ UNCHANGED <<platformVars, listVars, handler, sent, missed>>

\* mutant: mark_read is called without the message
ReadAll(t) == came[t.chat]

\* mutant: a late mark sets the chat back to its own message
ReadDownTo(t) == t.msg

\* mark_read with a message: what came after it stays unread.
ReadUpTo(t) == IF read[t.chat] < t.msg THEN t.msg ELSE read[t.chat]

MarkRead(t) ==
    /\ t \in threads /\ t.at = "marking"
    /\ read' = [read EXCEPT ![t.chat] = ReadUpTo(t)]
    /\ threads' = threads \ {t}
    /\ UNCHANGED <<came, owner, listVars, handler, timers, sent, missed>>

\* An error of mark_read is logged, and nothing tries again.
MarkFails(t) ==
    /\ t \in threads /\ t.at = "marking"
    /\ missed' = [missed EXCEPT ![t.chat] = @ \/ t.msg = sent[t.chat]]
    /\ threads' = threads \ {t}
    /\ UNCHANGED <<platformVars, listVars, handler, timers, sent>>

-----------------------------------------------------------------------------
TimerStep == \E t \in threads : Elapse(t) \/ Fire(t) \/ MarkRead(t) \/ MarkFails(t)

Next ==
    \/ \E c \in Chats :
         \/ Arrive(c) \/ OwnerReads(c)
         \/ AskFirst(c) \/ AskAgain(c) \/ End(c)
         \/ Listed(c) \/ NotAList(c) \/ CallFails(c) \/ Store(c)
         \/ Suppress(c) \/ Proceed(c) \/ Send(c)
    \/ ListAges
    \/ TimerStep

Spec == Init /\ [][Next]_vars

\* Timer threads run and the calls they make return.
FairSpec == Spec /\ WF_vars(TimerStep)

-----------------------------------------------------------------------------
\* Among the timer threads of a chat only the registered one still waits, and
\* a message that was replied to is read, or its mark is to come, or was
\* tried and failed: however replies and timers of one chat overlap, none is
\* forgotten (runtime_reply_guard.py:198-248).
MarkOnItsWay ==
    /\ \A t \in threads : t.at = "waiting" => timers[t.chat] = t.msg
    /\ \A c \in Chats :
         \/ sent[c] <= read[c] \/ missed[c]
         \/ \E t \in threads :
              /\ t.chat = c /\ t.msg = sent[c]
              /\ t.at = "marking" \/ timers[c] = sent[c]

\* The bot does not silence itself: a message is taken for read only if the
\* owner has read it, the list is older than the message, the list was cut
\* off, or the platform's answer was no list.  The bot's own marks, late ones
\* too, never are the reason (runtime_reply_guard.py:201-210).
NotByItself ==
    \A c \in Chats :
        LET h == handler[c] IN
        h.at = "judge" /\ c \notin h.list.chats =>
            \/ h.msg <= owner[c]
            \/ h.list.kind = "malformed"
            \/ h.list.asOf[c] < h.msg
            \/ Cardinality(h.list.chats) = ListSize

\* A chat in which all was read before the recheck asked gets no reply any
\* more, unless something new came after that, or the question failed or was
\* answered with something that is no list, be it another thread's
\* (runtime_inbound.py:201-219, config_models/platform.py:179-182).
ReadStops ==
    \A c \in Chats :
        handler[c].at = "send" /\ handler[c].sure => ~handler[c].quiet

\* The comment at runtime_inbound.py:174-177 says that a new message puts its
\* chat back on the list of unread ones, so that it is answered as usual.
NewIsAnswered ==
    \A c \in Chats :
        handler[c].at = "judge" /\ handler[c].sure /\ JudgedRead(c) =>
            handler[c].msg <= read[c]

\* Every message replied to is marked read in the end, or its mark failed:
\* replies that follow each other put the mark off, but not for ever
\* (runtime_reply_guard.py:198-248).
EventuallyMarked ==
    \A c \in Chats :
        sent[c] > read[c] ~> read[c] >= sent[c] \/ missed[c]
=============================================================================

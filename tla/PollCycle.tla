----------------------------- MODULE PollCycle ------------------------------
(***************************************************************************)
(* The message intake of one platform: MessagePoller.run_loop and poll_once *)
(* (src/src/poller.py, poller_strategy.py, poller_core_*.py), with the      *)
(* reader thread of the event stream beside it.                             *)
(*                                                                          *)
(* A cycle fetches the recent messages of all listed chats and hands them   *)
(* on at once (the fast path), then fetches one conversation after another, *)
(* removes what is known, adds what the stream brought, cuts the rest at    *)
(* max_dispatch_per_cycle, and hands that on.  Two cursors move when        *)
(* messages are fetched; a message is marked in memory and in the store     *)
(* after the engine took it.  A merge of several messages is their set.     *)
(*                                                                          *)
(* Messages get lost on purpose (too old, before the first fetch), by a     *)
(* limit (pages, max_dispatch_per_cycle) or by an error: each such path     *)
(* says in `dropped' whom it lets go of.                                    *)
(***************************************************************************)
EXTENDS Integers, FiniteSets

CONSTANTS
    None,
    Msg,              \* the messages people send, and those that are skipped
    Noise,            \* own, not addressed to me, of a skipped type
    Polite,           \* texts without content: thanks, goodbyes, emoji, nothing
    Streamed,         \* messages the event stream delivers too
    Conv,
    ConvOf,           \* [Msg -> Conv]
    SenderOf,         \* [Msg -> sender]
    Stamp,            \* [Msg -> server timestamp, in the cursors' resolution]
    Listed,           \* conversations list-all returns
    Direct,           \* conversations that can be fetched one by one
    MergeWindow,      \* merge_window_seconds
    PageSize,         \* messages_per_conversation
    DispatchCap,      \* max_dispatch_per_cycle, 0 for no limit
    MaxIds,           \* max_processed_msg_ids
    PollConcurrency,  \* poll_concurrency
    FirstRun,         \* list_all_first_run_minutes
    Protection,       \* empty_poll_protection_minutes
    MaxWindow,        \* list_all_max_window_days
    MaxAge,           \* _max_new_message_age_days
    MaxTime           \* bound: the clock stops here

ASSUME MessageAssumption ==
    /\ Noise \cup Polite \cup Streamed \subseteq Msg
    /\ ConvOf \in [Msg -> Conv] /\ Listed \cup Direct = Conv
    /\ Stamp \in [Msg -> Nat]
    /\ None \notin Int
    /\ IsFiniteSet(Msg)

ASSUME ConfigAssumption ==
    /\ {MergeWindow, DispatchCap, MaxIds, FirstRun, Protection, MaxWindow,
        MaxAge, MaxTime} \subseteq Nat
    /\ {PageSize, PollConcurrency} \subseteq Nat \ {0}

VARIABLES
    now,        \* the clock of server and poller
    visible,    \* messages the server can return
    stage,      \* where run_loop is
    todo,       \* conversations poll_once has still to fetch
    found,      \* the merges it has fetched one by one
    batch,      \* merges to be dispatched, each with the channel it came by
    acting,     \* the merge the handler has taken and nobody has marked yet
    cursorAll,  \* _last_list_all_time
    cursor,     \* _last_poll_time
    memory,     \* _processed_msg_ids
    db,         \* dedup_messages
    streaming,  \* messages _on_stream_message has tested, not yet inserted
    queue,      \* _stream_queue
    handled,    \* history: how often the handler took a message, up to 2
    unmarked,   \* history: handled, but the mark in the store was lost
    dropped     \* history: let go by one of the paths that let go of messages

clockVars  == <<now, visible>>
cycleVars  == <<stage, todo, found, batch, acting>>
cursorVars == <<cursorAll, cursor>>
streamVars == <<streaming, queue>>
histVars   == <<handled, unmarked, dropped>>
vars == <<clockVars, cycleVars, cursorVars, memory, db, streamVars, histVars>>

Stages   == {"idle", "fast", "convs", "drain", "final"}
Channels == {"poll", "stream"}
Merge    == SUBSET Msg

TypeOK ==
    /\ now \in Nat
    /\ visible \in SUBSET Msg
    /\ stage \in Stages
    /\ todo \in SUBSET Direct
    /\ found \in SUBSET Merge
    /\ batch \in SUBSET (Channels \X Merge)
    /\ acting \in Merge
    /\ cursorAll \in Int \cup {None}
    /\ cursor \in [Conv -> Int \cup {None}]
    /\ {memory, db, streaming, queue, unmarked, dropped} \subseteq SUBSET Msg
    /\ handled \in [Msg -> 0 .. 2]

Init ==
    /\ now = 0 /\ visible = {}
    /\ stage = "idle" /\ todo = {} /\ found = {} /\ batch = {} /\ acting = {}
    /\ cursorAll = None /\ cursor = [c \in Conv |-> None]
    /\ memory = {} /\ db = {}
    /\ streaming = {} /\ queue = {}
    /\ handled = [m \in Msg |-> 0] /\ unmarked = {} /\ dropped = {}

-----------------------------------------------------------------------------
Of(c) == {m \in visible : ConvOf[m] = c}

Since(S, start) == {m \in S : Stamp[m] >= start}

Latest(S) == CHOOSE t \in {Stamp[m] : m \in S} : \A m \in S : Stamp[m] <= t

\* the message whose msg_id and timestamp a merge goes by, its last one
Head(g) == CHOOSE m \in g : \A n \in g : Stamp[n] <= Stamp[m]

\* _merge_consecutive_messages: what one sender writes in one conversation, with
\* no pause longer than the window
Talk(S, a) == {m \in S : ConvOf[m] = ConvOf[a] /\ SenderOf[m] = SenderOf[a]}

Linked(S, a, b) ==
    \A m \in S : Stamp[a] <= Stamp[m] /\ Stamp[m] < Stamp[b] =>
        \E n \in S : Stamp[m] < Stamp[n] /\ Stamp[n] <= Stamp[m] + MergeWindow

Groups(S) ==
    {{b \in Talk(S, a) : Linked(Talk(S, a), a, b) /\ Linked(Talk(S, a), b, a)} : a \in S}

\* _combine_message_group: of a group of nothing but politeness the first is left
First(g) == CHOOSE m \in g : \A n \in g : Stamp[m] <= Stamp[n]

Merged(S) == {IF g \subseteq Polite THEN {First(g)} ELSE g : g \in Groups(S)}

Swallowed(S) == S \ UNION Merged(S)

Aged(m) == now - Stamp[m] > MaxAge

\* mutant: the next fetch begins a second past the last message
PastSecond(S) == Latest(S) + 1

\* where the next fetch begins: in the second of the last message
NextStart(S) == Latest(S)

\* what the filters of both paths let through; they ask the store, not memory
New(S) == S \ (Noise \cup db)

MsgsOf(entries) == UNION {e[2] : e \in entries}

InFlight == (UNION found) \cup MsgsOf(batch) \cup acting \cup queue \cup streaming

\* the LRU cache with the ids S put in: which older ids leave it stays open
Remember(S) ==
    LET all == memory \cup S
    IN  {K \in SUBSET all : /\ S \subseteq K
                            /\ Cardinality(K) >= MaxIds \/ K = all}

\* who is let go of before anybody has handled it
LetGo(S) == dropped \cup {m \in S \ Noise : handled[m] = 0}

-----------------------------------------------------------------------------
(* The server.                                                              *)

Arrive(m) ==
    /\ m \notin visible /\ Stamp[m] = now
    /\ visible' = visible \cup {m}
    /\ UNCHANGED <<now, cycleVars, cursorVars, memory, db, streamVars, histVars>>

Tick ==
    /\ now < MaxTime
    /\ now' = now + 1
    /\ UNCHANGED <<visible, cycleVars, cursorVars, memory, db, streamVars, histVars>>

-----------------------------------------------------------------------------
(* list-all: fetch, filter, merge, and move both cursors; nothing has been   *)
(* handed on yet.                                                           *)

AllStart ==
    LET start == IF cursorAll = None THEN now - FirstRun ELSE cursorAll
    IN  IF start < now - MaxWindow THEN now - MaxWindow ELSE start

AllListed == {m \in visible : ConvOf[m] \in Listed}

\* list-all may leave out some of its window: what the page limit cuts off, what
\* a refusal hides that the adapter returns as an empty list, conversations that
\* are skipped as inaccessible.  It may return `old' messages from before.
FetchAll(left, old) ==
    LET got   == (Since(AllListed, AllStart) \ left) \cup old
        timed == {m \in got : m \in db \/ ~Aged(m)}
        fresh == New(timed \ old)
    IN
    /\ stage = "idle"
    /\ stage' = "fast"
    /\ batch' = {<<"poll", g>> : g \in Merged(fresh)}
    /\ cursorAll' = IF timed = {} THEN now - Protection ELSE NextStart(timed)
    /\ cursor' = [c \in Conv |-> IF Of(c) \cap timed = {} THEN cursor[c]
                                 ELSE NextStart(Of(c) \cap timed)]
    /\ dropped' = LetGo(left \cup Swallowed(fresh) \cup {m \in got : Aged(m)}
          \cup {m \in AllListed : Stamp[m] < AllStart /\ (cursorAll = None \/ cursorAll <= Stamp[m])})
    /\ UNCHANGED <<clockVars, todo, found, acting, memory, db, streamVars,
                   handled, unmarked>>

FetchAllFails ==
    /\ stage = "idle"
    /\ stage' = "convs" /\ todo' = Direct
    /\ UNCHANGED <<clockVars, found, batch, acting, cursorVars, memory, db,
                   streamVars, histVars>>

\* mutant: conversations that cannot be fetched by themselves are tried too
FastPathDoneForAll ==
    /\ stage = "fast" /\ batch = {} /\ acting = {}
    /\ stage' = "convs" /\ todo' = Conv
    /\ UNCHANGED <<clockVars, found, batch, acting, cursorVars, memory, db,
                   streamVars, histVars>>

FastPathDone ==
    /\ stage = "fast" /\ batch = {} /\ acting = {}
    /\ stage' = "convs" /\ todo' = Direct
    /\ UNCHANGED <<clockVars, found, batch, acting, cursorVars, memory, db,
                   streamVars, histVars>>

-----------------------------------------------------------------------------
(* One conversation after another.  With poll_concurrency above 1 worker     *)
(* threads fetch several at once; they share no data of a conversation, so   *)
(* one is as good as done before the next.                                  *)

\* the page of a fetch: the oldest messages from the cursor on
Pages(S) ==
    {P \in SUBSET S :
        /\ \A m \in P, n \in S \ P : Stamp[m] <= Stamp[n]
        /\ IF Cardinality(S) <= PageSize THEN P = S ELSE Cardinality(P) = PageSize}

\* The first fetch after a start begins now: upsert_conversation has just
\* overwritten the last_message_time it would have begun at.
FetchStart(c) == IF cursor[c] = None THEN now ELSE cursor[c]

Early == now - Protection

\* mutant: only messages that are new move the cursor
PollConversationNewOnly(c) ==
    /\ stage = "convs" /\ c \in todo
    /\ todo' = todo \ {c}
    /\ \E page \in Pages(Since(Of(c), FetchStart(c))) :
          LET fresh == New({m \in page : ~Aged(m)})
              next  == IF page = {} THEN Early ELSE IF fresh = {} THEN FetchStart(c) ELSE NextStart(fresh) IN
          /\ found' = found \cup Merged(fresh)
          /\ cursor' = [cursor EXCEPT ![c] = next]
          /\ dropped' = LetGo(Swallowed(fresh) \cup {m \in page : Aged(m)}
                \cup {m \in Of(c) : cursor[c] = None /\ Stamp[m] < next})
    /\ UNCHANGED <<clockVars, stage, batch, acting, cursorAll, memory, db,
                   streamVars, handled, unmarked>>

PollConversation(c) ==
    /\ stage = "convs" /\ c \in todo
    /\ todo' = todo \ {c}
    /\ \E page \in Pages(Since(Of(c), FetchStart(c))) :
          LET fresh == New({m \in page : ~Aged(m)})
              next  == IF page = {} THEN Early ELSE NextStart(page) IN
          /\ found' = found \cup Merged(fresh)
          /\ cursor' = [cursor EXCEPT ![c] = next]
          /\ dropped' = LetGo(Swallowed(fresh) \cup {m \in page : Aged(m)}
                \cup {m \in Of(c) : cursor[c] = None /\ Stamp[m] < next})
    /\ UNCHANGED <<clockVars, stage, batch, acting, cursorAll, memory, db,
                   streamVars, handled, unmarked>>

\* unknown, inaccessible, throttled, rate limited, or the fetch fails; with
\* workers, any other exception too
SkipConversation(c) ==
    /\ stage = "convs" /\ c \in todo
    /\ todo' = todo \ {c}
    /\ UNCHANGED <<clockVars, stage, found, batch, acting, cursorVars, memory,
                   db, streamVars, histVars>>

\* a message that cannot be converted: the cursor is moved past the page
BadPage(c) ==
    /\ stage = "convs" /\ c \in todo
    /\ todo' = todo \ {c}
    /\ cursor' = [cursor EXCEPT ![c] = Early]
    /\ dropped' = LetGo({m \in Of(c) : Stamp[m] < Early})
    /\ UNCHANGED <<clockVars, stage, found, batch, acting, cursorAll, memory,
                   db, streamVars, handled, unmarked>>

\* without workers an error of the store ends the cycle
CycleBreaks ==
    /\ stage = "convs" /\ todo # {} /\ PollConcurrency = 1
    /\ stage' = "idle" /\ todo' = {} /\ found' = {}
    /\ dropped' = LetGo(UNION found)
    /\ UNCHANGED <<clockVars, batch, acting, cursorVars, memory, db, streamVars,
                   handled, unmarked>>

\* _global_deduplicate: memory first, then the store, by the id of the merge
Deduplicate ==
    LET known == {g \in found : Head(g) \in memory \cup db} IN
    /\ stage = "convs" /\ todo = {}
    /\ stage' = "drain"
    /\ batch' = {<<"poll", g>> : g \in found \ known}
    /\ found' = {}
    /\ memory' = memory \cup ({Head(g) : g \in known} \cap db)
    /\ dropped' = LetGo((UNION known) \ {Head(g) : g \in known})
    /\ UNCHANGED <<clockVars, todo, acting, cursorVars, db, streamVars, handled,
                   unmarked>>

\* the stream's messages join, and _dispatch_messages keeps the oldest
Drain ==
    LET all == batch \cup {<<"stream", {m}>> : m \in queue} IN
    /\ stage = "drain"
    /\ stage' = "final"
    /\ queue' = {}
    /\ \E chosen \in SUBSET all :
          /\ \A d \in chosen, e \in all \ chosen :
                Stamp[Head(d[2])] <= Stamp[Head(e[2])]
          /\ IF DispatchCap = 0 \/ Cardinality(all) <= DispatchCap
             THEN chosen = all ELSE Cardinality(chosen) = DispatchCap
          /\ batch' = chosen
          /\ dropped' = LetGo(MsgsOf(all \ chosen))
    /\ UNCHANGED <<clockVars, todo, found, acting, cursorVars, memory, db,
                   streaming, handled, unmarked>>

CycleEnds ==
    /\ stage = "final" /\ batch = {} /\ acting = {}
    /\ stage' = "idle"
    /\ UNCHANGED <<clockVars, todo, found, batch, acting, cursorVars, memory, db,
                   streamVars, histVars>>

-----------------------------------------------------------------------------
(* _dispatch_one.                                                           *)

Turn(e) ==
    /\ stage \in {"fast", "final"} /\ acting = {}
    /\ e \in batch
    /\ stage = "final" => \A d \in batch : Stamp[Head(e[2])] <= Stamp[Head(d[2])]

\* the handler, handle_message of the engine, returns ...
Hand(e) ==
    /\ Turn(e)
    /\ batch' = batch \ {e}
    /\ acting' = e[2]
    /\ handled' = [m \in Msg |-> IF m \in e[2] /\ handled[m] < 2
                                 THEN handled[m] + 1 ELSE handled[m]]
    /\ UNCHANGED <<clockVars, stage, todo, found, cursorVars, memory, db,
                   streamVars, unmarked, dropped>>

\* mutant: the ids are marked all the same
HandlerRaisesMarked(e) ==
    /\ Turn(e)
    /\ batch' = batch \ {e}
    /\ dropped' = LetGo(e[2])
    /\ memory' = memory \cup e[2] /\ db' = db \cup e[2]
    /\ UNCHANGED <<clockVars, stage, todo, found, acting, cursorVars,
                   streamVars, handled, unmarked>>

\* ... or raises: the text is saved, nothing is marked
HandlerRaises(e) ==
    /\ Turn(e)
    /\ batch' = batch \ {e}
    /\ dropped' = LetGo(e[2])
    /\ UNCHANGED <<clockVars, stage, todo, found, acting, cursorVars, memory, db,
                   streamVars, handled, unmarked>>

\* mutant: only the id a merge goes by is marked
MarkHead ==
    /\ acting # {}
    /\ acting' = {}
    /\ memory' \in Remember({Head(acting)})
    /\ \E lost \in SUBSET {Head(acting)} :
          /\ db' = db \cup ({Head(acting)} \ lost)
          /\ unmarked' = unmarked \cup lost

\* every id of a merge is marked, each write to the store may fail unnoticed
Mark ==
    /\ acting # {}
    /\ acting' = {}
    /\ memory' \in Remember(acting)
    /\ \E lost \in SUBSET acting :
          /\ db' = db \cup (acting \ lost)
          /\ unmarked' = unmarked \cup lost

Settle ==
    /\ Mark
    /\ UNCHANGED <<clockVars, stage, todo, found, batch, cursorVars, streamVars,
                   handled, dropped>>

\* save_message raises a sqlite3 error: it ends the loop over the batch and
\* the cycle
SaveFails ==
    /\ Mark
    /\ stage' = "idle" /\ batch' = {}
    /\ dropped' = LetGo(MsgsOf(batch))
    /\ UNCHANGED <<clockVars, todo, found, cursorVars, streamVars, handled>>

\* it does so too when the handler has raised
BothFail(e) ==
    /\ Turn(e)
    /\ stage' = "idle" /\ batch' = {}
    /\ dropped' = LetGo(MsgsOf(batch))
    /\ UNCHANGED <<clockVars, todo, found, acting, cursorVars, memory, db,
                   streamVars, handled, unmarked>>

-----------------------------------------------------------------------------
(* _on_stream_message: two critical sections of _poll_shared_lock.          *)

StreamTest(m) ==
    /\ m \in Streamed \cap visible
    /\ m \notin memory \cup streaming
    /\ streaming' = streaming \cup {m}
    /\ UNCHANGED <<clockVars, cycleVars, cursorVars, memory, db, queue, histVars>>

StreamInsert(m) ==
    /\ m \in streaming
    /\ streaming' = streaming \ {m}
    /\ memory' \in Remember({m})
    /\ queue' = queue \cup {m}
    /\ UNCHANGED <<clockVars, cycleVars, cursorVars, db, histVars>>

-----------------------------------------------------------------------------
\* The process ends at any point and starts again: memory is loaded from the
\* store, the cursors begin anew.
Restart ==
    /\ stage' = "idle" /\ todo' = {} /\ found' = {} /\ batch' = {} /\ acting' = {}
    /\ cursorAll' = None /\ cursor' = [c \in Conv |-> None]
    /\ memory' = db
    /\ streaming' = {} /\ queue' = {}
    /\ unmarked' = unmarked \cup acting
    /\ dropped' = LetGo(InFlight)
    /\ UNCHANGED <<clockVars, db, handled>>

-----------------------------------------------------------------------------
Server == Tick \/ \E m \in Msg : Arrive(m)

ListAll ==
    \E left \in SUBSET Since(AllListed, AllStart), old \in SUBSET (AllListed \ Since(AllListed, AllStart)) :
        FetchAll(left, old)

Fetch ==
    \/ ListAll \/ FetchAllFails \/ FastPathDone
    \/ \E c \in Conv : PollConversation(c) \/ SkipConversation(c) \/ BadPage(c)
    \/ CycleBreaks \/ Deduplicate \/ Drain \/ CycleEnds

Dispatch ==
    \/ \E e \in batch : Hand(e) \/ HandlerRaises(e) \/ BothFail(e)
    \/ Settle \/ SaveFails

Stream == \E m \in Msg : StreamTest(m) \/ StreamInsert(m)

Next == Server \/ Fetch \/ Dispatch \/ Stream \/ Restart

Spec == Init /\ [][Next]_vars

(* The threads run on; a channel that is asked again and again answers once.*)
Fairness ==
    /\ WF_vars(Fetch \/ Dispatch)
    /\ SF_vars(ListAll)
    /\ \A c \in Conv : SF_vars(PollConversation(c))
    /\ WF_vars(Stream)

FairSpec == Spec /\ Fairness

-----------------------------------------------------------------------------
(* Properties.                                                              *)

\* However the two paths overlap, and wherever a crash hits, a message that the
\* stream does not bring reaches the engine a second time only after the mark
\* of the first time was lost.
TwiceOnlyUnmarked ==
    \A m \in Msg : handled[m] > 1 => m \in unmarked \cup Streamed

\* A mark is never ahead of the hand-over it stands for: no failure or crash in
\* between makes the poller skip a message the engine has never seen.
MarkedOnlyIfHandled ==
    /\ \A m \in db : handled[m] > 0
    /\ \A m \in memory \ Streamed : handled[m] > 0

\* what the next fetch of some path still returns
InReach(m) ==
    \/ /\ ConvOf[m] \in Listed
       /\ cursorAll = None \/ Stamp[m] >= cursorAll
    \/ /\ ConvOf[m] \in Direct
       /\ cursor[ConvOf[m]] = None \/ Stamp[m] >= cursor[ConvOf[m]]

\* The cursors move before the messages are handed on, by other paths and by
\* full pages, and messages arrive between; still they pass over none that is
\* neither handled, nor on its way, nor let go by one of the paths that say so:
\* too old, before a first fetch or the widest window, left out by list-all,
\* swallowed in a group of politeness, known under another id, an unreadable
\* page, over the limit of a cycle, a handler, store or process that failed.
NothingPassedOver ==
    \A m \in visible \ Noise :
        handled[m] > 0 \/ m \in InFlight \cup dropped \/ InReach(m)

\* A conversation that can only be fetched by itself is stuck for good at a second
\* whose messages fill a page: the cursor stays in that second.
Stuck(m) ==
    /\ ConvOf[m] \notin Listed
    /\ \E t \in {Stamp[n] : n \in Of(ConvOf[m])} :
          t <= Stamp[m] /\ Cardinality({n \in Of(ConvOf[m]) : Stamp[n] = t}) >= PageSize

\* A message people sent gets to the engine, unless one of those paths drops it,
\* a second that fills a page holds it up, or restarts or failures of the store
\* break the cycle again and again.
EventuallyHandled ==
    \/ []<><<Restart \/ SaveFails \/ \E e \in batch : BothFail(e)>>_vars
    \/ \A m \in Msg \ Noise :
          m \in visible ~> (handled[m] > 0 \/ m \in dropped \/ Stuck(m))
=============================================================================

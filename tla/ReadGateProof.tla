--------------------------- MODULE ReadGateProof ----------------------------
(***************************************************************************)
(* Proofs about the read gate and the delayed read marks, for any chats and *)
(* messages and any size of the list of unread conversations.               *)
(***************************************************************************)
EXTENDS ReadGate, TLAPS

-----------------------------------------------------------------------------
(* The inductive invariant.                                                 *)

\* a handler works on a message after the last one that was replied to
Ahead == \A c \in Chats : handler[c].at # "idle" => sent[c] < handler[c].msg

\* what is to be stored is a list
Storable == \A c \in Chats : handler[c].at = "store" => handler[c].list.kind = "list"

\* timers mark what was replied to, each message at most one of them
Replied == \A t \in threads : t.msg <= sent[t.chat]
Unique == \A t, u \in threads : t.chat = u.chat /\ t.msg = u.msg => t = u

\* what is read was read by the owner, or replied to and marked by a timer
ReadBy == \A c \in Chats : read[c] <= owner[c] \/ read[c] <= sent[c]

\* a chat that is not on a list was read then by the owner or by a timer
Genuine(list) ==
    \/ Cardinality(list.chats) = ListSize
    \/ \A c \in Chats \ list.chats : list.asOf[c] <= owner[c] \/ list.asOf[c] <= sent[c]
GenuineLists == Genuine(cache) /\ \A c \in Chats : Genuine(handler[c].list)

\* a recheck that found the chat read got a list without it
Quiet ==
    \A c \in Chats :
        handler[c].quiet => /\ ~Unread(c)
                            /\ handler[c].at \in {"store", "judge"} /\ handler[c].sure
                                  => c \notin handler[c].list.chats

IInv ==
    /\ TypeOK
    /\ Ahead /\ Storable
    /\ Replied /\ Unique /\ MarkOnItsWay
    /\ ReadBy /\ GenuineLists
    /\ Quiet /\ ReadStops

-----------------------------------------------------------------------------
(* Types.                                                                   *)

LEMMA NumbersAre == Most \in Nat /\ Numbers \subseteq Nat /\ 0 \in Numbers
    BY ReadGateAssumption DEF Numbers

LEMMA EmptyTyped ==
    ASSUME NEW kind \in {"list", "none", "malformed"}
    PROVE  /\ Empty(kind) \in Lists
           /\ Empty(kind).kind = kind /\ Empty(kind).chats = {}
           /\ \A c \in Chats : Empty(kind).asOf[c] = 0
<1>1. [c \in Chats |-> 0] \in [Chats -> Numbers]
    BY NumbersAre
<1>2. {} \in SUBSET Chats
    OBVIOUS
<1> QED
    BY <1>1, <1>2 DEF Empty, Lists

LEMMA IdleTyped == Idle \in Handlers /\ Idle.at = "idle" /\ Idle.quiet = FALSE
                    /\ Idle.msg = 0 /\ Idle.list = NoList
    BY NumbersAre, EmptyTyped DEF Idle, Handlers, NoList

LEMMA InitInv == Init => IInv
<1> SUFFICES ASSUME Init PROVE IInv
    OBVIOUS
<1> USE NumbersAre, EmptyTyped, IdleTyped DEF Init
<1>1. TypeOK
    <2>1. came \in [Chats -> Numbers] /\ read \in [Chats -> Numbers] /\ owner \in [Chats -> Numbers]
          /\ timers \in [Chats -> Numbers] /\ sent \in [Chats -> Numbers]
        OBVIOUS
    <2>2. handler \in [Chats -> Handlers] /\ missed \in [Chats -> BOOLEAN]
        OBVIOUS
    <2>3. cache \in Lists /\ cache.kind # "malformed"
        BY DEF NoList
    <2>4. \A c \in Chats : /\ owner[c] <= read[c] /\ read[c] <= came[c] /\ sent[c] <= came[c]
                           /\ handler[c].msg <= came[c]
        OBVIOUS
    <2>5. threads \subseteq TimerThreads /\ young \in BOOLEAN /\ unknown \in BOOLEAN
        OBVIOUS
    <2> QED
        BY <2>1, <2>2, <2>3, <2>4, <2>5 DEF TypeOK
<1>2. Ahead /\ Storable /\ Quiet /\ ReadStops
    BY DEF Ahead, Storable, Quiet, ReadStops
<1>3. Replied /\ Unique /\ MarkOnItsWay /\ ReadBy
    BY DEF Replied, Unique, MarkOnItsWay, ReadBy
<1>4. GenuineLists
    BY DEF GenuineLists, Genuine, NoList
<1> QED
    BY <1>1, <1>2, <1>3, <1>4 DEF IInv

-----------------------------------------------------------------------------
(* Steps of a handler: it moves, and the list and the flag may change.      *)

LEMMA HandlerStep ==
    ASSUME IInv, NEW c \in Chats, NEW h \in Handlers,
           handler' = [handler EXCEPT ![c] = h],
           UNCHANGED <<platformVars, markVars>>,
           cache' \in Lists, cache'.kind # "malformed", Genuine(cache'),
           young' \in BOOLEAN, unknown' \in BOOLEAN,
           h.at # "idle" => sent[c] < h.msg, h.msg <= came[c],
           h.at = "store" => h.list.kind = "list",
           Genuine(h.list),
           h.quiet => /\ ~Unread(c)
                      /\ h.at \in {"store", "judge"} /\ h.sure => c \notin h.list.chats,
           h.at = "send" /\ h.sure => ~h.quiet
    PROVE  IInv'
<1> USE DEF platformVars, markVars
<1>1. handler' \in [Chats -> Handlers] /\ handler'[c] = h
      /\ \A d \in Chats : d # c => handler'[d] = handler[d]
    BY DEF IInv, TypeOK
<1>2. TypeOK'
    BY <1>1 DEF IInv, TypeOK
<1>3. Ahead' /\ Storable' /\ ReadStops'
    BY <1>1 DEF IInv, Ahead, Storable, ReadStops
<1>4. Replied' /\ Unique' /\ MarkOnItsWay' /\ ReadBy'
    BY DEF IInv, Replied, Unique, MarkOnItsWay, ReadBy
<1>5. GenuineLists'
    <2>1. Genuine(cache)'
        BY DEF Genuine
    <2>2. ASSUME NEW d \in Chats PROVE Genuine(handler[d].list)'
        BY <1>1 DEF IInv, GenuineLists, Genuine
    <2> QED
        BY <2>1, <2>2 DEF GenuineLists
<1>6. Quiet'
    BY <1>1 DEF IInv, Quiet, Unread
<1> QED
    BY <1>2, <1>3, <1>4, <1>5, <1>6 DEF IInv

\* What a chat has, by its type.
LEMMA ChatHas ==
    ASSUME IInv, NEW c \in Chats
    PROVE  /\ came[c] \in Nat /\ read[c] \in Nat /\ owner[c] \in Nat
           /\ sent[c] \in Nat /\ timers[c] \in Nat
           /\ owner[c] <= read[c] /\ read[c] <= came[c] /\ sent[c] <= came[c]
<1>1. came[c] \in Numbers /\ read[c] \in Numbers /\ owner[c] \in Numbers
      /\ sent[c] \in Numbers /\ timers[c] \in Numbers
    BY DEF IInv, TypeOK
<1>2. owner[c] <= read[c] /\ read[c] <= came[c] /\ sent[c] <= came[c]
    BY DEF IInv, TypeOK
<1> QED
    BY <1>1, <1>2, NumbersAre

\* What a handler has, by its type.
LEMMA HandlerHas ==
    ASSUME IInv, NEW c \in Chats
    PROVE  /\ handler[c] \in Handlers /\ handler[c].list \in Lists /\ handler[c].msg \in Numbers
           /\ handler[c].fresh \in BOOLEAN /\ handler[c].quiet \in BOOLEAN
           /\ handler[c].sure \in BOOLEAN /\ handler[c].msg <= came[c]
           /\ Genuine(handler[c].list)
    BY DEF IInv, TypeOK, Handlers, GenuineLists

\* The lists that stand for no answer are genuine.
LEMMA EmptyGenuine ==
    ASSUME IInv, NEW kind \in {"list", "none", "malformed"}
    PROVE  Genuine(Empty(kind))
<1>1. \A c \in Chats : sent[c] \in Nat
    BY NumbersAre DEF IInv, TypeOK
<1> QED
    BY <1>1, EmptyTyped DEF Genuine

LEMMA EndKeeps ==
    ASSUME IInv, NEW c \in Chats, End(c) \/ Suppress(c)
    PROVE  IInv'
<1>1. Idle.msg <= came[c]
    <2>1. 0 <= came[c]
        BY ChatHas
    <2> QED
        BY <2>1, IdleTyped
<1>2. Genuine(Idle.list)
    BY IdleTyped, EmptyGenuine DEF NoList
<1>3. /\ handler' = [handler EXCEPT ![c] = Idle]
      /\ UNCHANGED <<platformVars, markVars>> /\ UNCHANGED <<cache, young, unknown>>
    BY DEF End, Suppress, listVars
<1>4. /\ cache' \in Lists /\ cache'.kind # "malformed" /\ Genuine(cache')
      /\ young' \in BOOLEAN /\ unknown' \in BOOLEAN
    BY <1>3 DEF IInv, TypeOK, GenuineLists
<1> QED
    BY <1>1, <1>2, <1>3, <1>4, IdleTyped, HandlerStep

LEMMA AskKeeps ==
    ASSUME IInv, NEW c \in Chats, NEW k \in Numbers, NEW fresh \in BOOLEAN,
           sent[c] < k, k <= came[c], Ask(c, k, fresh)
    PROVE  IInv'
<1> DEFINE h == [at |-> IF FromKept(fresh) THEN "judge" ELSE "query",
                 msg |-> k, fresh |-> fresh, list |-> cache,
                 quiet |-> fresh /\ ~Unread(c), sure |-> TRUE]
<1>1. h \in Handlers
    BY DEF IInv, TypeOK, Handlers
<1>2. fresh => h.at = "query"
    BY DEF FromKept
<1>3. /\ handler' = [handler EXCEPT ![c] = h]
      /\ UNCHANGED <<platformVars, markVars>> /\ UNCHANGED <<cache, young>> /\ unknown' = FALSE
    BY DEF Ask
<1>4. /\ cache' \in Lists /\ cache'.kind # "malformed" /\ Genuine(cache') /\ Genuine(cache)
      /\ young' \in BOOLEAN /\ unknown' \in BOOLEAN
    BY <1>3 DEF IInv, TypeOK, GenuineLists
<1>5. /\ h.at \in {"judge", "query"} /\ h.msg = k /\ h.list = cache
      /\ h.quiet = (fresh /\ ~Unread(c))
    OBVIOUS
<1> HIDE DEF h
<1> QED
    BY <1>1, <1>2, <1>3, <1>4, <1>5, HandlerStep

LEMMA QuestionKeeps ==
    ASSUME IInv, NEW c \in Chats, AskFirst(c) \/ AskAgain(c)
    PROVE  IInv'
<1>1. CASE AskFirst(c)
    <2>1. PICK k \in sent[c] + 1 .. came[c] : Ask(c, k, FALSE)
        BY <1>1 DEF AskFirst
    <2>2. k \in Numbers /\ sent[c] < k /\ k <= came[c]
        BY NumbersAre DEF IInv, TypeOK, Numbers
    <2> QED
        BY <2>1, <2>2, AskKeeps
<1>2. CASE AskAgain(c)
    <2>1. handler[c].msg \in Numbers /\ handler[c].msg <= came[c] /\ sent[c] < handler[c].msg
        BY <1>2, HandlerHas DEF AskAgain, IInv, Ahead
    <2> QED
        BY <1>2, <2>1, AskKeeps DEF AskAgain
<1> QED
    BY <1>1, <1>2

LEMMA ListedKeeps ==
    ASSUME IInv, NEW c \in Chats, Listed(c)
    PROVE  IInv'
<1>1. PICK S \in Page : handler' = [handler EXCEPT ![c] =
                            [@ EXCEPT !.at = "store", !.list = ListOf(S)]]
    BY DEF Listed
<1> DEFINE h == [handler[c] EXCEPT !.at = "store", !.list = ListOf(S)]
<1>2. /\ S \subseteq Chats /\ \A d \in S : Unread(d)
      /\ Cardinality(S) = ListSize \/ S = {d \in Chats : Unread(d)}
    BY DEF Page
<1>3. ListOf(S) \in Lists /\ ListOf(S).kind = "list" /\ ListOf(S).chats = S /\ ListOf(S).asOf = came
    BY <1>2 DEF ListOf, Lists, IInv, TypeOK
<1>4. Genuine(ListOf(S))
    <2>1. CASE Cardinality(S) = ListSize
        BY <2>1, <1>3 DEF Genuine
    <2>2. CASE S = {d \in Chats : Unread(d)}
        <3>1. ASSUME NEW d \in Chats \ S PROVE came[d] <= owner[d] \/ came[d] <= sent[d]
            <4>1. ~Unread(d) /\ (read[d] <= owner[d] \/ read[d] <= sent[d])
                BY <2>2, <3>1 DEF IInv, ReadBy
            <4> QED
                BY <4>1, ChatHas DEF Unread
        <3> QED
            BY <3>1, <1>3 DEF Genuine
    <2> QED
        BY <1>2, <2>1, <2>2
<1>5. /\ h \in Handlers /\ h.at = "store" /\ h.list = ListOf(S) /\ h.msg = handler[c].msg
      /\ h.quiet = handler[c].quiet
    BY <1>3, HandlerHas DEF Handlers
<1>6. handler' = [handler EXCEPT ![c] = h]
    BY <1>1 DEF IInv, TypeOK
<1>7. /\ UNCHANGED <<platformVars, markVars>>
      /\ cache' \in Lists /\ cache'.kind # "malformed" /\ Genuine(cache')
      /\ young' \in BOOLEAN /\ unknown' \in BOOLEAN
    BY DEF Listed, listVars, IInv, TypeOK, GenuineLists
<1>8. sent[c] < h.msg /\ h.msg <= came[c]
    BY <1>5, HandlerHas DEF Listed, IInv, Ahead
<1>9. h.quiet => ~Unread(c) /\ c \notin h.list.chats
    BY <1>2, <1>3, <1>5 DEF IInv, Quiet
<1> HIDE DEF h
<1> QED
    BY <1>3, <1>4, <1>5, <1>6, <1>7, <1>8, <1>9, HandlerStep

\* A handler goes on with a list it has, or with one of no answer; a step that
\* leaves the recheck without an answer is not sure of it.
LEMMA MoveKeeps ==
    ASSUME IInv, NEW c \in Chats, NEW place \in {"judge", "send", "recheck"},
           NEW list \in Lists, NEW sure \in BOOLEAN,
           handler[c].at # "idle", Genuine(list),
           handler' = [handler EXCEPT ![c] =
                          [@ EXCEPT !.at = place, !.list = list, !.sure = sure]],
           UNCHANGED <<platformVars, markVars>>,
           cache' \in Lists, cache'.kind # "malformed", Genuine(cache'),
           young' \in BOOLEAN, unknown' \in BOOLEAN,
           place = "judge" /\ sure /\ handler[c].quiet => c \notin list.chats,
           place = "send" /\ sure => ~handler[c].quiet
    PROVE  IInv'
<1> DEFINE h == [handler[c] EXCEPT !.at = place, !.list = list, !.sure = sure]
<1>1. /\ h \in Handlers /\ h.at = place /\ h.list = list /\ h.msg = handler[c].msg
      /\ h.quiet = handler[c].quiet /\ h.sure = sure
    BY HandlerHas DEF Handlers
<1>2. handler' = [handler EXCEPT ![c] = h]
    BY DEF IInv, TypeOK
<1>3. sent[c] < h.msg /\ h.msg <= came[c]
    BY <1>1, HandlerHas DEF IInv, Ahead
<1>4. h.quiet => ~Unread(c)
    BY <1>1 DEF IInv, Quiet
<1> HIDE DEF h
<1> QED
    BY <1>1, <1>2, <1>3, <1>4, HandlerStep

LEMMA AnswerKeeps ==
    ASSUME IInv, NEW c \in Chats, NotAList(c) \/ CallFails(c) \/ Store(c) \/ Proceed(c)
    PROVE  IInv'
<1>0. /\ handler[c] \in Handlers /\ Genuine(handler[c].list) /\ handler[c].list \in Lists
      /\ handler[c].sure \in BOOLEAN /\ Onward(c) \in {"send", "recheck"}
      /\ cache \in Lists /\ cache.kind # "malformed" /\ Genuine(cache)
      /\ young \in BOOLEAN /\ unknown \in BOOLEAN
    BY HandlerHas DEF Onward, IInv, TypeOK, GenuineLists
<1>i. UNCHANGED <<platformVars, markVars>>
    BY DEF NotAList, CallFails, Store, Proceed
<1>1. CASE NotAList(c)
    <2>1. handler' = [handler EXCEPT ![c] =
             [@ EXCEPT !.at = "judge", !.list = Empty("malformed"), !.sure = FALSE]]
        BY <1>1 DEF NotAList
    <2>2. Empty("malformed") \in Lists /\ Genuine(Empty("malformed"))
        BY EmptyTyped, EmptyGenuine
    <2> QED
        BY <1>0, <1>1, <1>i, <2>1, <2>2, MoveKeeps DEF NotAList
<1>2. CASE CallFails(c)
    <2> DEFINE place == IF handler[c].list.kind = "none" THEN Onward(c) ELSE "judge"
    <2>1. handler' = [handler EXCEPT ![c] =
             [@ EXCEPT !.at = place, !.list = handler[c].list, !.sure = FALSE]]
        <3>1. [handler[c] EXCEPT !.at = place, !.sure = FALSE]
                = [handler[c] EXCEPT !.at = place, !.list = handler[c].list, !.sure = FALSE]
            BY <1>0 DEF Handlers
        <3> QED
            BY <1>2, <3>1 DEF CallFails, IInv, TypeOK
    <2>2. place \in {"judge", "send", "recheck"}
        BY <1>0
    <2> HIDE DEF place
    <2> QED
        BY <1>0, <1>2, <1>i, <2>1, <2>2, MoveKeeps DEF CallFails, listVars
<1>3. CASE Store(c)
    <2>1. handler' = [handler EXCEPT ![c] =
             [@ EXCEPT !.at = "judge", !.list = handler[c].list, !.sure = handler[c].sure]]
        <3>1. [handler[c] EXCEPT !.at = "judge"]
                = [handler[c] EXCEPT !.at = "judge", !.list = handler[c].list,
                                     !.sure = handler[c].sure]
            BY <1>0 DEF Handlers
        <3> QED
            BY <1>3, <3>1 DEF Store, IInv, TypeOK
    <2>2. handler[c].list.kind = "list"
        BY <1>3 DEF Store, IInv, Storable
    <2>3. handler[c].sure /\ handler[c].quiet => c \notin handler[c].list.chats
        BY <1>3 DEF Store, IInv, Quiet
    <2> QED
        BY <1>0, <1>3, <1>i, <2>1, <2>2, <2>3, MoveKeeps DEF Store
<1>4. CASE Proceed(c)
    <2>1. handler' = [handler EXCEPT ![c] =
             [@ EXCEPT !.at = Onward(c), !.list = NoList, !.sure = handler[c].sure /\ ~unknown]]
        BY <1>4, Zenon DEF Proceed
    <2>2. NoList \in Lists /\ Genuine(NoList)
        BY EmptyTyped, EmptyGenuine DEF NoList
    <2>3. handler[c].sure /\ ~unknown => ~handler[c].quiet
        BY <1>4 DEF Proceed, JudgedRead, IInv, Quiet
    <2> QED
        BY <1>0, <1>4, <1>i, <2>1, <2>2, <2>3, MoveKeeps DEF Proceed, listVars
<1> QED
    BY <1>1, <1>2, <1>3, <1>4

-----------------------------------------------------------------------------
(* Steps of the platform and of the clock.                                  *)

LEMMA ListAgesKeeps ==
    ASSUME IInv, ListAges
    PROVE  IInv'
<1> USE DEF ListAges, platformVars, markVars
<1>1. TypeOK' /\ Ahead' /\ Storable' /\ ReadStops'
    BY DEF IInv, TypeOK, Ahead, Storable, ReadStops
<1>2. Replied' /\ Unique' /\ MarkOnItsWay' /\ ReadBy'
    BY DEF IInv, Replied, Unique, MarkOnItsWay, ReadBy
<1>3. GenuineLists' /\ Quiet'
    BY DEF IInv, GenuineLists, Genuine, Quiet, Unread
<1> QED
    BY <1>1, <1>2, <1>3 DEF IInv

LEMMA ArriveKeeps ==
    ASSUME IInv, NEW c \in Chats, Arrive(c)
    PROVE  IInv'
<1> USE DEF listVars, markVars
<1> DEFINE h == [handler[c] EXCEPT !.quiet = FALSE]
<1>1. /\ handler' = [handler EXCEPT ![c] = h] /\ came' = [came EXCEPT ![c] = came[c] + 1]
      /\ came[c] < PerChat[c]
      /\ UNCHANGED <<read, owner, cache, young, unknown, timers, threads, sent, missed>>
    BY DEF Arrive
<1>2. /\ h \in Handlers /\ h.at = handler[c].at /\ h.msg = handler[c].msg
      /\ h.list = handler[c].list /\ h.sure = handler[c].sure /\ h.quiet = FALSE
    BY HandlerHas DEF Handlers
<1>3. /\ handler' \in [Chats -> Handlers] /\ handler'[c] = h
      /\ \A d \in Chats : d # c => handler'[d] = handler[d]
    BY <1>1, <1>2 DEF IInv, TypeOK
<1> HIDE DEF h
<1>4. /\ came' \in [Chats -> Numbers] /\ \A d \in Chats : came[d] <= came'[d]
      /\ \A d \in Chats : d # c => came'[d] = came[d]
    <2>1. came[c] \in Nat /\ came[c] + 1 <= Most /\ came[c] + 1 \in Numbers
        BY <1>1, ChatHas, ReadGateAssumption DEF Numbers
    <2>2. came \in [Chats -> Numbers] /\ \A d \in Chats : came[d] \in Nat
        BY ChatHas DEF IInv, TypeOK
    <2> QED
        BY <1>1, <2>1, <2>2
<1>5. TypeOK'
    <2>1. \A d \in Chats : owner'[d] <= read'[d] /\ read'[d] <= came'[d] /\ sent'[d] <= came'[d]
        <3> SUFFICES ASSUME NEW d \in Chats
                     PROVE  owner'[d] <= read'[d] /\ read'[d] <= came'[d] /\ sent'[d] <= came'[d]
            OBVIOUS
        <3>1. came'[d] \in Nat /\ came[d] <= came'[d]
            BY <1>4, NumbersAre
        <3> QED
            BY <1>1, <3>1, ChatHas
    <2>2. \A d \in Chats : handler'[d].msg <= came'[d]
        <3> SUFFICES ASSUME NEW d \in Chats PROVE handler'[d].msg <= came'[d]
            OBVIOUS
        <3>1. came'[d] \in Nat /\ came[d] <= came'[d] /\ came[d] \in Nat
            BY <1>4, NumbersAre, ChatHas
        <3>2. handler'[d].msg = handler[d].msg /\ handler[d].msg \in Nat /\ handler[d].msg <= came[d]
            BY <1>2, <1>3, HandlerHas, NumbersAre
        <3> QED
            BY <3>1, <3>2
    <2> QED
        BY <1>1, <1>3, <1>4, <2>1, <2>2 DEF IInv, TypeOK
<1>6. Ahead' /\ Storable' /\ ReadStops'
    BY <1>1, <1>2, <1>3 DEF IInv, Ahead, Storable, ReadStops
<1>7. Replied' /\ Unique' /\ MarkOnItsWay' /\ ReadBy'
    BY <1>1 DEF IInv, Replied, Unique, MarkOnItsWay, ReadBy
<1>8. GenuineLists'
    <2>1. Genuine(cache)'
        BY <1>1 DEF IInv, GenuineLists, Genuine
    <2>2. ASSUME NEW d \in Chats PROVE Genuine(handler[d].list)'
        BY <1>1, <1>2, <1>3 DEF IInv, GenuineLists, Genuine
    <2> QED
        BY <2>1, <2>2 DEF GenuineLists
<1>9. Quiet'
    BY <1>1, <1>2, <1>3, <1>4 DEF IInv, Quiet, Unread
<1> QED
    BY <1>5, <1>6, <1>7, <1>8, <1>9 DEF IInv

\* A list stays genuine when more has been read or replied to.
LEMMA GenuineStays ==
    ASSUME IInv, NEW list \in Lists, Genuine(list),
           \A c \in Chats : /\ owner'[c] \in Nat /\ sent'[c] \in Nat
                            /\ owner[c] <= owner'[c] /\ sent[c] <= sent'[c]
    PROVE  Cardinality(list.chats) = ListSize
             \/ \A c \in Chats \ list.chats : list.asOf[c] <= owner'[c] \/ list.asOf[c] <= sent'[c]
<1>1. CASE Cardinality(list.chats) = ListSize
    BY <1>1
<1>2. ASSUME NEW c \in Chats \ list.chats, list.asOf[c] <= owner[c] \/ list.asOf[c] <= sent[c]
      PROVE  list.asOf[c] <= owner'[c] \/ list.asOf[c] <= sent'[c]
    <2>1. list.asOf[c] \in Nat
        BY NumbersAre DEF Lists
    <2> QED
        BY <1>2, <2>1, ChatHas
<1> QED
    BY <1>1, <1>2 DEF Genuine

LEMMA OwnerReadsKeeps ==
    ASSUME IInv, NEW c \in Chats, OwnerReads(c)
    PROVE  IInv'
<1> USE DEF listVars, markVars
<1>1. /\ read' = [read EXCEPT ![c] = came[c]] /\ owner' = [owner EXCEPT ![c] = came[c]]
      /\ UNCHANGED <<came, handler, cache, young, unknown, timers, threads, sent, missed>>
    BY DEF OwnerReads
<1>2. /\ read' \in [Chats -> Numbers] /\ owner' \in [Chats -> Numbers]
      /\ read'[c] = came[c] /\ owner'[c] = came[c]
      /\ \A d \in Chats : d # c => read'[d] = read[d] /\ owner'[d] = owner[d]
    BY <1>1 DEF IInv, TypeOK
<1>3. \A d \in Chats : /\ owner'[d] \in Nat /\ sent'[d] \in Nat /\ read'[d] \in Nat
                       /\ owner[d] <= owner'[d] /\ sent[d] <= sent'[d] /\ read[d] <= read'[d]
                       /\ owner'[d] <= read'[d] /\ read'[d] <= came[d]
    <2> SUFFICES ASSUME NEW d \in Chats
                 PROVE  /\ owner'[d] \in Nat /\ sent'[d] \in Nat /\ read'[d] \in Nat
                        /\ owner[d] <= owner'[d] /\ sent[d] <= sent'[d] /\ read[d] <= read'[d]
                        /\ owner'[d] <= read'[d] /\ read'[d] <= came[d]
        OBVIOUS
    <2> QED
        BY <1>1, <1>2, ChatHas
<1>4. TypeOK'
    BY <1>1, <1>2, <1>3 DEF IInv, TypeOK
<1>5. Ahead' /\ Storable' /\ ReadStops' /\ Replied' /\ Unique'
    BY <1>1 DEF IInv, Ahead, Storable, ReadStops, Replied, Unique
<1>6. MarkOnItsWay'
    <2>1. ASSUME NEW d \in Chats, sent[d] <= read[d] PROVE sent[d] <= read'[d]
        BY <2>1, <1>3, ChatHas
    <2> QED
        BY <1>1, <2>1 DEF IInv, MarkOnItsWay
<1>7. ReadBy'
    <2>1. read'[c] <= owner'[c]
        BY <1>2, ChatHas
    <2> QED
        BY <1>1, <1>2, <2>1 DEF IInv, ReadBy
<1>8. GenuineLists'
    <2>1. Genuine(cache)'
        BY <1>1, <1>3, GenuineStays DEF IInv, TypeOK, GenuineLists, Genuine
    <2>2. ASSUME NEW d \in Chats PROVE Genuine(handler[d].list)'
        BY <1>1, <1>3, HandlerHas, GenuineStays DEF Genuine
    <2> QED
        BY <2>1, <2>2 DEF GenuineLists
<1>9. Quiet'
    <2>1. ASSUME NEW d \in Chats, ~(came[d] > read[d]) PROVE ~(came[d] > read'[d])
        BY <2>1, <1>3, ChatHas
    <2> QED
        BY <1>1, <2>1 DEF IInv, Quiet, Unread
<1> QED
    BY <1>4, <1>5, <1>6, <1>7, <1>8, <1>9 DEF IInv

-----------------------------------------------------------------------------
(* The send, which starts a timer, and the steps of the timers.             *)

LEMMA SendKeeps ==
    ASSUME IInv, NEW c \in Chats, Send(c)
    PROVE  IInv'
<1> USE DEF platformVars, listVars
<1> DEFINE k == handler[c].msg
           new == Timer(c, k, "waiting")
           old == Timer(c, timers[c], "waiting")
<1>1. /\ sent' = [sent EXCEPT ![c] = k] /\ timers' = [timers EXCEPT ![c] = k]
      /\ threads' = (threads \ {old}) \cup {new}
      /\ missed' = [missed EXCEPT ![c] = FALSE]
      /\ handler' = [handler EXCEPT ![c] = Idle]
      /\ UNCHANGED <<came, read, owner, cache, young, unknown>>
    BY DEF Send, Reschedule
<1>2. /\ k \in Nat /\ k \in Numbers \ {0} /\ sent[c] < k /\ k <= came[c]
    <2>1. handler[c].at # "idle"
        BY DEF Send
    <2>2. k \in Numbers /\ k <= came[c] /\ sent[c] < k
        BY <2>1, HandlerHas DEF IInv, Ahead
    <2>3. sent[c] \in Nat /\ k \in Nat
        BY <2>2, ChatHas, NumbersAre
    <2>4. k # 0
        BY <2>2, <2>3
    <2> QED
        BY <2>2, <2>3, <2>4
<1>3. new \in TimerThreads /\ new.chat = c /\ new.msg = k /\ new.at = "waiting"
    BY <1>2 DEF Timer, TimerThreads
<1>o. old.chat = c /\ old.msg = timers[c] /\ old.at = "waiting"
    BY DEF Timer
<1> HIDE DEF new, k
<1>4. /\ sent' \in [Chats -> Numbers] /\ timers' \in [Chats -> Numbers]
      /\ missed' \in [Chats -> BOOLEAN] /\ handler' \in [Chats -> Handlers]
      /\ threads' \subseteq TimerThreads
      /\ sent'[c] = k /\ timers'[c] = k /\ handler'[c] = Idle
      /\ \A d \in Chats : d # c => /\ sent'[d] = sent[d] /\ timers'[d] = timers[d]
                                   /\ missed'[d] = missed[d] /\ handler'[d] = handler[d]
    <2>1. /\ sent \in [Chats -> Numbers] /\ timers \in [Chats -> Numbers]
          /\ missed \in [Chats -> BOOLEAN] /\ handler \in [Chats -> Handlers]
          /\ threads \subseteq TimerThreads
        BY DEF IInv, TypeOK
    <2> QED
        BY <1>1, <1>2, <1>3, <2>1, IdleTyped
<1>5. \A d \in Chats : /\ owner'[d] \in Nat /\ sent'[d] \in Nat
                       /\ owner[d] <= owner'[d] /\ sent[d] <= sent'[d]
                       /\ sent'[d] <= came'[d] /\ handler'[d].msg <= came'[d]
    <2> SUFFICES ASSUME NEW d \in Chats
                 PROVE  /\ owner'[d] \in Nat /\ sent'[d] \in Nat
                        /\ owner[d] <= owner'[d] /\ sent[d] <= sent'[d]
                        /\ sent'[d] <= came'[d] /\ handler'[d].msg <= came'[d]
        OBVIOUS
    <2>1. handler'[d].msg <= came'[d]
        BY <1>1, <1>4, ChatHas, HandlerHas, IdleTyped
    <2> QED
        BY <1>1, <1>2, <1>4, <2>1, ChatHas
<1>6. TypeOK'
    BY <1>1, <1>4, <1>5 DEF IInv, TypeOK
<1>7. Ahead' /\ Storable' /\ ReadStops'
    BY <1>1, <1>4, IdleTyped DEF IInv, Ahead, Storable, ReadStops
<1>8. \A t \in threads : t \in TimerThreads /\ t.chat \in Chats /\ t.msg \in Nat
                         /\ t.at \in {"waiting", "elapsed", "marking"} /\ t.msg <= sent[t.chat]
    BY NumbersAre DEF IInv, TypeOK, TimerThreads, Replied
<1>9. \A t \in threads : t.msg <= sent'[t.chat] /\ (t.chat = c => t.msg < k)
    <2> SUFFICES ASSUME NEW t \in threads PROVE t.msg <= sent'[t.chat] /\ (t.chat = c => t.msg < k)
        OBVIOUS
    <2>1. sent[t.chat] \in Nat /\ sent'[t.chat] \in Nat /\ sent[t.chat] <= sent'[t.chat]
        BY <1>5, <1>8, ChatHas
    <2> QED
        BY <1>2, <1>8, <2>1, ChatHas
<1>10. Replied' /\ Unique'
    <2>1. Replied'
        BY <1>1, <1>3, <1>4, <1>9, <1>2 DEF Replied
    <2>2. ASSUME NEW t \in threads', NEW u \in threads', t.chat = u.chat, t.msg = u.msg PROVE t = u
        <3>1. CASE t = new /\ u = new
            BY <3>1
        <3>2. CASE t \in threads /\ u \in threads
            BY <2>2, <3>2 DEF IInv, Unique
        <3>3. CASE t = new /\ u \in threads
            BY <1>2, <1>3, <1>8, <1>9, <2>2, <3>3
        <3>4. CASE u = new /\ t \in threads
            BY <1>2, <1>3, <1>8, <1>9, <2>2, <3>4
        <3> QED
            BY <1>1, <3>1, <3>2, <3>3, <3>4
    <2> QED
        BY <2>1, <2>2 DEF Unique
<1>11. MarkOnItsWay'
    <2>1. ASSUME NEW t \in threads', t.at = "waiting" PROVE timers'[t.chat] = t.msg
        <3>1. CASE t = new
            BY <3>1, <1>3, <1>4
        <3>2. CASE t # new
            <4>1. t \in threads /\ t # old /\ t \in TimerThreads
                BY <1>1, <1>8, <3>2
            <4>2. timers[t.chat] = t.msg
                BY <2>1, <4>1 DEF IInv, MarkOnItsWay
            <4>3. t.chat = c => t = old
                BY <1>o, <2>1, <4>1, <4>2 DEF Timer, TimerThreads
            <4> QED
                BY <1>4, <1>8, <4>1, <4>2, <4>3
        <3> QED
            BY <3>1, <3>2
    <2>2. ASSUME NEW d \in Chats
          PROVE  \/ sent'[d] <= read'[d] \/ missed'[d]
                 \/ \E t \in threads' : /\ t.chat = d /\ t.msg = sent'[d]
                                        /\ t.at = "marking" \/ timers'[d] = sent'[d]
        <3>1. CASE d = c
            BY <1>1, <1>3, <1>4, <3>1
        <3>2. CASE d # c
            <4>1. \/ sent[d] <= read[d] \/ missed[d]
                  \/ \E t \in threads : /\ t.chat = d /\ t.msg = sent[d]
                                        /\ t.at = "marking" \/ timers[d] = sent[d]
                BY DEF IInv, MarkOnItsWay
            <4>2. \A t \in threads : t.chat = d => t \in threads'
                BY <1>1, <1>o, <3>2
            <4> QED
                BY <1>1, <1>4, <3>2, <4>1, <4>2
        <3> QED
            BY <3>1, <3>2
    <2> QED
        BY <2>1, <2>2 DEF MarkOnItsWay
<1>12. ReadBy'
    <2> SUFFICES ASSUME NEW d \in Chats PROVE read[d] <= owner[d] \/ read[d] <= sent'[d]
        BY <1>1 DEF ReadBy
    <2>1. read[d] <= owner[d] \/ read[d] <= sent[d]
        BY DEF IInv, ReadBy
    <2> QED
        BY <1>5, <2>1, ChatHas
<1>13. GenuineLists'
    <2>1. Genuine(cache)'
        BY <1>1, <1>5, GenuineStays DEF IInv, TypeOK, GenuineLists, Genuine
    <2>2. ASSUME NEW d \in Chats PROVE Genuine(handler[d].list)'
        <3>1. CASE d = c
            BY <1>4, <3>1, IdleTyped, EmptyTyped, ChatHas, <1>5 DEF Genuine, NoList
        <3>2. CASE d # c
            BY <1>1, <1>4, <1>5, <3>2, HandlerHas, GenuineStays DEF Genuine
        <3> QED
            BY <3>1, <3>2
    <2> QED
        BY <2>1, <2>2 DEF GenuineLists
<1>14. Quiet'
    BY <1>1, <1>4, IdleTyped DEF IInv, Quiet, Unread
<1> QED
    BY <1>6, <1>7, <1>10, <1>11, <1>12, <1>13, <1>14 DEF IInv

\* A timer thread, by its type.
LEMMA ThreadHas ==
    ASSUME IInv, NEW t \in threads
    PROVE  /\ t \in TimerThreads /\ t.chat \in Chats /\ t.msg \in Numbers /\ t.msg \in Nat
           /\ t.msg # 0 /\ t.at \in {"waiting", "elapsed", "marking"}
           /\ t.msg <= sent[t.chat] /\ sent[t.chat] \in Nat
<1>1. t \in TimerThreads /\ t.msg <= sent[t.chat]
    BY DEF IInv, TypeOK, Replied
<1>2. t.chat \in Chats /\ t.msg \in Numbers /\ t.msg # 0 /\ t.at \in {"waiting", "elapsed", "marking"}
    BY <1>1 DEF TimerThreads
<1> QED
    BY <1>1, <1>2, NumbersAre, ChatHas

\* What no step of a timer touches: it moves t, or takes it out.
LEMMA TimerKeeps ==
    ASSUME IInv, NEW t \in threads, NEW moved,
           moved \subseteq TimerThreads,
           \A u \in moved : u.chat = t.chat /\ u.msg = t.msg,
           \A u, v \in moved : u = v,
           threads' = (threads \ {t}) \cup moved,
           UNCHANGED <<came, owner, listVars, handler, sent>>,
           read' \in [Chats -> Numbers], timers' \in [Chats -> Numbers],
           missed' \in [Chats -> BOOLEAN],
           \A c \in Chats : read[c] <= read'[c] /\ read'[c] <= came[c],
           \A c \in Chats : read'[c] = read[c] \/ read'[c] <= sent[c],
           MarkOnItsWay'
    PROVE  IInv'
<1> USE DEF listVars
<1>0. \A c \in Chats : read'[c] \in Nat
    BY NumbersAre
<1>1. TypeOK'
    <2>1. \A c \in Chats : owner'[c] <= read'[c] /\ read'[c] <= came'[c]
        BY <1>0, ChatHas
    <2> QED
        BY <2>1 DEF IInv, TypeOK
<1>2. Ahead' /\ Storable' /\ ReadStops'
    BY DEF IInv, Ahead, Storable, ReadStops
<1>3. \A u \in threads' : u.chat \in Chats /\ \E v \in threads : u.chat = v.chat /\ u.msg = v.msg
    BY ThreadHas
<1>4. Replied'
    BY <1>3 DEF IInv, Replied
<1>5. Unique'
    <2> SUFFICES ASSUME NEW u \in threads', NEW v \in threads', u.chat = v.chat, u.msg = v.msg
                 PROVE  u = v
        BY DEF Unique
    <2>1. CASE u \in moved /\ v \in moved
        BY <2>1
    <2>2. CASE u \in threads \ {t} /\ v \in threads \ {t}
        BY <2>2 DEF IInv, Unique
    <2>3. CASE u \in moved /\ v \in threads \ {t}
        BY <2>3 DEF IInv, Unique
    <2>4. CASE v \in moved /\ u \in threads \ {t}
        BY <2>4 DEF IInv, Unique
    <2> QED
        BY <2>1, <2>2, <2>3, <2>4
<1>6. ReadBy'
    <2> SUFFICES ASSUME NEW c \in Chats PROVE read'[c] <= owner[c] \/ read'[c] <= sent[c]
        BY DEF ReadBy
    <2> QED
        BY DEF IInv, ReadBy
<1>7. GenuineLists'
    BY DEF IInv, GenuineLists, Genuine
<1>8. Quiet'
    <2>1. ASSUME NEW d \in Chats, ~(came[d] > read[d]) PROVE ~(came[d] > read'[d])
        BY <1>0, <2>1, ChatHas
    <2> QED
        BY <2>1 DEF IInv, Quiet, Unread
<1> QED
    BY <1>1, <1>2, <1>4, <1>5, <1>6, <1>7, <1>8 DEF IInv

LEMMA ElapseKeeps ==
    ASSUME IInv, NEW t \in threads, Elapse(t)
    PROVE  IInv'
<1> USE DEF platformVars
<1> DEFINE e == [t EXCEPT !.at = "elapsed"]
           moved == {e}
<1>1. e \in TimerThreads /\ e.chat = t.chat /\ e.msg = t.msg /\ e.at = "elapsed"
    BY ThreadHas DEF TimerThreads
<1>2. /\ threads' = (threads \ {t}) \cup {e} /\ t.at = "waiting"
      /\ UNCHANGED <<came, read, owner, listVars, handler, timers, sent, missed>>
    BY DEF Elapse
<1> HIDE DEF e
<1>3. MarkOnItsWay'
    <2>1. \A u \in threads' : u.at = "waiting" => timers'[u.chat] = u.msg
        BY <1>1, <1>2 DEF IInv, MarkOnItsWay
    <2>2. ASSUME NEW c \in Chats
          PROVE  \/ sent'[c] <= read'[c] \/ missed'[c]
                 \/ \E u \in threads' : /\ u.chat = c /\ u.msg = sent'[c]
                                        /\ u.at = "marking" \/ timers'[c] = sent'[c]
        <3>1. CASE sent[c] <= read[c] \/ missed[c]
            BY <1>2, <3>1
        <3>2. ASSUME NEW u \in threads, u.chat = c, u.msg = sent[c],
                     u.at = "marking" \/ timers[c] = sent[c]
              PROVE  \E v \in threads' : /\ v.chat = c /\ v.msg = sent'[c]
                                         /\ v.at = "marking" \/ timers'[c] = sent'[c]
            <4>1. CASE u # t
                BY <1>2, <3>2, <4>1
            <4>2. CASE u = t
                BY <1>1, <1>2, <3>2, <4>2
            <4> QED
                BY <4>1, <4>2
        <3> QED
            BY <3>1, <3>2 DEF IInv, MarkOnItsWay
    <2> QED
        BY <2>1, <2>2 DEF MarkOnItsWay
<1>4. \A c \in Chats : /\ read'[c] = read[c] /\ read[c] <= read'[c] /\ read'[c] <= came[c]
    BY <1>2, ChatHas
<1>5. /\ moved \subseteq TimerThreads /\ \A u \in moved : u.chat = t.chat /\ u.msg = t.msg
      /\ \A u, v \in moved : u = v
      /\ threads' = (threads \ {t}) \cup moved
    BY <1>1, <1>2
<1>6. /\ read' \in [Chats -> Numbers] /\ timers' \in [Chats -> Numbers]
      /\ missed' \in [Chats -> BOOLEAN]
    BY <1>2 DEF IInv, TypeOK
<1>7. UNCHANGED <<came, owner, listVars, handler, sent>>
    BY <1>2
<1> HIDE DEF moved
<1> QED
    BY <1>3, <1>4, <1>5, <1>6, <1>7, TimerKeeps

LEMMA FireKeeps ==
    ASSUME IInv, NEW t \in threads, Fire(t)
    PROVE  IInv'
<1> USE DEF platformVars
<1> DEFINE m == [t EXCEPT !.at = "marking"]
           moved == IF timers[t.chat] = t.msg THEN {m} ELSE {}
<1>1. m \in TimerThreads /\ m.chat = t.chat /\ m.msg = t.msg /\ m.at = "marking"
    BY ThreadHas DEF TimerThreads
<1>2. /\ threads' = (threads \ {t}) \cup moved /\ t.at = "elapsed"
      /\ timers' = IF timers[t.chat] = t.msg THEN [timers EXCEPT ![t.chat] = 0] ELSE timers
      /\ UNCHANGED <<came, read, owner, listVars, handler, sent, missed>>
    BY DEF Fire
<1> HIDE DEF m
<1>3. /\ timers' \in [Chats -> Numbers] /\ t.chat \in Chats
      /\ \A c \in Chats : c # t.chat => timers'[c] = timers[c]
      /\ timers[t.chat] # t.msg => timers' = timers
    BY <1>2, ThreadHas, NumbersAre DEF IInv, TypeOK
<1>4. MarkOnItsWay'
    <2>1. ASSUME NEW u \in threads', u.at = "waiting" PROVE timers'[u.chat] = u.msg
        <3>1. u \in threads /\ u # t /\ u.chat \in Chats
            BY <1>1, <1>2, <2>1, ThreadHas
        <3>2. timers[u.chat] = u.msg
            BY <2>1, <3>1 DEF IInv, MarkOnItsWay
        <3>3. timers[t.chat] = t.msg => u.chat # t.chat
            BY <3>1, <3>2 DEF IInv, Unique
        <3> QED
            BY <1>3, <3>1, <3>2, <3>3
    <2>2. ASSUME NEW c \in Chats
          PROVE  \/ sent'[c] <= read'[c] \/ missed'[c]
                 \/ \E u \in threads' : /\ u.chat = c /\ u.msg = sent'[c]
                                        /\ u.at = "marking" \/ timers'[c] = sent'[c]
        <3>1. CASE sent[c] <= read[c] \/ missed[c]
            BY <1>2, <3>1
        <3>2. ASSUME NEW u \in threads, u.chat = c, u.msg = sent[c],
                     u.at = "marking" \/ timers[c] = sent[c]
              PROVE  \E v \in threads' : /\ v.chat = c /\ v.msg = sent'[c]
                                         /\ v.at = "marking" \/ timers'[c] = sent'[c]
            <4>1. CASE u = t
                BY <1>1, <1>2, <3>2, <4>1
            <4>2. CASE u # t /\ (c # t.chat \/ timers[t.chat] # t.msg)
                BY <1>2, <1>3, <3>2, <4>2
            <4>3. CASE u # t /\ c = t.chat /\ timers[t.chat] = t.msg
                <5>1. u.msg # t.msg
                    BY <3>2, <4>3 DEF IInv, Unique
                <5>2. u.at = "marking" /\ u \in threads'
                    BY <1>2, <3>2, <4>3, <5>1
                <5> QED
                    BY <1>2, <3>2, <5>2
            <4> QED
                BY <4>1, <4>2, <4>3
        <3> QED
            BY <3>1, <3>2 DEF IInv, MarkOnItsWay
    <2> QED
        BY <2>1, <2>2 DEF MarkOnItsWay
<1>5. \A c \in Chats : /\ read'[c] = read[c] /\ read[c] <= read'[c] /\ read'[c] <= came[c]
    BY <1>2, ChatHas
<1>6. /\ moved \subseteq TimerThreads /\ \A u \in moved : u.chat = t.chat /\ u.msg = t.msg
      /\ \A u, v \in moved : u = v
    BY <1>1
<1>7. read' \in [Chats -> Numbers] /\ missed' \in [Chats -> BOOLEAN]
    BY <1>2 DEF IInv, TypeOK
<1> HIDE DEF moved
<1> QED
    BY <1>2, <1>3, <1>4, <1>5, <1>6, <1>7, TimerKeeps

LEMMA MarkKeeps ==
    ASSUME IInv, NEW t \in threads, MarkRead(t) \/ MarkFails(t)
    PROVE  IInv'
<1>1. /\ threads' = (threads \ {t}) \cup {} /\ t.at = "marking"
      /\ UNCHANGED <<came, owner, listVars, handler, timers, sent>>
    BY DEF MarkRead, MarkFails, platformVars
<1>2. /\ t.chat \in Chats /\ t.msg \in Numbers /\ t.msg \in Nat /\ t.msg <= sent[t.chat]
      /\ sent[t.chat] <= came[t.chat] /\ sent[t.chat] \in Nat /\ came[t.chat] \in Nat
      /\ read[t.chat] \in Nat /\ read[t.chat] <= came[t.chat]
    BY ThreadHas, ChatHas
<1>3. /\ read' \in [Chats -> Numbers] /\ missed' \in [Chats -> BOOLEAN]
      /\ \A c \in Chats : read[c] <= read'[c] /\ read'[c] <= came[c]
      /\ \A c \in Chats : read'[c] = read[c] \/ read'[c] <= sent[c]
      /\ \A c \in Chats : missed[c] => missed'[c]
      /\ t.msg = sent[t.chat] => t.msg <= read'[t.chat] \/ missed'[t.chat]
    <2>0. /\ read \in [Chats -> Numbers] /\ missed \in [Chats -> BOOLEAN]
          /\ \A c \in Chats : read[c] \in Nat /\ read[c] <= came[c]
        BY ChatHas DEF IInv, TypeOK
    <2>1. CASE MarkRead(t)
        <3>1. read' = [read EXCEPT ![t.chat] = ReadUpTo(t)] /\ missed' = missed
            BY <2>1 DEF MarkRead
        <3>2. /\ ReadUpTo(t) \in Numbers /\ read[t.chat] <= ReadUpTo(t) /\ ReadUpTo(t) <= came[t.chat]
              /\ ReadUpTo(t) = read[t.chat] \/ ReadUpTo(t) <= sent[t.chat]
              /\ t.msg <= ReadUpTo(t)
            BY <1>2, <2>0 DEF ReadUpTo
        <3>3. /\ read' \in [Chats -> Numbers] /\ read'[t.chat] = ReadUpTo(t)
              /\ \A c \in Chats : c # t.chat => read'[c] = read[c]
            BY <1>2, <2>0, <3>1, <3>2
        <3>4. \A c \in Chats : read[c] <= read'[c] /\ read'[c] <= came[c]
            BY <2>0, <3>2, <3>3
        <3>5. \A c \in Chats : read'[c] = read[c] \/ read'[c] <= sent[c]
            BY <2>0, <3>2, <3>3
        <3> HIDE DEF ReadUpTo
        <3> QED
            BY <2>0, <3>1, <3>2, <3>3, <3>4, <3>5
    <2>2. CASE MarkFails(t)
        <3>1. /\ read' = read
              /\ missed' = [missed EXCEPT ![t.chat] = missed[t.chat] \/ t.msg = sent[t.chat]]
            BY <2>2 DEF MarkFails, platformVars
        <3>2. missed' \in [Chats -> BOOLEAN]
            BY <2>0, <3>1
        <3>3. missed'[t.chat] = (missed[t.chat] \/ t.msg = sent[t.chat])
            BY <1>2, <2>0, <3>1, Zenon
        <3>4. \A c \in Chats : c # t.chat => missed'[c] = missed[c]
            BY <2>0, <3>1
        <3>5. \A c \in Chats : missed[c] => missed'[c]
            BY <3>3, <3>4, Zenon
        <3>6. t.msg = sent[t.chat] => missed'[t.chat]
            BY <3>3, Zenon
        <3>7. \A c \in Chats : /\ read'[c] = read[c] /\ read[c] <= read'[c]
                               /\ read'[c] <= came[c]
            BY <2>0, <3>1
        <3> QED
            BY <2>0, <3>1, <3>2, <3>5, <3>6, <3>7
    <2> QED
        BY <2>1, <2>2
<1>4. timers' \in [Chats -> Numbers]
    BY <1>1 DEF IInv, TypeOK
<1>5. MarkOnItsWay'
    <2>1. \A u \in threads' : u.at = "waiting" => timers'[u.chat] = u.msg
        BY <1>1 DEF IInv, MarkOnItsWay
    <2>2. ASSUME NEW c \in Chats
          PROVE  \/ sent'[c] <= read'[c] \/ missed'[c]
                 \/ \E u \in threads' : /\ u.chat = c /\ u.msg = sent'[c]
                                        /\ u.at = "marking" \/ timers'[c] = sent'[c]
        <3>0. read'[c] \in Nat /\ read[c] <= read'[c]
            BY <1>3, NumbersAre
        <3>1. CASE sent[c] <= read[c] \/ missed[c]
            BY <1>1, <1>3, <3>0, <3>1, ChatHas
        <3>2. ASSUME NEW u \in threads, u.chat = c, u.msg = sent[c],
                     u.at = "marking" \/ timers[c] = sent[c]
              PROVE  \/ sent'[c] <= read'[c] \/ missed'[c]
                     \/ \E v \in threads' : /\ v.chat = c /\ v.msg = sent'[c]
                                            /\ v.at = "marking" \/ timers'[c] = sent'[c]
            <4>1. CASE u # t
                BY <1>1, <3>2, <4>1
            <4>2. CASE u = t
                BY <1>1, <1>3, <3>2, <4>2
            <4> QED
                BY <4>1, <4>2
        <3> QED
            BY <3>1, <3>2 DEF IInv, MarkOnItsWay
    <2> QED
        BY <2>1, <2>2 DEF MarkOnItsWay
<1> DEFINE moved == {}
<1>6. /\ moved \subseteq TimerThreads /\ \A u \in moved : u.chat = t.chat /\ u.msg = t.msg
      /\ \A u, v \in moved : u = v
      /\ threads' = (threads \ {t}) \cup moved
    BY <1>1
<1> HIDE DEF moved
<1> QED
    BY <1>1, <1>3, <1>4, <1>5, <1>6, TimerKeeps

-----------------------------------------------------------------------------
(* The theorems.                                                            *)

LEMMA NextKeeps == IInv /\ [Next]_vars => IInv'
<1> SUFFICES ASSUME IInv, [Next]_vars PROVE IInv'
    OBVIOUS
<1>1. CASE UNCHANGED vars
    <2> USE <1>1 DEF vars, platformVars, listVars, markVars
    <2>1. TypeOK' /\ Ahead' /\ Storable' /\ ReadStops'
        BY DEF IInv, TypeOK, Ahead, Storable, ReadStops
    <2>2. Replied' /\ Unique' /\ MarkOnItsWay' /\ ReadBy'
        BY DEF IInv, Replied, Unique, MarkOnItsWay, ReadBy
    <2>3. GenuineLists' /\ Quiet'
        BY DEF IInv, GenuineLists, Genuine, Quiet, Unread
    <2> QED
        BY <2>1, <2>2, <2>3 DEF IInv
<1>2. ASSUME NEW c \in Chats, Arrive(c) \/ OwnerReads(c) PROVE IInv'
    BY <1>2, ArriveKeeps, OwnerReadsKeeps
<1>3. ASSUME NEW c \in Chats, AskFirst(c) \/ AskAgain(c) PROVE IInv'
    BY <1>3, QuestionKeeps
<1>4. ASSUME NEW c \in Chats, End(c) \/ Suppress(c) PROVE IInv'
    BY <1>4, EndKeeps
<1>5. ASSUME NEW c \in Chats, NotAList(c) \/ CallFails(c) \/ Store(c) \/ Proceed(c) PROVE IInv'
    BY <1>5, AnswerKeeps
<1>6. ASSUME NEW c \in Chats, Listed(c) \/ Send(c) PROVE IInv'
    BY <1>6, ListedKeeps, SendKeeps
<1>7. CASE ListAges
    BY <1>7, ListAgesKeeps
<1>8. CASE TimerStep
    BY <1>8, ElapseKeeps, FireKeeps, MarkKeeps DEF TimerStep
<1> QED
    BY <1>1, <1>2, <1>3, <1>4, <1>5, <1>6, <1>7, <1>8 DEF Next

LEMMA Invariance == Spec => []IInv
    BY InitInv, NextKeeps, PTL DEF Spec

\* Every reachable state of the gate and its timers is well typed.
THEOREM TypeCorrectness == Spec => []TypeOK
<1>1. IInv => TypeOK
    BY DEF IInv
<1> QED
    BY <1>1, Invariance, PTL

\* Whatever timers and replies do to each other, the mark of the last message
\* that was replied to is done, to come, or has failed.
THEOREM AlwaysOnItsWay == Spec => []MarkOnItsWay
<1>1. IInv => MarkOnItsWay
    BY DEF IInv
<1> QED
    BY <1>1, Invariance, PTL

\* The engine's own marks never make the gate silence a message.
THEOREM NeverByItself == Spec => []NotByItself
<1>1. IInv => NotByItself
    <2> SUFFICES ASSUME IInv, NEW c \in Chats,
                        handler[c].at = "judge", c \notin handler[c].list.chats,
                        Cardinality(handler[c].list.chats) # ListSize,
                        ~(handler[c].list.asOf[c] < handler[c].msg)
                 PROVE  handler[c].msg <= owner[c]
        BY DEF NotByItself
    <2>1. handler[c].list.asOf[c] <= owner[c] \/ handler[c].list.asOf[c] <= sent[c]
        BY HandlerHas DEF Genuine
    <2>2. sent[c] < handler[c].msg
        BY DEF IInv, Ahead
    <2>3. handler[c].list.asOf[c] \in Nat /\ handler[c].msg \in Nat
        BY HandlerHas, NumbersAre DEF Lists
    <2> QED
        BY <2>1, <2>2, <2>3, ChatHas
<1> QED
    BY <1>1, Invariance, PTL

\* A recheck that found a chat read, and could be sure of it, stops its reply.
THEOREM AlwaysStops == Spec => []ReadStops
<1>1. IInv => ReadStops
    BY DEF IInv
<1> QED
    BY <1>1, Invariance, PTL
=============================================================================

--------------------------- MODULE PollCycleProof ---------------------------
(***************************************************************************)
(* Proofs about the message intake, for every set of messages and           *)
(* conversations, every page size and limit, and any number of restarts.    *)
(***************************************************************************)
EXTENDS PollCycle, FiniteSetTheorems, WellFoundedInduction, TLAPS

-----------------------------------------------------------------------------
(* The inductive invariant.                                                 *)

\* what a stage works on is gone when the stage is over
Tidy ==
    /\ stage \in {"idle", "convs"} => batch = {}
    /\ stage # "convs" => found = {} /\ todo = {}
    /\ stage \notin {"fast", "final"} => acting = {}

\* a message the stream does not bring waits in one merge at a time
Separate ==
    /\ \A d, e \in batch : d # e => d[2] \cap e[2] \subseteq Streamed
    /\ \A g, h \in found : g # h => g \cap h = {}
    /\ \A m \in UNION found : ConvOf[m] \notin todo

\* it waits to be handled for the first time, unless its mark was lost
WaitingUnknown ==
    \A m \in ((UNION found) \cup MsgsOf(batch)) \ Streamed :
        handled[m] = 0 \/ m \in unmarked

\* once it is handled it is marked, about to be, or its mark was lost
HandledKnown ==
    \A m \in Msg \ Streamed : handled[m] > 0 => m \in acting \cup db \cup unmarked

ActingHandled == \A m \in acting : handled[m] > 0

\* the stream marks a message before it is handled, and keeps it until then
StreamKept ==
    /\ queue \cup streaming \subseteq Streamed
    /\ \A m \in memory \ Noise : m \in Streamed =>
          handled[m] > 0 \/ m \in queue \cup MsgsOf(batch) \cup dropped

\* nothing has a time in the future
Past ==
    /\ \A m \in visible : Stamp[m] <= now
    /\ cursorAll # None => cursorAll <= now
    /\ \A c \in Conv : cursor[c] # None => cursor[c] <= now

Settled(m) == handled[m] > 0 \/ m \in InFlight \cup dropped

\* What lies behind a cursor is settled: of a listed conversation behind the
\* cursor of list-all, whatever its own cursor does, of another behind its own.
Reached ==
    /\ \A m \in visible \ Noise :
          (ConvOf[m] \in Listed /\ cursorAll # None /\ Stamp[m] < cursorAll)
             => Settled(m)
    /\ \A m \in visible \ Noise :
          (ConvOf[m] \notin Listed /\ cursor[ConvOf[m]] # None
             /\ Stamp[m] < cursor[ConvOf[m]]) => Settled(m)

IInv ==
    /\ TypeOK
    /\ Tidy
    /\ Separate
    /\ WaitingUnknown
    /\ HandledKnown
    /\ ActingHandled
    /\ MarkedOnlyIfHandled
    /\ StreamKept
    /\ Past
    /\ Reached

-----------------------------------------------------------------------------
(* The operators of the model.                                              *)

LEMMA LeastNat ==
    ASSUME NEW T \in SUBSET Nat, T # {}
    PROVE  \E x \in T : \A y \in T : x <= y
<1> DEFINE R == OpToRel(<, Nat)
<1>1. PICK x \in T : \A y \in T : ~(<<y, x>> \in R)
    <2>1. IsWellFoundedOn(R, Nat)
        BY NatLessThanWellFounded
    <2> QED
        BY ONLY <2>1, WFMin, T \subseteq Nat, T # {}
<1>2. \A y \in T : ~(y < x)
    BY <1>1 DEF OpToRel
<1> QED
    BY <1>2

\* Messages that are not from the future have a latest timestamp.
LEMMA LatestExists ==
    ASSUME NEW n \in Nat, NEW S \in SUBSET Msg, S # {}, \A m \in S : Stamp[m] <= n
    PROVE  /\ Latest(S) \in Nat
           /\ Latest(S) <= n
           /\ \A m \in S : Stamp[m] <= Latest(S)
           /\ \E m \in S : Stamp[m] = Latest(S)
<1> USE MessageAssumption
<1> DEFINE T == {n - Stamp[m] : m \in S}
<1>1. PICK x \in T : \A y \in T : x <= y
    <2>1. T \in SUBSET Nat /\ T # {}
        OBVIOUS
    <2> HIDE DEF T
    <2> QED
        BY <2>1, LeastNat
<1>2. PICK a \in S : x = n - Stamp[a]
    BY <1>1
<1>3. \A m \in S : Stamp[m] <= Stamp[a]
    <2> SUFFICES ASSUME NEW m \in S PROVE Stamp[m] <= Stamp[a]
        OBVIOUS
    <2>1. n - Stamp[a] <= n - Stamp[m]
        BY <1>1, <1>2
    <2>2. Stamp[a] \in Nat /\ Stamp[m] \in Nat
        OBVIOUS
    <2> QED
        BY <2>1, <2>2
<1>4. /\ Latest(S) \in {Stamp[m] : m \in S}
      /\ \A m \in S : Stamp[m] <= Latest(S)
    BY <1>3 DEF Latest
<1> QED
    BY <1>4

\* Being linked both ways is an equivalence.
LEMMA LinkedTransitive ==
    ASSUME NEW S \in SUBSET Msg, NEW a \in S, NEW b \in S, NEW c \in S,
           Linked(S, a, b), Linked(S, b, c)
    PROVE  Linked(S, a, c)
<1> SUFFICES ASSUME NEW m \in S, Stamp[a] <= Stamp[m], Stamp[m] < Stamp[c]
             PROVE  \E n \in S : Stamp[m] < Stamp[n] /\ Stamp[n] <= Stamp[m] + MergeWindow
    BY DEF Linked
<1>1. CASE Stamp[m] < Stamp[b]
    BY <1>1 DEF Linked
<1>2. CASE ~(Stamp[m] < Stamp[b])
    <2>1. Stamp[b] <= Stamp[m]
        BY <1>2, MessageAssumption
    <2> QED
        BY <2>1 DEF Linked
<1> QED
    BY <1>1, <1>2

\* Grouping loses no message, and puts none into two groups.
LEMMA GroupsPartition ==
    ASSUME NEW S \in SUBSET Msg
    PROVE  /\ \A g \in Groups(S) : g \subseteq S /\ g # {}
           /\ \A g, h \in Groups(S) : g # h => g \cap h = {}
<1> DEFINE Of1(a) == {b \in Talk(S, a) : Linked(Talk(S, a), a, b) /\ Linked(Talk(S, a), b, a)}
<1>1. \A a \in S : a \in Of1(a) /\ Of1(a) \subseteq S
    BY MessageAssumption DEF Talk, Linked
<1>2. ASSUME NEW a \in S, NEW b \in S, NEW m \in Of1(a), m \in Of1(b)
      PROVE  Of1(a) \subseteq Of1(b)
    <2>1. Talk(S, a) = Talk(S, m) /\ Talk(S, b) = Talk(S, m) /\ Talk(S, m) \in SUBSET Msg
        BY <1>2 DEF Talk
    <2>2. a \in Talk(S, m) /\ b \in Talk(S, m) /\ m \in Talk(S, m)
        BY <2>1 DEF Talk
    <2>3. SUFFICES ASSUME NEW n \in Of1(a)
                   PROVE  n \in Of1(b)
        OBVIOUS
    <2> DEFINE T == Talk(S, m)
    <2>4. /\ n \in T
          /\ Linked(T, a, n) /\ Linked(T, n, a)
          /\ Linked(T, a, m) /\ Linked(T, m, a)
          /\ Linked(T, b, m) /\ Linked(T, m, b)
        BY <2>1, <2>3, <1>2
    <2> HIDE DEF T
    <2>5. a \in T /\ b \in T /\ m \in T /\ T \in SUBSET Msg
        BY <2>1, <2>2 DEF T
    <2>6. Linked(T, b, a) /\ Linked(T, a, b)
        BY <2>4, <2>5, LinkedTransitive
    <2>7. Linked(T, b, n) /\ Linked(T, n, b)
        BY <2>4, <2>5, <2>6, LinkedTransitive
    <2> QED
        BY <2>1, <2>4, <2>7 DEF T
<1>3. Groups(S) = {Of1(a) : a \in S}
    BY DEF Groups
<1> HIDE DEF Of1
<1>4. \A a, b \in S : \A m \in Of1(a) : m \in Of1(b) => Of1(a) = Of1(b)
    BY <1>2
<1> QED
    BY <1>1, <1>3, <1>4

LEMMA FirstIsIn ==
    ASSUME NEW g \in SUBSET Msg, g # {}
    PROVE  First(g) \in g
<1> USE MessageAssumption
<1> DEFINE T == {Stamp[m] : m \in g}
<1>1. PICK x \in T : \A y \in T : x <= y
    <2>1. T \in SUBSET Nat /\ T # {}
        OBVIOUS
    <2> HIDE DEF T
    <2> QED
        BY <2>1, LeastNat
<1>2. \E a \in g : \A n \in g : Stamp[a] <= Stamp[n]
    BY <1>1
<1> QED
    BY <1>2 DEF First

\* What is left of a group is part of it, so no message is in two merges.
LEMMA MergedApart ==
    ASSUME NEW S \in SUBSET Msg
    PROVE  /\ Merged(S) \in SUBSET Merge
           /\ UNION Merged(S) \subseteq S
           /\ \A g, h \in Merged(S) : g # h => g \cap h = {}
<1> DEFINE Left(g) == IF g \subseteq Polite THEN {First(g)} ELSE g
<1>1. /\ \A g \in Groups(S) : g \subseteq S /\ g # {}
      /\ \A g, h \in Groups(S) : g # h => g \cap h = {}
    BY GroupsPartition
<1>2. \A g \in Groups(S) : Left(g) \subseteq g
    BY <1>1, FirstIsIn
<1>3. Merged(S) = {Left(g) : g \in Groups(S)}
    BY DEF Merged
<1> HIDE DEF Left
<1>4. \A g \in Groups(S) : Left(g) \subseteq S
    BY <1>1, <1>2
<1>5. \A g, h \in Groups(S) : Left(g) # Left(h) => Left(g) \cap Left(h) = {}
    BY <1>1, <1>2
<1> QED
    BY <1>3, <1>4, <1>5 DEF Merge

\* A page is empty only if there is nothing to fetch, and older than the rest.
LEMMA PageIsOldest ==
    ASSUME NEW S, NEW P \in Pages(S)
    PROVE  /\ P \subseteq S
           /\ P = {} => S = {}
           /\ \A m \in P, n \in S \ P : Stamp[m] <= Stamp[n]
<1>1. Cardinality({}) = 0 /\ PageSize # 0
    BY FS_EmptySet, ConfigAssumption
<1> QED
    BY <1>1 DEF Pages

\* The filters let through what is not in the store.
LEMMA NewIsUnmarked ==
    ASSUME NEW S \in SUBSET Msg
    PROVE  /\ New(S) \in SUBSET S
           /\ New(S) \in SUBSET Msg
           /\ New(S) \cap db = {}
           /\ UNION Merged(New(S)) \subseteq New(S)
           /\ \A m \in New(S) : m \in Swallowed(New(S)) \/ \E g \in Merged(New(S)) : m \in g
           /\ \A g, h \in Merged(New(S)) : g # h => g \cap h = {}
<1>1. New(S) \in SUBSET S /\ New(S) \in SUBSET Msg /\ New(S) \cap db = {}
    BY DEF New
<1>2. /\ UNION Merged(New(S)) \subseteq New(S)
      /\ \A g, h \in Merged(New(S)) : g # h => g \cap h = {}
    BY <1>1, MergedApart
<1>3. \A m \in New(S) : m \in Swallowed(New(S)) \/ \E g \in Merged(New(S)) : m \in g
    BY DEF Swallowed
<1> QED
    BY <1>1, <1>2, <1>3

\* what list-all returned, which of it may move the cursors
Got(left, old) == (Since(AllListed, AllStart) \ left) \cup old
Timed(left, old) == {m \in Got(left, old) : m \in db \/ ~Aged(m)}

\* A call of list-all hands on merges of messages that are not in the store.
LEMMA ListAllHandsOn ==
    ASSUME TypeOK, ListAll
    PROVE  /\ \E S \in SUBSET Msg : batch' = {<<"poll", g>> : g \in Merged(New(S))}
           /\ dropped \subseteq dropped'
<1>1. PICK left \in SUBSET Since(AllListed, AllStart),
           old \in SUBSET (AllListed \ Since(AllListed, AllStart)) : FetchAll(left, old)
    BY DEF ListAll
<1>2. Timed(left, old) \ old \in SUBSET Msg
    BY DEF Timed, Got, Since, AllListed, TypeOK
<1>3. batch' = {<<"poll", g>> : g \in Merged(New(Timed(left, old) \ old))}
    BY <1>1 DEF FetchAll, Timed, Got
<1>4. dropped \subseteq dropped'
    BY <1>1 DEF FetchAll, LetGo
<1> QED
    BY <1>2, <1>3, <1>4

\* What the fetch of one conversation adds are merges of its messages.
LEMMA PolledHandsOn ==
    ASSUME TypeOK, NEW c \in Conv, PollConversation(c)
    PROVE  /\ \E S \in SUBSET Of(c) : found' = found \cup Merged(New(S))
           /\ dropped \subseteq dropped'
<1>1. PICK page \in Pages(Since(Of(c), FetchStart(c))) :
          /\ found' = found \cup Merged(New({m \in page : ~Aged(m)}))
          /\ \E S : dropped' = LetGo(S)
    BY DEF PollConversation
<1>2. {m \in page : ~Aged(m)} \in SUBSET Of(c)
    BY PageIsOldest DEF Since
<1> QED
    BY <1>1, <1>2 DEF LetGo

LEMMA LetGoType ==
    ASSUME TypeOK, NEW S \in SUBSET Msg
    PROVE  LetGo(S) \in SUBSET Msg
BY DEF LetGo, TypeOK

\* What is on its way are messages.
LEMMA InFlightType ==
    ASSUME TypeOK
    PROVE  InFlight \in SUBSET Msg /\ MsgsOf(batch) \in SUBSET Msg /\ UNION found \in SUBSET Msg
<1>1. \A e \in batch : e[2] \in SUBSET Msg
    BY DEF TypeOK, Merge
<1>2. \A g \in found : g \in SUBSET Msg
    BY DEF TypeOK, Merge
<1>3. acting \cup queue \cup streaming \subseteq Msg
    BY DEF TypeOK, Merge
<1> QED
    BY <1>1, <1>2, <1>3 DEF InFlight, MsgsOf

-----------------------------------------------------------------------------
LEMMA InitInvariant == Init => IInv
<1> SUFFICES ASSUME Init PROVE IInv
    OBVIOUS
<1> USE MessageAssumption DEF Init
<1>1. TypeOK
    BY DEF TypeOK, Merge, Stages, Channels
<1>2. Tidy /\ Separate /\ HandledKnown /\ ActingHandled /\ MarkedOnlyIfHandled
    BY DEF Tidy, Separate, HandledKnown, ActingHandled, MarkedOnlyIfHandled
<1>3. WaitingUnknown
    BY DEF WaitingUnknown, MsgsOf
<1>4. StreamKept /\ Past /\ Reached
    BY DEF StreamKept, Past, Reached
<1> QED
    BY <1>1, <1>2, <1>3, <1>4 DEF IInv

-----------------------------------------------------------------------------
(* Types.                                                                   *)

LEMMA TypeStep ==
    ASSUME IInv, [Next]_vars
    PROVE  TypeOK'
<1> USE MessageAssumption, ConfigAssumption DEF IInv
<1>0. /\ TypeOK /\ Past
      /\ InFlight \in SUBSET Msg /\ MsgsOf(batch) \in SUBSET Msg /\ UNION found \in SUBSET Msg
    BY InFlightType
<1>n. /\ now \in Int /\ now - FirstRun \in Int /\ Early \in Int /\ now - Protection \in Int
    BY DEF TypeOK, Early
<1>a. \A S \in SUBSET Msg : LetGo(S) \in SUBSET Msg
    BY LetGoType
<1>b. \A S \in SUBSET Msg : /\ New(S) \in SUBSET Msg /\ Merged(New(S)) \in SUBSET Merge
                              /\ Swallowed(New(S)) \in SUBSET Msg
    <2>1. \A S \in SUBSET Msg : New(S) \in SUBSET Msg
        BY DEF New
    <2> QED
        BY <2>1, MergedApart DEF Swallowed
<1>c. \A S \in SUBSET visible : S # {} => NextStart(S) \in Int
    BY LatestExists DEF TypeOK, Past, NextStart
<1>d. \A S \in SUBSET Msg : \A K \in Remember(S) : K \in SUBSET Msg
    BY DEF Remember, TypeOK
<1>1. CASE Server
    BY <1>1, <1>0 DEF TypeOK, Server, Tick, Arrive, cycleVars, cursorVars, streamVars, histVars
<1>2. CASE ListAll
    <2>0. PICK left \in SUBSET Since(AllListed, AllStart),
               old \in SUBSET (AllListed \ Since(AllListed, AllStart)) : FetchAll(left, old)
        BY <1>2 DEF ListAll
    <2> DEFINE got == Got(left, old)
               timed == Timed(left, old)
               fresh == New(timed \ old)
    <2>1. /\ got \in SUBSET visible /\ timed \in SUBSET visible
          /\ got \in SUBSET Msg /\ timed \ old \in SUBSET Msg
          /\ left \in SUBSET Msg /\ AllListed \in SUBSET Msg
          /\ \A c \in Conv : Of(c) \cap timed \in SUBSET visible
        BY <1>0 DEF TypeOK, Since, Of, Got, Timed, AllListed
    <2>2. /\ batch' = {<<"poll", g>> : g \in Merged(fresh)}
          /\ cursorAll' = IF timed = {} THEN now - Protection ELSE NextStart(timed)
          /\ cursor' = [c \in Conv |-> IF Of(c) \cap timed = {} THEN cursor[c]
                                       ELSE NextStart(Of(c) \cap timed)]
          /\ dropped' = LetGo(left \cup Swallowed(fresh) \cup {m \in got : Aged(m)}
                \cup {m \in AllListed : Stamp[m] < AllStart /\ (cursorAll = None \/ cursorAll <= Stamp[m])})
        BY <2>0 DEF FetchAll, Got, Timed
    <2> HIDE DEF got, timed
    <2>3. batch' \in SUBSET (Channels \X Merge)
        BY <2>1, <2>2, <1>b DEF Channels
    <2>4. cursorAll' \in Int \cup {None}
        BY <2>1, <2>2, <1>c, <1>n
    <2>5. cursor' \in [Conv -> Int \cup {None}]
        BY <2>1, <2>2, <1>c, <1>0 DEF TypeOK
    <2>6. dropped' \in SUBSET Msg
        <3>1. Swallowed(fresh) \in SUBSET Msg
            BY <2>1, <1>b
        <3> HIDE DEF fresh
        <3> QED
            BY <2>1, <2>2, <3>1, <1>a
    <2>7. /\ UNCHANGED <<now, visible, todo, found, acting, memory, db, streaming, queue,
                         handled, unmarked>>
          /\ stage' = "fast"
        BY <2>0 DEF FetchAll, clockVars, streamVars
    <2> HIDE DEF fresh
    <2> QED
        BY <1>0, <2>3, <2>4, <2>5, <2>6, <2>7 DEF TypeOK, Stages
<1>3. CASE FetchAllFails \/ FastPathDone
    BY <1>3, <1>0 DEF TypeOK, FetchAllFails, FastPathDone, Stages, clockVars, cursorVars, streamVars, histVars
<1>4. ASSUME NEW c \in Conv, PollConversation(c)
      PROVE  TypeOK'
    <2>1. PICK page \in Pages(Since(Of(c), FetchStart(c))) :
              LET fresh == New({m \in page : ~Aged(m)})
                  next  == IF page = {} THEN Early ELSE NextStart(page) IN
              /\ found' = found \cup Merged(fresh)
              /\ cursor' = [cursor EXCEPT ![c] = next]
              /\ dropped' = LetGo(Swallowed(fresh) \cup {m \in page : Aged(m)}
                    \cup {m \in Of(c) : cursor[c] = None /\ Stamp[m] < next})
        BY <1>4 DEF PollConversation
    <2> DEFINE fresh == New({m \in page : ~Aged(m)})
    <2>2. page \in SUBSET visible /\ page \in SUBSET Msg /\ {m \in page : ~Aged(m)} \in SUBSET Msg
        BY PageIsOldest, <1>0 DEF Since, Of, TypeOK
    <2>3. found' \in SUBSET Merge
        BY <2>1, <2>2, <1>b, <1>0 DEF TypeOK
    <2>4. cursor' \in [Conv -> Int \cup {None}]
        BY <2>1, <2>2, <1>c, <1>n, <1>0 DEF TypeOK
    <2>5. Of(c) \in SUBSET Msg
        BY <1>0 DEF Of, TypeOK
    <2>6. dropped' \in SUBSET Msg
        <3>1. Swallowed(fresh) \in SUBSET Msg
            BY <2>2, <1>b
        <3> QED
            BY <2>1, <2>2, <2>5, <3>1, <1>a
    <2>7. /\ UNCHANGED <<now, visible, stage, batch, acting, cursorAll, memory, db, streaming,
                         queue, handled, unmarked>>
          /\ todo' = todo \ {c}
        BY <1>4 DEF PollConversation, clockVars, streamVars
    <2> HIDE DEF fresh
    <2> QED
        BY <1>0, <2>3, <2>4, <2>6, <2>7 DEF TypeOK
<1>5. ASSUME NEW c \in Conv, SkipConversation(c) \/ BadPage(c)
      PROVE  TypeOK'
    <2>1. Of(c) \in SUBSET Msg
        BY <1>0 DEF Of, TypeOK
    <2>2. BadPage(c) => dropped' \in SUBSET Msg
        BY <2>1, <1>a DEF BadPage
    <2> QED
        BY <1>5, <2>2, <1>0, <1>n
        DEF TypeOK, SkipConversation, BadPage, clockVars, cursorVars, streamVars, histVars
<1>6. CASE CycleBreaks
    BY <1>6, <1>0, <1>a DEF CycleBreaks, TypeOK, Stages, clockVars, cursorVars, streamVars
<1>7. CASE Deduplicate
    <2> DEFINE known == {g \in found : Head(g) \in memory \cup db}
    <2>1. batch' \in SUBSET (Channels \X Merge)
        BY <1>7, <1>0 DEF Deduplicate, TypeOK, Channels
    <2>2. dropped' \in SUBSET Msg
        <3>1. (UNION known) \ {Head(g) : g \in known} \in SUBSET Msg
            BY <1>0
        <3> QED
            BY <3>1, <1>a, <1>7 DEF Deduplicate
    <2> QED
        BY <1>7, <1>0, <2>1, <2>2 DEF Deduplicate, TypeOK, Stages, clockVars, cursorVars, streamVars
<1>8. CASE Drain
    <2> DEFINE all == batch \cup {<<"stream", {m}>> : m \in queue}
    <2>1. all \in SUBSET (Channels \X Merge)
        BY <1>0 DEF TypeOK, Channels, Merge
    <2>2. PICK chosen \in SUBSET all :
              batch' = chosen /\ dropped' = LetGo(MsgsOf(all \ chosen))
        BY <1>8 DEF Drain
    <2>3. MsgsOf(all \ chosen) \in SUBSET Msg
        <3>1. \A e \in all : e[2] \in SUBSET Msg
            BY <2>1 DEF Merge
        <3> QED
            BY <3>1 DEF MsgsOf
    <2> QED
        BY <1>8, <1>0, <2>1, <2>2, <2>3, <1>a
        DEF Drain, TypeOK, Stages, clockVars, cursorVars
<1>9. CASE CycleEnds
    BY <1>9, <1>0 DEF CycleEnds, TypeOK, Stages, clockVars, cursorVars, streamVars, histVars
<1>10. ASSUME NEW e \in batch, Hand(e) \/ HandlerRaises(e) \/ BothFail(e)
       PROVE  TypeOK'
    <2>1. e[2] \in SUBSET Msg
        BY <1>0 DEF TypeOK, Merge
    <2>2. Hand(e) => handled' \in [Msg -> 0 .. 2]
        <3>1. \A m \in Msg : handled[m] \in 0 .. 2 /\ (handled[m] < 2 => handled[m] + 1 \in 0 .. 2)
            BY <1>0 DEF TypeOK
        <3> QED
            BY <3>1 DEF Hand
    <2> QED
        BY <1>10, <1>0, <2>1, <2>2, <1>a
        DEF Hand, HandlerRaises, BothFail, TypeOK, Stages, Merge, clockVars, cursorVars, streamVars
<1>11. CASE Settle \/ SaveFails
    <2>1. /\ memory' \in SUBSET Msg /\ db' \in SUBSET Msg /\ unmarked' \in SUBSET Msg
          /\ acting' = {}
        BY <1>11, <1>0, <1>d DEF Settle, SaveFails, Mark, TypeOK, Merge
    <2> QED
        BY <1>11, <1>0, <2>1, <1>a
        DEF Settle, SaveFails, TypeOK, Stages, Merge, clockVars, cursorVars, streamVars
<1>12. ASSUME NEW m \in Msg, StreamTest(m) \/ StreamInsert(m)
       PROVE  TypeOK'
    <2>1. memory' \in SUBSET Msg
        BY <1>12, <1>0, <1>d DEF StreamTest, StreamInsert, TypeOK
    <2> QED
        BY <1>12, <1>0, <2>1
        DEF StreamTest, StreamInsert, TypeOK, clockVars, cycleVars, cursorVars, histVars
<1>13. CASE Restart
    BY <1>13, <1>0, <1>a DEF Restart, TypeOK, Stages, Merge, clockVars
<1>14. CASE UNCHANGED vars
    BY <1>14, <1>0
    DEF TypeOK, vars, clockVars, cycleVars, cursorVars, streamVars, histVars
<1> QED
    BY <1>1, <1>2, <1>3, <1>4, <1>5, <1>6, <1>7, <1>8, <1>9, <1>10, <1>11, <1>12, <1>13, <1>14
    DEF Next, Fetch, Dispatch, Stream

-----------------------------------------------------------------------------
(* The stages, the two kinds of marks, and the histories.                   *)

LEMMA TidyStep ==
    ASSUME IInv, [Next]_vars
    PROVE  Tidy'
<1> USE DEF IInv, Tidy
<1>1. CASE Server \/ Stream \/ UNCHANGED vars
    BY <1>1 DEF Server, Tick, Arrive, Stream, StreamTest, StreamInsert, vars, cycleVars
<1>2. CASE Fetch
    BY <1>2 DEF Fetch, ListAll, FetchAll, FetchAllFails, FastPathDone, PollConversation,
                SkipConversation, BadPage, CycleBreaks, Deduplicate, Drain, CycleEnds
<1>3. CASE Dispatch
    BY <1>3 DEF Dispatch, Hand, HandlerRaises, BothFail, Turn, Settle, SaveFails, Mark
<1>4. CASE Restart
    BY <1>4 DEF Restart
<1> QED
    BY <1>1, <1>2, <1>3, <1>4 DEF Next

LEMMA SeparateStep ==
    ASSUME IInv, [Next]_vars
    PROVE  Separate' /\ (queue \cup streaming \subseteq Streamed)'
<1> USE DEF IInv, Separate, StreamKept
<1>1. CASE Server \/ UNCHANGED vars
    BY <1>1 DEF Server, Tick, Arrive, vars, cycleVars, streamVars
<1>2. CASE Stream
    BY <1>2 DEF Stream, StreamTest, StreamInsert, cycleVars
<1>3. CASE ListAll
    <2>1. PICK S \in SUBSET Msg : batch' = {<<"poll", g>> : g \in Merged(New(S))}
        BY <1>3, ListAllHandsOn
    <2>2. found' = {} /\ UNCHANGED <<streaming, queue>>
        BY <1>3 DEF ListAll, FetchAll, Tidy, streamVars
    <2>3. \A g, h \in Merged(New(S)) : g # h => g \cap h = {}
        BY NewIsUnmarked
    <2> QED
        BY <2>1, <2>2, <2>3
<1>4. ASSUME NEW c \in Conv, PollConversation(c)
      PROVE  Separate' /\ UNCHANGED <<streaming, queue>>
    <2>1. PICK S \in SUBSET Of(c) : found' = found \cup Merged(New(S))
        BY <1>4, PolledHandsOn
    <2>2. S \in SUBSET Msg /\ \A m \in S : ConvOf[m] = c
        BY DEF Of, TypeOK
    <2>3. /\ New(S) \subseteq S
          /\ UNION Merged(New(S)) \subseteq New(S)
          /\ \A g, h \in Merged(New(S)) : g # h => g \cap h = {}
        BY <2>2, NewIsUnmarked
    <2>4. c \in todo /\ todo' = todo \ {c} /\ UNCHANGED <<batch, streaming, queue>>
        BY <1>4 DEF PollConversation, streamVars
    <2>5. \A g \in found, h \in Merged(New(S)) : g \cap h = {}
        BY <2>2, <2>3, <2>4
    <2>6. \A g, h \in found' : g # h => g \cap h = {}
        BY <2>1, <2>3, <2>5
    <2>7. \A m \in UNION found' : ConvOf[m] \notin todo'
        BY <2>1, <2>2, <2>3, <2>4
    <2> QED
        BY <2>4, <2>6, <2>7
<1>5. CASE Deduplicate
    BY <1>5 DEF Deduplicate, streamVars
<1>6. CASE Drain
    <2> DEFINE all == batch \cup {<<"stream", {m}>> : m \in queue}
    <2>1. batch' \subseteq all /\ queue' = {} /\ UNCHANGED <<found, todo, streaming>>
        BY <1>6 DEF Drain
    <2>2. \A d, e \in all : d # e => d[2] \cap e[2] \subseteq Streamed
        OBVIOUS
    <2> QED
        BY <2>1, <2>2
<1>7. CASE Fetch /\ ~ListAll /\ ~Deduplicate /\ ~Drain /\ ~\E c \in Conv : PollConversation(c)
    BY <1>7 DEF Fetch, FetchAllFails, FastPathDone, SkipConversation, BadPage,
                CycleBreaks, CycleEnds, Tidy, histVars, streamVars
<1>8. CASE Dispatch
    BY <1>8 DEF Dispatch, Hand, HandlerRaises, BothFail, Settle, SaveFails, streamVars
<1>9. CASE Restart
    BY <1>9 DEF Restart
<1> QED
    BY <1>1, <1>2, <1>3, <1>4, <1>5, <1>6, <1>7, <1>8, <1>9 DEF Next, Fetch

LEMMA MarksStep ==
    ASSUME IInv, [Next]_vars
    PROVE  HandledKnown' /\ ActingHandled' /\ MarkedOnlyIfHandled'
<1> USE DEF IInv, HandledKnown, ActingHandled, MarkedOnlyIfHandled
<1>1. CASE Server \/ UNCHANGED vars
    BY <1>1 DEF Server, Tick, Arrive, vars, cycleVars, histVars
<1>2. CASE Fetch /\ ~Deduplicate
    BY <1>2 DEF Fetch, ListAll, FetchAll, FetchAllFails, FastPathDone, PollConversation,
                SkipConversation, BadPage, CycleBreaks, Drain, CycleEnds, histVars
<1>3. CASE Deduplicate
    BY <1>3 DEF Deduplicate
<1>4. ASSUME NEW e \in batch, Hand(e)
      PROVE  HandledKnown' /\ ActingHandled' /\ MarkedOnlyIfHandled'
    <2>1. /\ acting = {} /\ acting' = e[2] /\ UNCHANGED <<memory, db, unmarked>>
          /\ e[2] \in SUBSET Msg
        BY <1>4 DEF Hand, Turn, TypeOK, Merge
    <2>2. \A m \in Msg : /\ m \in e[2] => handled'[m] > 0
                         /\ m \notin e[2] => handled'[m] = handled[m]
                         /\ handled[m] > 0 => handled'[m] > 0
        BY <1>4 DEF Hand, TypeOK
    <2>3. memory \subseteq Msg /\ db \subseteq Msg
        BY DEF TypeOK
    <2> QED
        BY <2>1, <2>2, <2>3
<1>5. ASSUME NEW e \in batch, HandlerRaises(e) \/ BothFail(e)
      PROVE  HandledKnown' /\ ActingHandled' /\ MarkedOnlyIfHandled'
    BY <1>5 DEF HandlerRaises, BothFail
<1>6. CASE Settle \/ SaveFails
    <2>1. Mark /\ handled' = handled
        BY <1>6 DEF Settle, SaveFails
    <2> QED
        BY <2>1 DEF Mark, Remember
<1>7. ASSUME NEW m \in Msg, StreamTest(m) \/ StreamInsert(m)
      PROVE  HandledKnown' /\ ActingHandled' /\ MarkedOnlyIfHandled'
    <2>1. UNCHANGED <<acting, db, handled, unmarked>>
        BY <1>7 DEF StreamTest, StreamInsert, cycleVars, histVars
    <2>2. memory' \subseteq memory \cup Streamed
        BY <1>7 DEF StreamTest, StreamInsert, Remember, StreamKept
    <2> QED
        BY <2>1, <2>2
<1>8. CASE Restart
    BY <1>8 DEF Restart
<1> QED
    BY <1>1, <1>2, <1>3, <1>4, <1>5, <1>6, <1>7, <1>8 DEF Next, Fetch, Dispatch, Stream

LEMMA WaitingStep ==
    ASSUME IInv, [Next]_vars
    PROVE  WaitingUnknown'
<1> USE DEF IInv
<1>a. \A S \in SUBSET Msg :
          acting = {} => \A m \in New(S) \ Streamed : handled[m] = 0 \/ m \in unmarked
    BY NewIsUnmarked DEF HandledKnown, TypeOK
<1> USE DEF WaitingUnknown, MsgsOf
<1>1. CASE Server \/ Stream \/ UNCHANGED vars
    BY <1>1 DEF Server, Tick, Arrive, Stream, StreamTest, StreamInsert, vars, cycleVars, histVars
<1>2. CASE ListAll
    <2>1. PICK S \in SUBSET Msg : batch' = {<<"poll", g>> : g \in Merged(New(S))}
        BY <1>2, ListAllHandsOn
    <2>2. found' = {} /\ acting = {} /\ UNCHANGED <<handled, unmarked>>
        BY <1>2 DEF ListAll, FetchAll, Tidy
    <2>3. \A e \in batch' : e[2] \subseteq New(S)
        <3>1. UNION Merged(New(S)) \subseteq New(S)
            BY NewIsUnmarked
        <3> QED
            BY <2>1, <3>1
    <2> QED
        BY <2>2, <2>3, <1>a
<1>3. ASSUME NEW c \in Conv, PollConversation(c)
      PROVE  WaitingUnknown'
    <2>1. PICK S \in SUBSET Of(c) : found' = found \cup Merged(New(S))
        BY <1>3, PolledHandsOn
    <2>2. S \in SUBSET Msg
        BY DEF Of, TypeOK
    <2>3. acting = {} /\ UNCHANGED <<batch, handled, unmarked>>
        BY <1>3 DEF PollConversation, Tidy
    <2>4. UNION found' \subseteq (UNION found) \cup New(S)
        BY <2>1, <2>2, NewIsUnmarked
    <2> QED
        BY <2>2, <2>3, <2>4, <1>a
<1>4. CASE Fetch /\ ~ListAll /\ ~\E c \in Conv : PollConversation(c)
    <2>1. CASE Drain
        BY <2>1 DEF Drain, StreamKept
    <2>2. CASE Deduplicate
        BY <2>2 DEF Deduplicate
    <2> QED
        BY <1>4, <2>1, <2>2 DEF Fetch, FetchAllFails, FastPathDone, SkipConversation,
            BadPage, CycleBreaks, CycleEnds, histVars
<1>5. ASSUME NEW e \in batch, Hand(e)
      PROVE  WaitingUnknown'
    <2>1. batch' = batch \ {e} /\ UNCHANGED <<found, unmarked>>
        BY <1>5 DEF Hand
    <2>2. found = {}
        BY <1>5 DEF Hand, Turn, Tidy
    <2>3. \A m \in Msg : m \notin e[2] => handled'[m] = handled[m]
        BY <1>5 DEF Hand
    <2>4. \A d \in batch' : \A m \in d[2] \ Streamed : m \in Msg /\ m \notin e[2]
        BY <2>1 DEF Separate, TypeOK, Merge
    <2> QED
        BY <2>1, <2>2, <2>3, <2>4
<1>6. ASSUME NEW e \in batch, HandlerRaises(e) \/ BothFail(e)
      PROVE  WaitingUnknown'
    BY <1>6 DEF HandlerRaises, BothFail
<1>7. CASE Settle \/ SaveFails
    BY <1>7 DEF Settle, SaveFails, Mark
<1>8. CASE Restart
    BY <1>8 DEF Restart
<1> QED
    BY <1>1, <1>2, <1>3, <1>4, <1>5, <1>6, <1>7, <1>8 DEF Next, Fetch, Dispatch

-----------------------------------------------------------------------------
(* What is settled stays settled.                                           *)

LEMMA LetGoSettles ==
    ASSUME TypeOK, NEW S, NEW m \in Msg \ Noise, m \in S
    PROVE  handled[m] > 0 \/ m \in LetGo(S)
BY DEF LetGo, TypeOK

LEMMA StreamStep ==
    ASSUME IInv, [Next]_vars, NEW m \in Msg \ Noise, m \in Streamed, m \in memory'
    PROVE  (handled[m] > 0 \/ m \in queue \cup MsgsOf(batch) \cup dropped)'
<1> DEFINE Kept == handled[m] > 0 \/ m \in queue \cup MsgsOf(batch) \cup dropped
<1>0. /\ TypeOK /\ Tidy /\ ActingHandled /\ MarkedOnlyIfHandled
      /\ m \in memory => Kept
      /\ m \in db => handled[m] > 0
      /\ \A S : m \in S => handled[m] > 0 \/ m \in LetGo(S)
      /\ \A S : dropped \subseteq LetGo(S)
    BY LetGoSettles DEF IInv, StreamKept, MarkedOnlyIfHandled, LetGo
<1> USE DEF MsgsOf
<1>1. CASE Server \/ UNCHANGED vars
    BY <1>0, <1>1 DEF Server, Tick, Arrive, vars, cycleVars, streamVars, histVars
<1>2. CASE ListAll
    <2>1. batch = {} /\ UNCHANGED <<memory, queue, handled>> /\ dropped \subseteq dropped'
        BY <1>0, <1>2, ListAllHandsOn DEF ListAll, FetchAll, Tidy, streamVars
    <2> QED
        BY <1>0, <2>1
<1>3. ASSUME NEW c \in Conv, PollConversation(c) \/ SkipConversation(c) \/ BadPage(c)
      PROVE  Kept'
    <2>1. UNCHANGED <<memory, queue, handled, batch>> /\ dropped \subseteq dropped'
        <3>1. CASE PollConversation(c)
            BY <1>0, <3>1, PolledHandsOn DEF PollConversation, streamVars
        <3> QED
            BY <1>0, <1>3, <3>1 DEF SkipConversation, BadPage, streamVars, histVars
    <2> QED
        BY <1>0, <2>1
<1>4. CASE FetchAllFails \/ FastPathDone \/ CycleBreaks \/ CycleEnds
    BY <1>0, <1>4 DEF FetchAllFails, FastPathDone, CycleBreaks, CycleEnds, streamVars, histVars
<1>5. CASE Deduplicate
    BY <1>0, <1>5 DEF Deduplicate, Tidy, streamVars
<1>6. CASE Drain
    <2> DEFINE all == batch \cup {<<"stream", {n}>> : n \in queue}
    <2>1. PICK chosen \in SUBSET all :
              batch' = chosen /\ dropped' = LetGo(MsgsOf(all \ chosen))
        BY <1>6 DEF Drain
    <2>2. UNCHANGED <<memory, handled>> /\ dropped \subseteq dropped'
        BY <1>0, <1>6, <2>1 DEF Drain
    <2>3. ASSUME m \in queue \cup MsgsOf(batch), handled[m] = 0
          PROVE  m \in MsgsOf(batch') \cup dropped'
        <3>1. PICK e \in all : m \in e[2]
            <4>1. CASE m \in queue
                <5>1. <<"stream", {m}>> \in all
                    BY <4>1
                <5> QED
                    BY <5>1
            <4> QED
                BY <2>3, <4>1
        <3>2. CASE e \in chosen
            BY <3>1, <3>2, <2>1
        <3>3. CASE e \notin chosen
            <4>1. m \in MsgsOf(all \ chosen)
                BY <3>1, <3>3
            <4> QED
                BY <4>1, <2>1, <2>3, <1>0
        <3> QED
            BY <3>2, <3>3
    <2>4. handled[m] > 0 \/ handled[m] = 0
        BY <1>0 DEF TypeOK
    <2> QED
        BY <1>0, <2>2, <2>3, <2>4
<1>7. ASSUME NEW e \in batch, Hand(e)
      PROVE  Kept'
    <2>1. UNCHANGED <<memory, queue, dropped>> /\ batch' = batch \ {e}
        BY <1>7 DEF Hand, streamVars
    <2>2. /\ m \in e[2] => handled'[m] > 0
          /\ handled[m] > 0 => handled'[m] > 0
        BY <1>0, <1>7 DEF Hand, TypeOK
    <2> QED
        BY <1>0, <2>1, <2>2
<1>8. ASSUME NEW e \in batch, HandlerRaises(e) \/ BothFail(e)
      PROVE  Kept'
    BY <1>0, <1>8 DEF HandlerRaises, BothFail, streamVars
<1>9. CASE Settle \/ SaveFails
    <2>1. m \in memory \/ m \in acting
        BY <1>9 DEF Settle, SaveFails, Mark, Remember
    <2> QED
        BY <1>0, <1>9, <2>1 DEF Settle, SaveFails, ActingHandled, streamVars
<1>10. ASSUME NEW n \in Msg, StreamTest(n) \/ StreamInsert(n)
       PROVE  Kept'
    BY <1>0, <1>10 DEF StreamTest, StreamInsert, Remember, cycleVars, histVars
<1>11. CASE Restart
    BY <1>0, <1>11 DEF Restart
<1> QED
    BY <1>1, <1>2, <1>3, <1>4, <1>5, <1>6, <1>7, <1>8, <1>9, <1>10, <1>11
    DEF Next, Fetch, Dispatch, Stream

LEMMA SettledStep ==
    ASSUME IInv, [Next]_vars, NEW m \in Msg \ Noise, Settled(m)
    PROVE  Settled(m)'
<1>0. /\ TypeOK /\ Tidy /\ ActingHandled
      /\ m \in db => handled[m] > 0
      /\ m \in memory => handled[m] > 0 \/ m \in queue \cup MsgsOf(batch) \cup dropped
      /\ \A S : m \in S => handled[m] > 0 \/ m \in LetGo(S)
      /\ \A S : dropped \subseteq LetGo(S)
    BY LetGoSettles DEF IInv, StreamKept, MarkedOnlyIfHandled, LetGo
<1> USE DEF Settled, InFlight, MsgsOf
<1>1. CASE Server \/ UNCHANGED vars
    BY <1>1 DEF Server, Tick, Arrive, vars, cycleVars, streamVars, histVars
<1>2. CASE ListAll
    <2>1. /\ batch = {} /\ UNCHANGED <<queue, streaming, found, acting, handled>>
          /\ dropped \subseteq dropped'
        BY <1>0, <1>2, ListAllHandsOn DEF ListAll, FetchAll, Tidy, streamVars
    <2> QED
        BY <2>1
<1>3. ASSUME NEW c \in Conv, PollConversation(c) \/ SkipConversation(c) \/ BadPage(c)
      PROVE  Settled(m)'
    <2>1. /\ UNCHANGED <<queue, streaming, batch, acting, handled>>
          /\ found \subseteq found' /\ dropped \subseteq dropped'
        <3>1. CASE PollConversation(c)
            BY <1>0, <3>1, PolledHandsOn DEF PollConversation, streamVars
        <3> QED
            BY <1>0, <1>3, <3>1 DEF SkipConversation, BadPage, streamVars, histVars
    <2> QED
        BY <2>1
<1>4. CASE FetchAllFails \/ FastPathDone \/ CycleEnds
    BY <1>4 DEF FetchAllFails, FastPathDone, CycleEnds, streamVars, histVars
<1>5. CASE CycleBreaks
    BY <1>0, <1>5 DEF CycleBreaks, streamVars
<1>6. CASE Deduplicate
    <2> DEFINE known == {g \in found : Head(g) \in memory \cup db}
    <2>1. /\ batch' = {<<"poll", g>> : g \in found \ known}
          /\ dropped' = LetGo((UNION known) \ {Head(g) : g \in known})
          /\ batch = {} /\ acting = {} /\ UNCHANGED <<queue, streaming, acting, handled>>
          /\ dropped \subseteq dropped'
        BY <1>0, <1>6 DEF Deduplicate, Tidy, streamVars
    <2>2. ASSUME NEW g \in found, m \in g
          PROVE  Settled(m)'
        <3>1. CASE g \notin known
            <4>1. <<"poll", g>> \in batch'
                BY <2>1, <3>1
            <4> QED
                BY <2>2, <4>1
        <3>2. CASE m \in {Head(h) : h \in known}
            <4>1. m \in memory \cup db
                BY <3>2
            <4> QED
                BY <1>0, <2>1, <4>1
        <3>3. CASE g \in known /\ m \notin {Head(h) : h \in known}
            <4>1. m \in (UNION known) \ {Head(h) : h \in known}
                BY <2>2, <3>3
            <4> QED
                BY <1>0, <2>1, <4>1
        <3> QED
            BY <3>1, <3>2, <3>3
    <2> QED
        BY <2>1, <2>2
<1>7. CASE Drain
    <2> DEFINE all == batch \cup {<<"stream", {n}>> : n \in queue}
    <2>1. PICK chosen \in SUBSET all :
              batch' = chosen /\ dropped' = LetGo(MsgsOf(all \ chosen))
        BY <1>7 DEF Drain
    <2>2. UNCHANGED <<found, acting, streaming, handled>> /\ dropped \subseteq dropped'
        BY <1>0, <1>7, <2>1 DEF Drain
    <2>3. ASSUME m \in queue \cup MsgsOf(batch)
          PROVE  Settled(m)'
        <3>1. PICK e \in all : m \in e[2]
            <4>1. CASE m \in queue
                <5>1. <<"stream", {m}>> \in all
                    BY <4>1
                <5> QED
                    BY <5>1
            <4> QED
                BY <2>3, <4>1
        <3>2. CASE e \in chosen
            BY <3>1, <3>2, <2>1
        <3>3. CASE e \notin chosen
            <4>1. m \in MsgsOf(all \ chosen)
                BY <3>1, <3>3
            <4> QED
                BY <4>1, <2>1, <2>2, <1>0
        <3> QED
            BY <3>2, <3>3
    <2> QED
        BY <2>2, <2>3
<1>8. ASSUME NEW e \in batch, Hand(e)
      PROVE  Settled(m)'
    <2>1. /\ UNCHANGED <<queue, streaming, found, dropped>> /\ batch' = batch \ {e}
          /\ acting = {} /\ acting' = e[2]
        BY <1>8 DEF Hand, Turn, streamVars
    <2>2. handled[m] > 0 => handled'[m] > 0
        BY <1>0, <1>8 DEF Hand, TypeOK
    <2> QED
        BY <2>1, <2>2
<1>9. ASSUME NEW e \in batch, HandlerRaises(e) \/ BothFail(e)
      PROVE  Settled(m)'
    <2>1. UNCHANGED <<queue, streaming, found, acting, handled>> /\ dropped \subseteq dropped'
        BY <1>0, <1>9 DEF HandlerRaises, BothFail, streamVars
    <2>2. m \in MsgsOf(batch) => handled[m] > 0 \/ m \in MsgsOf(batch') \cup dropped'
        BY <1>0, <1>9 DEF HandlerRaises, BothFail
    <2> QED
        BY <2>1, <2>2
<1>10. CASE Settle \/ SaveFails
    <2>1. UNCHANGED <<queue, streaming, found, handled>> /\ dropped \subseteq dropped'
        BY <1>0, <1>10 DEF Settle, SaveFails, streamVars
    <2>2. m \in acting => handled[m] > 0
        BY <1>0 DEF ActingHandled
    <2>3. m \in MsgsOf(batch) => handled[m] > 0 \/ m \in MsgsOf(batch') \cup dropped'
        BY <1>0, <1>10 DEF Settle, SaveFails
    <2> QED
        BY <2>1, <2>2, <2>3
<1>11. ASSUME NEW n \in Msg, StreamTest(n) \/ StreamInsert(n)
       PROVE  Settled(m)'
    BY <1>11 DEF StreamTest, StreamInsert, cycleVars, histVars
<1>12. CASE Restart
    BY <1>0, <1>12 DEF Restart
<1> QED
    BY <1>1, <1>2, <1>3, <1>4, <1>5, <1>6, <1>7, <1>8, <1>9, <1>10, <1>11, <1>12
    DEF Next, Fetch, Dispatch, Stream

-----------------------------------------------------------------------------
(* The cursors.                                                             *)

LEMMA PastStep ==
    ASSUME IInv, [Next]_vars
    PROVE  Past'
<1> USE MessageAssumption, ConfigAssumption
<1>0. TypeOK /\ Past /\ now \in Nat /\ Protection \in Nat
    BY DEF IInv, TypeOK
<1>a. \A S \in SUBSET visible : S # {} => NextStart(S) \in Nat /\ NextStart(S) <= now
    BY <1>0, LatestExists DEF TypeOK, Past, NextStart
<1>b. now - Protection \in Int /\ now - Protection <= now /\ Early = now - Protection
    BY <1>0 DEF Early
<1>1. CASE Tick
    <2>1. /\ now' = now + 1 /\ UNCHANGED <<visible, cursorAll, cursor>>
        BY <1>1 DEF Tick, cursorVars
    <2> QED
        BY <1>0, <2>1 DEF Past, TypeOK
<1>2. ASSUME NEW m \in Msg, Arrive(m)
      PROVE  Past'
    BY <1>0, <1>2 DEF Arrive, Past, TypeOK, cursorVars
<1>3. CASE ListAll
    <2>0. PICK left \in SUBSET Since(AllListed, AllStart),
               old \in SUBSET (AllListed \ Since(AllListed, AllStart)) : FetchAll(left, old)
        BY <1>3 DEF ListAll
    <2> DEFINE timed == Timed(left, old)
    <2>1. timed \in SUBSET visible /\ \A c \in Conv : Of(c) \cap timed \in SUBSET visible
        BY DEF Since, Timed, Got, AllListed
    <2>2. UNCHANGED <<now, visible>>
        BY <2>0 DEF FetchAll, clockVars
    <2>3. /\ cursorAll' = IF timed = {} THEN now - Protection ELSE NextStart(timed)
          /\ cursor' = [c \in Conv |-> IF Of(c) \cap timed = {} THEN cursor[c]
                                       ELSE NextStart(Of(c) \cap timed)]
        BY <2>0 DEF FetchAll, Timed, Got
    <2> HIDE DEF timed
    <2>4. cursorAll' <= now
        BY <2>3, <2>1, <1>a, <1>b
    <2>5. \A c \in Conv : cursor'[c] = cursor[c] \/ cursor'[c] <= now
        BY <2>3, <2>1, <1>a
    <2> QED
        BY <1>0, <2>2, <2>4, <2>5 DEF Past
<1>4. ASSUME NEW c \in Conv, PollConversation(c)
      PROVE  Past'
    <2>1. PICK page \in Pages(Since(Of(c), FetchStart(c))) :
              cursor' = [cursor EXCEPT ![c] = IF page = {} THEN Early ELSE NextStart(page)]
        BY <1>4 DEF PollConversation
    <2>2. page \in SUBSET visible
        BY PageIsOldest DEF Since, Of
    <2>3. UNCHANGED <<now, visible, cursorAll>>
        BY <1>4 DEF PollConversation, clockVars
    <2>4. \A k \in Conv : cursor'[k] = cursor[k] \/ cursor'[k] <= now
        BY <1>0, <1>a, <1>b, <2>1, <2>2 DEF TypeOK
    <2> QED
        BY <1>0, <2>3, <2>4 DEF Past
<1>5. ASSUME NEW c \in Conv, BadPage(c)
      PROVE  Past'
    <2>1. UNCHANGED <<now, visible, cursorAll>> /\ cursor' = [cursor EXCEPT ![c] = Early]
        BY <1>5 DEF BadPage, clockVars
    <2> QED
        BY <1>0, <1>b, <2>1 DEF Past, TypeOK
<1>6. CASE Restart
    BY <1>0, <1>6 DEF Restart, Past, clockVars
<1>7. CASE UNCHANGED <<now, visible, cursorAll, cursor>>
    BY <1>0, <1>7 DEF Past
<1>8. ASSUME NEW c \in Conv, SkipConversation(c)
      PROVE  Past'
    BY <1>7, <1>8 DEF SkipConversation, clockVars, cursorVars
<1>9. CASE FetchAllFails \/ FastPathDone \/ CycleBreaks \/ Deduplicate \/ Drain \/ CycleEnds
    BY <1>7, <1>9 DEF FetchAllFails, FastPathDone, CycleBreaks, Deduplicate, Drain,
                      CycleEnds, clockVars, cursorVars
<1>10. CASE Dispatch \/ Stream \/ UNCHANGED vars
    BY <1>7, <1>10 DEF Dispatch, Hand, HandlerRaises, BothFail, Settle, SaveFails,
                       Stream, StreamTest, StreamInsert, vars, clockVars, cursorVars
<1> QED
    BY <1>1, <1>2, <1>3, <1>4, <1>5, <1>6, <1>8, <1>9, <1>10 DEF Next, Server, Fetch

LEMMA ReachedStep ==
    ASSUME IInv, [Next]_vars
    PROVE  Reached'
<1> USE MessageAssumption, ConfigAssumption
<1>0. TypeOK /\ Past /\ Reached /\ now \in Nat
    BY DEF IInv, TypeOK
<1>s. \A m \in Msg \ Noise : Settled(m) => Settled(m)'
    BY SettledStep
<1>n. \A m \in Msg \ Noise : ~Settled(m) => handled[m] = 0 /\ m \notin db
    BY DEF Settled, IInv, TypeOK, MarkedOnlyIfHandled
<1>g. ASSUME NEW S, dropped' = LetGo(S), NEW m \in Msg \ Noise, m \in S
      PROVE  Settled(m)'
    <2>1. Settled(m) => Settled(m)'
        BY <1>s
    <2>2. ~Settled(m) => m \in dropped'
        BY <1>g, <1>n DEF LetGo
    <2> QED
        BY <2>1, <2>2 DEF Settled
<1>v. visible \in SUBSET Msg /\ visible' \in SUBSET Msg
    BY TypeStep, <1>0 DEF TypeOK
<1>1. CASE UNCHANGED <<visible, cursorAll, cursor>>
    BY <1>0, <1>1, <1>s, <1>v DEF Reached
<1>2. ASSUME NEW n \in Msg, Arrive(n)
      PROVE  Reached'
    <2>1. /\ visible' = visible \cup {n} /\ Stamp[n] = now
          /\ UNCHANGED <<cursorAll, cursor>>
        BY <1>2 DEF Arrive, cursorVars
    <2>2. /\ ~(cursorAll # None /\ Stamp[n] < cursorAll)
          /\ ~(cursor[ConvOf[n]] # None /\ Stamp[n] < cursor[ConvOf[n]])
        BY <1>0, <2>1 DEF Past, TypeOK
    <2> QED
        BY <1>0, <1>s, <1>v, <2>1, <2>2 DEF Reached
<1>3. CASE ListAll
    <2>0. PICK left \in SUBSET Since(AllListed, AllStart),
               old \in SUBSET (AllListed \ Since(AllListed, AllStart)) : FetchAll(left, old)
        BY <1>3 DEF ListAll
    <2> DEFINE got == Got(left, old)
               timed == Timed(left, old)
               fresh == New(timed \ old)
               before == {m \in AllListed : /\ Stamp[m] < AllStart
                                            /\ cursorAll = None \/ cursorAll <= Stamp[m]}
               lost == left \cup Swallowed(fresh) \cup {m \in got : Aged(m)} \cup before
    <2>1. /\ visible' = visible
          /\ batch' = {<<"poll", g>> : g \in Merged(fresh)}
          /\ \A c \in Conv : Of(c) \cap timed = {} => cursor'[c] = cursor[c]
          /\ dropped' = LetGo(lost)
        BY <2>0 DEF FetchAll, clockVars, Got, Timed
    <2>2. AllStart \in Int
        BY <1>0 DEF TypeOK, AllStart
    <2>3. timed \ old \in SUBSET Msg
        BY <1>v DEF Since, Got, Timed, AllListed
    <2>4. ASSUME NEW m \in visible \ Noise, ConvOf[m] \in Listed
          PROVE  Settled(m)'
        <3>1. CASE Settled(m)
            BY <3>1, <1>s, <1>v
        <3>2. CASE m \in left \/ (m \in got /\ Aged(m)) \/ m \in before
            <4>1. m \in lost
                BY <3>2
            <4> HIDE DEF lost
            <4> QED
                BY <1>g, <1>v, <2>1, <4>1
        <3>3. CASE ~Settled(m) /\ m \in fresh
            <4>1. CASE m \in Swallowed(fresh)
                <5>1. m \in lost
                    BY <4>1
                <5> HIDE DEF lost
                <5> QED
                    BY <1>g, <1>v, <2>1, <5>1
            <4>2. CASE m \notin Swallowed(fresh)
                <5>1. PICK g \in Merged(fresh) : m \in g
                    <6> HIDE DEF timed
                    <6> QED
                        BY <2>3, <3>3, <4>2, NewIsUnmarked
                <5>2. <<"poll", g>> \in batch'
                    BY <2>1
                <5> QED
                    BY <5>1, <5>2 DEF Settled, InFlight, MsgsOf
            <4> QED
                BY <4>1, <4>2
        <3>4. CASE ~Settled(m) /\ Stamp[m] >= AllStart /\ m \notin left /\ ~(m \in got /\ Aged(m))
            <4>1. m \in Since(AllListed, AllStart)
                BY <2>4, <3>4 DEF Since, AllListed
            <4>2. m \in got /\ m \notin old
                BY <3>4, <4>1 DEF Got
            <4>3. m \in timed \ old
                BY <3>4, <4>2 DEF Timed
            <4>4. m \in fresh
                <5> HIDE DEF timed
                <5> QED
                    BY <3>4, <4>3, <1>n, <1>v DEF New
            <4> QED
                BY <3>3, <3>4, <4>4
        <3>5. CASE ~Settled(m) /\ Stamp[m] < AllStart /\ m \notin before
            <4>1. cursorAll # None /\ ~(cursorAll <= Stamp[m])
                BY <2>4, <3>5 DEF AllListed
            <4>2. Stamp[m] < cursorAll
                BY <1>0, <1>v, <4>1 DEF TypeOK
            <4> QED
                BY <1>0, <2>4, <3>5, <4>1, <4>2 DEF Reached
        <3>6. Stamp[m] >= AllStart \/ Stamp[m] < AllStart
            BY <2>2, <1>v
        <3> HIDE DEF got, before, fresh
        <3> QED
            BY <3>1, <3>2, <3>4, <3>5, <3>6
    <2>5. ASSUME NEW m \in visible \ Noise, ConvOf[m] \notin Listed
          PROVE  ConvOf[m] \in Conv /\ cursor'[ConvOf[m]] = cursor[ConvOf[m]]
        <3>1. ConvOf[m] \in Conv /\ Of(ConvOf[m]) \cap timed = {}
            BY <2>5, <1>v DEF Of, Since, Timed, Got, AllListed
        <3> QED
            BY <2>1, <3>1
    <2> HIDE DEF timed, fresh, lost
    <2> QED
        BY <1>0, <1>s, <1>v, <2>1, <2>4, <2>5 DEF Reached
<1>4. ASSUME NEW c \in Conv, PollConversation(c)
      PROVE  Reached'
    <2> DEFINE S == Since(Of(c), FetchStart(c))
    <2>1. PICK page \in Pages(S) :
              LET fresh == New({m \in page : ~Aged(m)})
                  next  == IF page = {} THEN Early ELSE NextStart(page) IN
              /\ found' = found \cup Merged(fresh)
              /\ cursor' = [cursor EXCEPT ![c] = next]
              /\ dropped' = LetGo(Swallowed(fresh) \cup {m \in page : Aged(m)}
                    \cup {m \in Of(c) : cursor[c] = None /\ Stamp[m] < next})
        BY <1>4 DEF PollConversation
    <2> DEFINE next == IF page = {} THEN Early ELSE NextStart(page)
               young == {m \in page : ~Aged(m)}
               before == {m \in Of(c) : cursor[c] = None /\ Stamp[m] < next}
               lost == Swallowed(New(young)) \cup {m \in page : Aged(m)} \cup before
    <2>2. visible' = visible /\ cursorAll' = cursorAll
        BY <1>4 DEF PollConversation, clockVars
    <2>3. /\ page \subseteq S /\ page \in SUBSET visible
          /\ page = {} => S = {}
          /\ \A m \in page, n \in S \ page : Stamp[m] <= Stamp[n]
        BY PageIsOldest DEF Since, Of
    <2>4. page # {} => /\ NextStart(page) \in Nat
                       /\ \E m \in page : Stamp[m] = NextStart(page)
        BY <1>0, <1>v, <2>3, LatestExists DEF Past, NextStart
    <2>5. dropped' = LetGo(lost) /\ found' = found \cup Merged(New(young))
        BY <2>1
    <2>6. ASSUME NEW m \in visible \ Noise, ConvOf[m] = c, c \notin Listed,
                 Stamp[m] < next
          PROVE  Settled(m)'
        <3>1. CASE Settled(m)
            BY <3>1, <1>s, <1>v
        <3>2. CASE m \in lost
            <4> HIDE DEF lost
            <4> QED
                BY <1>g, <1>v, <2>5, <3>2
        <3>3. CASE ~Settled(m) /\ cursor[c] # None /\ m \notin lost
            <4>1. m \in S
                BY <1>0, <1>v, <2>6, <3>3 DEF Reached, Since, Of, FetchStart, TypeOK
            <4>2. m \in page
                BY <1>v, <2>3, <2>4, <2>6, <4>1
            <4>3. m \in young
                BY <3>3, <4>2
            <4>4. m \in New(young)
                BY <1>n, <1>v, <3>3, <4>3 DEF New
            <4>5. young \in SUBSET Msg
                BY <1>v, <2>3
            <4>6. m \in UNION found'
                <5> HIDE DEF young
                <5> QED
                    BY <2>5, <3>3, <4>4, <4>5, NewIsUnmarked
            <4> QED
                BY <4>6 DEF Settled, InFlight
        <3>4. cursor[c] = None => m \in lost
            BY <2>6 DEF Of
        <3> HIDE DEF lost
        <3> QED
            BY <3>1, <3>2, <3>3, <3>4
    <2>7. cursor' = [cursor EXCEPT ![c] = next]
        BY <2>1
    <2> HIDE DEF next
    <2> QED
        BY <1>0, <1>s, <1>v, <2>2, <2>6, <2>7 DEF Reached, TypeOK
<1>5. ASSUME NEW c \in Conv, BadPage(c)
      PROVE  Reached'
    <2>1. /\ UNCHANGED <<visible, cursorAll>> /\ cursor' = [cursor EXCEPT ![c] = Early]
          /\ dropped' = LetGo({m \in Of(c) : Stamp[m] < Early})
        BY <1>5 DEF BadPage, clockVars
    <2>2. ASSUME NEW m \in visible \ Noise, ConvOf[m] = c, Stamp[m] < Early
          PROVE  Settled(m)'
        <3>1. m \in {n \in Of(c) : Stamp[n] < Early}
            BY <2>2 DEF Of
        <3> QED
            BY <1>g, <1>v, <2>1, <3>1
    <2> QED
        BY <1>0, <1>s, <1>v, <2>1, <2>2 DEF Reached, TypeOK
<1>6. CASE Restart
    BY <1>6, <1>v DEF Restart, Reached, clockVars
<1>7. ASSUME NEW c \in Conv, SkipConversation(c)
      PROVE  Reached'
    BY <1>1, <1>7 DEF SkipConversation, clockVars, cursorVars
<1>8. CASE FetchAllFails \/ FastPathDone \/ CycleBreaks \/ Deduplicate \/ Drain \/ CycleEnds
    BY <1>1, <1>8 DEF FetchAllFails, FastPathDone, CycleBreaks, Deduplicate, Drain,
                      CycleEnds, clockVars, cursorVars
<1>9. CASE Tick \/ Dispatch \/ Stream \/ UNCHANGED vars
    BY <1>1, <1>9 DEF Tick, Dispatch, Hand, HandlerRaises, BothFail, Settle, SaveFails,
                      Stream, StreamTest, StreamInsert, vars, clockVars, cursorVars
<1> QED
    BY <1>2, <1>3, <1>4, <1>5, <1>6, <1>7, <1>8, <1>9 DEF Next, Server, Fetch

-----------------------------------------------------------------------------
(* Whatever fails, and wherever the process ends, the invariant holds.      *)
THEOREM Invariance == Spec => []IInv
<1>1. IInv /\ [Next]_vars => IInv'
    <2>1. SUFFICES ASSUME IInv, [Next]_vars PROVE IInv'
        OBVIOUS
    <2>2. StreamKept'
        <3>1. TypeOK'
            BY <2>1, TypeStep
        <3>2. (queue \cup streaming \subseteq Streamed)'
            BY <2>1, SeparateStep
        <3>3. \A m \in Msg \ Noise : m \in Streamed /\ m \in memory' =>
                  (handled[m] > 0 \/ m \in queue \cup MsgsOf(batch) \cup dropped)'
            BY <2>1, StreamStep
        <3> QED
            BY <3>1, <3>2, <3>3 DEF StreamKept, TypeOK
    <2> QED
        BY <2>1, <2>2, TypeStep, TidyStep, SeparateStep, MarksStep, WaitingStep,
           PastStep, ReachedStep DEF IInv
<1> QED
    BY InitInvariant, <1>1, PTL DEF Spec

\* Type correctness of the poller's state.
THEOREM TypeCorrectness == Spec => []TypeOK
BY Invariance, PTL DEF IInv

\* _mark_msg_processed runs after the handler and in no other case, so that a
\* mark in memory or in the store never stands for a message nobody handled.
THEOREM AlwaysHandledFirst == Spec => []MarkedOnlyIfHandled
BY Invariance, PTL DEF IInv

\* _is_msg_processed and the filters of both paths: a message is handed over
\* again only after the write of its mark was lost, or when the stream brings it
\* too.
LEMMA TwiceStep ==
    ASSUME IInv, TwiceOnlyUnmarked, [Next]_vars
    PROVE  TwiceOnlyUnmarked'
<1>0. TypeOK
    BY DEF IInv
<1>1. unmarked \subseteq unmarked'
    <2>1. CASE Settle \/ SaveFails
        BY <2>1 DEF Settle, SaveFails, Mark
    <2>2. CASE Restart
        BY <2>2 DEF Restart
    <2>3. CASE Fetch
        BY <2>3 DEF Fetch, ListAll, FetchAll, FetchAllFails, FastPathDone, PollConversation,
            SkipConversation, BadPage, CycleBreaks, Deduplicate, Drain, CycleEnds, histVars
    <2>4. CASE Server \/ Stream \/ UNCHANGED vars
        BY <2>4 DEF Server, Tick, Arrive, Stream, StreamTest, StreamInsert, vars, histVars
    <2>5. ASSUME NEW e \in batch, Hand(e) \/ HandlerRaises(e) \/ BothFail(e)
          PROVE  unmarked \subseteq unmarked'
        BY <2>5 DEF Hand, HandlerRaises, BothFail
    <2> QED
        BY <2>1, <2>2, <2>3, <2>4, <2>5 DEF Next, Dispatch
<1>2. CASE handled' = handled
    BY <1>1, <1>2 DEF TwiceOnlyUnmarked
<1>3. ASSUME NEW e \in batch, Hand(e)
      PROVE  TwiceOnlyUnmarked'
    <2>1. \A m \in e[2] \ Streamed : handled[m] = 0 \/ m \in unmarked
        BY DEF IInv, WaitingUnknown, MsgsOf
    <2>2. ASSUME NEW m \in Msg, handled'[m] > 1
          PROVE  m \in unmarked \cup Streamed
        BY <1>0, <1>3, <2>1, <2>2 DEF Hand, TwiceOnlyUnmarked, TypeOK
    <2> QED
        BY <1>1, <2>2 DEF TwiceOnlyUnmarked
<1>4. CASE ~(\E e \in batch : Hand(e))
    <2>1. CASE Fetch
        BY <1>2, <2>1 DEF Fetch, ListAll, FetchAll, FetchAllFails, FastPathDone, PollConversation,
            SkipConversation, BadPage, CycleBreaks, Deduplicate, Drain, CycleEnds, histVars
    <2>2. CASE Server \/ Stream \/ Restart \/ UNCHANGED vars
        BY <1>2, <2>2 DEF Server, Tick, Arrive, Stream, StreamTest, StreamInsert,
            Restart, vars, histVars
    <2>3. CASE Dispatch
        BY <1>2, <1>4, <2>3 DEF Dispatch, HandlerRaises, BothFail, Settle, SaveFails
    <2> QED
        BY <2>1, <2>2, <2>3 DEF Next
<1> QED
    BY <1>3, <1>4

\* No overlap of the two fetch paths, no crash and no failure of the store hands
\* a message over a second time, but for a lost mark and for the stream.
THEOREM NeverTwice == Spec => []TwiceOnlyUnmarked
<1>1. Init => TwiceOnlyUnmarked
    BY DEF Init, TwiceOnlyUnmarked
<1>2. IInv /\ TwiceOnlyUnmarked /\ [Next]_vars => TwiceOnlyUnmarked'
    BY TwiceStep
<1> QED
    BY <1>1, <1>2, Invariance, PTL DEF Spec

\* _update_poll_time_and_db and _fetch_messages_via_list_all move the cursors
\* before anything is handed on; still no message is passed over but on one of
\* the paths that let go of messages, the ones NothingPassedOver lists.
THEOREM NeverPassedOver == Spec => []NothingPassedOver
<1>1. IInv => NothingPassedOver
    <2>1. SUFFICES ASSUME IInv, NEW m \in visible \ Noise
                   PROVE  Settled(m) \/ InReach(m)
        BY DEF NothingPassedOver, Settled
    <2>2. ConvOf[m] \in Conv /\ Stamp[m] \in Nat
        BY <2>1, MessageAssumption DEF IInv, TypeOK
    <2>3. CASE ConvOf[m] \in Listed
        <3>1. cursorAll \in Int \cup {None}
            BY <2>1 DEF IInv, TypeOK
        <3> QED
            BY <2>1, <2>2, <2>3, <3>1 DEF IInv, Reached, InReach
    <2>4. CASE ConvOf[m] \notin Listed
        <3>1. ConvOf[m] \in Direct
            BY <2>2, <2>4, MessageAssumption
        <3>2. cursor[ConvOf[m]] \in Int \cup {None}
            BY <2>1, <2>2 DEF IInv, TypeOK
        <3> QED
            BY <2>1, <2>2, <2>4, <3>1, <3>2 DEF IInv, Reached, InReach
    <2> QED
        BY <2>3, <2>4
<1> QED
    BY <1>1, Invariance, PTL
=============================================================================

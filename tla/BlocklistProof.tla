--------------------------- MODULE BlocklistProof ---------------------------
(***************************************************************************)
(* Proofs about the list of blocked conversations, for any chats, senders,  *)
(* thresholds and batch sizes, any failures of the store and any restarts.  *)
(***************************************************************************)
EXTENDS Blocklist, TLAPS

-----------------------------------------------------------------------------
(* The inductive invariant.                                                 *)

\* no reconciliation in progress is about to free a chat with a lasting block: none
\* that was loaded was to be freed, and the polling thread writes no new one meanwhile
Harmless ==
    /\ \A i \in DOMAIN poller.rows :
          poller.rows[i].work \in {"free", "probe"} => poller.rows[i].chat \notin lasting
    /\ \A i \in DOMAIN poller.probes : poller.probes[i] \notin lasting

\* a row between the two steps that free a chat is one of the send tool
Freeing ==
    \A c \in Blocked : Amid(c, "freeing") => table[c].kind = "send"

-----------------------------------------------------------------------------
(* Sequences and the writes of the table.                                   *)

LEMMA DropOne ==
    ASSUME NEW S, NEW q \in Seq(S), NEW i \in DOMAIN q,
           \A j, k \in DOMAIN q : q[j] = q[k] => j = k
    PROVE  /\ DropAt(q, i) \in Seq(S)
           /\ {DropAt(q, i)[j] : j \in DOMAIN DropAt(q, i)} = {q[j] : j \in DOMAIN q} \ {q[i]}
           /\ \A j, k \in DOMAIN DropAt(q, i) : DropAt(q, i)[j] = DropAt(q, i)[k] => j = k
<1> DEFINE d == DropAt(q, i)
<1>1. i \in 1 .. Len(q) /\ Len(q) \in Nat /\ DOMAIN q = 1 .. Len(q)
    OBVIOUS
<1>2. /\ SubSeq(q, 1, i - 1) \in Seq(S) /\ Len(SubSeq(q, 1, i - 1)) = i - 1
      /\ SubSeq(q, i + 1, Len(q)) \in Seq(S) /\ Len(SubSeq(q, i + 1, Len(q))) = Len(q) - i
    BY <1>1
<1> DEFINE front == SubSeq(q, 1, i - 1)  back == SubSeq(q, i + 1, Len(q))
<1>a. /\ \A j \in 1 .. i - 1 : front[j] = q[j]
      /\ \A j \in 1 .. Len(q) - i : back[j] = q[j + i]
    BY <1>1
<1>b. d = front \o back
    BY DEF DropAt
<1>c. /\ d \in Seq(S) /\ Len(d) = Len(q) - 1 /\ DOMAIN d = 1 .. Len(q) - 1
    <2> HIDE DEF d, front, back
    <2> QED
        BY <1>1, <1>2, <1>b DEF front, back
<1>d. \A j \in 1 .. Len(q) - 1 : d[j] = IF j < i THEN front[j] ELSE back[j - (i - 1)]
    <2>1. ASSUME NEW u \in Seq(S), NEW v \in Seq(S), NEW j \in 1 .. Len(u) + Len(v)
          PROVE  (u \o v)[j] = IF j <= Len(u) THEN u[j] ELSE v[j - Len(u)]
        OBVIOUS
    <2> HIDE DEF d, front, back
    <2>2. /\ front \in Seq(S) /\ Len(front) = i - 1
          /\ back \in Seq(S) /\ Len(back) = Len(q) - i
        BY <1>2 DEF front, back
    <2>3. ASSUME NEW j \in 1 .. Len(q) - 1
          PROVE  d[j] = IF j <= i - 1 THEN front[j] ELSE back[j - (i - 1)]
        <3>1. j \in 1 .. Len(front) + Len(back)
            BY <1>1, <2>2
        <3> QED
            BY <1>b, <2>1, <2>2, <3>1
    <2> QED
        BY <1>1, <2>3
<1>3. /\ d \in Seq(S) /\ Len(d) = Len(q) - 1 /\ DOMAIN d = 1 .. Len(q) - 1
      /\ \A j \in 1 .. Len(q) - 1 : d[j] = IF j < i THEN q[j] ELSE q[j + 1]
    <2> HIDE DEF d, front, back
    <2>1. ASSUME NEW j \in 1 .. Len(q) - 1
          PROVE  d[j] = IF j < i THEN q[j] ELSE q[j + 1]
        <3>1. CASE j < i
            BY <1>1, <1>a, <1>d, <3>1
        <3>2. CASE j >= i
            <4>1. j - (i - 1) \in 1 .. Len(q) - i /\ (j - (i - 1)) + i = j + 1
                BY <1>1, <3>2
            <4> QED
                BY <1>1, <1>a, <1>d, <3>2, <4>1
        <3> QED
            BY <1>1, <3>1, <3>2
    <2> QED
        BY <1>c, <2>1
<1>4. {d[j] : j \in DOMAIN d} = {q[j] : j \in DOMAIN q} \ {q[i]}
    <2>1. ASSUME NEW j \in DOMAIN d
          PROVE  d[j] \in {q[k] : k \in DOMAIN q} \ {q[i]}
        BY <1>1, <1>3, <2>1
    <2>2. ASSUME NEW k \in DOMAIN q, q[k] # q[i]
          PROVE  q[k] \in {d[j] : j \in DOMAIN d}
        <3>1. k < i \/ k > i
            BY <1>1, <2>2
        <3>2. CASE k < i
            <4>1. k \in DOMAIN d /\ d[k] = q[k]
                BY <1>1, <1>3, <3>2
            <4> QED
                BY <4>1
        <3>3. CASE k > i
            <4>1. k - 1 \in DOMAIN d /\ d[k - 1] = q[k]
                BY <1>1, <1>3, <3>3
            <4> QED
                BY <4>1
        <3> QED
            BY <3>1, <3>2, <3>3
    <2> QED
        BY <2>1, <2>2
<1>5. \A j, k \in DOMAIN d : d[j] = d[k] => j = k
    <2> SUFFICES ASSUME NEW j \in 1 .. Len(q) - 1, NEW k \in 1 .. Len(q) - 1, d[j] = d[k]
                 PROVE  j = k
        BY <1>3
    <2> DEFINE f(x) == IF x < i THEN x ELSE x + 1
    <2>1. f(j) \in DOMAIN q /\ f(k) \in DOMAIN q /\ q[f(j)] = d[j] /\ q[f(k)] = d[k]
        BY <1>1, <1>3
    <2>2. f(j) = f(k)
        <3> HIDE DEF f
        <3> QED
            BY <2>1
    <2> QED
        BY <1>1, <2>2
<1> QED
    BY <1>3, <1>4, <1>5

LEMMA LastLonger ==
    ASSUME NEW S, NEW q \in Seq(S), NEW x \in S, x \notin {q[i] : i \in DOMAIN q},
           \A j, k \in DOMAIN q : q[j] = q[k] => j = k
    PROVE  /\ Append(q, x) \in Seq(S)
           /\ {Append(q, x)[j] : j \in DOMAIN Append(q, x)} = {q[j] : j \in DOMAIN q} \cup {x}
           /\ \A j, k \in DOMAIN Append(q, x) : Append(q, x)[j] = Append(q, x)[k] => j = k
<1> DEFINE a == Append(q, x)
<1>1. /\ a \in Seq(S) /\ DOMAIN a = 1 .. Len(q) + 1 /\ DOMAIN q = 1 .. Len(q) /\ Len(q) \in Nat
      /\ \A j \in 1 .. Len(q) : a[j] = q[j]
      /\ a[Len(q) + 1] = x
    OBVIOUS
<1>2. {a[j] : j \in DOMAIN a} = {q[j] : j \in DOMAIN q} \cup {x}
    <2>1. ASSUME NEW j \in DOMAIN a
          PROVE  a[j] \in {q[k] : k \in DOMAIN q} \cup {x}
        BY <1>1, <2>1
    <2>2. ASSUME NEW k \in DOMAIN q
          PROVE  q[k] \in {a[j] : j \in DOMAIN a}
        BY <1>1, <2>2
    <2>3. x \in {a[j] : j \in DOMAIN a}
        BY <1>1
    <2> QED
        BY <2>1, <2>2, <2>3
<1>3. \A j, k \in DOMAIN a : a[j] = a[k] => j = k
    BY <1>1
<1> QED
    BY <1>1, <1>2, <1>3

LEMMA AddKeepsStore ==
    ASSUME StoreTypeOK, NEW c \in Chats, NEW kind \in Kinds, NEW permanent \in BOOLEAN,
           NEW fails \in 1 .. FailuresToBlock, AddRow(c, kind, permanent, fails),
           lasting' \subseteq Chats
    PROVE  StoreTypeOK' /\ Blocked' = Blocked \cup {c} /\ table'[c].kind = kind
           /\ table'[c].until = UntilOf(c, permanent)
           /\ \A d \in Blocked \ {c} : table'[d] = table[d]
<1>1. UntilOf(c, permanent) \in Untils
    BY DEF UntilOf, StoreTypeOK, Row, Untils
<1>2. /\ Blocked' = Blocked \cup {c}
      /\ table'[c] = [kind |-> kind, until |-> UntilOf(c, permanent), fails |-> fails]
      /\ \A d \in Blocked \ {c} : table'[d] = table[d]
    BY DEF AddRow, Put, Blocked
<1>3. table'[c] \in Row
    BY <1>1, <1>2 DEF Row
<1>4. Blocked' \subseteq Chats /\ \A d \in Blocked' : table'[d] \in Row
    BY <1>2, <1>3 DEF StoreTypeOK
<1>5. /\ order' \in Seq(Chats) /\ {order'[i] : i \in DOMAIN order'} = Blocked'
      /\ \A i, j \in DOMAIN order' : order'[i] = order'[j] => i = j
    <2>1. CASE c \in Blocked
        BY <1>2, <2>1 DEF AddRow, StoreTypeOK
    <2>2. CASE c \notin Blocked
        <3>1. order' = Append(order, c)
            BY <2>2 DEF AddRow
        <3>2. /\ order \in Seq(Chats) /\ {order[i] : i \in DOMAIN order} = Blocked
              /\ \A i, j \in DOMAIN order : order[i] = order[j] => i = j
            BY DEF StoreTypeOK
        <3>3. /\ Append(order, c) \in Seq(Chats)
              /\ {Append(order, c)[i] : i \in DOMAIN Append(order, c)}
                    = {order[i] : i \in DOMAIN order} \cup {c}
              /\ \A i, j \in DOMAIN Append(order, c) :
                    Append(order, c)[i] = Append(order, c)[j] => i = j
            <4>1. c \notin {order[i] : i \in DOMAIN order}
                BY <2>2, <3>2
            <4> QED
                BY <3>2, <4>1, LastLonger, Zenon
        <3>4. {Append(order, c)[i] : i \in DOMAIN Append(order, c)} = Blocked'
            <4> HIDE DEF Blocked
            <4> QED
                BY <1>2, <3>2, <3>3
        <3> QED
            BY <3>1, <3>3, <3>4, Zenon
    <2> QED
        BY <2>1, <2>2
<1>6. DOMAIN cache' \subseteq Friends /\ \A d \in DOMAIN cache' : cache'[d] \in Untils
    BY <1>1 DEF AddRow, PutCache, Put, StoreTypeOK
<1>7. table'[c].kind = kind /\ table'[c].until = UntilOf(c, permanent)
    BY <1>2
<1> QED
    BY <1>2, <1>4, <1>5, <1>6, <1>7 DEF StoreTypeOK, AddRow

LEMMA RemoveKeepsStore ==
    ASSUME StoreTypeOK, NEW c \in Chats, RemoveRow(c)
    PROVE  StoreTypeOK' /\ Blocked' = Blocked \ {c}
           /\ \A d \in Blocked' : table'[d] = table[d]
<1>1. Blocked' = Blocked \ {c} /\ \A d \in Blocked' : table'[d] = table[d]
    BY DEF RemoveRow, Forget, Blocked
<1>2. Blocked' \subseteq Chats /\ \A d \in Blocked' : table'[d] \in Row
    BY <1>1 DEF StoreTypeOK
<1>3. /\ order' \in Seq(Chats) /\ {order'[i] : i \in DOMAIN order'} = Blocked'
      /\ \A i, j \in DOMAIN order' : order'[i] = order'[j] => i = j
    <2>1. CASE c \notin Blocked
        BY <1>1, <2>1 DEF RemoveRow, StoreTypeOK
    <2>2. CASE c \in Blocked
        <3>1. \E i \in DOMAIN order : order[i] = c
            BY <2>2 DEF StoreTypeOK
        <3>2. IndexOf(order, c) \in DOMAIN order /\ order[IndexOf(order, c)] = c
            BY <3>1 DEF IndexOf
        <3>3. order' = DropAt(order, IndexOf(order, c))
            BY <2>2 DEF RemoveRow
        <3> DEFINE k == IndexOf(order, c)
        <3>4. /\ order \in Seq(Chats) /\ {order[i] : i \in DOMAIN order} = Blocked
              /\ \A i, j \in DOMAIN order : order[i] = order[j] => i = j
            BY DEF StoreTypeOK
        <3>5. k \in DOMAIN order /\ order[k] = c
            BY <3>2
        <3> HIDE DEF k
        <3>6. /\ DropAt(order, k) \in Seq(Chats)
              /\ {DropAt(order, k)[i] : i \in DOMAIN DropAt(order, k)}
                    = {order[i] : i \in DOMAIN order} \ {order[k]}
              /\ \A i, j \in DOMAIN DropAt(order, k) :
                    DropAt(order, k)[i] = DropAt(order, k)[j] => i = j
            BY <3>4, <3>5, DropOne, Zenon
        <3>7. {DropAt(order, k)[i] : i \in DOMAIN DropAt(order, k)} = Blocked'
            <4> HIDE DEF Blocked
            <4> QED
                BY <1>1, <3>4, <3>5, <3>6
        <3>8. order' = DropAt(order, k)
            BY <3>3 DEF k
        <3> QED
            BY <3>6, <3>7, <3>8, Zenon
    <2> QED
        BY <2>1, <2>2
<1>4. DOMAIN cache' \subseteq Friends /\ \A d \in DOMAIN cache' : cache'[d] \in Untils
    BY DEF RemoveRow, Forget, StoreTypeOK
<1> QED
    BY <1>1, <1>2, <1>3, <1>4 DEF StoreTypeOK, RemoveRow

\* an UPDATE of cooldown_until leaves which rows there are and their reasons alone
SameReasons == Blocked' = Blocked /\ \A d \in Blocked : table'[d].kind = table[d].kind

LEMMA RaiseKeepsStore ==
    ASSUME StoreTypeOK, NEW c, RaiseToPermanent(c)
    PROVE  StoreTypeOK' /\ SameReasons
<1>1. SameReasons /\ \A d \in Blocked : table'[d] \in Row
    BY DEF RaiseToPermanent, Blocked, StoreTypeOK, Row, Untils, SameReasons
<1>2. DOMAIN cache' \subseteq Friends /\ \A d \in DOMAIN cache' : cache'[d] \in Untils
    BY DEF RaiseToPermanent, PutCache, Put, StoreTypeOK, Untils
<1> QED
    BY <1>1, <1>2 DEF StoreTypeOK, RaiseToPermanent, SameReasons

LEMMA CoolKeepsStore ==
    ASSUME StoreTypeOK, NEW c \in Blocked, NEW until \in Untils,
           table' = [table EXCEPT ![c].until = until],
           lasting' \subseteq Chats, UNCHANGED <<order, cache, loaded>>
    PROVE  StoreTypeOK' /\ SameReasons
<1>1. SameReasons /\ \A d \in Blocked : table'[d] \in Row
    BY DEF Blocked, StoreTypeOK, Row, SameReasons
<1>2. DOMAIN cache' \subseteq Friends /\ \A d \in DOMAIN cache' : cache'[d] \in Untils
    BY DEF StoreTypeOK, Untils
<1> QED
    BY <1>1, <1>2 DEF StoreTypeOK, SameReasons

LEMMA EmptyStore ==
    ASSUME table = << >>, order = << >>, cache = << >>, lasting = {}, loaded \in BOOLEAN
    PROVE  StoreTypeOK
<1>1. DOMAIN << >> = {} /\ << >> \in Seq(Chats)
    OBVIOUS
<1>2. Blocked = {} /\ {order[i] : i \in DOMAIN order} = {} /\ DOMAIN cache = {} /\ DOMAIN order = {}
    BY <1>1 DEF Blocked
<1> QED
    BY <1>1, <1>2 DEF StoreTypeOK

LEMMA AskKeepsStore ==
    ASSUME StoreTypeOK, AskCache
    PROVE  StoreTypeOK'
BY DEF StoreTypeOK, AskCache, CacheNow, Blocked, Row, Untils

-----------------------------------------------------------------------------
(* Type correctness, action by action.                                      *)

RowsLoaded == [chat : Chats, work : Works]

PollerRecord ==
    [at : PollerAt, chat : Chats \cup {NoChat}, kind : Kinds \ {"send"},
     rows : Seq(RowsLoaded), probes : Seq(Chats),
     back : {"idle", "rows", "probe"}]

LEMMA SeqFacts ==
    ASSUME NEW S, NEW q \in Seq(S)
    PROVE  /\ << >> \in Seq(S)
           /\ q # << >> => Head(q) \in S /\ Tail(q) \in Seq(S)
           /\ \A x \in S : Append(q, x) \in Seq(S)
OBVIOUS

LEMMA IdleTyped ==
    /\ Idle \in PollerRecord /\ Started \in PollerRecord
    /\ Idle.at = "idle" /\ Started.at = "reconcile"
    /\ Idle.rows = << >> /\ Idle.probes = << >> /\ Started.rows = << >> /\ Started.probes = << >>
<1>1. << >> \in Seq(RowsLoaded) /\ << >> \in Seq(Chats)
    OBVIOUS
<1> QED
    BY <1>1 DEF Idle, Started, PollerRecord, RowsLoaded, PollerAt, Kinds

LEMMA Remainder ==
    ASSUME NEW n \in Nat, NEW k \in Nat \ {0}
    PROVE  n % k \in 0 .. k - 1 /\ n % k \in Nat
OBVIOUS

LEMMA SameStore ==
    ASSUME StoreTypeOK, UNCHANGED storeVars
    PROVE  StoreTypeOK'
BY DEF StoreTypeOK, storeVars, Blocked

\* what every action but those of the store and of senders leaves typed
LEMMA OthersTyped ==
    ASSUME TypeOK, UNCHANGED <<storeVars, sender, web, torn>>
    PROVE  /\ StoreTypeOK' /\ SenderTypeOK' /\ web' \in {"idle", "table"} /\ torn' \subseteq Chats
BY DEF TypeOK, StoreTypeOK, SenderTypeOK, storeVars, Blocked

LEMMA PollerTyped ==
    ASSUME TypeOK, Next, UNCHANGED <<storeVars, sender, web, torn>>,
           \/ NewCycle \/ Fetched \/ FetchFailed \/ Load
           \/ KeepRow \/ ProbeRow \/ StoreFails \/ ChooseBatch \/ ProbeFails \/ ProbesDone
           \/ \E c \in Chats : PollChat(c) \/ ListedAsBlocked(c)
           \/ \E kind \in Kinds \ {"send"} : FetchDenied(kind) \/ DeniedForGood(kind)
    PROVE  PollerTypeOK'
<1> USE DEF At
<1>0. /\ skip \subseteq Chats /\ streak \in [Chats -> Nat] /\ poller \in PollerRecord
      /\ poller.at \in {"fetch", "block", "list block", "blocking", "freeing"} => poller.chat \in Chats
      /\ poller.at \notin {"rows", "probe", "freeing"} => poller.rows = << >> /\ poller.probes = << >>
      /\ poller.at = "freeing" => poller.back # "idle"
      /\ rounds \in 0 .. ReconcileEvery - 1 /\ probeIdx \in Nat
    BY DEF TypeOK, PollerTypeOK, PollerRecord, RowsLoaded
<1> SUFFICES /\ skip' \subseteq Chats /\ streak' \in [Chats -> Nat] /\ poller' \in PollerRecord
             /\ poller'.at \in {"fetch", "block", "list block", "blocking", "freeing"} => poller'.chat \in Chats
             /\ poller'.at \notin {"rows", "probe", "freeing"}
                   => poller'.rows = << >> /\ poller'.probes = << >>
             /\ poller'.at = "freeing" => poller'.back # "idle"
             /\ rounds' \in 0 .. ReconcileEvery - 1 /\ probeIdx' \in Nat
    BY DEF PollerTypeOK, PollerRecord, RowsLoaded
<1>1. CASE NewCycle
    <2>1. rounds' \in 0 .. ReconcileEvery - 1
        BY <1>0, <1>1, Remainder, BlocklistAssumption DEF NewCycle
    <2> QED
        BY <1>0, <1>1, <2>1 DEF NewCycle, GoOn, PollerRecord, PollerAt
<1>2. CASE Fetched
    BY <1>0, <1>2, IdleTyped DEF Fetched, ToNext
<1>3. CASE FetchFailed
    BY <1>0, <1>3, IdleTyped DEF FetchFailed, ToNext
<1>4. CASE Load
    <2>1. PICK listed \in SUBSET Chats : LoadRows(listed)
        BY <1>4 DEF Load
    <2> DEFINE rows == [i \in DOMAIN order |-> [chat |-> order[i], work |-> Work(order[i], listed)]]
    <2>2. order \in Seq(Chats)
        BY DEF TypeOK, StoreTypeOK
    <2>3. \A c : Work(c, listed) \in Works
        BY DEF Work, Works
    <2>4. rows \in Seq(RowsLoaded)
        <3>1. \A i \in DOMAIN order : rows[i] \in RowsLoaded
            BY <2>2, <2>3 DEF RowsLoaded
        <3>2. DOMAIN order = 1 .. Len(order) /\ Len(order) \in Nat
            BY <2>2
        <3>3. rows \in [1 .. Len(order) -> RowsLoaded]
            BY <3>1, <3>2
        <3> HIDE DEF rows
        <3> QED
            BY <3>2, <3>3
    <2>5. poller' = [poller EXCEPT !.at = "rows", !.rows = rows]
        BY <2>1 DEF LoadRows
    <2> HIDE DEF rows
    <2> QED
        BY <1>0, <2>1, <2>4, <2>5 DEF LoadRows, PollerRecord, PollerAt
<1>5. CASE KeepRow
    <2>1. Tail(poller.rows) \in Seq(RowsLoaded)
        BY <1>0, <1>5, SeqFacts DEF KeepRow, AtRow, PollerRecord
    <2> QED
        BY <1>0, <1>5, <2>1 DEF KeepRow, AtRow, NextRow, PollerRecord, PollerAt
<1>6. CASE ProbeRow
    <2>1. poller.rows # << >> /\ poller.rows \in Seq(RowsLoaded) /\ poller.probes \in Seq(Chats)
        BY <1>0, <1>6 DEF ProbeRow, AtRow, PollerRecord
    <2>2. Head(poller.rows) \in RowsLoaded /\ Tail(poller.rows) \in Seq(RowsLoaded)
        BY <2>1, SeqFacts
    <2>3. Append(poller.probes, Head(poller.rows).chat) \in Seq(Chats)
        BY <2>1, <2>2, SeqFacts DEF RowsLoaded
    <2> QED
        BY <1>0, <1>6, <2>2, <2>3 DEF ProbeRow, AtRow, PollerRecord, PollerAt
<1>7. CASE StoreFails
    BY <1>0, <1>7, IdleTyped DEF StoreFails, ToNext
<1>8. CASE ChooseBatch
    <2>1. CASE Len(poller.probes) = 0
        BY <1>0, <1>8, <2>1, IdleTyped DEF ChooseBatch, ToNext
    <2>2. CASE Len(poller.probes) # 0
        <3> DEFINE n == Len(poller.probes)  start == probeIdx % n  end == Least(start + BatchSize, n)
        <3>a. poller.probes \in Seq(Chats)
            BY <1>0 DEF PollerRecord
        <3>1. n \in Nat \ {0} /\ poller.probes \in Seq(Chats)
            BY <2>2, <3>a
        <3>2. start \in 0 .. n - 1
            BY <1>0, <3>1, Remainder
        <3>3. end \in Nat /\ end <= n
            <4> HIDE DEF start, n
            <4> QED
                BY <3>1, <3>2, BlocklistAssumption DEF Least
        <3>4. /\ poller' = [poller EXCEPT !.at = "probe", !.probes = SubSeq(@, start + 1, end)]
              /\ probeIdx' = end % n /\ UNCHANGED <<skip, streak, rounds>>
            BY <1>8, <2>2 DEF ChooseBatch
        <3> HIDE DEF n, start, end
        <3>5. SubSeq(poller.probes, start + 1, end) \in Seq(Chats)
            BY <3>1, <3>2, <3>3 DEF n
        <3>6. probeIdx' \in Nat
            BY <3>1, <3>3, <3>4, Remainder
        <3> QED
            BY <1>0, <3>4, <3>5, <3>6 DEF PollerRecord, PollerAt
    <2> QED
        BY <2>1, <2>2
<1>9. CASE ProbeFails
    <2>1. Tail(poller.probes) \in Seq(Chats)
        BY <1>0, <1>9, SeqFacts DEF ProbeFails, PollerRecord
    <2> QED
        BY <1>0, <1>9, <2>1 DEF ProbeFails, PollerRecord, PollerAt
<1>10. CASE ProbesDone
    BY <1>0, <1>10, IdleTyped DEF ProbesDone, ToNext
<1>11. ASSUME NEW c \in Chats, PollChat(c)
       PROVE  PollerTypeOK'
    BY <1>0, <1>11 DEF PollChat, PollerTypeOK, PollerRecord, RowsLoaded, PollerAt
<1>12. ASSUME NEW kind \in Kinds \ {"send"}, FetchDenied(kind)
       PROVE  PollerTypeOK'
    <2>1. poller.chat \in Chats /\ streak[poller.chat] \in Nat
        BY <1>0, <1>12 DEF FetchDenied
    <2>2. streak' \in [Chats -> Nat]
        <3> DEFINE n == IF Threshold = 0 \/ streak[poller.chat] + 1 >= Threshold THEN 0
                        ELSE streak[poller.chat] + 1
        <3>1. n \in Nat
            BY <2>1
        <3>2. streak' = [streak EXCEPT ![poller.chat] = n]
            BY <1>12 DEF FetchDenied, RegisterFailure
        <3> HIDE DEF n
        <3> QED
            BY <1>0, <3>1, <3>2
    <2> QED
        BY <1>0, <1>12, <2>2, IdleTyped
           DEF FetchDenied, ToBlock, PollerTypeOK, PollerRecord, RowsLoaded, PollerAt
<1>13. ASSUME NEW kind \in Kinds \ {"send"}, DeniedForGood(kind)
       PROVE  PollerTypeOK'
    BY <1>0, <1>13 DEF DeniedForGood, PollerTypeOK, PollerRecord, RowsLoaded, PollerAt
<1>14. ASSUME NEW c \in Chats, ListedAsBlocked(c)
       PROVE  PollerTypeOK'
    <2>1. "lasting" \in Kinds \ {"send"} /\ "list block" \in PollerAt
        BY DEF Kinds, PollerAt
    <2> QED
        BY <1>0, <1>14, <2>1 DEF ListedAsBlocked, PollerTypeOK, PollerRecord, RowsLoaded
<1> QED
    BY <1>1, <1>2, <1>3, <1>4, <1>5, <1>6, <1>7, <1>8, <1>9, <1>10, <1>11, <1>12, <1>13, <1>14
       DEF PollerTypeOK, PollerRecord, RowsLoaded

LEMMA FailsTyped ==
    ASSUME StoreTypeOK, NEW c
    PROVE  FailsOf(c) \in 1 .. FailuresToBlock
<1>1. 1 \in 1 .. FailuresToBlock
    BY BlocklistAssumption
<1>2. CASE c \in Blocked \cap Friends
    <2>1. table[c].fails \in 1 .. FailuresToBlock
        BY <1>2 DEF StoreTypeOK, Row
    <2>2. FailsOf(c) = Least(table[c].fails + 1, FailuresToBlock)
        BY <1>2 DEF FailsOf
    <2> QED
        BY <2>1, <2>2, BlocklistAssumption DEF Least
<1>3. CASE c \notin Blocked \cap Friends
    BY <1>1, <1>3 DEF FailsOf
<1> QED
    BY <1>2, <1>3

LEMMA BlockingTyped ==
    ASSUME TypeOK, BlockRow \/ BlockRowElsewhere \/ BlockSkip \/ BlockRowFails \/ FreeSkip
    PROVE  TypeOK'
<1> USE DEF At
<1>0. /\ StoreTypeOK /\ SenderTypeOK /\ poller \in PollerRecord /\ skip \subseteq Chats
      /\ streak \in [Chats -> Nat] /\ torn \subseteq Chats
      /\ poller.at \in {"fetch", "block", "list block", "blocking", "freeing"} => poller.chat \in Chats
      /\ poller.at \notin {"rows", "probe", "freeing"} => poller.rows = << >> /\ poller.probes = << >>
      /\ poller.at = "freeing" => poller.back # "idle"
    BY DEF TypeOK, PollerTypeOK, PollerRecord, RowsLoaded
<1>1. CASE BlockRow
    <2>a. poller.chat \in Chats /\ poller.kind \in Kinds
        BY <1>0, <1>1 DEF BlockRow, Blocking, PollerRecord
    <2>b. FailsOf(poller.chat) \in 1 .. FailuresToBlock
        BY <1>0, FailsTyped
    <2>1. poller.chat \in Chats /\ poller.kind \in Kinds /\ FailsOf(poller.chat) \in 1 .. FailuresToBlock
        BY <2>a, <2>b
    <2>2. StoreTypeOK'
        <3>1. lasting' \subseteq Chats
            BY <1>0, <1>1, <2>1 DEF BlockRow, StoreTypeOK
        <3>2. AddRow(poller.chat, poller.kind, poller.kind = "lasting", FailsOf(poller.chat))
            BY <1>1 DEF BlockRow
        <3>3. (poller.kind = "lasting") \in BOOLEAN
            OBVIOUS
        <3> QED
            BY <1>0, <2>1, <3>1, <3>2, <3>3, AddKeepsStore
    <2>3. poller' \in PollerRecord /\ poller'.at = "blocking" /\ poller'.chat \in Chats
          /\ poller'.rows = << >> /\ poller'.probes = << >>
        BY <1>1, <2>1, IdleTyped DEF BlockRow, PollerRecord, PollerAt
    <2> QED
        BY <1>1, <2>2, <2>3
           DEF BlockRow, TypeOK, PollerTypeOK, PollerRecord, RowsLoaded, SenderTypeOK
<1>2. CASE BlockSkip
    BY <1>0, <1>2, IdleTyped
       DEF BlockSkip, ToNext, TypeOK, PollerTypeOK, PollerRecord, RowsLoaded, StoreTypeOK, SenderTypeOK,
           Blocked, storeVars
<1>3. CASE BlockRowFails
    <2>1. StoreTypeOK' /\ SenderTypeOK'
        BY <1>0, <1>3, SameStore DEF BlockRowFails, SenderTypeOK
    <2>2. poller.chat \in Chats
        BY <1>0, <1>3 DEF BlockRowFails, Blocking
    <2>3. skip' \subseteq Chats /\ torn' \subseteq Chats /\ poller' = Idle
          /\ UNCHANGED <<streak, rounds, probeIdx, web>>
        BY <1>0, <1>3, <2>2 DEF BlockRowFails, ToNext
    <2> QED
        BY <2>1, <2>3, IdleTyped DEF TypeOK, PollerTypeOK, PollerRecord, RowsLoaded
<1>4. CASE FreeSkip
    <2>1. poller' \in PollerRecord /\ poller'.at = poller.back
          /\ poller'.rows = poller.rows /\ poller'.probes = poller.probes
        BY <1>0, <1>4 DEF FreeSkip, PollerRecord, PollerAt
    <2>2. poller.back \in {"idle", "rows", "probe"}
        BY <1>0 DEF PollerRecord
    <2>3. poller.back # "idle"
        BY <1>0, <1>4 DEF FreeSkip
    <2>4. streak' \in [Chats -> Nat]
        BY <1>0, <1>4 DEF FreeSkip
    <2>5. PollerTypeOK'
        BY <1>0, <1>4, <2>1, <2>2, <2>3, <2>4
           DEF FreeSkip, TypeOK, PollerTypeOK, PollerRecord, RowsLoaded
    <2>6. StoreTypeOK' /\ SenderTypeOK'
        BY <1>0, <1>4 DEF FreeSkip, StoreTypeOK, SenderTypeOK, Blocked, storeVars
    <2> QED
        BY <1>0, <1>4, <2>5, <2>6 DEF FreeSkip, TypeOK
<1>5. CASE BlockRowElsewhere
    <2>1. poller.chat \in Chats
        BY <1>0, <1>5 DEF BlockRowElsewhere
    <2>2. poller' \in PollerRecord /\ poller'.at = "blocking" /\ poller'.chat \in Chats
          /\ poller'.rows = << >> /\ poller'.probes = << >>
        BY <1>5, <2>1, IdleTyped DEF BlockRowElsewhere, PollerRecord, PollerAt
    <2>3. PICK until \in Untils : cache' = PutCache(poller.chat, until)
        BY <1>5 DEF BlockRowElsewhere
    <2>4. DOMAIN cache' \subseteq Friends /\ \A d \in DOMAIN cache' : cache'[d] \in Untils
        BY <1>0, <2>3 DEF PutCache, Put, StoreTypeOK
    <2>5. StoreTypeOK'
        BY <1>0, <1>5, <2>4 DEF BlockRowElsewhere, StoreTypeOK, Blocked
    <2> QED
        BY <1>5, <2>2, <2>5
           DEF BlockRowElsewhere, TypeOK, PollerTypeOK, PollerRecord, RowsLoaded, SenderTypeOK
<1> QED
    BY <1>1, <1>2, <1>3, <1>4, <1>5

LEMMA ReconcilingTyped ==
    ASSUME TypeOK, NEW c, RaiseRow \/ (c \in Chats /\ (FreeListed(c) \/ ProbeFinds(c)))
    PROVE  TypeOK'
<1> USE DEF At
<1>0. /\ StoreTypeOK /\ SenderTypeOK /\ poller \in PollerRecord
      /\ poller.at \notin {"rows", "probe", "freeing"} => poller.rows = << >> /\ poller.probes = << >>
      /\ poller.at = "freeing" => poller.back # "idle"
    BY DEF TypeOK, PollerTypeOK, PollerRecord, RowsLoaded
<1>1. CASE RaiseRow
    <2>1. StoreTypeOK'
        BY <1>0, <1>1, RaiseKeepsStore DEF RaiseRow
    <2>2. Tail(poller.rows) \in Seq(RowsLoaded)
        BY <1>0, <1>1, SeqFacts DEF RaiseRow, AtRow, PollerRecord
    <2>3. poller' \in PollerRecord /\ poller'.at = "rows"
        BY <1>0, <1>1, <2>2 DEF RaiseRow, NextRow, AtRow, PollerRecord
    <2> QED
        BY <1>1, <2>1, <2>3
           DEF RaiseRow, TypeOK, PollerTypeOK, PollerRecord, RowsLoaded, SenderTypeOK
<1>2. CASE c \in Chats /\ FreeListed(c)
    <2>1. StoreTypeOK'
        BY <1>0, <1>2, RemoveKeepsStore DEF FreeListed, Free
    <2>2. Tail(poller.rows) \in Seq(RowsLoaded)
        BY <1>0, <1>2, SeqFacts DEF FreeListed, AtRow, PollerRecord
    <2>3. poller' \in PollerRecord /\ poller'.at = "freeing" /\ poller'.chat = c /\ poller'.back = "rows"
        BY <1>0, <1>2, <2>2 DEF FreeListed, AtRow, PollerRecord, PollerAt
    <2> QED
        BY <1>2, <2>1, <2>3
           DEF FreeListed, Free, TypeOK, PollerTypeOK, PollerRecord, RowsLoaded, SenderTypeOK
<1>3. CASE c \in Chats /\ ProbeFinds(c)
    <2>1. StoreTypeOK'
        BY <1>0, <1>3, RemoveKeepsStore DEF ProbeFinds, Free
    <2>2. Tail(poller.probes) \in Seq(Chats)
        BY <1>0, <1>3, SeqFacts DEF ProbeFinds, PollerRecord
    <2>3. poller' \in PollerRecord /\ poller'.at = "freeing" /\ poller'.chat = c /\ poller'.back = "probe"
        BY <1>0, <1>3, <2>2 DEF ProbeFinds, PollerRecord, PollerAt
    <2> QED
        BY <1>3, <2>1, <2>3
           DEF ProbeFinds, Free, TypeOK, PollerTypeOK, PollerRecord, RowsLoaded, SenderTypeOK
<1> QED
    BY <1>1, <1>2, <1>3

SenderRecord ==
    [at : SenderAt, chat : Chats \cup {NoChat}, plain : BOOLEAN, fails : 0 .. FailuresToBlock]

SenderSound(r) ==
    /\ r \in SenderRecord
    /\ r.at # "idle" => r.chat \in Chats
    /\ r.at = "add" => r.plain \/ r.fails > 0

LEMMA SenderMoves ==
    ASSUME TypeOK, NEW s \in Senders, NEW r, SenderSound(r), sender' = [sender EXCEPT ![s] = r]
    PROVE  SenderTypeOK'
<1>1. \A t \in Senders : sender'[t] = IF t = s THEN r ELSE sender[t]
    BY DEF TypeOK, SenderTypeOK
<1>2. \A t \in Senders : SenderSound(sender[t])
    BY DEF TypeOK, SenderTypeOK, SenderSound, SenderRecord
<1>3. \A t \in Senders : SenderSound(sender'[t])
    BY <1>1, <1>2
<1>4. sender' \in [Senders -> SenderRecord]
    BY <1>1, <1>2 DEF TypeOK, SenderTypeOK, SenderSound, SenderRecord
<1> QED
    BY <1>3, <1>4 DEF SenderTypeOK, SenderSound, SenderRecord

\* what a thread of the send tool and a request of the console leave alone
LEMMA PollerUntouched ==
    ASSUME TypeOK, UNCHANGED pollerVars
    PROVE  PollerTypeOK'
BY DEF TypeOK, PollerTypeOK, pollerVars

LEMMA SendingTyped ==
    ASSUME TypeOK, NEW s \in Senders, SendStep(s)
    PROVE  TypeOK'
<1>0. /\ StoreTypeOK /\ SenderSound(sender[s]) /\ sender \in [Senders -> SenderRecord]
      /\ SenderSound(Resting)
    BY BlocklistAssumption
       DEF TypeOK, SenderTypeOK, SenderSound, SenderRecord, SenderAt, Resting
<1>a. UNCHANGED <<pollerVars, web, torn>>
    BY DEF SendStep, Send, SendEnds, SendFails, SendAdd, SendRaise, SendCool
<1>b. PollerTypeOK' /\ web' \in {"idle", "table"} /\ torn' \subseteq Chats
    BY <1>a, PollerUntouched DEF TypeOK
<1>c. \A c \in Chats : FailsOf(c) \in 1 .. FailuresToBlock
    BY <1>0, FailsTyped
<1> SUFFICES StoreTypeOK' /\ SenderTypeOK'
    BY <1>b DEF TypeOK
<1>1. ASSUME NEW c \in Friends, Send(s, c)
      PROVE  StoreTypeOK' /\ SenderTypeOK'
    <2>1. StoreTypeOK'
        BY <1>0, <1>1, AskKeepsStore DEF Send
    <2>2. CASE sender' = sender
        BY <2>1, <2>2 DEF TypeOK, SenderTypeOK
    <2>3. CASE sender' = [sender EXCEPT ![s] = [Resting EXCEPT !.at = "sending", !.chat = c]]
        <3>1. SenderSound([Resting EXCEPT !.at = "sending", !.chat = c])
            BY <1>0, BlocklistAssumption DEF SenderSound, SenderRecord, SenderAt, Resting
        <3> QED
            BY <2>1, <2>3, <3>1, SenderMoves
    <2> QED
        BY <1>1, <2>2, <2>3 DEF Send
<1>2. CASE SendEnds(s)
    <2>1. StoreTypeOK'
        BY <1>0, <1>2 DEF SendEnds, storeVars, StoreTypeOK, Blocked
    <2> QED
        BY <1>0, <1>2, <2>1, SenderMoves DEF SendEnds
<1>3. CASE SendFails(s)
    <2>1. StoreTypeOK'
        BY <1>0, <1>3, AskKeepsStore DEF SendFails
    <2>0. PICK existing \in BOOLEAN :
             LET c == sender[s].chat
                 cooling == existing /\ ~(c \in Blocked /\ table[c].until = "forever")
             IN  sender' = [sender EXCEPT ![s].at = "add", ![s].plain = ~cooling,
                                          ![s].fails = IF cooling THEN FailsOf(c) ELSE 0]
        BY <1>3 DEF SendFails, Answers
    <2> DEFINE c == sender[s].chat
               cooling == existing /\ ~(c \in Blocked /\ table[c].until = "forever")
               r == [sender[s] EXCEPT !.at = "add", !.plain = ~cooling,
                                      !.fails = IF cooling THEN FailsOf(c) ELSE 0]
    <2>2. c \in Chats
        BY <1>0, <1>3 DEF SendFails, SenderSound
    <2>3. sender' = [sender EXCEPT ![s] = r]
        BY <1>0, <2>0
    <2>4. SenderSound(r)
        <3>1. cooling \in BOOLEAN /\ (~cooling) \in BOOLEAN
            OBVIOUS
        <3>2. FailsOf(c) \in 1 .. FailuresToBlock
            BY <1>c, <2>2
        <3>3. sender[s] \in SenderRecord
            BY <1>0 DEF SenderSound
        <3> DEFINE fails == IF cooling THEN FailsOf(c) ELSE 0
        <3>4. fails \in 0 .. FailuresToBlock /\ (cooling => fails > 0)
            BY <3>2, BlocklistAssumption
        <3>5. r = [sender[s] EXCEPT !.at = "add", !.plain = ~cooling, !.fails = fails]
            OBVIOUS
        <3> HIDE DEF cooling, fails, r
        <3>6. r.chat = c
            BY <3>3, <3>5 DEF SenderRecord
        <3>8. r \in SenderRecord /\ r.plain = ~cooling /\ r.fails = fails
            BY <3>1, <3>3, <3>4, <3>5 DEF SenderRecord, SenderAt
        <3> QED
            BY <2>2, <3>1, <3>4, <3>6, <3>8 DEF SenderSound
    <2> HIDE DEF r
    <2> QED
        BY <2>1, <2>3, <2>4, SenderMoves
<1>4. CASE SendAdd(s)
    <2> DEFINE c == sender[s].chat
               fails == IF sender[s].plain THEN FailsOf(c) ELSE sender[s].fails
    <2>1. c \in Chats /\ fails \in 1 .. FailuresToBlock /\ "send" \in Kinds
        BY <1>0, <1>4, <1>c DEF SendAdd, SenderSound, SenderRecord, Kinds
    <2>2. AddRow(c, "send", FALSE, fails)
        BY <1>4 DEF SendAdd
    <2>3. StoreTypeOK'
        <3>1. lasting' \subseteq Chats
            BY <1>0, <1>4 DEF SendAdd, StoreTypeOK
        <3> HIDE DEF c, fails
        <3> QED
            BY <1>0, <2>1, <2>2, <3>1, AddKeepsStore
    <2>4. SenderSound([sender[s] EXCEPT !.at = "added"])
        BY <1>0, <1>4 DEF SendAdd, SenderSound, SenderRecord, SenderAt
    <2>5. sender' = [sender EXCEPT ![s] = [sender[s] EXCEPT !.at = "added"]]
        BY <1>0, <1>4 DEF SendAdd
    <2> QED
        BY <2>3, <2>4, <2>5, SenderMoves
<1>5. CASE SendRaise(s)
    <2>1. StoreTypeOK'
        BY <1>0, <1>5, RaiseKeepsStore DEF SendRaise
    <2> QED
        BY <1>0, <1>5, <2>1, SenderMoves DEF SendRaise
<1>6. CASE SendCool(s)
    <2>1. StoreTypeOK'
        <3>0. lasting' \subseteq Chats
            BY <1>0, <1>6 DEF SendCool, StoreTypeOK
        <3>1. CASE sender[s].chat \in Blocked
            BY <1>0, <1>6, <3>0, <3>1, CoolKeepsStore DEF SendCool, Untils
        <3>2. CASE sender[s].chat \notin Blocked
            BY <1>0, <1>6, <3>0, <3>2 DEF SendCool, StoreTypeOK, Blocked
        <3> QED
            BY <3>1, <3>2
    <2> QED
        BY <1>0, <1>6, <2>1, SenderMoves DEF SendCool
<1> QED
    BY <1>1, <1>2, <1>3, <1>4, <1>5, <1>6 DEF SendStep

LEMMA OutsideTyped ==
    ASSUME TypeOK, Web \/ Restart \/ RestartBlind
    PROVE  TypeOK'
<1>0. /\ StoreTypeOK /\ SenderTypeOK /\ PollerTypeOK /\ Blocked \subseteq Chats
      /\ skip \subseteq Chats /\ torn \subseteq Chats /\ web \in {"idle", "table"}
    BY DEF TypeOK, StoreTypeOK, PollerTypeOK
<1>1. CASE ClearSkip
    <2>1. StoreTypeOK' /\ SenderTypeOK'
        BY <1>0, <1>1, SameStore DEF ClearSkip, SenderTypeOK
    <2> QED
        BY <1>0, <1>1, <2>1 DEF ClearSkip, TypeOK, PollerTypeOK
<1>2. CASE ClearTable
    <2>1. StoreTypeOK'
        <3>1. DOMAIN << >> = {} /\ << >> \in Seq(Chats)
            OBVIOUS
        <3>2. Blocked' = {} /\ {order'[i] : i \in DOMAIN order'} = {} /\ DOMAIN cache' = {}
              /\ DOMAIN order' = {} /\ order' \in Seq(Chats)
            BY <1>2, <3>1 DEF ClearTable, Blocked
        <3> QED
            BY <1>0, <1>2, <3>2 DEF ClearTable, StoreTypeOK
    <2> QED
        BY <1>0, <1>2, <2>1, PollerUntouched DEF ClearTable, TypeOK, SenderTypeOK
<1>3. CASE ClearTableFails
    BY <1>0, <1>3, PollerUntouched
       DEF ClearTableFails, TypeOK, StoreTypeOK, SenderTypeOK, storeVars, Blocked
<1>4. CASE Restart \/ RestartBlind
    <2>0. Ended /\ skip' \subseteq Chats /\ torn' \subseteq Chats
        BY <1>0, <1>4 DEF Restart, RestartBlind
    <2>1. StoreTypeOK'
        <3>1. DOMAIN << >> = {}
            OBVIOUS
        <3>2. DOMAIN cache' = {}
            BY <2>0, <3>1 DEF Ended
        <3> QED
            BY <1>0, <2>0, <3>2 DEF Ended, StoreTypeOK, Blocked
    <2>2. SenderTypeOK'
        BY <2>0, BlocklistAssumption DEF Ended, SenderTypeOK, SenderAt, Resting
    <2>3. PollerTypeOK'
        BY <2>0, IdleTyped, BlocklistAssumption
           DEF Ended, PollerTypeOK, PollerRecord, RowsLoaded
    <2> QED
        BY <2>0, <2>1, <2>2, <2>3 DEF Ended, TypeOK
<1> QED
    BY <1>1, <1>2, <1>3, <1>4 DEF Web

LEMMA InitTyped == Init => TypeOK
<1> SUFFICES ASSUME Init PROVE TypeOK
    OBVIOUS
<1>1. StoreTypeOK
    BY EmptyStore DEF Init
<1>2. SenderTypeOK
    BY BlocklistAssumption DEF Init, SenderTypeOK, SenderAt, Resting
<1>3. PollerTypeOK
    BY IdleTyped, BlocklistAssumption DEF Init, PollerTypeOK, PollerRecord, RowsLoaded
<1> QED
    BY <1>1, <1>2, <1>3 DEF Init, TypeOK

LEMMA StepTyped ==
    ASSUME TypeOK, [Next]_vars
    PROVE  TypeOK'
<1>1. CASE UNCHANGED vars
    <2>1. StoreTypeOK' /\ PollerTypeOK'
        BY <1>1, SameStore, PollerUntouched DEF vars, TypeOK
    <2> QED
        BY <1>1, <2>1 DEF vars, TypeOK, SenderTypeOK
<1>2. CASE Poll
    <2>1. CASE BlockRow \/ BlockRowElsewhere \/ BlockSkip \/ BlockRowFails \/ FreeSkip
        BY <2>1, BlockingTyped
    <2>2. CASE RaiseRow \/ \E c \in Chats : FreeListed(c) \/ ProbeFinds(c)
        BY <2>2, ReconcilingTyped
    <2>3. CASE \/ NewCycle \/ Fetched \/ FetchFailed \/ Load
               \/ KeepRow \/ ProbeRow \/ StoreFails \/ ChooseBatch \/ ProbeFails \/ ProbesDone
               \/ \E c \in Chats : PollChat(c) \/ ListedAsBlocked(c)
               \/ \E kind \in Kinds \ {"send"} : FetchDenied(kind) \/ DeniedForGood(kind)
        <3>1. UNCHANGED <<storeVars, sender, web, torn>>
            BY <2>3 DEF NewCycle, Fetched, FetchFailed, Load, LoadRows, KeepRow, ProbeRow, StoreFails,
                        ChooseBatch, ProbeFails, ProbesDone, PollChat, ListedAsBlocked, FetchDenied,
                        DeniedForGood
        <3>2. PollerTypeOK'
            BY <1>2, <2>3, <3>1, PollerTyped DEF Next
        <3> QED
            BY <3>1, <3>2, OthersTyped DEF TypeOK
    <2> QED
        BY <1>2, <2>1, <2>2, <2>3 DEF Poll
<1> QED
    BY <1>1, <1>2, SendingTyped, OutsideTyped DEF Next

\* Every reachable state of the blacklist is well typed.
THEOREM TypeCorrectness == Spec => []TypeOK
<1>1. TypeOK /\ [Next]_vars => TypeOK'
    BY StepTyped
<1> QED
    BY <1>1, InitTyped, PTL DEF Spec

-----------------------------------------------------------------------------
(* What a step may do to the reasons in the table.                          *)

\* no row goes; a new one and a new reason are those of the send tool
Gentle ==
    /\ \A d \in Blocked : d \in Blocked' /\ table'[d].kind \in {table[d].kind, "send"}
    /\ \A d \in Blocked' \ Blocked : table'[d].kind = "send"

LEMMA Untouched == (table' = table \/ SameReasons) => Gentle
BY DEF SameReasons, Gentle, Blocked

LEMMA SendGentle ==
    ASSUME TypeOK, NEW s \in Senders, SendStep(s)
    PROVE  Gentle
<1>1. CASE SendAdd(s)
    <2> DEFINE c == sender[s].chat
               fails == IF sender[s].plain THEN FailsOf(c) ELSE sender[s].fails
    <2>1. StoreTypeOK /\ c \in Chats /\ "send" \in Kinds /\ FailsOf(c) \in 1 .. FailuresToBlock
        BY <1>1, BlocklistAssumption
           DEF SendAdd, TypeOK, SenderTypeOK, Kinds, FailsOf, StoreTypeOK, Row, Least
    <2>2. fails \in 1 .. FailuresToBlock
        BY <1>1, <2>1 DEF SendAdd, TypeOK, SenderTypeOK
    <2>3. AddRow(c, "send", FALSE, fails)
        BY <1>1 DEF SendAdd
    <2>a. lasting' \subseteq Chats
        BY <1>1, <2>1 DEF SendAdd, StoreTypeOK
    <2> HIDE DEF c, fails
    <2>4. Blocked' = Blocked \cup {c} /\ table'[c].kind = "send"
          /\ \A d \in Blocked \ {c} : table'[d] = table[d]
        BY <2>1, <2>2, <2>3, <2>a, AddKeepsStore
    <2> QED
        BY <2>4 DEF Gentle
<1>2. CASE SendRaise(s)
    BY <1>2, RaiseKeepsStore, Untouched DEF SendRaise, TypeOK
<1>3. CASE SendCool(s)
    <2>1. CASE sender[s].chat \in Blocked
        <3>1. UNCHANGED <<order, cache, loaded>> /\ lasting' \subseteq Chats
            BY <1>3 DEF SendCool, TypeOK, StoreTypeOK
        <3>2. table' = [table EXCEPT ![sender[s].chat].until = "hour"] /\ "hour" \in Untils
            BY <1>3, <2>1 DEF SendCool, Untils
        <3> QED
            BY <2>1, <3>1, <3>2, CoolKeepsStore, Untouched DEF TypeOK
    <2>2. CASE sender[s].chat \notin Blocked
        BY <1>3, <2>2, Untouched DEF SendCool
    <2> QED
        BY <2>1, <2>2
<1>4. CASE SendEnds(s) \/ SendFails(s) \/ \E c \in Friends : Send(s, c)
    BY <1>4, Untouched DEF SendEnds, SendFails, Send, AskCache, storeVars
<1> QED
    BY <1>1, <1>2, <1>3, <1>4 DEF SendStep

LEMMA TableSteps ==
    ASSUME TypeOK, [Next]_vars
    PROVE  Gentle \/ BlockRow \/ ClearTable \/ \E c \in Chats : FreeListed(c) \/ ProbeFinds(c)
<1>1. CASE UNCHANGED vars
    BY <1>1, Untouched DEF vars, storeVars
<1>2. CASE Poll
    <2>1. CASE RaiseRow
        BY <2>1, RaiseKeepsStore, Untouched DEF RaiseRow, TypeOK
    <2>2. CASE \/ NewCycle \/ Fetched \/ FetchFailed \/ Load \/ BlockRowElsewhere \/ BlockRowFails \/ BlockSkip
               \/ KeepRow \/ ProbeRow \/ StoreFails \/ ChooseBatch \/ ProbeFails \/ ProbesDone \/ FreeSkip
               \/ \E c \in Chats : PollChat(c) \/ ListedAsBlocked(c)
               \/ \E kind \in Kinds \ {"send"} : FetchDenied(kind) \/ DeniedForGood(kind)
        BY <2>2, Untouched
           DEF NewCycle, Fetched, FetchFailed, Load, LoadRows, KeepRow, ProbeRow, StoreFails,
               ChooseBatch, ProbeFails, ProbesDone, FreeSkip, PollChat, ListedAsBlocked, FetchDenied,
               DeniedForGood, BlockRowElsewhere, BlockRowFails, BlockSkip, storeVars
    <2> QED
        BY <1>2, <2>1, <2>2 DEF Poll
<1>3. CASE Web \/ Restart \/ RestartBlind
    BY <1>3, Untouched DEF Web, ClearSkip, ClearTableFails, Restart, RestartBlind, Ended, storeVars
<1>4. ASSUME NEW s \in Senders, SendStep(s)
      PROVE  Gentle
    BY <1>4, SendGentle
<1> QED
    BY <1>1, <1>2, <1>3, <1>4 DEF Next

-----------------------------------------------------------------------------
(* Lasting blocks and reconciliations.                                      *)

\* what is said of the chats in `lasting' goes on to hold
Keeps ==
    /\ lasting' \subseteq lasting
    /\ \A d \in lasting' \cap Blocked :
          d \in Blocked' /\ (table[d].until = "forever" => table'[d].until = "forever")

LEMMA UntouchedKeeps == UNCHANGED <<table, lasting>> => Keeps
BY DEF Keeps, Blocked

LEMMA RaiseKeeps ==
    ASSUME StoreTypeOK, NEW c, RaiseToPermanent(c)
    PROVE  Keeps
<1>1. CASE c \in Blocked
    <2>1. table' = [table EXCEPT ![c].until = "forever"] /\ lasting' = lasting
        BY <1>1 DEF RaiseToPermanent
    <2>2. Blocked' = Blocked
        BY <2>1 DEF Blocked
    <2>3. ASSUME NEW d \in Blocked, table[d].until = "forever"
          PROVE  table'[d].until = "forever"
        <3>1. table[d] \in Row
            BY DEF StoreTypeOK
        <3>2. CASE d = c
            <4>1. table'[d] = [table[d] EXCEPT !.until = "forever"]
                BY <2>1, <3>2 DEF Blocked
            <4> QED
                BY <3>1, <4>1 DEF Row
        <3>3. CASE d # c
            BY <2>1, <2>3, <3>3 DEF Blocked
        <3> QED
            BY <3>2, <3>3
    <2> QED
        BY <2>1, <2>2, <2>3 DEF Keeps
<1>2. CASE c \notin Blocked
    BY <1>2, UntouchedKeeps DEF RaiseToPermanent
<1> QED
    BY <1>1, <1>2

\* a failed send writes over the row of its own chat only, which leaves `lasting'
LEMMA SendKeeps ==
    ASSUME TypeOK, NEW s \in Senders, SendStep(s)
    PROVE  Keeps
<1> DEFINE c == sender[s].chat
<1>0. StoreTypeOK
    BY DEF TypeOK
<1>1. CASE SendAdd(s)
    <2>1. lasting' = lasting \ {c}
        BY <1>1 DEF SendAdd
    <2>2. \A d \in Blocked \ {c} : d \in Blocked' /\ table'[d] = table[d]
        BY <1>1 DEF SendAdd, AddRow, Put, Blocked
    <2> HIDE DEF c
    <2> QED
        BY <2>1, <2>2 DEF Keeps
<1>2. CASE SendRaise(s)
    BY <1>0, <1>2, RaiseKeeps DEF SendRaise
<1>3. CASE SendCool(s)
    <2>1. lasting' = lasting \ {c}
        BY <1>3 DEF SendCool
    <2>2. \A d \in Blocked \ {c} : d \in Blocked' /\ table'[d] = table[d]
        BY <1>3 DEF SendCool, Blocked
    <2> HIDE DEF c
    <2> QED
        BY <2>1, <2>2 DEF Keeps
<1>4. CASE SendEnds(s) \/ SendFails(s) \/ \E d \in Friends : Send(s, d)
    BY <1>4, UntouchedKeeps DEF SendEnds, SendFails, Send, AskCache, storeVars
<1> QED
    BY <1>1, <1>2, <1>3, <1>4 DEF SendStep

LEMMA LastingSteps ==
    ASSUME TypeOK, [Next]_vars
    PROVE  Keeps \/ BlockRow \/ \E c \in Chats : FreeListed(c) \/ ProbeFinds(c)
<1>1. CASE UNCHANGED vars
    BY <1>1, UntouchedKeeps DEF vars, storeVars
<1>2. CASE Poll
    <2>1. CASE RaiseRow
        BY <2>1, RaiseKeeps DEF RaiseRow, TypeOK
    <2>2. CASE \/ NewCycle \/ Fetched \/ FetchFailed \/ Load
               \/ BlockRowElsewhere \/ BlockRowFails \/ BlockSkip
               \/ KeepRow \/ ProbeRow \/ StoreFails \/ ChooseBatch \/ ProbeFails \/ ProbesDone \/ FreeSkip
               \/ \E c \in Chats : PollChat(c) \/ ListedAsBlocked(c)
               \/ \E kind \in Kinds \ {"send"} : FetchDenied(kind) \/ DeniedForGood(kind)
        BY <2>2, UntouchedKeeps
           DEF NewCycle, Fetched, FetchFailed, Load, LoadRows, KeepRow, ProbeRow, StoreFails,
               ChooseBatch, ProbeFails, ProbesDone, FreeSkip, PollChat, ListedAsBlocked, FetchDenied,
               DeniedForGood, BlockRowElsewhere, BlockRowFails, BlockSkip, storeVars
    <2> QED
        BY <1>2, <2>1, <2>2 DEF Poll
<1>3. CASE ClearTable
    BY <1>3 DEF ClearTable, Keeps
<1>4. CASE ClearSkip \/ ClearTableFails \/ Restart \/ RestartBlind
    BY <1>4, UntouchedKeeps DEF ClearSkip, ClearTableFails, Restart, RestartBlind, Ended, storeVars
<1>5. ASSUME NEW s \in Senders, SendStep(s)
      PROVE  Keeps
    BY <1>5, SendKeeps
<1> QED
    BY <1>1, <1>2, <1>3, <1>4, <1>5 DEF Next, Web

LEMMA LoadedFree ==
    ASSUME LastingEndsByName, NEW c, NEW listed, Work(c, listed) \in {"free", "probe"}
    PROVE  c \notin lasting
BY DEF Work, Kept, LastingEndsByName

\* the chat a reconciliation frees has no lasting block
LEMMA FreesNoLasting ==
    ASSUME TypeOK, Harmless, NEW c \in Chats, FreeListed(c) \/ ProbeFinds(c)
    PROVE  c \notin lasting
<1>1. poller \in PollerRecord
    BY DEF TypeOK, PollerTypeOK, PollerRecord, RowsLoaded
<1>2. CASE FreeListed(c)
    <2>1. poller.rows \in Seq(RowsLoaded) /\ poller.rows # << >>
        BY <1>1, <1>2 DEF FreeListed, AtRow, PollerRecord
    <2>2. 1 \in DOMAIN poller.rows /\ Head(poller.rows) = poller.rows[1]
        BY <2>1
    <2> QED
        BY <1>2, <2>2 DEF FreeListed, AtRow, Harmless
<1>3. CASE ProbeFinds(c)
    <2>1. poller.probes \in Seq(Chats) /\ poller.probes # << >>
        BY <1>1, <1>3 DEF ProbeFinds, PollerRecord
    <2>2. 1 \in DOMAIN poller.probes /\ Head(poller.probes) = poller.probes[1]
        BY <2>1
    <2> QED
        BY <1>3, <2>2 DEF ProbeFinds, Harmless
<1> QED
    BY <1>2, <1>3

LEMMA LastingStep ==
    ASSUME TypeOK, Harmless, LastingEndsByName, [Next]_vars
    PROVE  LastingEndsByName'
<1>0. StoreTypeOK
    BY DEF TypeOK
<1>1. CASE Keeps
    BY <1>1 DEF Keeps, LastingEndsByName
<1>2. CASE BlockRow
    <2> DEFINE c == poller.chat  permanent == poller.kind = "lasting"
    <2>1. AddRow(c, poller.kind, permanent, FailsOf(c))
        BY <1>2 DEF BlockRow
    <2>2. lasting' = IF permanent THEN lasting \cup {c} ELSE lasting
        BY <1>2 DEF BlockRow
    <2>3. /\ \A d \in Blocked \cup {c} : d \in Blocked'
          /\ \A d \in Blocked \ {c} : table'[d] = table[d]
          /\ table'[c].until = UntilOf(c, permanent)
        BY <2>1 DEF AddRow, Put, Blocked
    <2>4. permanent \/ (c \in Blocked /\ table[c].until = "forever") => UntilOf(c, permanent) = "forever"
        BY DEF UntilOf
    <2> HIDE DEF c, permanent
    <2> QED
        BY <2>2, <2>3, <2>4 DEF LastingEndsByName
<1>3. ASSUME NEW c \in Chats, FreeListed(c) \/ ProbeFinds(c)
      PROVE  LastingEndsByName'
    <2>1. RemoveRow(c) /\ c \notin lasting /\ lasting' = lasting
        BY <1>3, FreesNoLasting DEF FreeListed, ProbeFinds, Free, RemoveRow
    <2>2. Blocked' = Blocked \ {c} /\ \A d \in Blocked' : table'[d] = table[d]
        BY <1>0, <2>1, RemoveKeepsStore
    <2> QED
        BY <2>1, <2>2 DEF LastingEndsByName
<1> QED
    BY <1>1, <1>2, <1>3, LastingSteps

\* the rows and probes left to do are some of those there were
Fewer ==
    /\ \A i \in DOMAIN poller'.rows : \E j \in DOMAIN poller.rows : poller'.rows[i] = poller.rows[j]
    /\ \A i \in DOMAIN poller'.probes : \E j \in DOMAIN poller.probes : poller'.probes[i] = poller.probes[j]

LEMMA FewerHarmless ==
    ASSUME Harmless, Fewer, lasting' \subseteq lasting
    PROVE  Harmless'
BY DEF Harmless, Fewer

LEMMA IdleFewer ==
    ASSUME poller'.rows = << >>, poller'.probes = << >>
    PROVE  Fewer
<1>1. DOMAIN << >> = {}
    OBVIOUS
<1> QED
    BY <1>1 DEF Fewer

LEMMA TailFewer ==
    ASSUME NEW S, NEW q \in Seq(S), q # << >>
    PROVE  \A i \in DOMAIN Tail(q) : \E j \in DOMAIN q : Tail(q)[i] = q[j]
<1>1. DOMAIN Tail(q) = 1 .. Len(q) - 1 /\ DOMAIN q = 1 .. Len(q) /\ Len(q) \in Nat
      /\ \A i \in 1 .. Len(q) - 1 : Tail(q)[i] = q[i + 1]
    OBVIOUS
<1> QED
    BY <1>1

LEMMA HarmlessStep ==
    ASSUME TypeOK, Harmless, LastingEndsByName, [Next]_vars
    PROVE  Harmless'
<1> USE DEF At
<1>0. /\ StoreTypeOK /\ poller \in PollerRecord
      /\ poller.at \notin {"rows", "probe", "freeing"} => poller.rows = << >> /\ poller.probes = << >>
    BY DEF TypeOK, PollerTypeOK, PollerRecord, RowsLoaded
<1>1. CASE Load
    <2>1. PICK listed : LoadRows(listed)
        BY <1>1 DEF Load
    <2>2. /\ poller'.rows = [i \in DOMAIN order |-> [chat |-> order[i], work |-> Work(order[i], listed)]]
          /\ poller'.probes = << >> /\ lasting' = lasting
        BY <1>0, <2>1 DEF LoadRows, PollerRecord, storeVars
    <2>3. DOMAIN << >> = {}
        OBVIOUS
    <2>4. \A c : Work(c, listed) \in {"free", "probe"} => c \notin lasting
        <3> SUFFICES ASSUME NEW c, Work(c, listed) \in {"free", "probe"} PROVE c \notin lasting
            OBVIOUS
        <3> QED
            BY LoadedFree
    <2> QED
        BY <2>2, <2>3, <2>4 DEF Harmless
<1>2. CASE ProbeRow
    <2>1. poller.rows \in Seq(RowsLoaded) /\ poller.rows # << >> /\ poller.probes \in Seq(Chats)
        BY <1>0, <1>2 DEF ProbeRow, AtRow, PollerRecord
    <2> DEFINE x == Head(poller.rows).chat
    <2>2. /\ poller'.rows = Tail(poller.rows) /\ poller'.probes = Append(poller.probes, x)
          /\ lasting' = lasting
        BY <1>0, <1>2 DEF ProbeRow, PollerRecord, storeVars
    <2>3. 1 \in DOMAIN poller.rows /\ Head(poller.rows) = poller.rows[1]
          /\ poller.rows[1] \in RowsLoaded
        BY <2>1
    <2>4. x \in Chats /\ x \notin lasting
        BY <1>2, <2>3 DEF Harmless, ProbeRow, AtRow, RowsLoaded
    <2>5. \A i \in DOMAIN poller'.probes :
             poller'.probes[i] = x \/ \E j \in DOMAIN poller.probes : poller'.probes[i] = poller.probes[j]
        <3> HIDE DEF x
        <3> QED
            BY <2>1, <2>2, <2>4
    <2>6. \A i \in DOMAIN poller'.rows : \E j \in DOMAIN poller.rows : poller'.rows[i] = poller.rows[j]
        BY <2>1, <2>2, TailFewer
    <2> QED
        BY <2>2, <2>4, <2>5, <2>6 DEF Harmless
<1>3. ASSUME NEW c \in Chats, FreeListed(c) \/ ProbeFinds(c)
      PROVE  Harmless'
    <2>1. lasting' = lasting
        BY <1>3 DEF FreeListed, ProbeFinds, Free, RemoveRow
    <2>2. Fewer
        <3>1. CASE FreeListed(c)
            <4>1. poller.rows \in Seq(RowsLoaded) /\ poller.rows # << >>
                  /\ poller'.rows = Tail(poller.rows) /\ poller'.probes = poller.probes
                BY <1>0, <3>1 DEF FreeListed, AtRow, PollerRecord
            <4> QED
                BY <4>1, TailFewer DEF Fewer
        <3>2. CASE ProbeFinds(c)
            <4>1. poller.probes \in Seq(Chats) /\ poller.probes # << >>
                  /\ poller'.probes = Tail(poller.probes) /\ poller'.rows = poller.rows
                BY <1>0, <3>2 DEF ProbeFinds, PollerRecord
            <4> QED
                BY <4>1, TailFewer DEF Fewer
        <3> QED
            BY <1>3, <3>1, <3>2
    <2> QED
        BY <2>1, <2>2, FewerHarmless
<1>4. CASE BlockRow
    <2>1. poller'.rows = << >> /\ poller'.probes = << >> /\ DOMAIN << >> = {}
        BY <1>4, IdleTyped DEF BlockRow, PollerRecord
    <2> QED
        BY <2>1 DEF Harmless
<1>6. CASE /\ ~Load /\ ~ProbeRow /\ ~BlockRow
           /\ ~\E c \in Chats : FreeListed(c) \/ ProbeFinds(c)
    <2>1. lasting' \subseteq lasting
        BY <1>6, LastingSteps DEF Keeps
    <2>2. Fewer
        <3>1. CASE poller' = poller
            BY <3>1 DEF Fewer
        <3>2. CASE KeepRow \/ RaiseRow
            <4>1. poller.rows \in Seq(RowsLoaded) /\ poller.rows # << >>
                  /\ poller'.rows = Tail(poller.rows) /\ poller'.probes = poller.probes
                BY <1>0, <3>2 DEF KeepRow, RaiseRow, NextRow, AtRow, PollerRecord
            <4> QED
                BY <4>1, TailFewer DEF Fewer
        <3>3. CASE ProbeFails
            <4>1. poller.probes \in Seq(Chats) /\ poller.probes # << >>
                  /\ poller'.probes = Tail(poller.probes) /\ poller'.rows = poller.rows
                BY <1>0, <3>3 DEF ProbeFails, PollerRecord
            <4> QED
                BY <4>1, TailFewer DEF Fewer
        <3>4. CASE ChooseBatch
            <4>1. CASE Len(poller.probes) = 0
                BY <3>4, <4>1, IdleTyped, IdleFewer DEF ChooseBatch, ToNext
            <4>2. CASE Len(poller.probes) # 0
                <5> DEFINE n == Len(poller.probes)  start == probeIdx % n  end == Least(start + BatchSize, n)
                <5>1. n \in Nat \ {0} /\ poller.probes \in Seq(Chats)
                    BY <1>0, <4>2 DEF PollerRecord
                <5>2. start \in 0 .. n - 1
                    BY <5>1, Remainder DEF TypeOK, PollerTypeOK
                <5>3. end \in Nat /\ end <= n
                    <6> HIDE DEF start, n
                    <6> QED
                        BY <5>1, <5>2, BlocklistAssumption DEF Least
                <5>4. poller'.rows = poller.rows /\ poller'.probes = SubSeq(poller.probes, start + 1, end)
                    BY <1>0, <3>4, <4>2 DEF ChooseBatch, PollerRecord
                <5> HIDE DEF n, start, end
                <5>5. \A i \in DOMAIN poller'.probes :
                         /\ start + i \in DOMAIN poller.probes
                         /\ poller'.probes[i] = poller.probes[start + i]
                    BY <5>1, <5>2, <5>3, <5>4 DEF n
                <5> QED
                    BY <5>4, <5>5 DEF Fewer
            <4> QED
                BY <4>1, <4>2
        <3>5. CASE \/ Fetched \/ FetchFailed \/ StoreFails \/ ProbesDone
                   \/ BlockSkip \/ BlockRowFails \/ BlockRowElsewhere
            <4>1. poller' = Idle \/ poller' = [Idle EXCEPT !.at = "blocking", !.chat = poller.chat]
                BY <3>5 DEF Fetched, FetchFailed, StoreFails, ProbesDone, BlockSkip, BlockRowFails,
                            BlockRowElsewhere, ToNext
            <4>2. poller'.rows = << >> /\ poller'.probes = << >>
                BY <4>1, IdleTyped DEF PollerRecord
            <4> QED
                BY <4>2, IdleFewer
        <3>6. CASE Restart \/ RestartBlind
            BY <3>6, IdleTyped, IdleFewer DEF Restart, RestartBlind, Ended
        <3>7. CASE NewCycle \/ FreeSkip
            <4>1. poller'.rows = poller.rows /\ poller'.probes = poller.probes
                BY <1>0, <3>7 DEF NewCycle, FreeSkip, GoOn, PollerRecord
            <4> QED
                BY <4>1 DEF Fewer
        <3>8. CASE \/ \E c \in Chats : PollChat(c) \/ ListedAsBlocked(c)
                   \/ \E kind \in Kinds \ {"send"} : FetchDenied(kind) \/ DeniedForGood(kind)
            <4>1. poller'.rows = poller.rows /\ poller'.probes = poller.probes
                BY <1>0, <3>8
                   DEF PollChat, ListedAsBlocked, FetchDenied, ToBlock, ToNext, Idle, DeniedForGood, PollerRecord
            <4> QED
                BY <4>1 DEF Fewer
        <3>9. CASE \/ UNCHANGED vars \/ Web
                   \/ \E s \in Senders : SendStep(s)
            <4>1. poller' = poller
                BY <3>9 DEF vars, pollerVars, Web, ClearSkip, ClearTable, ClearTableFails, SendStep, Send,
                            SendEnds, SendFails, SendAdd, SendRaise, SendCool
            <4> QED
                BY <4>1, <3>1
        <3>10. CASE Poll
            BY <1>6, <3>2, <3>3, <3>4, <3>5, <3>7, <3>8, <3>10 DEF Poll
        <3> QED
            BY <3>6, <3>9, <3>10 DEF Next
    <2> QED
        BY <2>1, <2>2, FewerHarmless
<1> QED
    BY <1>1, <1>2, <1>3, <1>4, <1>6

LEMMA InitHarmless == Init => Harmless /\ LastingEndsByName
<1>1. DOMAIN << >> = {}
    OBVIOUS
<1> QED
    BY <1>1, IdleTyped DEF Init, Harmless, LastingEndsByName

\* A block for a lasting reason ends only by a clear of the list or by a failed
\* send that writes over the row, however blocks, sends and the rows a
\* reconciliation has loaded interleave.
THEOREM AlwaysLasting == Spec => []LastingEndsByName
<1> DEFINE IInv == TypeOK /\ Harmless /\ LastingEndsByName
<1>1. Init => IInv
    BY InitTyped, InitHarmless
<1>2. IInv /\ [Next]_vars => IInv'
    BY StepTyped, HarmlessStep, LastingStep
<1> QED
    BY <1>1, <1>2, PTL DEF Spec

-----------------------------------------------------------------------------
(* The skipped chats and the rows.                                          *)

LEMMA FreeingStep ==
    ASSUME TypeOK, Freeing, [Next]_vars
    PROVE  Freeing'
<1> USE DEF At
<1>0. StoreTypeOK /\ poller \in PollerRecord
    BY DEF TypeOK, PollerTypeOK, PollerRecord, RowsLoaded
<1>1. ASSUME NEW c \in Chats, FreeListed(c) \/ ProbeFinds(c)
      PROVE  Freeing'
    <2>1. c \notin Blocked'
        BY <1>0, <1>1, RemoveKeepsStore DEF FreeListed, ProbeFinds, Free
    <2>2. poller'.chat = c
        BY <1>0, <1>1 DEF FreeListed, ProbeFinds, PollerRecord
    <2> QED
        BY <2>1, <2>2 DEF Freeing, Amid
<1>2. CASE BlockRow
    <2>1. poller'.at = "blocking"
        BY <1>2, IdleTyped DEF BlockRow, PollerRecord
    <2> QED
        BY <2>1 DEF Freeing, Amid
<1>3. CASE ClearTable
    <2>1. Blocked' = {}
        BY <1>3 DEF ClearTable, Blocked
    <2> QED
        BY <2>1 DEF Freeing
<1>4. CASE /\ ~BlockRow /\ ~ClearTable
           /\ ~\E c \in Chats : FreeListed(c) \/ ProbeFinds(c)
    <2>1. Gentle
        BY <1>4, TableSteps
    <2>2. poller' = poller \/ poller'.at # "freeing"
        <3>1. CASE Poll
            <4>1. CASE NewCycle \/ KeepRow \/ RaiseRow \/ ProbeRow \/ ProbeFails \/ FreeSkip \/ Load
                BY <1>0, <4>1
                   DEF NewCycle, GoOn, KeepRow, RaiseRow, NextRow, ProbeRow, ProbeFails, FreeSkip, Load,
                       LoadRows, AtRow, PollerRecord, TypeOK, PollerTypeOK
            <4>2. CASE \/ Fetched \/ FetchFailed \/ StoreFails \/ ProbesDone \/ BlockSkip \/ BlockRowFails
                BY <4>2, IdleTyped
                   DEF Fetched, FetchFailed, StoreFails, ProbesDone, BlockSkip, BlockRowFails, ToNext
            <4>5. CASE BlockRowElsewhere
                BY <4>5, IdleTyped DEF BlockRowElsewhere, PollerRecord
            <4>3. CASE ChooseBatch
                BY <1>0, <4>3, IdleTyped DEF ChooseBatch, ToNext, PollerRecord
            <4>4. CASE \/ \E c \in Chats : PollChat(c) \/ ListedAsBlocked(c)
                       \/ \E kind \in Kinds \ {"send"} : FetchDenied(kind) \/ DeniedForGood(kind)
                BY <1>0, <4>4, IdleTyped
                   DEF PollChat, ListedAsBlocked, FetchDenied, ToBlock, ToNext, DeniedForGood, PollerRecord
            <4> QED
                BY <1>4, <3>1, <4>1, <4>2, <4>3, <4>4, <4>5 DEF Poll
        <3>2. CASE Restart \/ RestartBlind
            BY <3>2, IdleTyped DEF Restart, RestartBlind, Ended
        <3>3. CASE \/ UNCHANGED vars \/ Web
                   \/ \E s \in Senders : SendStep(s)
            BY <3>3 DEF vars, pollerVars, Web, ClearSkip, ClearTable, ClearTableFails, SendStep, Send,
                        SendEnds, SendFails, SendAdd, SendRaise, SendCool
        <3> QED
            BY <3>1, <3>2, <3>3 DEF Next
    <2> QED
        BY <2>1, <2>2 DEF Gentle, Freeing, Amid
<1> QED
    BY <1>1, <1>2, <1>3, <1>4

\* steps of the other threads and the steps of the polling thread that touch
\* neither the set nor the history
LEMMA MatchKept ==
    ASSUME SkipMatchesRows, Gentle, UNCHANGED <<skip, torn>>, web' = web \/ web' = "table",
           \A c : (Amid(c, "blocking") => Amid(c, "blocking")') /\ (Amid(c, "freeing") => Amid(c, "freeing")')
    PROVE  SkipMatchesRows'
BY DEF SkipMatchesRows, Gentle

LEMMA MatchStep ==
    ASSUME TypeOK, Freeing, SkipMatchesRows, [Next]_vars
    PROVE  SkipMatchesRows'
<1> USE DEF At
<1>0. StoreTypeOK /\ poller \in PollerRecord
    BY DEF TypeOK, PollerTypeOK, PollerRecord, RowsLoaded
<1>1. ASSUME NEW c \in Chats, FreeListed(c) \/ ProbeFinds(c)
      PROVE  SkipMatchesRows'
    <2>1. Blocked' = Blocked \ {c} /\ \A d \in Blocked' : table'[d] = table[d]
        BY <1>0, <1>1, RemoveKeepsStore DEF FreeListed, ProbeFinds, Free
    <2>2. Amid(c, "freeing")' /\ poller.at \in {"rows", "probe"} /\ UNCHANGED <<skip, torn, web>>
        BY <1>0, <1>1 DEF FreeListed, ProbeFinds, Free, AtRow, Amid, PollerRecord
    <2> QED
        BY <2>1, <2>2 DEF SkipMatchesRows, Amid
<1>2. CASE BlockRow
    <2> DEFINE c == poller.chat
    <2>1. c \in Chats /\ poller.kind \in Kinds
        BY <1>2 DEF BlockRow, Blocking, TypeOK, PollerTypeOK
    <2>3. Blocked' = Blocked \cup {c} /\ \A d \in Blocked \ {c} : table'[d] = table[d]
        BY <1>2 DEF BlockRow, AddRow, Put, Blocked
    <2>4. /\ poller'.chat = c /\ poller'.at = "blocking" /\ poller.at \notin {"blocking", "freeing"}
          /\ UNCHANGED <<skip, torn, web>>
        BY <1>2, IdleTyped DEF BlockRow, Blocking, PollerRecord
    <2> HIDE DEF c
    <2>5. \A d \in Blocked' : table'[d].kind # "send" =>
              d \in skip' \/ d \in torn' \/ Amid(d, "blocking")' \/ web' = "table"
        BY <2>3, <2>4 DEF SkipMatchesRows, Amid
    <2>6. \A d \in skip' : d \in Blocked' \/ d \in torn' \/ Amid(d, "freeing")'
        BY <2>3, <2>4 DEF SkipMatchesRows, Amid
    <2> QED
        BY <2>5, <2>6 DEF SkipMatchesRows
<1>3. CASE BlockSkip \/ BlockRowFails
    <2>1. /\ skip' = skip \cup {poller.chat} /\ table' = table /\ web' = web
          /\ torn' = IF poller.chat \in Blocked THEN torn \ {poller.chat} ELSE torn \cup {poller.chat}
          /\ poller.at # "freeing"
        BY <1>3 DEF BlockSkip, BlockRowFails, Blocking, storeVars
    <2> QED
        BY <2>1 DEF SkipMatchesRows, Amid, Blocked
<1>4. CASE FreeSkip
    <2>1. skip' = skip \ {poller.chat} /\ torn' = torn \ {poller.chat} /\ table' = table /\ web' = web
          /\ poller.at = "freeing"
        BY <1>4 DEF FreeSkip, storeVars
    <2> QED
        BY <2>1 DEF SkipMatchesRows, Freeing, Amid, Blocked
<1>5. CASE Web
    <2>1. CASE ClearSkip
        BY <2>1 DEF ClearSkip, SkipMatchesRows
    <2>2. CASE ClearTable
        <3>1. DOMAIN << >> = {}
            OBVIOUS
        <3>2. Blocked' = {} /\ torn' = skip' /\ skip' = skip
            BY <2>2, <3>1 DEF ClearTable, pollerVars, Blocked
        <3> QED
            BY <3>2 DEF SkipMatchesRows
    <2>3. CASE ClearTableFails
        BY <2>3 DEF ClearTableFails, SkipMatchesRows, Amid, storeVars, pollerVars, Blocked
    <2> QED
        BY <1>5, <2>1, <2>2, <2>3 DEF Web
<1>6. CASE Restart \/ RestartBlind
    <2>1. Blocked' = Blocked
        BY <1>6 DEF Restart, RestartBlind, Ended, Blocked
    <2>2. (skip' = Blocked /\ torn' = {}) \/ (skip' = {} /\ torn' = Blocked)
        BY <1>6 DEF Restart, RestartBlind
    <2> QED
        BY <2>1, <2>2 DEF SkipMatchesRows
<1>7. CASE /\ ~BlockRow /\ ~BlockSkip /\ ~BlockRowFails /\ ~FreeSkip /\ ~Web
           /\ ~Restart /\ ~RestartBlind
           /\ ~\E c \in Chats : FreeListed(c) \/ ProbeFinds(c)
    <2>1. Gentle
        BY <1>7, TableSteps DEF Web
    <2>2. UNCHANGED <<skip, torn, web>>
        BY <1>7
           DEF Next, vars, pollerVars, Poll, NewCycle, Fetched, FetchFailed, Load, LoadRows, KeepRow, ProbeRow,
               RaiseRow, StoreFails, ChooseBatch, ProbeFails, ProbesDone, PollChat, ListedAsBlocked,
               BlockRowElsewhere, FetchDenied, DeniedForGood, SendStep, Send, SendEnds, SendFails, SendAdd, SendRaise, SendCool
    <2>3. poller' = poller \/ poller.at \notin {"blocking", "freeing"}
        BY <1>7
           DEF Next, vars, pollerVars, Poll, NewCycle, Fetched, FetchFailed, Load, LoadRows, KeepRow, ProbeRow,
               RaiseRow, StoreFails, ChooseBatch, ProbeFails, ProbesDone, PollChat, ListedAsBlocked,
               BlockRowElsewhere, FetchDenied, AtRow, DeniedForGood, SendStep, Send, SendEnds, SendFails, SendAdd, SendRaise, SendCool
    <2> QED
        BY <2>1, <2>2, <2>3, MatchKept DEF Amid
<1> QED
    BY <1>1, <1>2, <1>3, <1>4, <1>5, <1>6, <1>7

\* Rows and the set in memory agree but in the middle of a change, after a
\* failed write or one to another platform's table, after a start that could not
\* read the rows, and after a clear that met a block.
THEOREM AlwaysMatched == Spec => []SkipMatchesRows
<1> DEFINE IInv == TypeOK /\ Freeing /\ SkipMatchesRows
<1>1. Init => IInv
    <2>1. DOMAIN << >> = {}
        OBVIOUS
    <2>2. Init => Blocked = {} /\ skip = {}
        BY <2>1 DEF Init, Blocked
    <2> QED
        BY <2>2, InitTyped DEF Freeing, SkipMatchesRows
<1>2. IInv /\ [Next]_vars => IInv'
    BY StepTyped, FreeingStep, MatchStep
<1> QED
    BY <1>1, <1>2, PTL DEF Spec
=============================================================================

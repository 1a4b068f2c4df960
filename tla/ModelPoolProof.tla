--------------------------- MODULE ModelPoolProof ---------------------------
(***************************************************************************)
(* Proofs about the pool of models, for any number of threads, models,      *)
(* tries and permits.                                                       *)
(***************************************************************************)
EXTENDS ModelPool, FiniteSetTheorems, TLAPS

-----------------------------------------------------------------------------
(* The inductive invariant.                                                 *)

InPrimary == ToSet(Primary)
Trying == {"check", "wait", "call", "find", "pop", "append"}
Called == Trying \ {"check"}
OutsideTurns == {"idle", "copy", "done"}

\* what TypeOK says of one chat
Typed(c) ==
    /\ c.next \in 1..(Len(OrderOf(c)) + 1)
    /\ c.at \in Asking => c.next \in DOMAIN OrderOf(c)
    /\ c.at = "pop" => c.index # 0
    /\ c.held # NoModel <=> c.at = "append"
    /\ c.outcome # "none" <=> c.at = "done"
    /\ c.at = "idle" => c = Idle

\* copies, streams and rotations belong to the first layer
Layered(c) ==
    /\ c.at \in {"copy", "stream", "stream wait", "stream call", "find", "pop", "append"}
          => c.layer = "primary"
    /\ c.at = "copy" => c.next = 1 /\ c.index = Len(c.attempts)

\* the models before the one that is tried had their turn
Turns(c) ==
    /\ c.at \in Trying \cup {"pick"} =>
         /\ \A k \in 1..(c.next - 1) : OrderOf(c)[k] \in c.turns
         /\ c.layer # "primary" => ToSet(c.attempts) \subseteq c.turns
         /\ c.layer = "secondary" => ToSet(Fallback) \subseteq c.turns
    /\ c.at \in Called => OrderOf(c)[c.next] \in c.turns

\* a copy made in peace has every model of the pool
Copied(c) == c.at \notin OutsideTurns /\ ~c.raced => InPrimary \subseteq ToSet(c.attempts)

\* the promise of AskedUnlessRaced, of one chat
Failed(c) ==
    /\ c.outcome \in {"exhausted", "failed"} /\ ~c.raced => Configured \subseteq c.turns
    /\ c.outcome = "index error" => c.shifted

Local(c) == Typed(c) /\ Layered(c) /\ Turns(c) /\ Copied(c) /\ Failed(c)

\* a copy that nothing has disturbed agrees with the pool so far
Peaceful(c) ==
    /\ \A u \in Threads : chat[u].at # "append"
    /\ c.index <= Len(pool)
    /\ \A k \in 1..c.index : c.attempts[k] = pool[k]
Copying == \A t \in Threads : At(t, "copy") /\ ~chat[t].raced => Peaceful(chat[t])

\* an index that no rotation came after is one of the pool
Fits(c) == c.at = "pop" /\ ~c.shifted => c.index <= Len(pool)

\* each model is in one place
Apart ==
    /\ \A j, k \in DOMAIN pool : pool[j] = pool[k] => j = k
    /\ \A t \in Threads : chat[t].held # NoModel => chat[t].held \notin ToSet(pool)
    /\ \A t, u \in Threads : chat[t].held # NoModel /\ chat[t].held = chat[u].held => t = u
Whole == \A m \in InPrimary : m \in ToSet(pool) \/ \E t \in Threads : chat[t].held = m

IInv ==
    /\ TypeOK
    /\ \A t \in Threads : Local(chat[t]) /\ Fits(chat[t])
    /\ Copying /\ Apart /\ Whole

-----------------------------------------------------------------------------
(* Sequences and types.                                                     *)

LEMMA RemoveOne ==
    ASSUME NEW S, NEW q \in Seq(S), NEW i \in DOMAIN q,
           \A j, k \in DOMAIN q : q[j] = q[k] => j = k
    PROVE  /\ RemoveAt(q, i) \in Seq(S)
           /\ {RemoveAt(q, i)[j] : j \in DOMAIN RemoveAt(q, i)} = {q[j] : j \in DOMAIN q} \ {q[i]}
           /\ \A j, k \in DOMAIN RemoveAt(q, i) : RemoveAt(q, i)[j] = RemoveAt(q, i)[k] => j = k
<1> DEFINE d == RemoveAt(q, i)
<1>1. i \in 1 .. Len(q) /\ Len(q) \in Nat /\ DOMAIN q = 1 .. Len(q)
    OBVIOUS
<1>2. /\ SubSeq(q, 1, i - 1) \in Seq(S) /\ Len(SubSeq(q, 1, i - 1)) = i - 1
      /\ SubSeq(q, i + 1, Len(q)) \in Seq(S) /\ Len(SubSeq(q, i + 1, Len(q))) = Len(q) - i
    BY <1>1
<1> DEFINE front == SubSeq(q, 1, i - 1)  back == SubSeq(q, i + 1, Len(q))
<1>a. /\ \A j \in 1 .. i - 1 : front[j] = q[j]
      /\ \A j \in 1 .. Len(q) - i : back[j] = q[j + i]
    BY <1>1
<1>b. d = front \o back
    BY DEF RemoveAt
<1>c. /\ d \in Seq(S) /\ Len(d) = Len(q) - 1 /\ DOMAIN d = 1 .. Len(q) - 1
    <2> HIDE DEF d, front, back
    <2> QED
        BY <1>1, <1>2, <1>b DEF front, back
<1>d. \A j \in 1 .. Len(q) - 1 : d[j] = IF j < i THEN front[j] ELSE back[j - (i - 1)]
    <2>1. ASSUME NEW u \in Seq(S), NEW v \in Seq(S), NEW j \in 1 .. Len(u) + Len(v)
          PROVE  (u \o v)[j] = IF j <= Len(u) THEN u[j] ELSE v[j - Len(u)]
        OBVIOUS
    <2> HIDE DEF d, front, back
    <2>2. /\ front \in Seq(S) /\ Len(front) = i - 1
          /\ back \in Seq(S) /\ Len(back) = Len(q) - i
        BY <1>2 DEF front, back
    <2>3. ASSUME NEW j \in 1 .. Len(q) - 1
          PROVE  d[j] = IF j <= i - 1 THEN front[j] ELSE back[j - (i - 1)]
        <3>1. j \in 1 .. Len(front) + Len(back)
            BY <1>1, <2>2
        <3> QED
            BY <1>b, <2>1, <2>2, <3>1
    <2> QED
        BY <1>1, <2>3
<1>3. /\ d \in Seq(S) /\ Len(d) = Len(q) - 1 /\ DOMAIN d = 1 .. Len(q) - 1
      /\ \A j \in 1 .. Len(q) - 1 : d[j] = IF j < i THEN q[j] ELSE q[j + 1]
    <2> HIDE DEF d, front, back
    <2>1. ASSUME NEW j \in 1 .. Len(q) - 1
          PROVE  d[j] = IF j < i THEN q[j] ELSE q[j + 1]
        <3>1. CASE j < i
            BY <1>1, <1>a, <1>d, <3>1
        <3>2. CASE j >= i
            <4>1. j - (i - 1) \in 1 .. Len(q) - i /\ (j - (i - 1)) + i = j + 1
                BY <1>1, <3>2
            <4> QED
                BY <1>1, <1>a, <1>d, <3>2, <4>1
        <3> QED
            BY <1>1, <3>1, <3>2
    <2> QED
        BY <1>c, <2>1
<1>4. {d[j] : j \in DOMAIN d} = {q[j] : j \in DOMAIN q} \ {q[i]}
    <2>1. ASSUME NEW j \in DOMAIN d
          PROVE  d[j] \in {q[k] : k \in DOMAIN q} \ {q[i]}
        BY <1>1, <1>3, <2>1
    <2>2. ASSUME NEW k \in DOMAIN q, q[k] # q[i]
          PROVE  q[k] \in {d[j] : j \in DOMAIN d}
        <3>1. k < i \/ k > i
            BY <1>1, <2>2
        <3>2. CASE k < i
            <4>1. k \in DOMAIN d /\ d[k] = q[k]
                BY <1>1, <1>3, <3>2
            <4> QED
                BY <4>1
        <3>3. CASE k > i
            <4>1. k - 1 \in DOMAIN d /\ d[k - 1] = q[k]
                BY <1>1, <1>3, <3>3
            <4> QED
                BY <4>1
        <3> QED
            BY <3>1, <3>2, <3>3
    <2> QED
        BY <2>1, <2>2
<1>5. \A j, k \in DOMAIN d : d[j] = d[k] => j = k
    <2> SUFFICES ASSUME NEW j \in 1 .. Len(q) - 1, NEW k \in 1 .. Len(q) - 1, d[j] = d[k]
                 PROVE  j = k
        BY <1>3
    <2> DEFINE f(x) == IF x < i THEN x ELSE x + 1
    <2>1. f(j) \in DOMAIN q /\ f(k) \in DOMAIN q /\ q[f(j)] = d[j] /\ q[f(k)] = d[k]
        BY <1>1, <1>3
    <2>2. f(j) = f(k)
        <3> HIDE DEF f
        <3> QED
            BY <2>1
    <2> QED
        BY <1>1, <2>2
<1> QED
    BY <1>3, <1>4, <1>5

LEMMA Interval ==
    ASSUME NEW n \in Nat
    PROVE  IsFiniteSet(1..n) /\ Cardinality(1..n) = n
<1>1. 1 \in Int /\ n \in Int /\ n - 1 + 1 = n /\ (1 > n => n = 0)
    OBVIOUS
<1>2. /\ IsFiniteSet(1..n)
      /\ Cardinality(1..n) = IF 1 > n THEN 0 ELSE n - 1 + 1
    BY <1>1, FS_Interval
<1> QED
    BY <1>1, <1>2

\* A set of callers within the bound, less some or with one more.
LEMMA Permits ==
    ASSUME NEW S, NEW T, NEW x, IsFiniteSet(S), Cardinality(S) <= Slots,
           T \subseteq S \/ (T \subseteq S \cup {x} /\ Cardinality(S) < Slots)
    PROVE  Cardinality(T) <= Slots
<1>0. Slots \in Nat
    BY ModelPoolAssumption
<1>1. Cardinality(S) \in Nat
    BY FS_CardinalityType
<1>2. CASE T \subseteq S
    <2>1. IsFiniteSet(T) /\ Cardinality(T) <= Cardinality(S)
        BY <1>2, FS_Subset
    <2>2. Cardinality(T) \in Nat
        BY <2>1, FS_CardinalityType
    <2> QED
        BY <1>0, <1>1, <2>1, <2>2
<1>3. CASE T \subseteq S \cup {x} /\ Cardinality(S) < Slots
    <2>1. /\ IsFiniteSet(S \cup {x}) /\ Cardinality(S \cup {x}) \in Nat
          /\ Cardinality(S \cup {x}) <= Cardinality(S) + 1
        <3>1. /\ IsFiniteSet(S \cup {x})
              /\ Cardinality(S \cup {x}) =
                   IF x \in S THEN Cardinality(S) ELSE Cardinality(S) + 1
            BY FS_AddElement
        <3> QED
            BY <1>1, <3>1
    <2>2. IsFiniteSet(T) /\ Cardinality(T) <= Cardinality(S \cup {x})
        BY <1>3, <2>1, FS_Subset
    <2>3. Cardinality(T) \in Nat
        BY <2>2, FS_CardinalityType
    <2> QED
        BY <1>0, <1>1, <1>3, <2>1, <2>2, <2>3
<1> QED
    BY <1>2, <1>3

\* An injective sequence over the models of the pool is no longer than Primary.
LEMMA NoLonger ==
    ASSUME NEW s \in Seq(InPrimary), \A j, k \in DOMAIN s : s[j] = s[k] => j = k
    PROVE  Len(s) <= Len(Primary)
<1>1. Primary \in Seq(Models) /\ Len(Primary) \in Nat /\ DOMAIN Primary = 1..Len(Primary)
    BY ModelPoolAssumption
<1>2. Primary \in Surjection(1..Len(Primary), InPrimary)
    BY <1>1 DEF InPrimary, ToSet, Surjection
<1>3. IsFiniteSet(1..Len(Primary)) /\ Cardinality(1..Len(Primary)) = Len(Primary)
    BY <1>1, Interval
<1>4. IsFiniteSet(InPrimary) /\ Cardinality(InPrimary) <= Len(Primary)
    BY <1>2, <1>3, FS_Surjection
<1>5. Len(s) \in Nat /\ DOMAIN s = 1..Len(s) /\ s \in [1..Len(s) -> InPrimary]
    OBVIOUS
<1>6. s \in Injection(1..Len(s), InPrimary)
    BY <1>5 DEF Injection, IsInjective
<1>7. Cardinality(1..Len(s)) <= Cardinality(InPrimary)
    BY <1>4, <1>6, FS_Injection
<1>8. Cardinality(1..Len(s)) = Len(s)
    BY <1>5, Interval
<1>9. Cardinality(InPrimary) \in Nat
    BY <1>4, FS_CardinalityType
<1> QED
    BY <1>1, <1>4, <1>5, <1>7, <1>8, <1>9

LEMMA ModelsAre ==
    /\ InPrimary \subseteq Models /\ NoModel \notin Models
    /\ ToSet(Fallback) \subseteq Models /\ ToSet(Secondary) \subseteq Models
    /\ Fallback \in Seq(Models) /\ Secondary \in Seq(Models) /\ Primary \in Seq(Models)
    /\ MaxRetries \in Nat /\ MaxRetries # 0 /\ Slots \in Nat /\ Slots # 0
    BY ModelPoolAssumption DEF Models, InPrimary

LEMMA IdleTyped ==
    /\ Idle \in ChatStates
    /\ Idle.at = "idle" /\ Idle.held = NoModel /\ Idle.outcome = "none"
    /\ Idle.attempts = <<>> /\ Idle.next = 1 /\ Idle.layer = "primary" /\ Idle.index = 0
    /\ Idle.turns = {} /\ Idle.shifted = FALSE
<1>1. <<>> \in Seq(InPrimary) /\ 0 \in 0..MaxRetries /\ {} \in SUBSET Models
    BY ModelsAre
<1> QED
    BY <1>1 DEF Idle, ChatStates, Places, Outcomes, InPrimary

LEMMA IdleLocal == Local(Idle)
<1>1. OrderOf(Idle) = <<>> /\ Len(OrderOf(Idle)) = 0
    BY IdleTyped DEF OrderOf
<1>2. Typed(Idle)
    BY <1>1, IdleTyped DEF Typed, Asking
<1>3. Layered(Idle) /\ Turns(Idle) /\ Copied(Idle) /\ Failed(Idle)
    BY IdleTyped DEF Layered, Turns, Copied, Failed, Trying, Called, OutsideTurns
<1> QED
    BY <1>2, <1>3 DEF Local

\* The order of a layer is a sequence of models.
LEMMA OrderTyped ==
    ASSUME NEW c \in ChatStates
    PROVE  /\ OrderOf(c) \in Seq(Models) /\ Len(OrderOf(c)) \in Nat
           /\ DOMAIN OrderOf(c) = 1..Len(OrderOf(c))
           /\ \A k \in DOMAIN OrderOf(c) : OrderOf(c)[k] \in Models
<1>1. c.attempts \in Seq(InPrimary) /\ c.layer \in {"primary", "fallback", "secondary"}
    BY DEF ChatStates, InPrimary
<1>2. c.attempts \in Seq(Models)
    BY <1>1, ModelsAre
<1>3. OrderOf(c) \in Seq(Models)
    BY <1>1, <1>2, ModelsAre DEF OrderOf
<1> QED
    BY <1>3

\* What a chat has, by its type.
LEMMA ChatHas ==
    ASSUME IInv, NEW t \in Threads
    PROVE  /\ chat[t] \in ChatStates /\ Local(chat[t])
           /\ chat[t].at \in Places /\ chat[t].stream \in BOOLEAN
           /\ chat[t].attempts \in Seq(InPrimary) /\ chat[t].next \in Nat
           /\ chat[t].layer \in {"primary", "fallback", "secondary"}
           /\ chat[t].tries \in 0..MaxRetries /\ chat[t].index \in Nat
           /\ chat[t].held \in InPrimary \cup {NoModel} /\ chat[t].tried \in BOOLEAN
           /\ chat[t].limited \in BOOLEAN /\ chat[t].outcome \in Outcomes
           /\ chat[t].turns \subseteq Models /\ chat[t].raced \in BOOLEAN
           /\ chat[t].shifted \in BOOLEAN /\ Fits(chat[t])
    BY DEF IInv, TypeOK, ChatStates, InPrimary

LEMMA InitInv == Init => IInv
<1> SUFFICES ASSUME Init PROVE IInv
    OBVIOUS
<1>0. \A t \in Threads : chat[t] = Idle
    BY DEF Init
<1>1. TypeOK
    <2>1. pool \in Seq(InPrimary)
        BY ModelsAre DEF Init, InPrimary, ToSet
    <2>2. chat \in [Threads -> ChatStates]
        BY IdleTyped DEF Init
    <2>3. Calling = {}
        BY <1>0, IdleTyped DEF Calling
    <2>4. Cardinality(Calling) <= Slots
        BY <2>3, FS_EmptySet, ModelsAre
    <2>5. \A t \in Threads : Typed(chat[t])
        BY <1>0, IdleLocal DEF Local
    <2>6. Len(pool) <= Len(Primary) /\ cool \subseteq Models
        BY ModelsAre DEF Init
    <2> QED
        BY <2>1, <2>2, <2>4, <2>5, <2>6 DEF TypeOK, Typed, Order, InPrimary
<1>2. \A t \in Threads : Local(chat[t]) /\ Fits(chat[t])
    BY <1>0, IdleLocal, IdleTyped DEF Fits
<1>3. Copying
    BY <1>0, IdleTyped DEF Copying, At
<1>4. Apart /\ Whole
    BY <1>0, IdleTyped, ModelPoolAssumption DEF Apart, Whole, Init, IsInjective, InPrimary
<1> QED
    BY <1>1, <1>2, <1>3, <1>4 DEF IInv

-----------------------------------------------------------------------------
(* Steps of one thread that leave the pool alone.                           *)

LEMMA StepKeeps ==
    ASSUME IInv, NEW t \in Threads, NEW c \in ChatStates,
           chat' = [chat EXCEPT ![t] = c], pool' = pool, cool' \subseteq Models,
           Local(c), c.held = NoModel, chat[t].held = NoModel,
           c.at = "copy" /\ ~c.raced => Peaceful(c), Fits(c),
           c.at \in {"stream call", "call"} =>
               chat[t].at \in {"stream call", "call"} \/ Cardinality(Calling) < Slots
    PROVE  IInv'
<1>1. /\ chat' \in [Threads -> ChatStates] /\ chat'[t] = c
      /\ \A u \in Threads : u # t => chat'[u] = chat[u]
    BY DEF IInv, TypeOK
<1>2. \A u \in Threads : Local(chat'[u])
    BY <1>1 DEF IInv
<1>f. \A u \in Threads : Fits(chat[u])'
    <2>1. \A u \in Threads : Fits(chat'[u])
        BY <1>1 DEF IInv
    <2> QED
        BY <2>1 DEF Fits
<1>3. c.at # "append" /\ chat[t].at # "append"
    BY DEF Local, Typed, IInv
<1>4. Cardinality(Calling') <= Slots
    <2> DEFINE before == Calling  after == Calling'
    <2>1. IsFiniteSet(before) /\ Cardinality(before) <= Slots
        <3>1. Calling \subseteq Threads /\ IsFiniteSet(Threads)
            BY ModelPoolAssumption DEF Calling
        <3>2. IsFiniteSet(Calling)
            BY <3>1, FS_Subset
        <3> QED
            BY <3>2 DEF IInv, TypeOK
    <2>2. after \subseteq before \/ (after \subseteq before \cup {t} /\ Cardinality(before) < Slots)
        BY <1>1 DEF Calling
    <2> HIDE DEF before, after
    <2>3. Cardinality(after) <= Slots
        BY <2>1, <2>2, Permits
    <2> QED
        BY <2>3 DEF after
<1>5. TypeOK'
    BY <1>1, <1>2, <1>4 DEF IInv, TypeOK, Local, Typed, Order
<1>6. Copying'
    <2> SUFFICES ASSUME NEW u \in Threads, chat'[u].at = "copy", ~chat'[u].raced
                 PROVE  Peaceful(chat[u])'
        BY DEF Copying, At
    <2>1. Peaceful(chat'[u])
        BY <1>1 DEF IInv, Copying, At
    <2> QED
        BY <1>1, <1>3, <2>1 DEF Peaceful
<1>7. Apart' /\ Whole'
    <2>1. \A u \in Threads : chat'[u].held = chat[u].held
        BY <1>1
    <2>2. Apart /\ Whole
        BY DEF IInv
    <2>3. Apart'
        BY <2>1, <2>2 DEF Apart
    <2>4. Whole'
        BY <2>1, <2>2 DEF Whole
    <2> QED
        BY <2>3, <2>4
<1> QED
    BY <1>2, <1>f, <1>5, <1>6, <1>7 DEF IInv

\* A step between two models of a layer, or at one of them.
LEMMA MoveKeeps ==
    ASSUME IInv, NEW t \in Threads, NEW c \in ChatStates,
           chat' = [chat EXCEPT ![t] = c], pool' = pool, cool' \subseteq Models,
           chat[t].at \in Trying \cup {"pick"}, chat[t].held = NoModel,
           c.at \in (Trying \cup {"pick"}) \ {"append"}, c.held = NoModel,
           c.attempts = chat[t].attempts, c.layer = chat[t].layer,
           c.raced = chat[t].raced, c.outcome = "none", chat[t].turns \subseteq c.turns,
           \/ c.next = chat[t].next
           \/ /\ c.next = chat[t].next + 1 /\ c.at = "pick"
              /\ chat[t].next \in DOMAIN OrderOf(chat[t])
              /\ OrderOf(chat[t])[chat[t].next] \in c.turns,
           c.at \in Asking => c.next \in DOMAIN OrderOf(chat[t]),
           c.at \in Called => OrderOf(chat[t])[c.next] \in c.turns,
           c.at \in {"find", "pop"} => c.layer = "primary",
           c.at = "pop" => c.index # 0 /\ c.index <= Len(pool),
           c.at = "call" => Cardinality(Calling) < Slots
    PROVE  IInv'
<1> DEFINE o == chat[t]
<1>1. /\ o \in ChatStates /\ Typed(o) /\ Layered(o) /\ Turns(o) /\ Copied(o) /\ Failed(o)
    BY ChatHas DEF Local
<1>2. OrderOf(c) = OrderOf(o)
    BY DEF OrderOf
<1>3. /\ Len(OrderOf(o)) \in Nat /\ DOMAIN OrderOf(o) = 1..Len(OrderOf(o))
      /\ o.next \in Nat /\ c.next \in Nat
    BY <1>1, OrderTyped DEF ChatStates
<1> HIDE DEF o
<1>4. Typed(c)
    <2>1. o.next \in 1..(Len(OrderOf(o)) + 1)
        BY <1>1 DEF Typed
    <2>2. c.next \in 1..(Len(OrderOf(o)) + 1)
        BY <1>3, <2>1 DEF o
    <2> QED
        BY <1>2, <2>2 DEF Typed, Trying, o
<1>5. Layered(c)
    BY DEF Layered, Trying
<1>6. Turns(c)
    <2>1. /\ \A k \in 1..(o.next - 1) : OrderOf(o)[k] \in c.turns
          /\ c.layer # "primary" => ToSet(c.attempts) \subseteq c.turns
          /\ c.layer = "secondary" => ToSet(Fallback) \subseteq c.turns
        BY <1>1 DEF Turns, o
    <2>2. \A k \in 1..(c.next - 1) : OrderOf(o)[k] \in c.turns
        <3>1. CASE c.next = o.next
            BY <2>1, <3>1
        <3>2. CASE c.next = o.next + 1 /\ OrderOf(o)[o.next] \in c.turns
            <4>1. ASSUME NEW k \in 1..(c.next - 1) PROVE k \in 1..(o.next - 1) \/ k = o.next
                BY <1>3, <3>2
            <4> QED
                BY <2>1, <3>2, <4>1
        <3> QED
            BY <3>1, <3>2 DEF o
    <2> QED
        BY <1>2, <2>1, <2>2 DEF Turns, o
<1>7. Copied(c) /\ Failed(c)
    BY <1>1 DEF Copied, Failed, OutsideTurns, Trying, o
<1>8. Local(c)
    BY <1>4, <1>5, <1>6, <1>7 DEF Local
<1>9. /\ c.at # "copy" /\ c.at # "stream call" /\ Fits(c)
    BY DEF Trying, Fits
<1> QED
    BY <1>8, <1>9, StepKeeps

\* The model of a turn.
LEMMA TurnHas ==
    ASSUME IInv, NEW t \in Threads, chat[t].next <= Len(Order(t)) \/ chat[t].at \in Asking
    PROVE  /\ chat[t].next \in DOMAIN OrderOf(chat[t]) /\ Model(t) \in Models
           /\ Model(t) = OrderOf(chat[t])[chat[t].next]
           /\ chat[t].next + 1 \in Nat /\ chat[t].turns \subseteq Models
           /\ chat[t].at # "append" => chat[t].held = NoModel
           /\ chat[t].at # "done" => chat[t].outcome = "none"
           /\ chat[t] \in ChatStates /\ cool \subseteq Models
           /\ chat[t].at \in Called => Model(t) \in chat[t].turns
           /\ chat[t].at \in {"find", "pop", "append"} => chat[t].layer = "primary"
<1>1. /\ chat[t] \in ChatStates /\ Typed(chat[t]) /\ chat[t].next \in Nat
      /\ Layered(chat[t]) /\ Turns(chat[t])
    BY ChatHas DEF Local
<1>2. chat[t].next \in 1..(Len(OrderOf(chat[t])) + 1)
    BY <1>1 DEF Typed
<1>3. /\ DOMAIN OrderOf(chat[t]) = 1..Len(OrderOf(chat[t])) /\ Len(OrderOf(chat[t])) \in Nat
      /\ \A k \in DOMAIN OrderOf(chat[t]) : OrderOf(chat[t])[k] \in Models
    BY <1>1, OrderTyped
<1>4. chat[t].next \in DOMAIN OrderOf(chat[t])
    BY <1>1, <1>2, <1>3 DEF Typed, Order
<1>5. cool \subseteq Models /\ chat[t].turns \subseteq Models
    BY ChatHas DEF IInv, TypeOK
<1>6. /\ chat[t].at # "append" => chat[t].held = NoModel
      /\ chat[t].at # "done" => chat[t].outcome = "none"
    BY <1>1 DEF Typed
<1>7. /\ chat[t].at \in Called => OrderOf(chat[t])[chat[t].next] \in chat[t].turns
      /\ chat[t].at \in {"find", "pop", "append"} => chat[t].layer = "primary"
    BY <1>1 DEF Turns, Layered
<1> QED
    BY <1>1, <1>3, <1>4, <1>5, <1>6, <1>7 DEF Model, Order

LEMMA TriesAre ==
    /\ 0 \in 0..MaxRetries /\ 1 \in 0..MaxRetries
    /\ \A n \in 0..MaxRetries : n = MaxRetries => ~(n < MaxRetries)
<1>1. MaxRetries \in Nat /\ MaxRetries # 0
    BY ModelPoolAssumption
<1> QED
    BY <1>1

LEMMA SkipCoolingKeeps == ASSUME IInv, NEW t \in Threads, SkipCooling(t) PROVE IInv'
<1> DEFINE o == chat[t]
<1>1. o.at = "pick" /\ o.next <= Len(Order(t)) /\ pool' = pool /\ cool' \subseteq cool \cup {Model(t)}
    BY DEF SkipCooling, At, Cooling
<1>2. /\ o.next \in DOMAIN OrderOf(o) /\ Model(t) \in Models /\ Model(t) = OrderOf(o)[o.next]
      /\ o.next + 1 \in Nat /\ o.turns \subseteq Models /\ o.held = NoModel
      /\ o.outcome = "none" /\ o \in ChatStates /\ cool' \subseteq Models
    BY <1>1, TurnHas DEF Asking
<1> DEFINE c == [o EXCEPT !.next = o.next + 1, !.turns = o.turns \cup {Model(t)}]
<1>3. c \in ChatStates
    BY <1>1, <1>2 DEF ChatStates, Places, Asking, InPrimary
<1>4. chat' = [chat EXCEPT ![t] = c]
    BY <1>1 DEF SkipCooling, At, Cooling, IInv, TypeOK
<1>5. /\ c.attempts = o.attempts /\ c.layer = o.layer /\ c.raced = o.raced
      /\ c.held = NoModel /\ c.outcome = "none"
      /\ c.at = "pick" /\ c.next = o.next + 1
      /\ c.turns = o.turns \cup {Model(t)}
    BY <1>1, <1>2 DEF ChatStates
<1> HIDE DEF c
<1> QED
    BY <1>1, <1>2, <1>3, <1>4, <1>5, MoveKeeps DEF Trying, Called, Asking

LEMMA PickKeeps == ASSUME IInv, NEW t \in Threads, Pick(t) PROVE IInv'
<1> DEFINE o == chat[t]
<1>1. o.at = "pick" /\ o.next <= Len(Order(t)) /\ pool' = pool /\ cool' \subseteq cool \cup {Model(t)}
    BY DEF Pick, At, Warm
<1>2. /\ o.next \in DOMAIN OrderOf(o) /\ Model(t) \in Models /\ Model(t) = OrderOf(o)[o.next]
      /\ o.next + 1 \in Nat /\ o.turns \subseteq Models /\ o.held = NoModel
      /\ o.outcome = "none" /\ o \in ChatStates /\ cool' \subseteq Models
    BY <1>1, TurnHas DEF Asking
<1> DEFINE c == [o EXCEPT !.at = "check", !.tries = 1]
<1>3. c \in ChatStates
    BY <1>1, <1>2, TriesAre DEF ChatStates, Places, Asking, InPrimary
<1>4. chat' = [chat EXCEPT ![t] = c]
    BY <1>1 DEF Pick, At, Warm, IInv, TypeOK
<1>5. /\ c.attempts = o.attempts /\ c.layer = o.layer /\ c.raced = o.raced
      /\ c.held = NoModel /\ c.outcome = "none"
      /\ c.at = "check" /\ c.next = o.next
      /\ c.turns = o.turns
    BY <1>1, <1>2 DEF ChatStates
<1> HIDE DEF c
<1> QED
    BY <1>1, <1>2, <1>3, <1>4, <1>5, MoveKeeps DEF Trying, Called, Asking

LEMMA CheckFindsCoolingKeeps == ASSUME IInv, NEW t \in Threads, CheckFindsCooling(t) PROVE IInv'
<1> DEFINE o == chat[t]
<1>1. o.at = "check" /\ pool' = pool /\ cool' \subseteq cool \cup {Model(t)}
    BY DEF CheckFindsCooling, At, Cooling, TakeTurn
<1>2. /\ o.next \in DOMAIN OrderOf(o) /\ Model(t) \in Models /\ Model(t) = OrderOf(o)[o.next]
      /\ o.next + 1 \in Nat /\ o.turns \subseteq Models /\ o.held = NoModel
      /\ o.outcome = "none" /\ o \in ChatStates /\ cool' \subseteq Models
    BY <1>1, TurnHas DEF Asking
<1> DEFINE c == [o EXCEPT !.at = "pick", !.next = o.next + 1, !.tries = 0,
                            !.turns = o.turns \cup {Model(t)}]
<1>3. c \in ChatStates
    BY <1>1, <1>2, TriesAre DEF ChatStates, Places, Asking, InPrimary
<1>4. chat' = [chat EXCEPT ![t] = c]
    BY <1>1 DEF CheckFindsCooling, At, Cooling, TakeTurn, IInv, TypeOK
<1>5. /\ c.attempts = o.attempts /\ c.layer = o.layer /\ c.raced = o.raced
      /\ c.held = NoModel /\ c.outcome = "none"
      /\ c.at = "pick" /\ c.next = o.next + 1
      /\ c.turns = o.turns \cup {Model(t)}
    BY <1>1, <1>2 DEF ChatStates
<1> HIDE DEF c
<1> QED
    BY <1>1, <1>2, <1>3, <1>4, <1>5, MoveKeeps DEF Trying, Called, Asking

LEMMA CheckPassesKeeps == ASSUME IInv, NEW t \in Threads, CheckPasses(t) PROVE IInv'
<1> DEFINE o == chat[t]
<1>1. o.at = "check" /\ pool' = pool /\ cool' \subseteq cool \cup {Model(t)}
    BY DEF CheckPasses, At, Warm, TakeTurn
<1>2. /\ o.next \in DOMAIN OrderOf(o) /\ Model(t) \in Models /\ Model(t) = OrderOf(o)[o.next]
      /\ o.next + 1 \in Nat /\ o.turns \subseteq Models /\ o.held = NoModel
      /\ o.outcome = "none" /\ o \in ChatStates /\ cool' \subseteq Models
    BY <1>1, TurnHas DEF Asking
<1> DEFINE c == [o EXCEPT !.at = "wait", !.tried = (o.layer = "primary"),
                            !.turns = o.turns \cup {Model(t)}]
<1>3. c \in ChatStates
    BY <1>1, <1>2 DEF ChatStates, Places, Asking, InPrimary
<1>4. chat' = [chat EXCEPT ![t] = c]
    BY <1>1 DEF CheckPasses, At, Warm, TakeTurn, IInv, TypeOK
<1>5. /\ c.attempts = o.attempts /\ c.layer = o.layer /\ c.raced = o.raced
      /\ c.held = NoModel /\ c.outcome = "none"
      /\ c.at = "wait" /\ c.next = o.next
      /\ c.turns = o.turns \cup {Model(t)}
    BY <1>1, <1>2 DEF ChatStates
<1> HIDE DEF c
<1> QED
    BY <1>1, <1>2, <1>3, <1>4, <1>5, MoveKeeps DEF Trying, Called, Asking

LEMMA CallKeeps == ASSUME IInv, NEW t \in Threads, Call(t) PROVE IInv'
<1> DEFINE o == chat[t]
<1>1. o.at = "wait" /\ pool' = pool /\ cool' = cool /\ Cardinality(Calling) < Slots
    BY DEF Call, GetPermit, At
<1>2. /\ o.next \in DOMAIN OrderOf(o) /\ Model(t) = OrderOf(o)[o.next]
      /\ o.held = NoModel /\ o.outcome = "none" /\ o \in ChatStates /\ cool' \subseteq Models
      /\ Model(t) \in o.turns
    BY <1>1, TurnHas DEF Asking, Called, Trying
<1> DEFINE c == [o EXCEPT !.at = "call"]
<1>3. c \in ChatStates
    BY <1>1, <1>2 DEF ChatStates, Places, Asking, InPrimary
<1>4. chat' = [chat EXCEPT ![t] = c]
    BY <1>1 DEF Call, GetPermit, IInv, TypeOK
<1>5. /\ c.attempts = o.attempts /\ c.layer = o.layer /\ c.raced = o.raced
      /\ c.held = NoModel /\ c.outcome = "none"
      /\ c.at = "call" /\ c.next = o.next /\ c.turns = o.turns
    BY <1>1, <1>2 DEF ChatStates
<1> HIDE DEF c
<1> QED
    BY <1>1, <1>2, <1>3, <1>4, <1>5, MoveKeeps DEF Trying, Called, Asking

LEMMA RefusesKeeps == ASSUME IInv, NEW t \in Threads, Refuses(t) PROVE IInv'
<1> DEFINE o == chat[t]
<1>1. o.at = "call" /\ pool' = pool /\ cool' \subseteq cool \cup {Model(t)}
    BY DEF Refuses, At, NextModel
<1>2. /\ o.next \in DOMAIN OrderOf(o) /\ Model(t) \in Models /\ Model(t) = OrderOf(o)[o.next]
      /\ o.next + 1 \in Nat /\ o.turns \subseteq Models /\ o.held = NoModel
      /\ o.outcome = "none" /\ o \in ChatStates /\ cool' \subseteq Models
    BY <1>1, TurnHas DEF Asking
<1>turn. Model(t) \in o.turns
    BY <1>1, TurnHas DEF Asking, Called, Trying
<1> DEFINE c == [o EXCEPT !.at = "pick", !.next = o.next + 1, !.tries = 0]
<1>3. c \in ChatStates
    BY <1>1, <1>2, TriesAre DEF ChatStates, Places, Asking, InPrimary
<1>4. chat' = [chat EXCEPT ![t] = c]
    BY <1>1 DEF Refuses, At, NextModel, IInv, TypeOK
<1>5. /\ c.attempts = o.attempts /\ c.layer = o.layer /\ c.raced = o.raced
      /\ c.held = NoModel /\ c.outcome = "none"
      /\ c.at = "pick" /\ c.next = o.next + 1
      /\ c.turns = o.turns
    BY <1>1, <1>2 DEF ChatStates
<1> HIDE DEF c
<1> QED
    BY <1>1, <1>2, <1>3, <1>4, <1>5, <1>turn, MoveKeeps DEF Trying, Called, Asking

LEMMA FaltersKeeps == ASSUME IInv, NEW t \in Threads, Falters(t) PROVE IInv'
<1> DEFINE o == chat[t]
<1>1. o.at = "call" /\ pool' = pool /\ cool' \subseteq cool \cup {Model(t)}
    BY DEF Falters, At, NextModel
<1>2. /\ o.next \in DOMAIN OrderOf(o) /\ Model(t) \in Models /\ Model(t) = OrderOf(o)[o.next]
      /\ o.next + 1 \in Nat /\ o.turns \subseteq Models /\ o.held = NoModel
      /\ o.outcome = "none" /\ o \in ChatStates /\ cool' \subseteq Models
    BY <1>1, TurnHas DEF Asking
<1>tries. o.tries \in 0..MaxRetries
    BY <1>2 DEF ChatStates
<1>turn. Model(t) \in o.turns
    BY <1>1, TurnHas DEF Asking, Called, Trying
<1>3. CASE o.layer = "primary" /\ o.tries < MaxRetries
    <2> DEFINE c == [o EXCEPT !.at = "check", !.tries = o.tries + 1]
    <2>1. c \in ChatStates
        <3>1. o.tries + 1 \in 0..MaxRetries
            <4> DEFINE n == o.tries
            <4>1. n \in 0..MaxRetries /\ n < MaxRetries
                BY <1>3, <1>tries
            <4> HIDE DEF n
            <4>2. MaxRetries \in Nat
                BY ModelPoolAssumption
            <4>3. n + 1 \in 0..MaxRetries
                BY <4>1, <4>2
            <4> QED
                BY <4>3 DEF n
        <3> QED
            BY <1>2, <3>1 DEF ChatStates, Places, Asking, InPrimary
    <2>2. chat' = [chat EXCEPT ![t] = c]
        <3>1. ~(o.tries = MaxRetries)
            BY <1>3, <1>tries, TriesAre
        <3>2. chat' = [chat EXCEPT ![t].at = "check", ![t].tries = chat[t].tries + 1]
            BY <1>3, <3>1 DEF Falters
        <3> QED
            BY <3>2 DEF IInv, TypeOK
    <2>3. /\ c.attempts = o.attempts /\ c.layer = o.layer /\ c.raced = o.raced
          /\ c.held = NoModel /\ c.outcome = "none"
          /\ c.at = "check" /\ c.next = o.next
          /\ c.turns = o.turns
        BY <1>1, <1>2, <1>3 DEF ChatStates
    <2> HIDE DEF c
    <2> QED
        BY <1>1, <1>2, <1>3, <2>1, <2>2, <2>3, <1>turn, MoveKeeps DEF Trying, Called, Asking
<1>4. CASE ~(o.layer = "primary" /\ o.tries < MaxRetries)
    <2> DEFINE c == [o EXCEPT !.at = "pick", !.next = o.next + 1, !.tries = 0]
    <2>1. c \in ChatStates
        BY <1>1, <1>2, <1>4, TriesAre DEF ChatStates, Places, Asking, InPrimary
    <2>2. chat' = [chat EXCEPT ![t] = c]
        BY <1>1, <1>4 DEF Falters, At, NextModel, IInv, TypeOK
    <2>3. /\ c.attempts = o.attempts /\ c.layer = o.layer /\ c.raced = o.raced
          /\ c.held = NoModel /\ c.outcome = "none"
          /\ c.at = "pick" /\ c.next = o.next + 1
          /\ c.turns = o.turns
        BY <1>1, <1>2, <1>4 DEF ChatStates
    <2> HIDE DEF c
    <2> QED
        BY <1>1, <1>2, <1>4, <2>1, <2>2, <2>3, <1>turn, MoveKeeps DEF Trying, Called, Asking
<1> QED
    BY <1>1, <1>3, <1>4 DEF Falters, At, NextModel

LEMMA LimitsKeeps == ASSUME IInv, NEW t \in Threads, Limits(t) PROVE IInv'
<1> DEFINE o == chat[t]
<1>1. o.at = "call" /\ pool' = pool /\ cool' \subseteq cool \cup {Model(t)}
    BY DEF Limits, At, NextModel
<1>2. /\ o.next \in DOMAIN OrderOf(o) /\ Model(t) \in Models /\ Model(t) = OrderOf(o)[o.next]
      /\ o.next + 1 \in Nat /\ o.turns \subseteq Models /\ o.held = NoModel
      /\ o.outcome = "none" /\ o \in ChatStates /\ cool' \subseteq Models
    BY <1>1, TurnHas DEF Asking
<1>turn. Model(t) \in o.turns
    BY <1>1, TurnHas DEF Asking, Called, Trying
<1>3. CASE o.layer = "primary"
    <2> DEFINE c == [o EXCEPT !.at = "find", !.limited = TRUE]
    <2>1. c \in ChatStates
        BY <1>1, <1>2, <1>3 DEF ChatStates, Places, Asking, InPrimary
    <2>2. chat' = [chat EXCEPT ![t] = c]
        BY <1>1, <1>3 DEF Limits, At, NextModel, IInv, TypeOK
    <2>3. /\ c.attempts = o.attempts /\ c.layer = o.layer /\ c.raced = o.raced
          /\ c.held = NoModel /\ c.outcome = "none"
          /\ c.at = "find" /\ c.next = o.next
          /\ c.turns = o.turns
        BY <1>1, <1>2, <1>3 DEF ChatStates
    <2> HIDE DEF c
    <2> QED
        BY <1>1, <1>2, <1>3, <1>turn, <2>1, <2>2, <2>3, MoveKeeps DEF Trying, Called, Asking
<1>4. CASE o.layer # "primary"
    <2> DEFINE c == [o EXCEPT !.at = "pick", !.next = o.next + 1, !.tries = 0,
                                !.limited = TRUE]
    <2>1. c \in ChatStates
        BY <1>1, <1>2, <1>4, TriesAre DEF ChatStates, Places, Asking, InPrimary
    <2>2. chat' = [chat EXCEPT ![t] = c]
        BY <1>1, <1>4 DEF Limits, At, NextModel, IInv, TypeOK
    <2>3. /\ c.attempts = o.attempts /\ c.layer = o.layer /\ c.raced = o.raced
          /\ c.held = NoModel /\ c.outcome = "none"
          /\ c.at = "pick" /\ c.next = o.next + 1
          /\ c.turns = o.turns
        BY <1>1, <1>2, <1>4 DEF ChatStates
    <2> HIDE DEF c
    <2> QED
        BY <1>1, <1>2, <1>4, <1>turn, <2>1, <2>2, <2>3, MoveKeeps DEF Trying, Called, Asking
<1> QED
    BY <1>1, <1>3, <1>4 DEF Limits, At, NextModel

LEMMA FindKeeps == ASSUME IInv, NEW t \in Threads, Find(t) PROVE IInv'
<1> DEFINE o == chat[t]
<1>1. o.at = "find" /\ pool' = pool /\ cool' \subseteq cool \cup {Model(t)}
    BY DEF Find, At, NextModel
<1>2. /\ o.next \in DOMAIN OrderOf(o) /\ Model(t) \in Models /\ Model(t) = OrderOf(o)[o.next]
      /\ o.next + 1 \in Nat /\ o.turns \subseteq Models /\ o.held = NoModel
      /\ o.outcome = "none" /\ o \in ChatStates /\ cool' \subseteq Models
    BY <1>1, TurnHas DEF Asking
<1>index. InPool(Model(t)) =>
              LET k == CHOOSE k \in DOMAIN pool : pool[k] = Model(t)
              IN  k \in Nat /\ k # 0 /\ k <= Len(pool)
    <2>1. DOMAIN pool = 1..Len(pool) /\ Len(pool) \in Nat
        BY DEF IInv, TypeOK
    <2>2. InPool(Model(t)) => \E k \in DOMAIN pool : pool[k] = Model(t)
        BY DEF InPool, ToSet
    <2> QED
        BY <2>1, <2>2
<1>turn. Model(t) \in o.turns /\ o.layer = "primary"
    BY <1>1, TurnHas DEF Asking, Called, Trying
<1>3. CASE InPool(Model(t))
    <2> DEFINE c == [o EXCEPT !.at = "pop",
                                !.index = CHOOSE k \in DOMAIN pool : pool[k] = Model(t)]
    <2>1. c \in ChatStates
        BY <1>1, <1>2, <1>3, <1>index DEF ChatStates, Places, Asking, InPrimary
    <2>2. chat' = [chat EXCEPT ![t] = c]
        BY <1>1, <1>3 DEF Find, At, NextModel, IInv, TypeOK
    <2>3. /\ c.attempts = o.attempts /\ c.layer = o.layer /\ c.raced = o.raced
          /\ c.held = NoModel /\ c.outcome = "none"
          /\ c.at = "pop" /\ c.next = o.next
          /\ c.turns = o.turns
          /\ c.index # 0 /\ c.index <= Len(pool)
        BY <1>1, <1>2, <1>3, <1>index, <1>turn DEF ChatStates
    <2> HIDE DEF c
    <2> QED
        BY <1>1, <1>2, <1>3, <1>turn, <2>1, <2>2, <2>3, MoveKeeps DEF Trying, Called, Asking
<1>4. CASE ~InPool(Model(t))
    <2> DEFINE c == [o EXCEPT !.at = "pick", !.next = o.next + 1, !.tries = 0]
    <2>1. c \in ChatStates
        BY <1>1, <1>2, <1>4, TriesAre DEF ChatStates, Places, Asking, InPrimary
    <2>2. chat' = [chat EXCEPT ![t] = c]
        BY <1>1, <1>4 DEF Find, At, NextModel, IInv, TypeOK
    <2>3. /\ c.attempts = o.attempts /\ c.layer = o.layer /\ c.raced = o.raced
          /\ c.held = NoModel /\ c.outcome = "none"
          /\ c.at = "pick" /\ c.next = o.next + 1
          /\ c.turns = o.turns
        BY <1>1, <1>2, <1>4 DEF ChatStates
    <2> HIDE DEF c
    <2> QED
        BY <1>1, <1>2, <1>4, <1>turn, <2>1, <2>2, <2>3, MoveKeeps DEF Trying, Called, Asking
<1> QED
    BY <1>1, <1>3, <1>4 DEF Find, At, NextModel

-----------------------------------------------------------------------------
(* The copy, the stream and the ends of layers.                             *)

LEMMA BeginKeeps == ASSUME IInv, NEW t \in Threads, Begin(t) PROVE IInv'
<1>1. PICK stream \in BOOLEAN :
        chat' = [chat EXCEPT ![t].at = "copy", ![t].stream = stream,
                             ![t].raced = \E u \in Threads : At(u, "append")]
    BY DEF Begin
<1> DEFINE r == \E u \in Threads : At(u, "append")
           c == [Idle EXCEPT !.at = "copy", !.stream = stream, !.raced = r]
<1>2. chat[t] = Idle /\ pool' = pool /\ cool' \subseteq Models
    BY ChatHas DEF Begin, At, Local, Typed, IInv, TypeOK
<1>3. r \in BOOLEAN
    OBVIOUS
<1>r. ~r => \A u \in Threads : chat[u].at # "append"
    BY DEF At
<1>4. chat' = [chat EXCEPT ![t] = c]
    BY <1>1, <1>2 DEF IInv, TypeOK
<1> HIDE DEF r
<1>5. /\ c \in ChatStates /\ c.at = "copy" /\ c.raced = r /\ c.held = NoModel
      /\ c.outcome = "none" /\ c.attempts = <<>> /\ c.next = 1 /\ c.layer = "primary"
      /\ c.index = 0
    BY <1>3, IdleTyped DEF ChatStates, Places
<1> HIDE DEF c
<1>6. Local(c)
    <2>1. OrderOf(c) = <<>> /\ Len(OrderOf(c)) = 0
        BY <1>5 DEF OrderOf
    <2>2. Typed(c)
        BY <1>5, <2>1 DEF Typed, Asking
    <2>3. Layered(c) /\ Turns(c) /\ Copied(c) /\ Failed(c)
        BY <1>5 DEF Layered, Turns, Copied, Failed, Trying, Called, OutsideTurns
    <2> QED
        BY <2>2, <2>3 DEF Local
<1>7. ~c.raced => Peaceful(c)
    <2>1. Len(pool) \in Nat
        BY DEF IInv, TypeOK
    <2> QED
        BY <1>5, <1>r, <2>1 DEF Peaceful
<1> QED
    BY <1>2, <1>4, <1>5, <1>6, <1>7, IdleTyped, StepKeeps DEF Fits

\* A copy in peace ends with every model.
LEMMA CopyWhole ==
    ASSUME IInv, NEW t \in Threads, At(t, "copy"), ~chat[t].raced,
           chat[t].index >= Len(pool)
    PROVE  InPrimary \subseteq ToSet(chat[t].attempts)
<1>1. Peaceful(chat[t]) /\ chat[t].index = Len(chat[t].attempts)
    BY ChatHas DEF IInv, Copying, Local, Layered, At
<1>2. Len(pool) \in Nat /\ chat[t].index \in Nat /\ DOMAIN pool = 1..Len(pool)
    BY ChatHas DEF IInv, TypeOK
<1>3. chat[t].attempts \in Seq(InPrimary) /\ DOMAIN chat[t].attempts = 1..Len(chat[t].attempts)
    BY ChatHas
<1>4. \A k \in DOMAIN pool : k \in DOMAIN chat[t].attempts /\ chat[t].attempts[k] = pool[k]
    BY <1>1, <1>2, <1>3 DEF Peaceful
<1>5. ToSet(pool) \subseteq ToSet(chat[t].attempts)
    BY <1>4 DEF ToSet
<1>6. \A u \in Threads : chat[u].held = NoModel
    BY <1>1, ChatHas DEF Peaceful, Local, Typed
<1>7. InPrimary \subseteq ToSet(pool)
    BY <1>6, ModelsAre DEF IInv, Whole
<1> QED
    BY <1>5, <1>7

LEMMA CopyKeeps == ASSUME IInv, NEW t \in Threads, Copy(t) PROVE IInv'
<1> DEFINE o == chat[t]
<1>1. /\ o.at = "copy" /\ pool' = pool /\ cool' \subseteq Models
    BY DEF Copy, At, IInv, TypeOK
<1>2. /\ o \in ChatStates /\ o.held = NoModel /\ o.outcome = "none"
      /\ o.layer = "primary" /\ o.next = 1 /\ o.index = Len(o.attempts) /\ o.index \in Nat
      /\ o.attempts \in Seq(InPrimary) /\ o.stream \in BOOLEAN /\ o.raced \in BOOLEAN
    BY <1>1, ChatHas DEF Local, Typed, Layered
<1>3. pool \in Seq(InPrimary) /\ Len(pool) \in Nat
    BY DEF IInv, TypeOK, InPrimary
<1>4. CASE o.index < Len(pool)
    <2> DEFINE m == pool[o.index + 1]
               c == [o EXCEPT !.index = o.index + 1, !.attempts = Append(o.attempts, m)]
    <2>1. chat' = [chat EXCEPT ![t] = c]
        <3>1. ~(o.index >= Len(pool))
            BY <1>2, <1>3, <1>4
        <3>2. chat' = [chat EXCEPT ![t].index = chat[t].index + 1,
                                   ![t].attempts = Append(chat[t].attempts, pool[chat[t].index + 1])]
            BY <3>1 DEF Copy
        <3> QED
            BY <3>2 DEF IInv, TypeOK
    <2>2. m \in InPrimary /\ o.index + 1 \in 1..Len(pool)
        BY <1>2, <1>3, <1>4
    <2>3. Append(o.attempts, m) \in Seq(InPrimary) /\ o.index + 1 \in Nat
        BY <1>2, <2>2
    <2>4. /\ c \in ChatStates /\ c.at = "copy" /\ c.held = NoModel /\ c.outcome = "none"
          /\ c.layer = "primary" /\ c.next = 1 /\ c.index = o.index + 1
          /\ c.attempts = Append(o.attempts, m) /\ c.raced = o.raced
        BY <1>1, <1>2, <2>3 DEF ChatStates, InPrimary
    <2> HIDE DEF c
    <2>5. Len(c.attempts) = o.index + 1
        BY <1>2, <2>2, <2>4
    <2>6. Local(c)
        <3>1. OrderOf(c) = c.attempts
            BY <2>4 DEF OrderOf
        <3>2. Typed(c)
            BY <1>2, <2>4, <2>5, <3>1 DEF Typed, Asking
        <3>3. Layered(c) /\ Turns(c) /\ Copied(c) /\ Failed(c)
            BY <2>4, <2>5 DEF Layered, Turns, Copied, Failed, Trying, Called, OutsideTurns
        <3> QED
            BY <3>2, <3>3 DEF Local
    <2>7. ~c.raced => Peaceful(c)
        <3> SUFFICES ASSUME ~o.raced PROVE Peaceful(c)
            BY <2>4
        <3>1. Peaceful(o)
            BY <1>1 DEF IInv, Copying, At
        <3>2. \A k \in 1..(o.index + 1) : Append(o.attempts, m)[k] = pool[k]
            <4>1. \A k \in 1..o.index : Append(o.attempts, m)[k] = o.attempts[k]
                BY <1>2, <2>2
            <4>2. Append(o.attempts, m)[o.index + 1] = m
                BY <1>2, <2>2
            <4> QED
                BY <1>2, <3>1, <4>1, <4>2 DEF Peaceful
        <3>3. c.index <= Len(pool)
            BY <1>2, <1>3, <1>4, <2>4
        <3> QED
            BY <2>4, <3>1, <3>2, <3>3 DEF Peaceful
    <2> QED
        BY <1>1, <1>2, <2>1, <2>4, <2>6, <2>7, StepKeeps DEF Fits
<1>5. CASE o.index >= Len(pool)
    <2> DEFINE place == IF o.stream THEN "stream" ELSE "pick"
               c == [o EXCEPT !.index = 0, !.stream = FALSE, !.at = place]
    <2>1. chat' = [chat EXCEPT ![t] = c]
        <3>1. ~(o.index < Len(pool))
            BY <1>2, <1>3, <1>5
        <3>2. chat' = [chat EXCEPT ![t].index = 0, ![t].stream = FALSE,
                                   ![t].at = IF chat[t].stream THEN "stream" ELSE "pick"]
            BY <3>1 DEF Copy
        <3> QED
            BY <3>2 DEF IInv, TypeOK
    <2>2. /\ c \in ChatStates /\ c.at \in {"stream", "pick"} /\ c.held = NoModel
          /\ c.outcome = "none" /\ c.layer = "primary" /\ c.next = 1
          /\ c.attempts = o.attempts /\ c.raced = o.raced
        BY <1>1, <1>2 DEF ChatStates, Places
    <2> HIDE DEF c
    <2>3. ~c.raced => InPrimary \subseteq ToSet(c.attempts)
        BY <1>1, <1>5, <2>2, CopyWhole DEF At
    <2>4. OrderOf(c) = o.attempts /\ 1 \in 1..(Len(o.attempts) + 1)
        BY <1>2, <2>2 DEF OrderOf
    <2>5. Typed(c)
        BY <2>2, <2>4 DEF Typed, Asking
    <2>6. Layered(c) /\ Copied(c) /\ Failed(c)
        BY <2>2, <2>3 DEF Layered, Copied, Failed
    <2>7. Turns(c)
        BY <2>2 DEF Turns, Trying, Called
    <2>8. Local(c)
        BY <2>5, <2>6, <2>7 DEF Local
    <2> QED
        BY <1>1, <1>2, <2>1, <2>2, <2>8, StepKeeps DEF Fits
<1> QED
    BY <1>2, <1>3, <1>4, <1>5

LEMMA NoneBefore == \A k \in 1..(1 - 1) : FALSE
    OBVIOUS

\* Back to no chat.
LEMMA IdleKeeps ==
    ASSUME IInv, NEW t \in Threads, chat' = [chat EXCEPT ![t] = Idle],
           chat[t].at # "append", pool' = pool, cool' = cool
    PROVE  IInv'
<1>1. chat[t].held = NoModel /\ cool' \subseteq Models
    BY ChatHas DEF Local, Typed, IInv, TypeOK
<1> QED
    BY <1>1, IdleTyped, IdleLocal, StepKeeps DEF Fits

\* A step of the stream; it passes models without giving them their turn.
LEMMA StreamKeeps ==
    ASSUME IInv, NEW t \in Threads, NEW c \in ChatStates,
           chat' = [chat EXCEPT ![t] = c], pool' = pool, cool' \subseteq Models,
           chat[t].at \in {"stream", "stream wait", "stream call"},
           c.at \in {"stream", "stream wait", "stream call", "pick"},
           c.held = NoModel, c.outcome = "none", c.layer = chat[t].layer,
           c.attempts = chat[t].attempts, c.raced = chat[t].raced,
           c.next \in 1..(Len(chat[t].attempts) + 1),
           c.at = "pick" => c.next = 1,
           c.at \in {"stream wait", "stream call"} => c.next \in DOMAIN chat[t].attempts,
           c.at = "stream call" => Cardinality(Calling) < Slots
    PROVE  IInv'
<1>1. chat[t].layer = "primary" /\ chat[t].held = NoModel /\ Copied(chat[t])
    BY ChatHas DEF Local, Layered, Typed
<1>2. OrderOf(c) = chat[t].attempts
    BY <1>1 DEF OrderOf
<1>3. Typed(c)
    BY <1>2 DEF Typed, Asking
<1>4. Layered(c) /\ Copied(c) /\ Failed(c)
    BY <1>1 DEF Layered, Copied, Failed, OutsideTurns
<1>5. Turns(c)
    <2>1. c.layer = "primary" /\ c.at \notin Trying
        BY <1>1 DEF Trying
    <2>2. ASSUME c.at = "pick" PROVE \A k \in 1..(c.next - 1) : FALSE
        <3>1. c.next = 1
            BY <2>2
        <3> QED
            BY <3>1, NoneBefore
    <2> QED
        BY <2>1, <2>2 DEF Turns, Called
<1>6. Local(c)
    BY <1>3, <1>4, <1>5 DEF Local
<1> QED
    BY <1>1, <1>6, StepKeeps DEF Fits

LEMMA SequenceHas == \A q \in Seq(InPrimary) : DOMAIN q = 1..Len(q) /\ Len(q) \in Nat
    OBVIOUS

LEMMA StreamHas ==
    ASSUME IInv, NEW t \in Threads, chat[t].at \in {"stream", "stream wait", "stream call"}
    PROVE  /\ chat[t] \in ChatStates /\ chat[t].held = NoModel /\ chat[t].outcome = "none"
           /\ chat[t].layer = "primary" /\ Order(t) = chat[t].attempts
           /\ chat[t].next \in 1..(Len(chat[t].attempts) + 1)
           /\ DOMAIN chat[t].attempts = 1..Len(chat[t].attempts)
           /\ Len(chat[t].attempts) \in Nat
           /\ chat[t].at # "stream" => chat[t].next \in DOMAIN chat[t].attempts
           /\ cool \subseteq Models
<1>1. /\ chat[t] \in ChatStates /\ Typed(chat[t]) /\ Layered(chat[t])
      /\ chat[t].attempts \in Seq(InPrimary)
    BY ChatHas DEF Local
<1>2. OrderOf(chat[t]) = chat[t].attempts
    BY <1>1 DEF Layered, OrderOf
<1>3. cool \subseteq Models
    BY DEF IInv, TypeOK
<1>4. chat[t].held = NoModel /\ chat[t].outcome = "none" /\ chat[t].layer = "primary"
    BY <1>1 DEF Typed, Layered
<1>5. /\ chat[t].next \in 1..(Len(chat[t].attempts) + 1)
      /\ chat[t].at # "stream" => chat[t].next \in DOMAIN chat[t].attempts
    BY <1>1, <1>2 DEF Typed, Asking
<1>6. DOMAIN chat[t].attempts = 1..Len(chat[t].attempts) /\ Len(chat[t].attempts) \in Nat
    BY <1>1, SequenceHas
<1> QED
    BY <1>1, <1>2, <1>3, <1>4, <1>5, <1>6 DEF Order

LEMMA Within == \A l \in Nat : \A n \in 1..(l + 1) : n <= l => n \in 1..l
    OBVIOUS

LEMMA StreamPickKeeps == ASSUME IInv, NEW t \in Threads, StreamPick(t) PROVE IInv'
<1> DEFINE o == chat[t]
<1>1. o.at = "stream" /\ pool' = pool /\ cool' \subseteq cool
    BY DEF StreamPick, At, Cooling, Warm
<1>2. /\ o \in ChatStates /\ o.held = NoModel /\ o.outcome = "none"
      /\ o.next \in 1..(Len(o.attempts) + 1) /\ cool' \subseteq Models
      /\ DOMAIN o.attempts = 1..Len(o.attempts) /\ Len(o.attempts) \in Nat
    BY <1>1, StreamHas
<1>3. CASE chat' = [chat EXCEPT ![t].at = "pick", ![t].next = 1]
    <2> DEFINE c == [o EXCEPT !.at = "pick", !.next = 1]
    <2>1. chat' = [chat EXCEPT ![t] = c]
        BY <1>3 DEF IInv, TypeOK
    <2>2. /\ c \in ChatStates /\ c.at = "pick" /\ c.next = 1 /\ c.held = NoModel
          /\ c.outcome = "none" /\ c.layer = o.layer /\ c.attempts = o.attempts
          /\ c.raced = o.raced
        BY <1>2 DEF ChatStates, Places
    <2>3. 1 \in 1..(Len(o.attempts) + 1)
        BY <1>2
    <2> HIDE DEF c
    <2> QED
        BY <1>1, <1>2, <2>1, <2>2, <2>3, StreamKeeps
<1>4. CASE o.next <= Len(o.attempts) /\ chat' = [chat EXCEPT ![t].next = chat[t].next + 1]
    <2> DEFINE c == [o EXCEPT !.next = o.next + 1]
    <2>1. chat' = [chat EXCEPT ![t] = c]
        BY <1>4 DEF IInv, TypeOK
    <2>2. o.next + 1 \in 1..(Len(o.attempts) + 1) /\ o.next + 1 \in Nat
        BY <1>2, <1>4
    <2>3. /\ c \in ChatStates /\ c.at = "stream" /\ c.next = o.next + 1 /\ c.held = NoModel
          /\ c.outcome = "none" /\ c.layer = o.layer /\ c.attempts = o.attempts
          /\ c.raced = o.raced
        BY <1>1, <1>2, <2>2 DEF ChatStates
    <2> HIDE DEF c
    <2> QED
        BY <1>1, <1>2, <2>1, <2>2, <2>3, StreamKeeps
<1>5. CASE o.next <= Len(o.attempts) /\ chat' = [chat EXCEPT ![t].at = "stream wait"]
    <2> DEFINE c == [o EXCEPT !.at = "stream wait"]
    <2>1. chat' = [chat EXCEPT ![t] = c]
        BY <1>5 DEF IInv, TypeOK
    <2>2. o.next \in DOMAIN o.attempts
        BY <1>2, <1>5, Within
    <2>3. /\ c \in ChatStates /\ c.at = "stream wait" /\ c.next = o.next /\ c.held = NoModel
          /\ c.outcome = "none" /\ c.layer = o.layer /\ c.attempts = o.attempts
          /\ c.raced = o.raced
        BY <1>1, <1>2 DEF ChatStates, Places, Asking
    <2> HIDE DEF c
    <2> QED
        BY <1>1, <1>2, <2>1, <2>2, <2>3, StreamKeeps
<1> QED
    BY <1>3, <1>4, <1>5 DEF StreamPick, Cooling, Warm

LEMMA StreamCallsKeeps == ASSUME IInv, NEW t \in Threads, StreamCalls(t) PROVE IInv'
<1> DEFINE o == chat[t]
           c == [o EXCEPT !.at = "stream call"]
<1>1. o.at = "stream wait" /\ pool' = pool /\ cool' = cool /\ Cardinality(Calling) < Slots
    BY DEF StreamCalls, GetPermit, At
<1>2. /\ o \in ChatStates /\ o.held = NoModel /\ o.outcome = "none"
      /\ o.next \in 1..(Len(o.attempts) + 1) /\ cool' \subseteq Models
      /\ o.next \in DOMAIN o.attempts
    BY <1>1, StreamHas
<1>3. chat' = [chat EXCEPT ![t] = c]
    BY DEF StreamCalls, GetPermit, IInv, TypeOK
<1>4. /\ c \in ChatStates /\ c.at = "stream call" /\ c.next = o.next /\ c.held = NoModel
      /\ c.outcome = "none" /\ c.layer = o.layer /\ c.attempts = o.attempts
      /\ c.raced = o.raced
    BY <1>1, <1>2 DEF ChatStates, Places, Asking
<1> HIDE DEF c
<1> QED
    BY <1>1, <1>2, <1>3, <1>4, StreamKeeps

LEMMA StreamReturnsKeeps == ASSUME IInv, NEW t \in Threads, StreamReturns(t) PROVE IInv'
<1> DEFINE o == chat[t]
<1>1. o.at = "stream call" /\ pool' = pool /\ cool' = cool
    BY DEF StreamReturns, At
<1>2. /\ o \in ChatStates /\ o.held = NoModel /\ o.outcome = "none" /\ cool' \subseteq Models
      /\ Len(o.attempts) \in Nat
    BY <1>1, StreamHas
<1>3. CASE chat' = [chat EXCEPT ![t] = Idle]
    BY <1>1, <1>3, IdleKeeps
<1>5. CASE chat' = [chat EXCEPT ![t].at = "stream wait", ![t].tries = 1]
    <2> DEFINE c == [o EXCEPT !.at = "stream wait", !.tries = 1]
    <2>1. chat' = [chat EXCEPT ![t] = c]
        BY <1>5 DEF IInv, TypeOK
    <2>2. /\ c \in ChatStates /\ c.at = "stream wait" /\ c.next = o.next
          /\ c.held = NoModel /\ c.outcome = "none" /\ c.layer = o.layer
          /\ c.attempts = o.attempts /\ c.raced = o.raced
        BY <1>2, TriesAre DEF ChatStates, Places, Asking
    <2>3. o.next \in DOMAIN o.attempts /\ o.next \in 1..(Len(o.attempts) + 1)
        BY <1>1, StreamHas
    <2> HIDE DEF c
    <2> QED
        BY <1>1, <1>2, <2>1, <2>2, <2>3, StreamKeeps
<1>4. CASE chat' = [chat EXCEPT ![t].at = "pick", ![t].next = 1, ![t].tries = 0,
                                ![t].tried = TRUE]
    <2> DEFINE c == [o EXCEPT !.at = "pick", !.next = 1, !.tries = 0, !.tried = TRUE]
    <2>1. chat' = [chat EXCEPT ![t] = c]
        BY <1>4 DEF IInv, TypeOK
    <2>2. /\ c \in ChatStates /\ c.at = "pick" /\ c.next = 1 /\ c.held = NoModel
          /\ c.outcome = "none" /\ c.layer = o.layer /\ c.attempts = o.attempts
          /\ c.raced = o.raced
        BY <1>2, TriesAre DEF ChatStates, Places
    <2>3. 1 \in 1..(Len(o.attempts) + 1)
        BY <1>2
    <2> HIDE DEF c
    <2> QED
        BY <1>1, <1>2, <2>1, <2>2, <2>3, StreamKeeps
<1> QED
    BY <1>3, <1>4, <1>5 DEF StreamReturns

LEMMA LayerEndsKeeps == ASSUME IInv, NEW t \in Threads, LayerEnds(t) PROVE IInv'
<1> DEFINE o == chat[t]
<1>1. o.at = "pick" /\ o.next > Len(OrderOf(o)) /\ pool' = pool /\ cool' \subseteq Models
    BY DEF LayerEnds, At, Order, IInv, TypeOK
<1>2. /\ o \in ChatStates /\ o.held = NoModel /\ o.outcome = "none"
      /\ o.layer \in {"primary", "fallback", "secondary"} /\ o.raced \in BOOLEAN
      /\ o.shifted \in BOOLEAN
      /\ o.turns \subseteq Models /\ Turns(o) /\ Copied(o)
    BY <1>1, ChatHas DEF Local, Typed
<1>3. /\ o.next \in Nat /\ Len(OrderOf(o)) \in Nat /\ DOMAIN OrderOf(o) = 1..Len(OrderOf(o))
    BY <1>2, OrderTyped, ChatHas
<1>4. ToSet(OrderOf(o)) \subseteq o.turns
    <2>1. \A k \in 1..(o.next - 1) : OrderOf(o)[k] \in o.turns
        BY <1>1, <1>2 DEF Turns
    <2>2. \A k \in DOMAIN OrderOf(o) : k \in 1..(o.next - 1)
        BY <1>1, <1>3
    <2> QED
        BY <2>1, <2>2 DEF ToSet
<1>5. /\ ToSet(o.attempts) \subseteq o.turns
      /\ o.layer = "fallback" => ToSet(Fallback) \subseteq o.turns
      /\ o.layer = "secondary" => /\ ToSet(Fallback) \subseteq o.turns
                                  /\ ToSet(Secondary) \subseteq o.turns
    BY <1>1, <1>2, <1>4 DEF Turns, OrderOf
<1>6. CASE o.layer = "secondary" \/ Fallback = <<>>
    <2> DEFINE outcome == IF \/ o.limited
                             \/ Fallback = <<>> /\ ~o.tried
                          THEN "exhausted" ELSE "failed"
               c == [Idle EXCEPT !.at = "done", !.outcome = outcome,
                                 !.turns = o.turns, !.raced = o.raced,
                                 !.shifted = o.shifted]
    <2>1. chat' = [chat EXCEPT ![t] = c]
        BY <1>6 DEF LayerEnds, Raise
    <2>2. outcome \in {"exhausted", "failed"}
        OBVIOUS
    <2> HIDE DEF outcome
    <2>3. /\ c \in ChatStates /\ c.at = "done" /\ c.outcome = outcome /\ c.held = NoModel
          /\ c.attempts = <<>> /\ c.next = 1 /\ c.layer = "primary"
          /\ c.turns = o.turns /\ c.raced = o.raced
        BY <1>2, <2>2, IdleTyped DEF ChatStates, Places, Outcomes
    <2> HIDE DEF c
    <2>4. Failed(c)
        <3>1. ~c.raced => InPrimary \subseteq c.turns
            BY <1>1, <1>2, <1>5, <2>3 DEF Copied, OutsideTurns
        <3>2. Fallback = <<>> => ToSet(Fallback) = {}
            BY DEF ToSet
        <3> QED
            BY <1>5, <1>6, <2>2, <2>3, <3>1, <3>2 DEF Failed, Configured, InPrimary
    <2>5. OrderOf(c) = <<>> /\ Len(OrderOf(c)) = 0
        BY <2>3 DEF OrderOf
    <2>6. Typed(c)
        BY <2>2, <2>3, <2>5 DEF Typed, Asking
    <2>7. Layered(c) /\ Turns(c) /\ Copied(c)
        BY <2>3 DEF Layered, Turns, Copied, Trying, Called, OutsideTurns
    <2>8. Local(c)
        BY <2>4, <2>6, <2>7 DEF Local
    <2> QED
        BY <1>1, <1>2, <2>1, <2>3, <2>8, StepKeeps DEF Fits
<1>7. CASE ~(o.layer = "secondary" \/ Fallback = <<>>)
    <2> DEFINE after == After[o.layer]
               c == [o EXCEPT !.layer = after, !.next = 1, !.tried = FALSE]
    <2>1. chat' = [chat EXCEPT ![t] = c]
        BY <1>7 DEF LayerEnds, IInv, TypeOK
    <2>2. /\ after \in {"fallback", "secondary"}
          /\ after = "secondary" => o.layer = "fallback"
        BY <1>2, <1>7 DEF After
    <2> HIDE DEF after
    <2>3. /\ c \in ChatStates /\ c.at = "pick" /\ c.outcome = "none" /\ c.held = NoModel
          /\ c.attempts = o.attempts /\ c.next = 1 /\ c.layer = after
          /\ c.turns = o.turns /\ c.raced = o.raced
        BY <1>1, <1>2, <2>2 DEF ChatStates
    <2> HIDE DEF c
    <2>4. Typed(c)
        <3>1. Len(OrderOf(c)) \in Nat
            BY <2>3, OrderTyped
        <3>2. 1 \in 1..(Len(OrderOf(c)) + 1)
            BY <3>1
        <3> QED
            BY <2>3, <3>2 DEF Typed, Asking
    <2>5. Turns(c)
        <3> QED
            BY <1>5, <2>2, <2>3, NoneBefore DEF Turns, Called, Trying
    <2>6. Layered(c) /\ Copied(c) /\ Failed(c)
        BY <1>1, <1>2, <2>3 DEF Layered, Copied, Failed, OutsideTurns
    <2>7. Local(c)
        BY <2>4, <2>5, <2>6 DEF Local
    <2> QED
        BY <1>1, <1>2, <2>1, <2>3, <2>7, StepKeeps DEF Fits
<1> QED
    BY <1>6, <1>7

-----------------------------------------------------------------------------
(* The rotation, which changes the pool.                                    *)

\* A chat that is disturbed stays what it is.
LEMMA DisturbedHas ==
    ASSUME NEW c \in ChatStates, Local(c)
    PROVE  LET d == Disturbed(c)
           IN  /\ d \in ChatStates /\ Local(d)
               /\ d.at = c.at /\ d.held = c.held
               /\ d.at = "copy" => d.raced
               /\ d.at = "pop" => d.shifted
<1> DEFINE d == Disturbed(c)
<1>1. c.raced \in BOOLEAN /\ c.shifted \in BOOLEAN
    BY DEF ChatStates
<1>2. /\ (c.raced \/ c.at = "copy") \in BOOLEAN
      /\ (c.shifted \/ c.at = "pop") \in BOOLEAN
    OBVIOUS
<1>3. /\ d \in ChatStates /\ d.at = c.at /\ d.next = c.next /\ d.layer = c.layer
      /\ d.index = c.index /\ d.attempts = c.attempts /\ d.held = c.held
      /\ d.outcome = c.outcome /\ d.turns = c.turns
      /\ d.raced = (c.raced \/ c.at = "copy")
      /\ d.shifted = (c.shifted \/ c.at = "pop")
    BY <1>2 DEF ChatStates, Disturbed
<1>4. c.at = "idle" => d = c
    <2>1. c.at = "idle" => c.at # "copy" /\ c.at # "pop"
        OBVIOUS
    <2> QED
        BY <1>1, <2>1 DEF ChatStates, Disturbed
<1> HIDE DEF d
<1>5. OrderOf(d) = OrderOf(c)
    BY <1>3 DEF OrderOf
<1>6. Typed(d)
    BY <1>3, <1>4, <1>5 DEF Local, Typed, Asking
<1>7. Layered(d) /\ Turns(d)
    BY <1>3, <1>5 DEF Local, Layered, Turns
<1>8. Copied(d)
    <2>1. Copied(c)
        BY DEF Local
    <2>2. ~d.raced => ~c.raced
        BY <1>3
    <2> QED
        BY <1>3, <2>1, <2>2 DEF Copied
<1>9. Failed(d)
    <2>1. Failed(c)
        BY DEF Local
    <2>2. (~d.raced => ~c.raced) /\ (c.shifted => d.shifted)
        BY <1>3
    <2> QED
        BY <1>3, <2>1, <2>2 DEF Failed
<1>10. Local(d) /\ (d.at = "copy" => d.raced) /\ (d.at = "pop" => d.shifted)
    BY <1>3, <1>6, <1>7, <1>8, <1>9 DEF Local
<1> QED
    BY <1>3, <1>10 DEF d

LEMMA PoolKeeps ==
    ASSUME IInv, NEW t \in Threads, NEW c \in ChatStates,
           chat' = Disturb([chat EXCEPT ![t] = c], t), cool' = cool,
           Local(c), c.at \notin {"copy", "pop", "call", "stream call"},
           pool' \in Seq(InPrimary), Apart', Whole'
    PROVE  IInv'
<1>1. /\ chat'[t] = c
      /\ \A u \in Threads : u # t => chat'[u] = Disturbed(chat[u])
    BY DEF IInv, TypeOK, Disturb
<1>4. ASSUME NEW u \in Threads, u # t
      PROVE  /\ chat'[u] \in ChatStates /\ Local(chat'[u])
             /\ chat'[u].at = chat[u].at
             /\ chat'[u].at = "copy" => chat'[u].raced
             /\ chat'[u].at = "pop" => chat'[u].shifted
    <2>1. chat'[u] = Disturbed(chat[u]) /\ chat[u] \in ChatStates /\ Local(chat[u])
        BY <1>1, <1>4, ChatHas
    <2> QED
        BY <2>1, DisturbedHas
<1>2. \A u \in Threads : chat'[u] \in ChatStates /\ Local(chat'[u])
    BY <1>1, <1>4
<1>3. chat' \in [Threads -> ChatStates]
    <2> DEFINE f == [chat EXCEPT ![t] = c]
               g(u) == IF u = t THEN f[u] ELSE Disturbed(f[u])
    <2>1. chat' = [u \in Threads |-> g(u)]
        BY DEF Disturb
    <2> HIDE DEF g
    <2>2. \A u \in Threads : g(u) = chat'[u]
        BY <2>1
    <2> QED
        BY <1>2, <2>1, <2>2
<1>5. Calling' \subseteq Calling
    BY <1>1, <1>4 DEF Calling
<1>6. Cardinality(Calling') <= Slots
    <2> DEFINE before == Calling  after == Calling'
    <2>1. IsFiniteSet(before) /\ Cardinality(before) <= Slots
        <3>1. Calling \subseteq Threads /\ IsFiniteSet(Threads)
            BY ModelPoolAssumption DEF Calling
        <3>2. IsFiniteSet(Calling)
            BY <3>1, FS_Subset
        <3> QED
            BY <3>2 DEF IInv, TypeOK
    <2>2. after \subseteq before
        BY <1>5
    <2> HIDE DEF before, after
    <2>3. Cardinality(after) <= Slots
        BY <2>1, <2>2, Permits
    <2> QED
        BY <2>3 DEF after
<1>7. Len(pool') <= Len(Primary)
    BY NoLonger DEF Apart
<1>8. TypeOK'
    <2>1. pool' \in Seq(ToSet(Primary)) /\ cool' \subseteq Models
        BY DEF InPrimary, IInv, TypeOK
    <2> QED
        BY <1>2, <1>3, <1>6, <1>7, <2>1 DEF TypeOK, Local, Typed, Order
<1>9. Copying'
    <2>1. \A u \in Threads : chat'[u].at = "copy" => chat'[u].raced
        BY <1>1, <1>4
    <2> QED
        BY <2>1 DEF Copying, At
<1>10. \A u \in Threads : Fits(chat[u])'
    <2>1. \A u \in Threads : chat'[u].at = "pop" => chat'[u].shifted
        BY <1>1, <1>4
    <2> QED
        BY <2>1 DEF Fits
<1> QED
    BY <1>2, <1>8, <1>9, <1>10 DEF IInv

LEMMA PopKeeps == ASSUME IInv, NEW t \in Threads, Pop(t) PROVE IInv'
<1> DEFINE o == chat[t]
           i == o.index
<1>1. o.at = "pop" /\ cool' = cool
    BY DEF Pop, At
<1>2. /\ o \in ChatStates /\ Typed(o) /\ Layered(o) /\ Turns(o) /\ Copied(o)
      /\ o.held = NoModel /\ o.outcome = "none" /\ o.layer = "primary"
      /\ i \in Nat /\ i # 0 /\ o.turns \subseteq Models /\ o.raced \in BOOLEAN
      /\ o.shifted \in BOOLEAN /\ Fits(o)
    BY <1>1, ChatHas DEF Local, Typed, Layered
<1>3. pool \in Seq(InPrimary) /\ DOMAIN pool = 1..Len(pool) /\ Len(pool) \in Nat
    BY SequenceHas DEF IInv, TypeOK, InPrimary
<1>4. CASE i <= Len(pool)
    <2> DEFINE m == pool[i]
               c == [o EXCEPT !.at = "append", !.index = 0, !.shifted = FALSE, !.held = m]
    <2>1. i \in DOMAIN pool /\ m \in InPrimary
        BY <1>2, <1>3, <1>4
    <2>2. pool' = RemoveAt(pool, i) /\ chat' = Disturb([chat EXCEPT ![t] = c], t)
        <3>1. ~(i > Len(pool))
            BY <1>2, <1>3, <1>4
        <3>2. /\ pool' = RemoveAt(pool, chat[t].index)
              /\ chat' = Disturb([chat EXCEPT ![t].at = "append", ![t].index = 0,
                                              ![t].shifted = FALSE,
                                              ![t].held = pool[chat[t].index]], t)
            BY <3>1 DEF Pop
        <3>3. [chat EXCEPT ![t].at = "append", ![t].index = 0, ![t].shifted = FALSE,
                           ![t].held = pool[chat[t].index]] = [chat EXCEPT ![t] = c]
            BY DEF IInv, TypeOK
        <3> QED
            BY <3>2, <3>3
    <2>3. /\ c \in ChatStates /\ c.at = "append" /\ c.held = m /\ c.outcome = "none"
          /\ c.layer = o.layer /\ c.attempts = o.attempts /\ c.next = o.next
          /\ c.turns = o.turns /\ c.raced = o.raced
        BY <1>2, <2>1 DEF ChatStates, Places, Asking, InPrimary
    <2> HIDE DEF c, m
    <2>4. OrderOf(c) = OrderOf(o) /\ m # NoModel
        BY <2>1, <2>3, ModelsAre DEF OrderOf
    <2>5. Local(c)
        <3>1. Typed(c)
            BY <1>1, <1>2, <2>3, <2>4 DEF Typed, Asking
        <3>2. Layered(c) /\ Failed(c) /\ Copied(c)
            BY <1>1, <1>2, <2>3 DEF Layered, Failed, Copied, OutsideTurns
        <3>3. Turns(c)
            BY <1>1, <1>2, <2>3, <2>4 DEF Turns, Called, Trying
        <3> QED
            BY <3>1, <3>2, <3>3 DEF Local
    <2>6. \A u \in Threads : chat'[u].held = IF u = t THEN m ELSE chat[u].held
        <3>1. \A u \in Threads : u # t => Disturbed(chat[u]).held = chat[u].held
            BY ChatHas, DisturbedHas
        <3> QED
            BY <2>2, <2>3, <3>1 DEF Disturb, IInv, TypeOK
    <2>7. /\ pool' \in Seq(InPrimary) /\ ToSet(pool') = ToSet(pool) \ {m}
          /\ \A j, k \in DOMAIN pool' : pool'[j] = pool'[k] => j = k
        <3>1. \A j, k \in DOMAIN pool : pool[j] = pool[k] => j = k
            BY DEF IInv, Apart
        <3> DEFINE d == RemoveAt(pool, i)
        <3>2. /\ d \in Seq(InPrimary)
              /\ {d[j] : j \in DOMAIN d} = {pool[j] : j \in DOMAIN pool} \ {pool[i]}
              /\ \A j, k \in DOMAIN d : d[j] = d[k] => j = k
            <4> HIDE DEF i
            <4> QED
                BY <1>3, <2>1, <3>1, RemoveOne
        <3>3. pool' = d
            BY <2>2
        <3> HIDE DEF d
        <3> QED
            BY <3>2, <3>3 DEF ToSet, m
    <2>8. Apart'
        <3>1. \A u \in Threads : chat'[u].held # NoModel => chat'[u].held \notin ToSet(pool')
            BY <2>6, <2>7 DEF IInv, Apart
        <3>2. \A u, v \in Threads :
                chat'[u].held # NoModel /\ chat'[u].held = chat'[v].held => u = v
            <4>1. m \in ToSet(pool)
                BY <2>1 DEF ToSet, m
            <4> QED
                BY <2>4, <2>6, <4>1 DEF IInv, Apart
        <3> QED
            BY <2>7, <3>1, <3>2 DEF Apart
    <2>9. Whole'
        <3> SUFFICES ASSUME NEW n \in InPrimary
                     PROVE  n \in ToSet(pool') \/ \E u \in Threads : chat'[u].held = n
            BY DEF Whole
        <3>1. n \in ToSet(pool) \/ \E u \in Threads : chat[u].held = n
            BY DEF IInv, Whole
        <3>2. n # NoModel
            BY ModelsAre
        <3> QED
            BY <1>2, <2>6, <2>7, <3>1, <3>2
    <2> QED
        BY <1>1, <2>2, <2>3, <2>5, <2>7, <2>8, <2>9, PoolKeeps
<1>5. CASE i > Len(pool)
    <2> DEFINE c == [Idle EXCEPT !.at = "done", !.outcome = "index error",
                                 !.turns = o.turns, !.raced = o.raced,
                                 !.shifted = o.shifted]
    <2>1. pool' = pool /\ chat' = [chat EXCEPT ![t] = c]
        <3>1. ~(i <= Len(pool))
            BY <1>2, <1>3, <1>5
        <3> QED
            BY <3>1 DEF Pop, Raise
    <2>2. /\ c \in ChatStates /\ c.at = "done" /\ c.outcome = "index error"
          /\ c.held = NoModel /\ c.attempts = <<>> /\ c.next = 1 /\ c.layer = "primary"
          /\ c.shifted = o.shifted
        BY <1>2, IdleTyped DEF ChatStates, Places, Outcomes
    <2>s. o.shifted
        BY <1>1, <1>2, <1>3, <1>5 DEF Fits
    <2> HIDE DEF c
    <2>3. OrderOf(c) = <<>> /\ Len(OrderOf(c)) = 0
        BY <2>2 DEF OrderOf
    <2>4. Typed(c)
        <3>1. c.next \in 1..(Len(OrderOf(c)) + 1)
            <4>1. 1 \in 1..(0 + 1)
                OBVIOUS
            <4> QED
                BY <2>2, <2>3, <4>1
        <3> QED
            BY <2>2, <3>1 DEF Typed, Asking
    <2>5. Layered(c) /\ Turns(c) /\ Copied(c) /\ Failed(c)
        BY <2>2, <2>s DEF Layered, Turns, Copied, Failed, Trying, Called, OutsideTurns
    <2>6. Local(c) /\ cool' \subseteq Models
        BY <1>1, <2>4, <2>5 DEF Local, IInv, TypeOK
    <2> QED
        BY <1>2, <2>1, <2>2, <2>6, StepKeeps DEF Fits
<1> QED
    BY <1>2, <1>3, <1>4, <1>5

LEMMA PutBackKeeps == ASSUME IInv, NEW t \in Threads, PutBack(t) PROVE IInv'
<1> DEFINE o == chat[t]
           m == o.held
           c == [o EXCEPT !.at = "pick", !.next = o.next + 1, !.tries = 0, !.held = NoModel]
<1>1. o.at = "append" /\ cool' = cool /\ pool' = Append(pool, m)
    BY DEF PutBack, At
<1>2. /\ o \in ChatStates /\ Typed(o) /\ Layered(o) /\ Turns(o) /\ Copied(o)
      /\ m # NoModel /\ m \in InPrimary /\ o.outcome = "none" /\ o.layer = "primary"
      /\ o.raced \in BOOLEAN
    BY <1>1, ChatHas DEF Local, Typed, Layered
<1>3. /\ o.next \in DOMAIN OrderOf(o) /\ OrderOf(o)[o.next] \in o.turns /\ o.next \in Nat
      /\ o.next + 1 \in Nat /\ Len(OrderOf(o)) \in Nat
      /\ DOMAIN OrderOf(o) = 1..Len(OrderOf(o))
    BY <1>1, TurnHas, ChatHas, OrderTyped DEF Asking, Called, Trying
<1>4. chat' = Disturb([chat EXCEPT ![t] = c], t)
    <2>1. chat' = Disturb([NextModel(t) EXCEPT ![t].held = NoModel], t)
        BY DEF PutBack
    <2>2. [NextModel(t) EXCEPT ![t].held = NoModel] = [chat EXCEPT ![t] = c]
        BY DEF NextModel, IInv, TypeOK
    <2> QED
        BY <2>1, <2>2
<1>5. /\ c \in ChatStates /\ c.at = "pick" /\ c.held = NoModel /\ c.outcome = "none"
      /\ c.layer = o.layer /\ c.attempts = o.attempts /\ c.next = o.next + 1
      /\ c.turns = o.turns /\ c.raced = o.raced
    BY <1>2, <1>3, TriesAre DEF ChatStates, Places, Asking
<1> HIDE DEF c, m
<1>6. Local(c)
    <2>1. OrderOf(c) = OrderOf(o)
        BY <1>5 DEF OrderOf
    <2>2. Typed(c)
        <3>1. o.next + 1 \in 1..(Len(OrderOf(o)) + 1)
            BY <1>3
        <3> QED
            BY <1>5, <2>1, <3>1 DEF Typed, Asking
    <2>3. Layered(c) /\ Failed(c) /\ Copied(c)
        BY <1>1, <1>2, <1>5 DEF Layered, Failed, Copied, OutsideTurns
    <2>4. Turns(c)
        <3>1. \A k \in 1..(o.next - 1) : OrderOf(o)[k] \in o.turns
            BY <1>1, <1>2 DEF Turns, Trying
        <3>2. \A k \in 1..(o.next + 1 - 1) : k \in 1..(o.next - 1) \/ k = o.next
            BY <1>3
        <3>3. \A k \in 1..(c.next - 1) : OrderOf(c)[k] \in c.turns
            BY <1>3, <1>5, <2>1, <3>1, <3>2
        <3> QED
            BY <1>2, <1>5, <3>3 DEF Turns, Called, Trying
    <2> QED
        BY <2>2, <2>3, <2>4 DEF Local
<1>7. \A u \in Threads : chat'[u].held = IF u = t THEN NoModel ELSE chat[u].held
    <2>1. \A u \in Threads : u # t => Disturbed(chat[u]).held = chat[u].held
        BY ChatHas, DisturbedHas
    <2> QED
        BY <1>4, <1>5, <2>1 DEF Disturb, IInv, TypeOK
<1>8. pool \in Seq(InPrimary) /\ DOMAIN pool = 1..Len(pool) /\ Len(pool) \in Nat
    BY SequenceHas DEF IInv, TypeOK, InPrimary
<1>9. /\ pool' \in Seq(InPrimary) /\ Len(pool') = Len(pool) + 1
      /\ DOMAIN pool' = 1..(Len(pool) + 1) /\ pool'[Len(pool) + 1] = m
      /\ \A k \in 1..Len(pool) : pool'[k] = pool[k]
    BY <1>1, <1>2, <1>8 DEF m
<1>10. m \notin ToSet(pool) /\ \A u \in Threads : chat[u].held = m => u = t
    BY <1>2 DEF IInv, Apart, m
<1>11. ToSet(pool') = ToSet(pool) \cup {m}
    BY <1>8, <1>9 DEF ToSet
<1>12. \A j, k \in DOMAIN pool' : pool'[j] = pool'[k] => j = k
    <2>1. \A j, k \in 1..Len(pool) : pool[j] = pool[k] => j = k
        BY <1>8 DEF IInv, Apart
    <2>2. \A k \in 1..Len(pool) : pool[k] # m
        BY <1>8, <1>10 DEF ToSet
    <2>3. \A k \in 1..(Len(pool) + 1) : k \in 1..Len(pool) \/ k = Len(pool) + 1
        BY <1>8
    <2> QED
        BY <1>9, <2>1, <2>2, <2>3
<1>13. Apart'
    <2>1. \A u \in Threads : chat'[u].held # NoModel => chat'[u].held \notin ToSet(pool')
        BY <1>7, <1>10, <1>11 DEF IInv, Apart
    <2>2. \A u, v \in Threads :
            chat'[u].held # NoModel /\ chat'[u].held = chat'[v].held => u = v
        BY <1>7 DEF IInv, Apart
    <2> QED
        BY <1>12, <2>1, <2>2 DEF Apart
<1>14. Whole'
    <2> SUFFICES ASSUME NEW n \in InPrimary
                 PROVE  n \in ToSet(pool') \/ \E u \in Threads : chat'[u].held = n
        BY DEF Whole
    <2>1. n \in ToSet(pool) \/ \E u \in Threads : chat[u].held = n
        BY DEF IInv, Whole
    <2> QED
        BY <1>7, <1>11, <2>1 DEF m
<1> QED
    BY <1>1, <1>4, <1>5, <1>6, <1>9, <1>13, <1>14, PoolKeeps

-----------------------------------------------------------------------------
(* The theorems.                                                            *)

LEMMA NextInv == IInv /\ [Next]_vars => IInv'
<1> SUFFICES ASSUME IInv, [Next]_vars PROVE IInv'
    OBVIOUS
<1>1. CASE UNCHANGED vars
    <2>1. pool' = pool /\ cool' = cool /\ chat' = chat
        BY <1>1 DEF vars
    <2>2. TypeOK'
        BY <2>1 DEF IInv, TypeOK, Order, Calling
    <2>3. Copying'
        BY <2>1 DEF IInv, Copying, Peaceful, At
    <2>4. Apart' /\ Whole'
        BY <2>1 DEF IInv, Apart, Whole
    <2>5. \A t \in Threads : Fits(chat[t])'
        BY <2>1 DEF IInv, Fits
    <2> QED
        BY <2>1, <2>2, <2>3, <2>4, <2>5 DEF IInv
<1>2. ASSUME NEW t \in Threads, Begin(t) PROVE IInv'
    BY <1>2, BeginKeeps
<1>3. ASSUME NEW t \in Threads, Step(t) PROVE IInv'
    <2>1. CASE Copy(t)
        BY <2>1, CopyKeeps
    <2>2. CASE StreamPick(t)
        BY <2>2, StreamPickKeeps
    <2>3. CASE StreamCalls(t)
        BY <2>3, StreamCallsKeeps
    <2>4. CASE StreamReturns(t)
        BY <2>4, StreamReturnsKeeps
    <2>5. CASE LayerEnds(t)
        BY <2>5, LayerEndsKeeps
    <2>6. CASE SkipCooling(t)
        BY <2>6, SkipCoolingKeeps
    <2>7. CASE Pick(t)
        BY <2>7, PickKeeps
    <2>8. CASE CheckFindsCooling(t)
        BY <2>8, CheckFindsCoolingKeeps
    <2>9. CASE CheckPasses(t)
        BY <2>9, CheckPassesKeeps
    <2>10. CASE Call(t)
        BY <2>10, CallKeeps
    <2>11. CASE Answers(t)
        BY <2>11, IdleKeeps DEF Answers, At
    <2>12. CASE Refuses(t)
        BY <2>12, RefusesKeeps
    <2>13. CASE Falters(t)
        BY <2>13, FaltersKeeps
    <2>14. CASE Limits(t)
        BY <2>14, LimitsKeeps
    <2>15. CASE Find(t)
        BY <2>15, FindKeeps
    <2>16. CASE Pop(t)
        BY <2>16, PopKeeps
    <2>17. CASE PutBack(t)
        BY <2>17, PutBackKeeps
    <2>18. CASE Return(t)
        BY <2>18, IdleKeeps DEF Return, At
    <2> QED
        BY <1>3, <2>1, <2>2, <2>3, <2>4, <2>5, <2>6, <2>7, <2>8, <2>9, <2>10, <2>11,
           <2>12, <2>13, <2>14, <2>15, <2>16, <2>17, <2>18 DEF Step, Service
<1> QED
    BY <1>1, <1>2, <1>3 DEF Next

LEMMA Inductive == Spec => []IInv
    BY InitInv, NextInv, PTL DEF Spec

\* The types of the pool, the cooldowns and the chats, and the bound on calls
\* at a time, hold whatever the configuration.
THEOREM TypeCorrectness == Spec => []TypeOK
<1>1. IInv => TypeOK
    BY DEF IInv
<1> QED
    BY <1>1, Inductive, PTL

\* A model is in one place at most, and in one at least.
LEMMA OnePlace == IInv => PoolKept
<1> SUFFICES ASSUME IInv, NEW m \in InPrimary
             PROVE  Cardinality({k \in DOMAIN pool : pool[k] = m})
                      + Cardinality({t \in Threads : chat[t].held = m}) = 1
    BY DEF PoolKept, InPrimary
<1> DEFINE here == {k \in DOMAIN pool : pool[k] = m}
           there == {t \in Threads : chat[t].held = m}
<1>1. m # NoModel /\ Apart /\ Whole
    BY ModelsAre DEF IInv
<1>2. CASE m \in ToSet(pool)
    <2>1. PICK k \in DOMAIN pool : pool[k] = m
        BY <1>2 DEF ToSet
    <2>2. here = {k} /\ there = {}
        BY <1>1, <1>2, <2>1 DEF Apart
    <2>3. Cardinality(here) = 1 /\ Cardinality(there) = 0
        BY <2>2, FS_Singleton, FS_EmptySet
    <2> QED
        BY <2>3
<1>3. CASE m \notin ToSet(pool)
    <2>1. PICK t \in Threads : chat[t].held = m
        BY <1>1, <1>3 DEF Whole
    <2>2. here = {} /\ there = {t}
        BY <1>1, <1>3, <2>1 DEF Apart, ToSet
    <2>3. Cardinality(here) = 0 /\ Cardinality(there) = 1
        BY <2>2, FS_Singleton, FS_EmptySet
    <2> QED
        BY <2>3
<1> QED
    BY <1>2, <1>3

\* For any number of threads and models: rotations that run into each other
\* neither lose a model of the pool nor double one (client.py:757).
THEOREM AlwaysKept == Spec => []PoolKept
    BY Inductive, OnePlace, PTL

\* For any configuration of the three providers: a chat fails when each model
\* it is configured to try had its turn, or by a rotation of another thread,
\* which changed the pool under its copy or came between an index and its pop
\* (client.py:641, :757).
THEOREM AskedUnlessDisturbed == Spec => []AskedUnlessRaced
<1>1. IInv => AskedUnlessRaced
    BY DEF IInv, Local, Failed, AskedUnlessRaced
<1> QED
    BY <1>1, Inductive, PTL
=============================================================================

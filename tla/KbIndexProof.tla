---------------------------- MODULE KbIndexProof -----------------------------
(***************************************************************************)
(* Proofs about the vector index, for any processes, threads, chunks and    *)
(* embeddings, any ratio of phantoms, and any number of writes and ends of  *)
(* a process.                                                               *)
(***************************************************************************)
EXTENDS KbIndex, FiniteSetTheorems, SequenceTheorems, WellFoundedInduction, TLAPS

-----------------------------------------------------------------------------
(* The inductive invariant.                                                 *)

Mapping(f, S) == f \in [DOMAIN f -> S]

IndexTyped(i) ==
    /\ i = [vecs |-> i.vecs, ids |-> i.ids, at |-> i.at]
    /\ i.vecs \in Seq(Vectors) /\ Mapping(i.ids, 1..given)
    /\ DOMAIN i.at \subseteq 1..given

\* what each thread may be at, and what comes after its save
StepsOf(job) ==
    CASE job = "none"   -> {"idle"}
      [] job = "search" -> {"count", "compare", "load", "map", "stamp", "add", "recount",
                            "recompare", "build", "restamp", "answer",
                            "save vectors", "save map"}
      [] job = "embed"  -> {"load", "map", "stamp", "put", "bump"}
      [] job = "delete" -> {"remove", "save vectors", "save map", "bump"}
      [] job = "add"    -> {"bump"}
      [] job = "close"  -> {"save vectors", "save map"}
ThenOf(job) ==
    CASE job = "search" -> {"answer", "restamp"}
      [] job = "delete" -> {"bump"}
      [] OTHER          -> {"idle"}

Jobs == {"none", "search", "embed", "delete", "add", "close"}
Saving(t) == thread[t].at \in {"save vectors", "save map"}

Threading == [at : Steps, job : Jobs, chunks : SUBSET (1..given),
              version : Versions \cup {NoVersion}, file : Seq(Vectors),
              then : Steps, known : SUBSET Vectors]
ThreadTyped(t) ==
    /\ thread[t] \in Threading
    /\ thread[t].at \in StepsOf(thread[t].job)
    /\ Saving(t) => thread[t].then \in ThenOf(thread[t].job)
    /\ thread[t].job = "embed" => thread[t].version \in Versions
    /\ thread[t].job = "none" => thread[t] = Idle

RowsTyped ==
    /\ given \in Nat /\ rows \subseteq 1..given /\ 1..given \subseteq Chunks
    /\ emb \in [Chunks -> Versions \cup {NoVersion}]
    /\ \A c \in Chunks : emb[c] # NoVersion => c \in rows
FilesTyped ==
    /\ disk = [saved |-> disk.saved, vecs |-> disk.vecs, ids |-> disk.ids]
    /\ disk.vecs \in Seq(Vectors) /\ Mapping(disk.ids, 1..given)
IndexesTyped ==
    /\ mem = [p \in Procs |-> mem[p]]
    /\ \A p \in Procs :
          /\ mem[p] = [on |-> mem[p].on, index |-> mem[p].index, revision |-> mem[p].revision]
          /\ mem[p].on \in BOOLEAN /\ IndexTyped(mem[p].index)
          /\ mem[p].on \/ mem[p].index = NewIndex
ThreadsTyped == thread = [t \in Threads |-> thread[t]] /\ \A t \in Threads : ThreadTyped(t)

Typed ==
    /\ RowsTyped /\ FilesTyped /\ IndexesTyped /\ ThreadsTyped
    /\ restarts \in 0..MaxRestarts
    /\ flaws \subseteq {"overtaken", "torn", "unannounced"}

\* a thread that has the lock of its process
Holds(t) ==
    /\ thread[t].at \notin {"idle", "remove"}
    /\ thread[t].at = "bump" => thread[t].job = "embed"

Locked ==
    /\ lock \in [Procs -> Threads \cup {Nobody}]
    /\ \A p \in Procs : lock[p] # Nobody => Home[lock[p]] = p /\ Holds(lock[p])
    /\ \A t \in Threads : Holds(t) => lock[Home[t]] = t

\* each write that is under way will raise the revision once
Writers == {t \in Threads : Announcing(t)}
Revisions ==
    /\ revision \in Nat /\ revision + Cardinality(Writers) <= MaxRevision
    /\ \A p \in Procs : mem[p].revision \in 0..revision

\* what is deleted does not come back, and a search knows of what was embedded
Knows(t) ==
    /\ thread[t].job = "delete" => thread[t].chunks \cap rows = {}
    /\ \A k \in thread[t].known :
          k[1] \in 1..given /\ (k[1] \in rows => emb[k[1]] # NoVersion)
Facts == \A t \in Threads : Knows(t)

\* vectors and ids that belong together, and an index that is one with its maps
Fits(vecs, ids) ==
    /\ \A k \in DOMAIN ids : k \in DOMAIN vecs /\ vecs[k][1] = ids[k]
    /\ \A j, k \in DOMAIN ids : ids[j] = ids[k] => j = k
Good(i) ==
    /\ Fits(i.vecs, i.ids)
    /\ DOMAIN i.at = Indexed(i)
    /\ \A k \in DOMAIN i.ids : i.at[i.ids[k]] = k

\* the files belong together but while one of them is replaced alone, and who
\* is between the two has read or written the first
OneBetween ==
    \A t, u \in Threads : t # u /\ At(t, "save map") => ~At(u, "map") /\ ~At(u, "save map")
FilesFit ==
    /\ (\A t \in Threads : ~At(t, "save map")) => Fits(disk.vecs, disk.ids)
    /\ \A t \in Threads : At(t, "map") => thread[t].file = disk.vecs
    /\ \A t \in Threads : At(t, "save map") => disk.vecs = Index(t).vecs
AllGood == \A p \in Procs : Good(mem[p].index)
Sound == "torn" \notin flaws => AllGood /\ OneBetween /\ FilesFit

\* what every index under the current revision has to have
Announced == Embedded \ Unannounced

\* an index that is being put together after it was loaded
Filling(t) == thread[t].at \in {"stamp", "add"} \/ thread[t].job = "embed"
Loading(p) == \E t \in Threads : Home[t] = p /\ Filling(t)
Fresh(p) ==
    mem[p].on /\ mem[p].revision = revision => Announced \subseteq Indexed(mem[p].index)
AllFresh == \A p \in Procs : Loading(p) \/ Fresh(p)

\* what a search knows of is in its index: before it has looked at the revision,
\* if that is the current one; after it, whenever it has an index
Covers(t) == \A k \in thread[t].known : k[1] \in rows => k[1] \in Indexed(Index(t))
Looking(t) == thread[t].at \in {"count", "compare"} /\ mem[Home[t]].revision = revision
Looked(t) ==
    /\ thread[t].job = "search" /\ HasIndex(t)
    /\ \/ thread[t].at \in {"recount", "recompare", "restamp", "answer"}
       \/ Saving(t)
Found(t) == Looking(t) \/ Looked(t) => Covers(t)
AllFound == \A t \in Threads : Found(t)

Current == flaws = {} => AllFresh /\ AllFound

IInv == Typed /\ Locked /\ Revisions /\ Facts /\ Sound /\ Current

-----------------------------------------------------------------------------
(* Rows and positions in order.                                             *)

LEMMA Least ==
    ASSUME NEW T \in SUBSET Nat, T # {}
    PROVE  \E x \in T : \A y \in T : x <= y
<1> DEFINE R == OpToRel(<, Nat)
<1>1. PICK x \in T : \A y \in T : ~(<<y, x>> \in R)
    <2>1. IsWellFoundedOn(R, Nat)
        BY NatLessThanWellFounded
    <2> QED
        BY ONLY <2>1, WFMin, T \subseteq Nat, T # {}
<1>2. \A y \in T : ~(y < x)
    BY <1>1 DEF OpToRel
<1> QED
    BY <1>2

Increasing(f, n) == \A j, k \in 1..n : j < k => f[j] < f[k]

\* A finite set of numbers can be counted in order: the smallest one first,
\* then the others.
LEMMA OrderExists ==
    ASSUME NEW S \in SUBSET Nat, IsFiniteSet(S)
    PROVE  \E f \in [1..Cardinality(S) -> S] : Increasing(f, Cardinality(S))
<1> DEFINE Ordered(T) == \E f \in [1..Cardinality(T) -> T] : Increasing(f, Cardinality(T))
           Bad == {n \in Nat : \E T \in SUBSET Nat : /\ IsFiniteSet(T) /\ Cardinality(T) = n
                                                    /\ ~Ordered(T)}
<1> HIDE DEF Ordered, Bad
<1>1. CASE Bad = {}
    BY <1>1, FS_CardinalityType DEF Bad, Ordered
<1>2. CASE Bad # {}
    <2>1. PICK n \in Bad : \A k \in Bad : n <= k
        <3>1. Bad \in SUBSET Nat
            BY DEF Bad
        <3> QED
            BY <1>2, <3>1, Least
    <2>2. PICK T \in SUBSET Nat : IsFiniteSet(T) /\ Cardinality(T) = n /\ ~Ordered(T)
        BY <2>1 DEF Bad
    <2>3. n \in Nat
        BY <2>1 DEF Bad
    <2>4. T # {}
        <3>1. SUFFICES ASSUME T = {} PROVE FALSE
            OBVIOUS
        <3>2. n = 0
            BY <2>2, <3>1, FS_EmptySet
        <3>3. [k \in 1..0 |-> 0] \in [1..0 -> {}]
            OBVIOUS
        <3>4. Increasing([k \in 1..0 |-> 0], 0)
            BY DEF Increasing
        <3> QED
            BY <2>2, <3>1, <3>2, <3>3, <3>4 DEF Ordered
    <2>5. PICK x \in T : \A y \in T : x <= y
        BY <2>4, Least
    <2> DEFINE U == T \ {x}
    <2>6. IsFiniteSet(U) /\ Cardinality(U) = n - 1 /\ n - 1 \in Nat
        <3>1. IsFiniteSet(U) /\ Cardinality(U) = n - 1
            BY <2>2, <2>5, FS_RemoveElement
        <3> QED
            BY <3>1, FS_CardinalityType
    <2>7. Ordered(U)
        BY <2>1, <2>3, <2>6 DEF Bad
    <2>8. PICK g \in [1..(n - 1) -> U] : Increasing(g, n - 1)
        BY <2>6, <2>7 DEF Ordered
    <2> DEFINE f == [k \in 1..n |-> IF k = 1 THEN x ELSE g[k - 1]]
    <2>9. f \in [1..n -> T]
        BY <2>3, <2>8
    <2>10. Increasing(f, n)
        <3>1. SUFFICES ASSUME NEW j \in 1..n, NEW k \in 1..n, j < k PROVE f[j] < f[k]
            BY DEF Increasing
        <3>2. k # 1 /\ k - 1 \in 1..(n - 1)
            BY <2>3, <3>1
        <3>5. g[k - 1] \in U /\ f[k] = g[k - 1] /\ g[k - 1] \in Nat
            BY <2>8, <3>2
        <3>3. CASE j = 1
            <4>1. f[j] = x /\ x \in Nat /\ x <= g[k - 1] /\ x # g[k - 1]
                BY <2>5, <3>3, <3>5
            <4> QED
                BY <3>5, <4>1
        <3>4. CASE j # 1
            <4>1. j - 1 \in 1..(n - 1) /\ j - 1 < k - 1
                BY <2>3, <3>1, <3>4
            <4>2. f[j] = g[j - 1]
                BY <3>4
            <4> QED
                BY <2>8, <3>2, <3>5, <4>1, <4>2 DEF Increasing
        <3> QED
            BY <3>3, <3>4
    <2> QED
        BY <2>2, <2>9, <2>10 DEF Ordered
<1> QED
    BY <1>1, <1>2

\* InOrder gives each number once.
LEMMA InOrderIs ==
    ASSUME NEW S \in SUBSET Nat, IsFiniteSet(S)
    PROVE  /\ Cardinality(S) \in Nat
           /\ InOrder(S) \in [1..Cardinality(S) -> S]
           /\ DOMAIN InOrder(S) = 1..Cardinality(S)
           /\ \A j, k \in DOMAIN InOrder(S) : InOrder(S)[j] = InOrder(S)[k] => j = k
           /\ \A s \in S : \E k \in DOMAIN InOrder(S) : InOrder(S)[k] = s
<1> DEFINE n == Cardinality(S)
           f == InOrder(S)
<1>1. n \in Nat
    BY FS_CardinalityType
<1>2. f \in [1..n -> S] /\ Increasing(f, n)
    <2>1. f = CHOOSE g \in [1..n -> S] : Increasing(g, n)
        BY DEF InOrder, Increasing
    <2> QED
        BY <2>1, OrderExists
<1> HIDE DEF f, n
<1>3. \A j, k \in 1..n : f[j] = f[k] => j = k
    <2>1. \A k \in 1..n : f[k] \in Nat
        BY <1>2
    <2> QED
        BY <1>1, <1>2, <2>1 DEF Increasing
<1>4. \A s \in S : \E k \in 1..n : f[k] = s
    <2>1. f \in Injection(1..n, S)
        BY <1>2, <1>3 DEF Injection, IsInjective
    <2>2. IsFiniteSet(1..n) /\ Cardinality(1..n) = n
        BY <1>1, FS_Interval
    <2>3. f \in Surjection(1..n, S)
        BY <2>1, <2>2, FS_Injection DEF n
    <2> QED
        BY <2>3 DEF Surjection
<1> QED
    BY <1>1, <1>2, <1>3, <1>4 DEF f, n

-----------------------------------------------------------------------------
(* What is given to an index.                                               *)

ItemSet == [id : 1..given, vec : Vectors]
IdsOf(items) == {items[k].id : k \in DOMAIN items}

\* each id once, with a vector of its own
Distinct(items) ==
    /\ \A k \in DOMAIN items : items[k].vec[1] = items[k].id
    /\ \A j, k \in DOMAIN items : items[j].id = items[k].id => j = k

LEMMA ListTyped ==
    ASSUME NEW n \in Nat, NEW T, NEW f \in [1..n -> T]
    PROVE  f \in Seq(T) /\ Len(f) = n /\ DOMAIN f = 1..n
BY SeqDef, LenProperties

LEMMA EmbeddedIs ==
    ASSUME Typed
    PROVE  /\ Embedded \subseteq rows /\ Embedded \subseteq Chunks
           /\ Embedded \in SUBSET Nat /\ IsFiniteSet(Embedded)
BY KbIndexAssumption, FS_Subset DEF Typed, RowsTyped, Embedded

LEMMA RowsWithoutIs ==
    ASSUME Typed, NEW S
    PROVE  /\ RowsWithout(S) \in Seq(ItemSet)
           /\ Distinct(RowsWithout(S)) /\ IdsOf(RowsWithout(S)) = Embedded \ S
           /\ RowsWithout(S) = <<>> => Embedded \subseteq S
<1> DEFINE E == Embedded \ S
           order == InOrder(E)
           n == Cardinality(E)
<1>1. E \in SUBSET Nat /\ IsFiniteSet(E)
    BY EmbeddedIs, FS_Subset
<1>2. /\ n \in Nat /\ order \in [1..n -> E] /\ DOMAIN order = 1..n
      /\ \A j, k \in 1..n : order[j] = order[k] => j = k
      /\ \A s \in E : \E k \in 1..n : order[k] = s
    <2> HIDE DEF E
    <2>1. DOMAIN order = 1..n
        BY <1>1, InOrderIs
    <2> QED
        BY <1>1, <2>1, InOrderIs
<1>3. RowsWithout(S) = [k \in 1..n |-> Item(order[k])]
    BY <1>2 DEF RowsWithout
<1>4. \A c \in E : Item(c) \in ItemSet /\ Item(c).id = c /\ Item(c).vec[1] = c
    BY EmbeddedIs DEF Typed, RowsTyped, Item, ItemSet, Embedded, Vectors
<1> HIDE DEF order, n
<1>5. RowsWithout(S) \in [1..n -> ItemSet]
    BY <1>2, <1>3, <1>4
<1>6. RowsWithout(S) \in Seq(ItemSet) /\ Len(RowsWithout(S)) = n /\ DOMAIN RowsWithout(S) = 1..n
    BY <1>2, <1>5, ListTyped
<1>7. \A k \in 1..n : RowsWithout(S)[k].id = order[k] /\ RowsWithout(S)[k].vec[1] = order[k]
    BY <1>2, <1>3, <1>4
<1>8. Distinct(RowsWithout(S))
    BY <1>2, <1>6, <1>7 DEF Distinct
<1>9. IdsOf(RowsWithout(S)) = E
    BY <1>2, <1>6, <1>7 DEF IdsOf
<1>10. RowsWithout(S) = <<>> => E = {}
    <2>1. SUFFICES ASSUME RowsWithout(S) = <<>> PROVE E = {}
        OBVIOUS
    <2>2. DOMAIN RowsWithout(S) = {}
        BY <2>1
    <2> QED
        BY <1>9, <2>2 DEF IdsOf
<1> QED
    BY <1>6, <1>8, <1>9, <1>10

-----------------------------------------------------------------------------
(* The operations of an index.                                              *)

LEMMA NewIndexIs == Good(NewIndex) /\ (Typed => IndexTyped(NewIndex)) /\ Indexed(NewIndex) = {}
BY EmptySeq DEF NewIndex, Good, Fits, Indexed, IndexTyped, Mapping

LEMMA AppendIs ==
    ASSUME NEW i, IndexTyped(i), NEW items \in Seq(ItemSet)
    PROVE  LET a == AppendItems(i, items)
               n == Len(i.vecs)
               m == Len(items)
           IN  /\ n \in Nat /\ m \in Nat /\ DOMAIN items = 1..m
               /\ IndexTyped(a)
               /\ DOMAIN a.vecs = 1..(n + m)
               /\ \A k \in 1..n : a.vecs[k] = i.vecs[k]
               /\ \A k \in 1..m : a.vecs[n + k] = items[k].vec
               /\ DOMAIN a.ids = DOMAIN i.ids \cup ((n + 1)..(n + m))
               /\ \A k \in 1..m : a.ids[n + k] = items[k].id
               /\ \A k \in DOMAIN i.ids \ ((n + 1)..(n + m)) : a.ids[k] = i.ids[k]
               /\ DOMAIN a.at = DOMAIN i.at \cup IdsOf(items)
               /\ \A c \in DOMAIN i.at \ IdsOf(items) : a.at[c] = i.at[c]
               /\ \A c \in IdsOf(items) :
                      \E k \in 1..m : items[k].id = c /\ a.at[c] = n + k
<1> DEFINE a == AppendItems(i, items)
           n == Len(i.vecs)
           m == Len(items)
           added == (n + 1)..(n + m)
           vecs == [k \in 1..m |-> items[k].vec]
           place == [c \in IdsOf(items) |-> n + (CHOOSE k \in 1..m : items[k].id = c)]
<1>1. /\ n \in Nat /\ m \in Nat /\ DOMAIN items = 1..m
      /\ \A k \in 1..m : items[k] \in ItemSet
      /\ i.vecs \in Seq(Vectors) /\ DOMAIN i.vecs = 1..n
    BY LenProperties, ElementOfSeq DEF IndexTyped
<1>2. /\ a.vecs = i.vecs \o vecs
      /\ a.ids = [k \in DOMAIN i.ids \cup added |->
                    IF k \in added THEN items[k - n].id ELSE i.ids[k]]
      /\ a.at = [c \in DOMAIN i.at \cup IdsOf(items) |->
                    IF c \in IdsOf(items) THEN place[c] ELSE i.at[c]]
      /\ a = [vecs |-> a.vecs, ids |-> a.ids, at |-> a.at]
    BY <1>1 DEF AppendItems, Top, IdsOf
<1>3. vecs \in Seq(Vectors) /\ Len(vecs) = m
    <2>1. vecs \in [1..m -> Vectors]
        BY <1>1 DEF ItemSet
    <2> HIDE DEF vecs, m
    <2> QED
        BY <1>1, <2>1, ListTyped
<1> HIDE DEF a, n, m, vecs, place
<1>4. /\ a.vecs \in Seq(Vectors) /\ DOMAIN a.vecs = 1..(n + m)
      /\ \A k \in 1..n : a.vecs[k] = i.vecs[k]
      /\ \A k \in 1..m : a.vecs[n + k] = items[k].vec
    <2>a. Len(i.vecs) = n
        BY DEF n
    <2>b. /\ i.vecs \o vecs \in Seq(Vectors) /\ Len(i.vecs \o vecs) = n + m
          /\ \A k \in 1..(n + m) :
                (i.vecs \o vecs)[k] = IF k <= n THEN i.vecs[k] ELSE vecs[k - n]
        BY <1>1, <1>3, <2>a, ConcatProperties
    <2>1. /\ a.vecs \in Seq(Vectors) /\ Len(a.vecs) = n + m
          /\ \A k \in 1..(n + m) : a.vecs[k] = IF k <= n THEN i.vecs[k] ELSE vecs[k - n]
        BY <1>2, <2>b
    <2>2. DOMAIN a.vecs = 1..(n + m)
        BY <2>1, LenProperties
    <2>3. \A k \in 1..n : a.vecs[k] = i.vecs[k]
        BY <1>1, <2>1
    <2>4. ASSUME NEW k \in 1..m PROVE a.vecs[n + k] = items[k].vec
        <3>1. n + k \in 1..(n + m) /\ ~(n + k <= n) /\ (n + k) - n = k
            BY <1>1
        <3>2. vecs[k] = items[k].vec
            BY DEF vecs
        <3> QED
            BY <2>1, <3>1, <3>2
    <2> QED
        BY <2>1, <2>2, <2>3, <2>4
<1>5. /\ DOMAIN a.ids = DOMAIN i.ids \cup added
      /\ \A k \in 1..m : a.ids[n + k] = items[k].id
      /\ \A k \in DOMAIN i.ids \ added : a.ids[k] = i.ids[k]
    <2>1. ASSUME NEW k \in 1..m PROVE a.ids[n + k] = items[k].id
        <3>1. n + k \in added /\ (n + k) - n = k
            BY <1>1
        <3> QED
            BY <1>2, <3>1
    <2> QED
        BY <1>2, <2>1
<1>6. Mapping(a.ids, 1..given)
    <2>1. ASSUME NEW k \in added PROVE items[k - n].id \in 1..given
        <3>1. k - n \in 1..m
            BY <1>1
        <3> QED
            BY <1>1, <3>1 DEF ItemSet
    <2> QED
        BY <1>2, <2>1 DEF IndexTyped, Mapping
<1>7. /\ DOMAIN a.at = DOMAIN i.at \cup IdsOf(items)
      /\ \A c \in DOMAIN i.at \ IdsOf(items) : a.at[c] = i.at[c]
      /\ \A c \in IdsOf(items) : \E k \in 1..m : items[k].id = c /\ a.at[c] = n + k
    <2>1. ASSUME NEW c \in IdsOf(items)
          PROVE  \E k \in 1..m : items[k].id = c /\ a.at[c] = n + k
        <3>1. \E k \in 1..m : items[k].id = c
            BY <1>1 DEF IdsOf
        <3> QED
            BY <1>2, <3>1 DEF place
    <2> QED
        BY <1>2, <2>1
<1>8. IdsOf(items) \subseteq 1..given
    BY <1>1 DEF IdsOf, ItemSet
<1>9. IndexTyped(a)
    BY <1>2, <1>4, <1>6, <1>7, <1>8 DEF IndexTyped
<1> QED
    BY <1>1, <1>4, <1>5, <1>7, <1>9 DEF a, n, m

\* New ids go behind a good index, and leave it good.
LEMMA AppendGood ==
    ASSUME NEW i, IndexTyped(i), Good(i), NEW items \in Seq(ItemSet), Distinct(items),
           IdsOf(items) \cap Indexed(i) = {}
    PROVE  /\ Good(AppendItems(i, items))
           /\ Indexed(AppendItems(i, items)) = Indexed(i) \cup IdsOf(items)
<1> DEFINE a == AppendItems(i, items)
           n == Len(i.vecs)
           m == Len(items)
           added == (n + 1)..(n + m)
<1>1. /\ n \in Nat /\ m \in Nat /\ DOMAIN items = 1..m
      /\ DOMAIN a.vecs = 1..(n + m)
      /\ \A k \in 1..n : a.vecs[k] = i.vecs[k]
      /\ \A k \in 1..m : a.vecs[n + k] = items[k].vec
      /\ DOMAIN a.ids = DOMAIN i.ids \cup added
      /\ \A k \in 1..m : a.ids[n + k] = items[k].id
      /\ \A k \in DOMAIN i.ids \ added : a.ids[k] = i.ids[k]
      /\ DOMAIN a.at = DOMAIN i.at \cup IdsOf(items)
      /\ \A c \in DOMAIN i.at \ IdsOf(items) : a.at[c] = i.at[c]
      /\ \A c \in IdsOf(items) : \E k \in 1..m : items[k].id = c /\ a.at[c] = n + k
    BY AppendIs
<1> HIDE DEF a, n, m, added
<1>0. \A k \in added : k \in Int /\ k - n \in 1..m /\ n + (k - n) = k
    BY <1>1 DEF added
<1>b. \A k \in 1..m : n + k \in added
    BY <1>1 DEF added
<1>2. DOMAIN i.ids \subseteq 1..n /\ DOMAIN i.ids \cap added = {}
    <2>1. DOMAIN i.vecs = 1..n
        BY LenProperties DEF IndexTyped, n
    <2> QED
        BY <1>1, <2>1 DEF Good, Fits, added
<1>3. \A k \in DOMAIN i.ids : a.ids[k] = i.ids[k] /\ a.vecs[k] = i.vecs[k]
    BY <1>1, <1>2
<1>4. ASSUME NEW k \in added
      PROVE  /\ k - n \in 1..m /\ a.ids[k] = items[k - n].id
             /\ a.vecs[k] = items[k - n].vec
    BY <1>0, <1>1
<1>5. Indexed(a) = Indexed(i) \cup IdsOf(items)
    <2>1. Indexed(a) \subseteq Indexed(i) \cup IdsOf(items)
        <3>1. \A k \in added : a.ids[k] \in IdsOf(items)
            BY <1>1, <1>4 DEF IdsOf
        <3> QED
            BY <1>1, <1>3, <3>1 DEF Indexed
    <2>2. Indexed(i) \subseteq Indexed(a)
        BY <1>1, <1>3 DEF Indexed
    <2>3. ASSUME NEW k \in 1..m PROVE items[k].id \in Indexed(a)
        BY <1>1, <1>b DEF Indexed
    <2> QED
        BY <1>1, <2>1, <2>2, <2>3 DEF IdsOf
<1>6. \A k \in DOMAIN a.ids : k \in DOMAIN a.vecs /\ a.vecs[k][1] = a.ids[k]
    <2>1. ASSUME NEW k \in DOMAIN i.ids PROVE k \in DOMAIN a.vecs /\ a.vecs[k][1] = a.ids[k]
        BY <1>1, <1>2, <1>3 DEF Good, Fits
    <2>2. ASSUME NEW k \in added PROVE k \in DOMAIN a.vecs /\ a.vecs[k][1] = a.ids[k]
        <3>1. k \in DOMAIN a.vecs
            BY <1>1 DEF added
        <3>2. k - n \in DOMAIN items /\ a.ids[k] = items[k - n].id /\ a.vecs[k] = items[k - n].vec
            BY <1>1, <1>4
        <3>3. items[k - n].vec[1] = items[k - n].id
            BY <3>2 DEF Distinct
        <3> QED
            BY <3>1, <3>2, <3>3
    <2> QED
        BY <1>1, <2>1, <2>2
<1>7. \A k \in DOMAIN a.ids : a.at[a.ids[k]] = k
    <2>1. ASSUME NEW k \in DOMAIN i.ids PROVE a.at[a.ids[k]] = k
        <3>1. i.ids[k] \in DOMAIN i.at /\ i.ids[k] \notin IdsOf(items) /\ i.at[i.ids[k]] = k
            BY DEF Good, Indexed
        <3> QED
            BY <1>1, <1>3, <3>1
    <2>2. ASSUME NEW k \in added PROVE a.at[a.ids[k]] = k
        <3>1. a.ids[k] = items[k - n].id /\ k - n \in 1..m
            BY <1>4
        <3>2. a.ids[k] \in IdsOf(items)
            BY <1>1, <3>1 DEF IdsOf
        <3>3. PICK j \in 1..m : items[j].id = a.ids[k] /\ a.at[a.ids[k]] = n + j
            BY <1>1, <3>2
        <3>4. j = k - n
            <4>1. j \in DOMAIN items /\ k - n \in DOMAIN items
                BY <1>1, <3>1
            <4>2. items[j].id = items[k - n].id
                BY <3>1, <3>3
            <4> QED
                BY <4>1, <4>2 DEF Distinct
        <3> QED
            BY <1>0, <3>3, <3>4
    <2> QED
        BY <1>1, <2>1, <2>2
<1>8. DOMAIN a.at = Indexed(a)
    BY <1>1, <1>5 DEF Good
<1>9. \A j, k \in DOMAIN a.ids : a.ids[j] = a.ids[k] => j = k
    BY <1>7
<1>10. Good(a)
    BY <1>6, <1>7, <1>8, <1>9 DEF Good, Fits
<1> QED
    BY <1>5, <1>10 DEF a

\* The cache of a good index lists each id it has once.
LEMMA CachedIs ==
    ASSUME NEW i, IndexTyped(i), given \in Nat
    PROVE  /\ Cached(i) \in Seq(ItemSet)
           /\ Good(i) => Distinct(Cached(i)) /\ IdsOf(Cached(i)) = Indexed(i)
<1> DEFINE P == DOMAIN i.ids \cap DOMAIN i.vecs
           live == InOrder(P)
           n == Cardinality(P)
<1>1. P \in SUBSET Nat /\ IsFiniteSet(P) /\ i.vecs \in Seq(Vectors)
    <2>1. i.vecs \in Seq(Vectors)
        BY DEF IndexTyped
    <2>2. Len(i.vecs) \in Nat /\ DOMAIN i.vecs = 1..Len(i.vecs)
        BY <2>1, LenProperties
    <2>3. IsFiniteSet(1..Len(i.vecs))
        BY <2>2, FS_Interval
    <2> QED
        BY <2>1, <2>2, <2>3, FS_Subset
<1>2. /\ n \in Nat /\ live \in [1..n -> P] /\ DOMAIN live = 1..n
      /\ \A j, k \in 1..n : live[j] = live[k] => j = k
      /\ \A s \in P : \E k \in 1..n : live[k] = s
    <2> HIDE DEF P
    <2>1. DOMAIN live = 1..n
        BY <1>1, InOrderIs
    <2> QED
        BY <1>1, <2>1, InOrderIs
<1>3. Cached(i) = [k \in 1..n |-> [id |-> i.ids[live[k]], vec |-> i.vecs[live[k]]]]
    BY <1>2 DEF Cached
<1>4. ASSUME NEW k \in P PROVE [id |-> i.ids[k], vec |-> i.vecs[k]] \in ItemSet
    <2>1. i.ids[k] \in 1..given
        BY DEF IndexTyped, Mapping
    <2>2. i.vecs[k] \in Vectors
        BY <1>1, ElementOfSeq, LenProperties
    <2> QED
        BY <2>1, <2>2 DEF ItemSet
<1> HIDE DEF live, n
<1>5. Cached(i) \in [1..n -> ItemSet]
    <2>1. \A k \in 1..n : live[k] \in P
        BY <1>2
    <2> HIDE DEF P
    <2> QED
        BY <1>3, <1>4, <2>1
<1>6. Cached(i) \in Seq(ItemSet) /\ DOMAIN Cached(i) = 1..n
    BY <1>2, <1>5, ListTyped
<1>7. \A k \in 1..n : /\ Cached(i)[k].id = i.ids[live[k]]
                      /\ Cached(i)[k].vec = i.vecs[live[k]] /\ live[k] \in P
    BY <1>2, <1>3
<1>8. ASSUME Good(i) PROVE Distinct(Cached(i))
    <2>1. \A k \in P : i.vecs[k][1] = i.ids[k]
        BY <1>8 DEF Good, Fits
    <2>2. \A j, k \in P : i.ids[j] = i.ids[k] => j = k
        BY <1>8 DEF Good, Fits
    <2> HIDE DEF P
    <2> QED
        BY <1>2, <1>6, <1>7, <2>1, <2>2 DEF Distinct
<1>9. ASSUME Good(i) PROVE IdsOf(Cached(i)) = Indexed(i)
    <2>1. P = DOMAIN i.ids
        BY <1>9 DEF Good, Fits
    <2> HIDE DEF P
    <2> QED
        BY <1>2, <1>6, <1>7, <2>1 DEF IdsOf, Indexed
<1> QED
    BY <1>6, <1>8, <1>9

\* Reclaiming the phantoms of an index changes no id.
LEMMA ReclaimedIs ==
    ASSUME NEW i, IndexTyped(i), Typed
    PROVE  /\ IndexTyped(Reclaimed(i))
           /\ Good(i) => Good(Reclaimed(i)) /\ Indexed(Reclaimed(i)) = Indexed(i)
<1>1. CASE ~TooManyPhantoms(i)
    BY <1>1 DEF Reclaimed
<1>2. CASE TooManyPhantoms(i)
    <2>1. Reclaimed(i) = AppendItems(NewIndex, Cached(i))
        BY <1>2 DEF Reclaimed
    <2>2. Cached(i) \in Seq(ItemSet) /\ (Good(i) => Distinct(Cached(i))
                                                /\ IdsOf(Cached(i)) = Indexed(i))
        BY CachedIs DEF Typed, RowsTyped
    <2>3. IndexTyped(NewIndex) /\ Good(NewIndex) /\ Indexed(NewIndex) = {}
        BY NewIndexIs
    <2>4. IndexTyped(AppendItems(NewIndex, Cached(i)))
        BY <2>2, <2>3, AppendIs
    <2>5. ASSUME Good(i)
          PROVE  /\ Good(AppendItems(NewIndex, Cached(i)))
                 /\ Indexed(AppendItems(NewIndex, Cached(i))) = Indexed(i)
        BY <2>2, <2>3, <2>5, AppendGood
    <2> QED
        BY <2>1, <2>4, <2>5
<1> QED
    BY <1>1, <1>2

LEMMA AddItemsIs ==
    ASSUME NEW i, IndexTyped(i), Typed, NEW items \in Seq(ItemSet)
    PROVE  /\ IndexTyped(AddItems(i, items))
           /\ Good(i) /\ Distinct(items) /\ IdsOf(items) \cap Indexed(i) = {} =>
                /\ Good(AddItems(i, items))
                /\ Indexed(AddItems(i, items)) = Indexed(i) \cup IdsOf(items)
<1>1. /\ IndexTyped(Reclaimed(i))
      /\ Good(i) => Good(Reclaimed(i)) /\ Indexed(Reclaimed(i)) = Indexed(i)
    BY ReclaimedIs
<1>2. IndexTyped(AppendItems(Reclaimed(i), items))
    BY <1>1, AppendIs
<1>3. ASSUME Good(i), Distinct(items), IdsOf(items) \cap Indexed(i) = {}
      PROVE  /\ Good(AppendItems(Reclaimed(i), items))
             /\ Indexed(AppendItems(Reclaimed(i), items)) = Indexed(i) \cup IdsOf(items)
    BY <1>1, <1>3, AppendGood
<1> QED
    BY <1>2, <1>3 DEF AddItems

\* What is removed from a good index is gone from both of its maps.
LEMMA RemoveIs ==
    ASSUME NEW i, IndexTyped(i), NEW S
    PROVE  /\ IndexTyped(RemoveChunks(i, S))
           /\ Good(i) => /\ Good(RemoveChunks(i, S))
                         /\ Indexed(RemoveChunks(i, S)) = Indexed(i) \ S
<1> DEFINE gone == {i.at[c] : c \in S \cap DOMAIN i.at}
           r == RemoveChunks(i, S)
<1>1. /\ r = [vecs |-> i.vecs, ids |-> r.ids, at |-> r.at]
      /\ r.ids = [k \in DOMAIN i.ids \ gone |-> i.ids[k]]
      /\ r.at = [c \in DOMAIN i.at \ S |-> i.at[c]]
    <2>1. PICK v, d, a : i = [vecs |-> v, ids |-> d, at |-> a]
        BY DEF IndexTyped
    <2> DEFINE ids == [k \in DOMAIN i.ids \ gone |-> i.ids[k]]
               at == [c \in DOMAIN i.at \ S |-> i.at[c]]
               h == [i EXCEPT !.ids = ids]
    <2>2. r = [h EXCEPT !.at = at]
        BY DEF RemoveChunks
    <2> HIDE DEF ids, at, gone, r
    <2>3. h = [vecs |-> v, ids |-> ids, at |-> a]
        BY <2>1
    <2> HIDE DEF h
    <2>4. r = [vecs |-> v, ids |-> ids, at |-> at]
        BY <2>2, <2>3
    <2>5. r.ids = ids /\ r.at = at /\ i.vecs = v
        BY <2>1, <2>4
    <2> QED
        BY <2>4, <2>5 DEF ids, at
<1> HIDE DEF r
<1>2. IndexTyped(r)
    BY <1>1 DEF IndexTyped, Mapping
<1>3. ASSUME Good(i) PROVE Good(r) /\ Indexed(r) = Indexed(i) \ S
    <2>1. \A k \in DOMAIN i.ids : k \in gone <=> i.ids[k] \in S
        BY <1>3 DEF Good, Indexed, Fits
    <2> HIDE DEF gone
    <2>2. /\ DOMAIN r.ids = DOMAIN i.ids \ gone
          /\ \A k \in DOMAIN r.ids : r.ids[k] = i.ids[k]
          /\ DOMAIN r.at = DOMAIN i.at \ S /\ \A c \in DOMAIN r.at : r.at[c] = i.at[c]
          /\ r.vecs = i.vecs
        BY <1>1
    <2>3. Indexed(r) = Indexed(i) \ S
        BY <2>1, <2>2 DEF Indexed
    <2>4. Fits(r.vecs, r.ids)
        BY <1>3, <2>2 DEF Good, Fits
    <2>5. \A k \in DOMAIN r.ids : r.at[r.ids[k]] = k
        BY <1>3, <2>1, <2>2 DEF Good, Indexed
    <2> QED
        BY <1>3, <2>2, <2>3, <2>4, <2>5 DEF Good
<1> QED
    BY <1>2, <1>3 DEF r

\* Files that fit load as a good index.
LEMMA LoadedIs ==
    ASSUME NEW vecs \in Seq(Vectors), NEW ids, Mapping(ids, 1..given)
    PROVE  IndexTyped(Loaded(vecs, ids)) /\ (Fits(vecs, ids) => Good(Loaded(vecs, ids)))
<1> DEFINE a == Loaded(vecs, ids)
<1>1. /\ a = [vecs |-> a.vecs, ids |-> a.ids, at |-> a.at] /\ a.vecs = vecs /\ a.ids = ids
      /\ a.at = [c \in {ids[k] : k \in DOMAIN ids} |-> CHOOSE k \in DOMAIN ids : ids[k] = c]
    BY DEF Loaded
<1> HIDE DEF a
<1>2. IndexTyped(a)
    BY <1>1 DEF IndexTyped, Mapping
<1>3. ASSUME Fits(vecs, ids) PROVE Good(a)
    <2>1. DOMAIN a.at = Indexed(a)
        BY <1>1 DEF Indexed
    <2>2. \A k \in DOMAIN ids : a.at[ids[k]] = k
        BY <1>1, <1>3 DEF Fits
    <2> QED
        BY <1>1, <1>3, <2>1, <2>2 DEF Good
<1> QED
    BY <1>2, <1>3 DEF a

-----------------------------------------------------------------------------
(* What a step does to its thread, and to the index of its process.         *)

\* the fields of a thread after its step; the other threads stay
Now(t, at, job, chunks, version, file, then, known) ==
    /\ thread' = [u \in Threads |-> IF u = t THEN thread'[t] ELSE thread[u]]
    /\ thread'[t].at = at /\ thread'[t].job = job /\ thread'[t].chunks = chunks
    /\ thread'[t].version = version /\ thread'[t].file = file
    /\ thread'[t].then = then /\ thread'[t].known = known
    /\ thread'[t] \in [at : {at}, job : {job}, chunks : {chunks}, version : {version},
                       file : {file}, then : {then}, known : {known}]

\* the index of its process after the step; those of the others stay
MemNow(t, on, index, stamp) ==
    /\ mem' = [p \in Procs |-> IF p = Home[t] THEN mem'[p] ELSE mem[p]]
    /\ mem'[Home[t]] = [on |-> on, index |-> index, revision |-> stamp]

LEMMA ThreadIs ==
    ASSUME Typed
    PROVE  /\ thread \in [Threads -> Threading]
           /\ \A t \in Threads : Home[t] \in Procs
BY KbIndexAssumption DEF Typed, ThreadsTyped, ThreadTyped

LEMMA GotoIs ==
    ASSUME Typed, NEW t \in Threads, NEW step, Goto(t, step)
    PROVE  Now(t, step, thread[t].job, thread[t].chunks, thread[t].version,
               thread[t].file, thread[t].then, thread[t].known)
BY ThreadIs DEF Goto, Now, Threading

LEMMA FinishIs ==
    ASSUME Typed, NEW t \in Threads, Finish(t)
    PROVE  thread' = [u \in Threads |-> IF u = t THEN Idle ELSE thread[u]]
BY ThreadIs DEF Finish

LEMMA WithIs ==
    ASSUME Typed, NEW t \in Threads, NEW at, NEW x
    PROVE  /\ thread' = [thread EXCEPT ![t].at = at, ![t].file = x] =>
                Now(t, at, thread[t].job, thread[t].chunks, thread[t].version, x,
                    thread[t].then, thread[t].known)
           /\ thread' = [thread EXCEPT ![t].at = at, ![t].then = x] =>
                Now(t, at, thread[t].job, thread[t].chunks, thread[t].version,
                    thread[t].file, x, thread[t].known)
BY ThreadIs DEF Now, Threading

LEMMA StartIs ==
    ASSUME Typed, NEW t \in Threads, At(t, "idle"), NEW at, NEW job, NEW x, NEW y
    PROVE  /\ thread[t] = Idle
           /\ thread' = [thread EXCEPT ![t].job = job, ![t].at = at, ![t].known = x] =>
                Now(t, at, job, {}, NoVersion, <<>>, "idle", x)
           /\ thread' = [thread EXCEPT ![t].at = at, ![t].job = job, ![t].chunks = x] =>
                Now(t, at, job, x, NoVersion, <<>>, "idle", {})
           /\ thread' = [thread EXCEPT ![t].at = at, ![t].job = job, ![t].chunks = x,
                                       ![t].version = y] =>
                Now(t, at, job, x, y, <<>>, "idle", {})
           /\ thread' = [thread EXCEPT ![t].at = at, ![t].job = job] =>
                Now(t, at, job, {}, NoVersion, <<>>, "idle", {})
<1>1. thread[t] = Idle
    BY ThreadIs DEF Typed, ThreadsTyped, ThreadTyped, At, StepsOf, Threading, Jobs
<1>2. /\ thread[t].chunks = {} /\ thread[t].version = NoVersion /\ thread[t].file = <<>>
      /\ thread[t].then = "idle" /\ thread[t].known = {}
    BY <1>1 DEF Idle
<1>3. ASSUME thread' = [thread EXCEPT ![t].job = job, ![t].at = at, ![t].known = x]
      PROVE  Now(t, at, job, thread[t].chunks, thread[t].version, thread[t].file,
                 thread[t].then, x)
    BY <1>3, ThreadIs DEF Now, Threading
<1>4. ASSUME thread' = [thread EXCEPT ![t].at = at, ![t].job = job, ![t].chunks = x]
      PROVE  Now(t, at, job, x, thread[t].version, thread[t].file, thread[t].then,
                 thread[t].known)
    BY <1>4, ThreadIs DEF Now, Threading
<1>5. ASSUME thread' = [thread EXCEPT ![t].at = at, ![t].job = job, ![t].chunks = x,
                                      ![t].version = y]
      PROVE  Now(t, at, job, x, y, thread[t].file, thread[t].then, thread[t].known)
    BY <1>5, ThreadIs DEF Now, Threading
<1>6. ASSUME thread' = [thread EXCEPT ![t].at = at, ![t].job = job]
      PROVE  Now(t, at, job, thread[t].chunks, thread[t].version, thread[t].file,
                 thread[t].then, thread[t].known)
    BY <1>6, ThreadIs DEF Now, Threading
<1> QED
    BY <1>1, <1>2, <1>3, <1>4, <1>5, <1>6

Stamped(t) == mem' = [mem EXCEPT ![Home[t]].revision = revision]

LEMMA HaveIs ==
    ASSUME Typed, NEW t \in Threads, NEW i
    PROVE  /\ Have(t, i) => MemNow(t, TRUE, i, mem[Home[t]].revision)
           /\ Drop(t) => MemNow(t, FALSE, NewIndex, 0)
           /\ Stamped(t) =>
                MemNow(t, HasIndex(t), Index(t), revision)
           /\ mem[Home[t]] = [on |-> HasIndex(t), index |-> Index(t),
                              revision |-> mem[Home[t]].revision]
<1>1. PICK m : m = mem[Home[t]]
    OBVIOUS
<1>2. Home[t] \in Procs /\ mem = [p \in Procs |-> mem[p]]
    BY ThreadIs DEF Typed, IndexesTyped
<1>3. PICK on, index, stamp : m = [on |-> on, index |-> index, revision |-> stamp]
    <2>1. m = [on |-> m.on, index |-> m.index, revision |-> m.revision]
        BY <1>1, <1>2 DEF Typed, IndexesTyped
    <2> QED
        BY ONLY <2>1
<1>4. ASSUME Have(t, i) PROVE MemNow(t, TRUE, i, mem[Home[t]].revision)
    <2>1. PICK yes : yes = TRUE
        OBVIOUS
    <2>2. mem' = [mem EXCEPT ![Home[t]] = [m EXCEPT !.on = yes, !.index = i]]
        BY <1>1, <1>2, <1>4, <2>1 DEF Have
    <2>3. [m EXCEPT !.on = yes, !.index = i] = [on |-> yes, index |-> i, revision |-> stamp]
        <3> DEFINE h == [m EXCEPT !.on = yes]
        <3>1. h = [on |-> yes, index |-> index, revision |-> stamp]
            BY <1>3
        <3>2. [m EXCEPT !.on = yes, !.index = i] = [h EXCEPT !.index = i]
            OBVIOUS
        <3> HIDE DEF h
        <3>3. [h EXCEPT !.index = i] = [on |-> yes, index |-> i, revision |-> stamp]
            BY <3>1
        <3> QED
            BY <3>2, <3>3
    <2> QED
        BY <1>1, <1>2, <1>3, <2>1, <2>2, <2>3 DEF MemNow
<1>5. ASSUME Drop(t) PROVE MemNow(t, FALSE, NewIndex, 0)
    BY <1>2, <1>5 DEF Drop, NoIndex, MemNow
<1>6. ASSUME Stamped(t)
      PROVE  MemNow(t, HasIndex(t), Index(t), revision)
    <2>1. mem' = [mem EXCEPT ![Home[t]] = [m EXCEPT !.revision = revision]]
        BY <1>1, <1>2, <1>6 DEF Stamped
    <2>2. [m EXCEPT !.revision = revision] = [on |-> on, index |-> index, revision |-> revision]
        BY <1>3
    <2> QED
        BY <1>1, <1>2, <1>3, <2>1, <2>2 DEF MemNow, HasIndex, Index
<1> QED
    BY <1>1, <1>3, <1>4, <1>5, <1>6 DEF HasIndex, Index

-----------------------------------------------------------------------------
(* Every step keeps the types.                                              *)

LEMMA GivenGrows ==
    ASSUME 1..given \subseteq 1..given', NEW i, IndexTyped(i)
    PROVE  IndexTyped(i)'
BY DEF IndexTyped, Mapping

LEMMA ThreadsStay ==
    ASSUME Typed, 1..given \subseteq 1..given', NEW u \in Threads, thread'[u] = thread[u]
    PROVE  ThreadTyped(u)'
<1>1. Threading \subseteq Threading'
    BY DEF Threading
<1> QED
    BY <1>1 DEF Typed, ThreadsTyped, ThreadTyped, Saving

LEMMA ThreadsEnd ==
    ASSUME Typed, 1..given \subseteq 1..given', thread' = [u \in Threads |-> thread'[u]],
           \A u \in Threads : thread'[u] = Idle \/ thread'[u] = thread[u]
    PROVE  ThreadsTyped'
<1>1. ASSUME NEW u \in Threads, thread'[u] = Idle PROVE ThreadTyped(u)'
    BY <1>1, EmptySeq DEF ThreadTyped, Threading, Saving, Idle, Steps, Jobs, StepsOf
<1> QED
    BY <1>1, ThreadsStay DEF ThreadsTyped

\* the fields of the thread after a step that is not its last
Still(t) ==
    /\ thread'[t].job \in Jobs \ {"none"} /\ thread'[t].at \in Steps
    /\ thread'[t].at \in StepsOf(thread'[t].job)
    /\ thread'[t].chunks \subseteq 1..given' /\ thread'[t].version \in Versions \cup {NoVersion}
    /\ thread'[t].file \in Seq(Vectors) /\ thread'[t].then \in Steps
    /\ thread'[t].known \subseteq Vectors
    /\ thread'[t].at \in {"save vectors", "save map"} =>
          thread'[t].then \in ThenOf(thread'[t].job)
    /\ thread'[t].job = "embed" => thread'[t].version \in Versions

LEMMA ThreadsBy ==
    ASSUME Typed, NEW t \in Threads, 1..given \subseteq 1..given', Still(t),
           NEW at, NEW job, NEW chunks, NEW version, NEW file, NEW then, NEW known,
           Now(t, at, job, chunks, version, file, then, known)
    PROVE  ThreadsTyped'
<1>1. thread'[t] \in Threading'
    BY DEF Now, Threading, Still
<1>2. ThreadTyped(t)'
    BY <1>1 DEF ThreadTyped, Still, Saving, Jobs
<1>3. thread' = [u \in Threads |-> thread'[u]]
    BY DEF Now
<1>4. \A u \in Threads \ {t} : thread'[u] = thread[u]
    BY DEF Now
<1>5. \A u \in Threads \ {t} : ThreadTyped(u)'
    BY <1>4, ThreadsStay
<1> QED
    BY <1>2, <1>3, <1>5 DEF ThreadsTyped

LEMMA IndexesStay ==
    ASSUME Typed, 1..given \subseteq 1..given', mem' = mem
    PROVE  IndexesTyped'
<1>1. \A p \in Procs : IndexTyped(mem[p].index)'
    BY GivenGrows DEF Typed, IndexesTyped, RowsTyped, IndexTyped, Mapping
<1> QED
    BY <1>1 DEF Typed, IndexesTyped

LEMMA IndexesBy ==
    ASSUME Typed, NEW t \in Threads, given' = given,
           NEW on, NEW i, NEW stamp, MemNow(t, on, i, stamp), on \in BOOLEAN, IndexTyped(i),
           on \/ i = NewIndex
    PROVE  IndexesTyped'
<1>1. \A p \in Procs :
          /\ mem[p] = [on |-> mem[p].on, index |-> mem[p].index, revision |-> mem[p].revision]
          /\ mem[p].on \in BOOLEAN /\ IndexTyped(mem[p].index)
          /\ mem[p].on \/ mem[p].index = NewIndex
    BY DEF Typed, IndexesTyped
<1>2. \A p \in Procs \ {Home[t]} : mem'[p] = mem[p]
    BY DEF MemNow
<1>3. Home[t] \in Procs
    BY ThreadIs
<1>4. mem'[Home[t]].on = on /\ mem'[Home[t]].index = i /\ mem'[Home[t]].revision = stamp
    BY DEF MemNow
<1>5. \A p \in Procs : mem'[p] = [on |-> mem'[p].on, index |-> mem'[p].index,
                                 revision |-> mem'[p].revision]
    BY <1>1, <1>2, <1>4 DEF MemNow
<1>6. \A p \in Procs : /\ mem'[p].on \in BOOLEAN /\ IndexTyped(mem'[p].index)
                       /\ mem'[p].on \/ mem'[p].index = NewIndex
    BY <1>1, <1>2, <1>4
<1>7. \A p \in Procs : IndexTyped(mem[p].index)'
    BY <1>6 DEF IndexTyped, Mapping
<1>8. mem' = [p \in Procs |-> mem'[p]]
    BY DEF MemNow
<1> QED
    BY <1>5, <1>6, <1>7, <1>8 DEF IndexesTyped

\* Most steps leave the database and the files alone.
LEMMA TypedBy ==
    ASSUME Typed, UNCHANGED <<dbVars, disk, restarts>>, ThreadsTyped', IndexesTyped',
           flaws' \subseteq {"overtaken", "torn", "unannounced"}
    PROVE  Typed'
BY DEF Typed, RowsTyped, FilesTyped, dbVars, Mapping

LEMMA JobIs ==
    ASSUME Typed, NEW t \in Threads
    PROVE  /\ thread[t].job \in Jobs /\ thread[t].at \in Steps
           /\ thread[t].chunks \subseteq 1..given /\ thread[t].known \subseteq Vectors
           /\ thread[t].version \in Versions \cup {NoVersion}
           /\ thread[t].file \in Seq(Vectors) /\ thread[t].then \in Steps
           /\ thread[t].job = "embed" => thread[t].version \in Versions
           /\ thread[t].at = "idle" <=> thread[t].job = "none"
           /\ thread[t].at = "idle" => thread[t] = Idle
           /\ thread[t].at \in {"count", "compare", "add", "recount", "recompare", "build",
                                "restamp", "answer"} => thread[t].job = "search"
           /\ thread[t].at \in {"load", "map", "stamp"} => thread[t].job \in {"search", "embed"}
           /\ thread[t].at = "put" => thread[t].job = "embed"
           /\ thread[t].at = "remove" => thread[t].job = "delete"
           /\ thread[t].at = "bump" => thread[t].job \in {"embed", "delete", "add"}
           /\ Saving(t) => \/ thread[t].job = "search" /\ thread[t].then \in {"answer", "restamp"}
                           \/ thread[t].job = "delete" /\ thread[t].then = "bump"
                           \/ thread[t].job = "close" /\ thread[t].then = "idle"
<1>1. ThreadTyped(t)
    BY DEF Typed, ThreadsTyped
<1>2. /\ thread[t].job \in Jobs /\ thread[t].at \in Steps
      /\ thread[t].chunks \subseteq 1..given /\ thread[t].known \subseteq Vectors
      /\ thread[t].version \in Versions \cup {NoVersion}
      /\ thread[t].file \in Seq(Vectors) /\ thread[t].then \in Steps
    BY <1>1 DEF ThreadTyped, Threading
<1> QED
    BY <1>1, <1>2 DEF ThreadTyped, StepsOf, ThenOf, Jobs, Saving, Idle

LEMMA IndexIs ==
    ASSUME Typed, NEW t \in Threads
    PROVE  /\ Home[t] \in Procs /\ IndexTyped(Index(t)) /\ HasIndex(t) \in BOOLEAN
           /\ IndexTyped(NewIndex) /\ given \in Nat
           /\ HasIndex(t) \/ Index(t) = NewIndex
BY ThreadIs, NewIndexIs DEF Typed, IndexesTyped, RowsTyped, Index, HasIndex

\* A step that moves its thread on and gives its process a typed index.
LEMMA TypedGoto ==
    ASSUME Typed, NEW t \in Threads, UNCHANGED <<dbVars, disk, restarts>>,
           flaws' \subseteq {"overtaken", "torn", "unannounced"},
           NEW step \in Steps \ {"save vectors", "save map"}, Goto(t, step),
           step \in StepsOf(thread[t].job), thread[t].job # "none",
           \/ mem' = mem \/ Drop(t) \/ Stamped(t)
           \/ \E i : IndexTyped(i) /\ Have(t, i)
    PROVE  Typed'
<1>1. /\ given \in Nat /\ given' = given
      /\ IndexTyped(NewIndex) /\ IndexTyped(Index(t)) /\ HasIndex(t) \in BOOLEAN
    BY IndexIs DEF dbVars
<1>2. ThreadsTyped'
    <2>1. Now(t, step, thread[t].job, thread[t].chunks, thread[t].version,
               thread[t].file, thread[t].then, thread[t].known)
        BY GotoIs
    <2>2. Still(t)
        BY <1>1, <2>1, JobIs DEF Still, Now
    <2> QED
        BY <1>1, <2>1, <2>2, ThreadsBy
<1>3. IndexesTyped'
    <2>1. CASE mem' = mem
        BY <1>1, <2>1, IndexesStay
    <2>2. CASE Drop(t)
        BY <1>1, <2>2, HaveIs, IndexesBy
    <2>3. CASE Stamped(t)
        BY <1>1, <2>3, IndexIs, HaveIs, IndexesBy
    <2>4. ASSUME NEW i, IndexTyped(i), Have(t, i) PROVE IndexesTyped'
        BY <1>1, <2>4, HaveIs, IndexesBy
    <2> QED
        BY <2>1, <2>2, <2>3, <2>4
<1> QED
    BY <1>2, <1>3, TypedBy

LEMMA TypedSearch ==
    ASSUME Typed, NEW t \in Threads, Search(t) \/ Answer(t)
    PROVE  Typed'
<1>1. given \in Nat /\ given' = given
    BY IndexIs DEF Search, Answer, dbVars
<1>2. CASE Search(t)
    <2>1. {<<c, emb[c]>> : c \in Embedded \ Unannounced} \subseteq Vectors
        BY EmbeddedIs DEF Typed, RowsTyped, Embedded, Vectors
    <2>2. PICK at \in {"count", "load"}, known \in SUBSET Vectors :
              Now(t, at, "search", {}, NoVersion, <<>>, "idle", known)
        BY <1>2, <2>1, StartIs DEF Search
    <2>3. Still(t)
        <3>1. /\ "search" \in Jobs \ {"none"} /\ "idle" \in Steps
              /\ {"count", "load"} \subseteq Steps
              /\ {"count", "load"} \subseteq StepsOf("search")
            BY DEF Jobs, Steps, StepsOf
        <3>2. /\ NoVersion \in Versions \cup {NoVersion} /\ "search" # "embed"
              /\ {} \subseteq 1..given' /\ <<>> \in Seq(Vectors)
            BY EmptySeq
        <3>3. /\ thread'[t].at \in {"count", "load"} /\ thread'[t].job = "search"
              /\ thread'[t].chunks = {} /\ thread'[t].version = NoVersion
              /\ thread'[t].file = <<>> /\ thread'[t].then = "idle"
              /\ thread'[t].known \in SUBSET Vectors
            BY <2>2 DEF Now
        <3> QED
            BY <3>1, <3>2, <3>3 DEF Still
    <2>4. ThreadsTyped'
        BY <1>1, <2>2, <2>3, ThreadsBy
    <2> QED
        BY <1>1, <1>2, <2>4, IndexesStay, TypedBy DEF Search, dbVars, Typed
<1>3. CASE Answer(t)
    <2>1. ThreadsTyped'
        BY <1>1, <1>3, FinishIs, ThreadsEnd DEF Answer
    <2> QED
        BY <1>1, <1>3, <2>1, IndexesStay, TypedBy DEF Answer, dbVars, Typed
<1> QED
    BY <1>2, <1>3

LEMMA TypedCompare ==
    ASSUME Typed, NEW t \in Threads, Compare(t) \/ Recheck(t) \/ Stamp(t) \/ NothingToLoad(t)
    PROVE  Typed'
<1>1. UNCHANGED <<dbVars, disk, restarts, flaws>>
    BY DEF Compare, Recheck, Stamp, NothingToLoad
<1>2. IndexTyped(NewIndex) /\ flaws \subseteq {"overtaken", "torn", "unannounced"}
    BY IndexIs DEF Typed
<1>3. CASE Compare(t)
    <2>1. thread[t].job = "search"
        BY <1>3, JobIs DEF Compare, InSync, OutOfSync, At
    <2>2. PICK step \in {"compare", "answer", "load"} : Goto(t, step) /\ (mem' = mem \/ Drop(t))
        BY <1>3 DEF Compare, InSync, OutOfSync
    <2> QED
        BY <1>1, <1>2, <2>1, <2>2, TypedGoto DEF Steps, StepsOf
<1>4. CASE Recheck(t)
    <2>1. thread[t].job = "search"
        BY <1>4, JobIs DEF Recheck, At
    <2>2. PICK step \in {"recompare", "answer", "build"} : Goto(t, step) /\ (mem' = mem \/ Drop(t))
        BY <1>4 DEF Recheck
    <2> QED
        BY <1>1, <1>2, <2>1, <2>2, TypedGoto DEF Steps, StepsOf
<1>5. CASE Stamp(t)
    <2>1. thread[t].job \in {"search", "embed"}
        BY <1>5, JobIs DEF Stamp, At
    <2>2. PICK step \in {"add", "put"} :
              /\ Goto(t, step) /\ Stamped(t)
              /\ step = IF thread[t].job = "search" THEN "add" ELSE "put"
        BY <1>5 DEF Stamp, Stamped
    <2> QED
        BY <1>1, <1>2, <2>1, <2>2, TypedGoto DEF Steps, StepsOf
<1>6. CASE NothingToLoad(t)
    <2>2. PICK step \in {"build", "stamp"} :
              /\ Goto(t, step) /\ (mem' = mem \/ Have(t, NewIndex))
              /\ thread[t].job = IF step = "build" THEN "search" ELSE "embed"
        BY <1>6 DEF NothingToLoad
    <2> QED
        BY <1>1, <1>2, <2>2, TypedGoto DEF Steps, StepsOf
<1> QED
    BY <1>3, <1>4, <1>5, <1>6

LEMMA TypedLoad ==
    ASSUME Typed, NEW t \in Threads, LoadVectors(t) \/ LoadMap(t)
    PROVE  Typed'
<1>1. /\ given \in Nat /\ given' = given /\ UNCHANGED <<dbVars, disk, restarts>>
      /\ flaws' \subseteq {"overtaken", "torn", "unannounced"}
    BY IndexIs DEF LoadVectors, LoadMap, dbVars, Torn, Typed
<1>2. disk.vecs \in Seq(Vectors) /\ Mapping(disk.ids, 1..given)
    BY DEF Typed, FilesTyped
<1>3. thread[t].job \in {"search", "embed"}
    BY JobIs DEF LoadVectors, LoadMap, At
<1>4. CASE LoadVectors(t)
    <2>1. Now(t, "map", thread[t].job, thread[t].chunks, thread[t].version, disk.vecs,
              thread[t].then, thread[t].known)
        BY <1>4, WithIs DEF LoadVectors
    <2>2. Still(t)
        <3>1. "map" \in Steps /\ "map" \in StepsOf(thread[t].job) /\ thread[t].job # "none"
            BY <1>3 DEF Steps, StepsOf
        <3> QED
            BY <1>1, <1>2, <2>1, <3>1, JobIs DEF Still, Now
    <2>3. ThreadsTyped'
        BY <1>1, <2>1, <2>2, ThreadsBy
    <2>4. IndexesTyped'
        BY <1>1, <1>4, IndexesStay DEF LoadVectors
    <2> QED
        BY <1>1, <2>3, <2>4, TypedBy
<1>5. CASE LoadMap(t)
    <2>1. Now(t, "stamp", thread[t].job, thread[t].chunks, thread[t].version, <<>>,
              thread[t].then, thread[t].known)
        BY <1>5, WithIs DEF LoadMap
    <2>2. Still(t)
        <3>1. "stamp" \in Steps /\ "stamp" \in StepsOf(thread[t].job) /\ thread[t].job # "none"
            BY <1>3 DEF Steps, StepsOf
        <3> QED
            BY <1>1, <2>1, <3>1, JobIs, EmptySeq DEF Still, Now
    <2>3. ThreadsTyped'
        BY <1>1, <2>1, <2>2, ThreadsBy
    <2>4. IndexTyped(Loaded(thread[t].file, disk.ids))
        BY <1>2, JobIs, LoadedIs
    <2>5. IndexesTyped'
        BY <1>1, <1>5, <2>4, HaveIs, IndexesBy DEF LoadMap
    <2> QED
        BY <1>1, <2>3, <2>5, TypedBy
<1> QED
    BY <1>4, <1>5

\* What a search builds its index with.
LEMMA BuildIs ==
    ASSUME Typed, NEW t \in Threads
    PROVE  /\ IndexTyped(AddItems(Index(t), RowsWithout(DOMAIN Index(t).at)))
           /\ IndexTyped(AddItems(NewIndex, RowsWithout({})))
BY IndexIs, RowsWithoutIs, AddItemsIs

SavesAnd(t, then) == thread' = [thread EXCEPT ![t].at = "save vectors", ![t].then = then]

LEMMA TypedSaveAnd ==
    ASSUME Typed, NEW t \in Threads, UNCHANGED <<dbVars, disk, restarts, flaws>>, NEW then,
           SavesAnd(t, then),
           \/ thread[t].job = "search" /\ then \in {"answer", "restamp"}
           \/ thread[t].job = "delete" /\ then = "bump",
           NEW i, IndexTyped(i), Have(t, i)
    PROVE  Typed'
<1>1. /\ given \in Nat /\ given' = given /\ UNCHANGED <<dbVars, disk, restarts>>
      /\ flaws' \subseteq {"overtaken", "torn", "unannounced"}
    BY IndexIs DEF dbVars, Typed
<1>2. Now(t, "save vectors", thread[t].job, thread[t].chunks, thread[t].version,
          thread[t].file, then, thread[t].known)
    BY WithIs DEF SavesAnd
<1>3. Still(t)
    <2>1. /\ "save vectors" \in Steps /\ then \in Steps /\ thread[t].job # "none"
          /\ "save vectors" \in StepsOf(thread[t].job) /\ then \in ThenOf(thread[t].job)
        BY DEF Steps, StepsOf, ThenOf
    <2> QED
        BY <1>1, <1>2, <2>1, JobIs DEF Still, Now
<1>4. ThreadsTyped'
    BY <1>1, <1>2, <1>3, ThreadsBy
<1>5. IndexesTyped'
    BY <1>1, HaveIs, IndexesBy
<1> QED
    BY <1>1, <1>4, <1>5, TypedBy

LEMMA TypedBuild ==
    ASSUME Typed, NEW t \in Threads, AddNewChunks(t) \/ Rebuild(t) \/ Restamp(t)
    PROVE  Typed'
<1>1. thread[t].job = "search"
    BY JobIs DEF AddNewChunks, Rebuild, Restamp, At
<1>2. flaws \subseteq {"overtaken", "torn", "unannounced"}
    BY DEF Typed
<1>3. CASE AddNewChunks(t)
    <2>1. CASE Goto(t, "recount") /\ UNCHANGED mem
        BY <1>1, <1>2, <1>3, <2>1, TypedGoto DEF AddNewChunks, Steps, StepsOf
    <2>2. CASE /\ SavesAnd(t, "answer")
               /\ Have(t, AddItems(Index(t), RowsWithout(DOMAIN Index(t).at)))
        BY <1>1, <1>3, <2>2, BuildIs, TypedSaveAnd DEF AddNewChunks
    <2> QED
        BY <1>3, <2>1, <2>2 DEF AddNewChunks, SavesAnd
<1>4. CASE Rebuild(t)
    <2>1. CASE Goto(t, "answer") /\ UNCHANGED mem
        BY <1>1, <1>2, <1>4, <2>1, TypedGoto DEF Rebuild, Steps, StepsOf
    <2>2. CASE /\ SavesAnd(t, "restamp")
               /\ Have(t, AddItems(NewIndex, RowsWithout({})))
        BY <1>1, <1>4, <2>2, BuildIs, TypedSaveAnd DEF Rebuild
    <2> QED
        BY <1>4, <2>1, <2>2 DEF Rebuild, SavesAnd
<1>5. CASE Restamp(t)
    <2>1. flaws' \subseteq {"overtaken", "torn", "unannounced"}
        BY <1>2, <1>5 DEF Restamp
    <2>2. Goto(t, "answer") /\ Stamped(t) /\ UNCHANGED <<dbVars, disk, restarts>>
        BY <1>5 DEF Restamp, Stamped
    <2> QED
        BY <1>1, <2>1, <2>2, TypedGoto DEF Steps, StepsOf
<1> QED
    BY <1>3, <1>4, <1>5

LEMMA TypedSave ==
    ASSUME Typed, NEW t \in Threads, SaveVectors(t) \/ SaveMap(t)
    PROVE  Typed'
<1>1. /\ given' = given /\ UNCHANGED <<dbVars, restarts>> /\ mem' = mem
      /\ flaws' \subseteq {"overtaken", "torn", "unannounced"}
    BY DEF SaveVectors, SaveMap, dbVars, Torn, Typed
<1>2. RowsTyped' /\ restarts' \in 0..MaxRestarts
    BY <1>1 DEF Typed, RowsTyped, dbVars
<1>3. IndexesTyped'
    BY <1>1, IndexesStay
<1>4. Index(t).vecs \in Seq(Vectors) /\ Mapping(Index(t).ids, 1..given)
    BY IndexIs DEF IndexTyped
<1>5. PICK saved, vecs, ids : disk = [saved |-> saved, vecs |-> vecs, ids |-> ids]
    <2>1. disk = [saved |-> disk.saved, vecs |-> disk.vecs, ids |-> disk.ids]
        BY DEF Typed, FilesTyped
    <2> QED
        BY ONLY <2>1
<1>6. vecs \in Seq(Vectors) /\ Mapping(ids, 1..given)
    BY <1>5 DEF Typed, FilesTyped
<1>7. CASE SaveVectors(t)
    <2>1. Now(t, "save map", thread[t].job, thread[t].chunks, thread[t].version,
              thread[t].file, thread[t].then, thread[t].known)
        BY <1>7, GotoIs DEF SaveVectors
    <2>2. Still(t)
        <3>1. /\ "save map" \in Steps /\ "save map" \in StepsOf(thread[t].job)
              /\ thread[t].job # "none" /\ thread[t].then \in ThenOf(thread[t].job)
            BY <1>7, JobIs DEF Steps, StepsOf, ThenOf, SaveVectors, At, Saving
        <3> QED
            BY <1>1, <2>1, <3>1, JobIs DEF Still, Now
    <2>3. ThreadsTyped'
        BY <1>1, <2>1, <2>2, ThreadsBy
    <2>4. FilesTyped'
        <3>1. PICK yes : yes = TRUE
            OBVIOUS
        <3> DEFINE h == [disk EXCEPT !.saved = yes]
        <3>2. disk' = [h EXCEPT !.vecs = Index(t).vecs]
            BY <1>7, <3>1 DEF SaveVectors
        <3>3. h = [saved |-> yes, vecs |-> vecs, ids |-> ids]
            BY <1>5
        <3> HIDE DEF h
        <3>4. disk' = [saved |-> yes, vecs |-> Index(t).vecs, ids |-> ids]
            BY <3>2, <3>3
        <3> QED
            BY <1>1, <1>4, <1>6, <3>4 DEF FilesTyped, Mapping
    <2> QED
        BY <1>1, <1>2, <1>3, <2>3, <2>4 DEF Typed
<1>8. CASE SaveMap(t)
    <2>1. ThreadsTyped'
        <3>1. CASE thread[t].then = "idle"
            <4>1. Finish(t)
                BY <1>8, <3>1 DEF SaveMap
            <4> QED
                BY <1>1, <4>1, FinishIs, ThreadsEnd
        <3>2. CASE thread[t].then # "idle"
            <4>1. Now(t, thread[t].then, thread[t].job, thread[t].chunks, thread[t].version,
                      thread[t].file, "idle", thread[t].known)
                BY <1>8, <3>2, WithIs DEF SaveMap
            <4>2. /\ thread[t].then \in StepsOf(thread[t].job)
                  /\ thread[t].job # "none" /\ thread[t].then \notin {"save vectors", "save map"}
                BY <1>8, <3>2, JobIs DEF StepsOf, SaveMap, At, Saving
            <4>3. "idle" \in Steps
                BY DEF Steps
            <4>4. Still(t)
                BY <1>1, <4>1, <4>2, <4>3, JobIs DEF Still, Now
            <4> QED
                BY <1>1, <4>1, <4>4, ThreadsBy
        <3> QED
            BY <3>1, <3>2
    <2>2. FilesTyped'
        <3>1. disk' = [disk EXCEPT !.ids = Index(t).ids]
            BY <1>8 DEF SaveMap
        <3>2. disk' = [saved |-> saved, vecs |-> vecs, ids |-> Index(t).ids]
            BY <1>5, <3>1
        <3> QED
            BY <1>1, <1>4, <1>6, <3>2 DEF FilesTyped, Mapping
    <2> QED
        BY <1>1, <1>2, <1>3, <2>1, <2>2 DEF Typed
<1> QED
    BY <1>7, <1>8

LEMMA TypedEnd ==
    ASSUME Typed, NEW t \in Threads, Bump(t) \/ GetStore(t) \/ Close(t)
    PROVE  Typed'
<1>1. given' = given /\ disk' = disk /\ restarts' = restarts /\ flaws' = flaws
    BY DEF Bump, GetStore, Close, dbVars
<1>2. RowsTyped' /\ FilesTyped' /\ restarts' \in 0..MaxRestarts
      /\ flaws' \subseteq {"overtaken", "torn", "unannounced"}
    BY <1>1 DEF Bump, GetStore, Close, dbVars, Typed, RowsTyped, FilesTyped, Mapping
<1>3. CASE Bump(t)
    <2>1. ThreadsTyped'
        BY <1>1, <1>3, FinishIs, ThreadsEnd DEF Bump
    <2>2. IndexesTyped'
        BY <1>1, <1>3, IndexesStay DEF Bump
    <2> QED
        BY <1>2, <2>1, <2>2 DEF Typed
<1>4. CASE GetStore(t)
    <2>1. ThreadsTyped'
        <3>1. thread' = thread
            BY <1>4 DEF GetStore
        <3> QED
            BY <1>1, <3>1, ThreadsEnd DEF Typed, ThreadsTyped
    <2>2. IndexesTyped'
        BY <1>1, <1>4, HaveIs, IndexIs, IndexesBy DEF GetStore
    <2> QED
        BY <1>2, <2>1, <2>2 DEF Typed
<1>5. CASE Close(t)
    <2>1. Now(t, "save vectors", "close", {}, NoVersion, <<>>, "idle", {})
        BY <1>5, StartIs DEF Close
    <2>2. Still(t)
        <3>1. /\ "close" \in Jobs \ {"none"} /\ "save vectors" \in Steps /\ "idle" \in Steps
              /\ "save vectors" \in StepsOf("close") /\ "idle" \in ThenOf("close")
            BY DEF Jobs, Steps, StepsOf, ThenOf
        <3>2. /\ NoVersion \in Versions \cup {NoVersion} /\ {} \in SUBSET Vectors
              /\ {} \subseteq 1..given' /\ "close" # "embed" /\ <<>> \in Seq(Vectors)
            BY EmptySeq
        <3>3. /\ thread'[t].at = "save vectors" /\ thread'[t].job = "close"
              /\ thread'[t].chunks = {} /\ thread'[t].version = NoVersion
              /\ thread'[t].file = <<>> /\ thread'[t].then = "idle"
              /\ thread'[t].known = {}
            BY <2>1 DEF Now
        <3> QED
            BY <3>1, <3>2, <3>3 DEF Still
    <2>3. ThreadsTyped'
        BY <1>1, <2>1, <2>2, ThreadsBy
    <2>4. IndexesTyped'
        BY <1>1, <1>5, IndexesStay DEF Close
    <2> QED
        BY <1>2, <2>3, <2>4 DEF Typed
<1> QED
    BY <1>3, <1>4, <1>5

LEMMA TypedRestart ==
    ASSUME Typed, NEW p \in Procs, Restart(p)
    PROVE  Typed'
<1>1. given' = given /\ disk' = disk /\ dbVars' = dbVars
    BY DEF Restart, dbVars
<1>2. RowsTyped' /\ FilesTyped'
    BY <1>1 DEF dbVars, Typed, RowsTyped, FilesTyped, Mapping
<1>3. restarts' \in 0..MaxRestarts
    <2>1. restarts \in 0..MaxRestarts /\ MaxRestarts \in Nat
        BY KbIndexAssumption DEF Typed
    <2>2. restarts < MaxRestarts /\ restarts' = restarts + 1
        BY DEF Restart
    <2> QED
        BY <2>1, <2>2
<1>4. flaws' \subseteq {"overtaken", "torn", "unannounced"}
    BY DEF Restart, Typed, Torn
<1>5. ThreadsTyped'
    BY <1>1, ThreadsEnd DEF Restart
<1>6. IndexesTyped'
    <2>1. mem' = [q \in Procs |-> IF q = p THEN NoIndex ELSE mem[q]]
        BY DEF Restart, Typed, IndexesTyped
    <2>2. IndexTyped(NewIndex)
        BY NewIndexIs
    <2>3. \A q \in Procs : /\ mem'[q] = [on |-> mem'[q].on, index |-> mem'[q].index,
                                        revision |-> mem'[q].revision]
                           /\ mem'[q].on \in BOOLEAN /\ IndexTyped(mem'[q].index)
                           /\ mem'[q].on \/ mem'[q].index = NewIndex
        BY <2>1, <2>2 DEF NoIndex, Typed, IndexesTyped
    <2>4. \A q \in Procs : IndexTyped(mem[q].index)'
        BY <1>1, <2>3 DEF IndexTyped, Mapping
    <2> QED
        BY <2>1, <2>3, <2>4 DEF IndexesTyped
<1> QED
    BY <1>2, <1>3, <1>4, <1>5, <1>6 DEF Typed

LEMMA TypedWrite ==
    ASSUME Typed, NEW t \in Threads,
           \/ AddChunk(t) \/ \E c \in Chunks, v \in Versions : Embed(t, c, v)
           \/ \E S \in SUBSET Chunks : Delete(t, S)
    PROVE  Typed'
<1>1. /\ given \in Nat /\ rows \subseteq 1..given /\ 1..given \subseteq Chunks
      /\ emb \in [Chunks -> Versions \cup {NoVersion}]
      /\ \A c \in Chunks : emb[c] # NoVersion => c \in rows
      /\ restarts \in 0..MaxRestarts /\ flaws \subseteq {"overtaken", "torn", "unannounced"}
    BY DEF Typed, RowsTyped
<1>2. mem' = mem /\ disk' = disk /\ restarts' = restarts /\ flaws' = flaws
    BY DEF AddChunk, Embed, Delete
<1>3. CASE AddChunk(t)
    <2>1. given' = given + 1 /\ rows' = rows \cup {given + 1} /\ given + 1 \in Chunks
          /\ emb' = emb /\ At(t, "idle")
        BY <1>3 DEF AddChunk
    <2>2. /\ 1..given \subseteq 1..given' /\ given + 1 \in 1..given'
          /\ \A k \in 1..given' : k \in 1..given \/ k = given + 1
        BY <1>1, <2>1
    <2>3. RowsTyped'
        <3>1. given' \in Nat /\ rows' \subseteq 1..given' /\ 1..given' \subseteq Chunks
            BY <1>1, <2>1, <2>2
        <3> QED
            BY <1>1, <2>1, <3>1 DEF RowsTyped
    <2>4. Now(t, "bump", "add", {given + 1}, NoVersion, <<>>, "idle", {})
        BY <1>3, <2>1, StartIs DEF AddChunk
    <2>5. Still(t)
        BY <2>2, <2>4, EmptySeq DEF Still, Now, Jobs, Steps, StepsOf
    <2>6. ThreadsTyped'
        BY <2>2, <2>4, <2>5, ThreadsBy
    <2>7. IndexesTyped'
        BY <1>2, <2>2, IndexesStay
    <2>8. FilesTyped'
        BY <1>2, <2>2 DEF Typed, FilesTyped, Mapping
    <2> QED
        BY <1>1, <1>2, <2>3, <2>6, <2>7, <2>8 DEF Typed
<1>4. ASSUME NEW c \in Chunks, NEW v \in Versions, Embed(t, c, v) PROVE Typed'
    <2>1. rows' = rows /\ given' = given /\ c \in 1..given /\ At(t, "idle")
          /\ emb' = IF c \in rows THEN [emb EXCEPT ![c] = v] ELSE emb
        BY <1>4 DEF Embed
    <2>2. RowsTyped'
        BY <1>1, <2>1 DEF RowsTyped
    <2>3. PICK at \in {"put", "load"} : Now(t, at, "embed", {c}, v, <<>>, "idle", {})
        BY <1>4, <2>1, StartIs DEF Embed
    <2>4. Still(t)
        <3>1. /\ "embed" \in Jobs \ {"none"} /\ at \in Steps /\ "idle" \in Steps
              /\ at \in StepsOf("embed") /\ <<>> \in Seq(Vectors) /\ {c} \subseteq 1..given'
              /\ at \notin {"save vectors", "save map"}
            BY <2>1, EmptySeq DEF Jobs, Steps, StepsOf
        <3> QED
            BY <2>3, <3>1 DEF Still, Now
    <2>5. ThreadsTyped'
        BY <2>1, <2>3, <2>4, ThreadsBy
    <2>6. IndexesTyped' /\ FilesTyped'
        BY <1>2, <2>1, IndexesStay DEF Typed, FilesTyped, Mapping
    <2> QED
        BY <1>1, <1>2, <2>2, <2>5, <2>6 DEF Typed
<1>5. ASSUME NEW S \in SUBSET Chunks, Delete(t, S) PROVE Typed'
    <2>1. rows' = rows \ S /\ given' = given /\ S \subseteq rows /\ At(t, "idle")
          /\ emb' = [c \in Chunks |-> IF c \in S THEN NoVersion ELSE emb[c]]
        BY <1>5 DEF Delete
    <2>2. RowsTyped'
        BY <1>1, <2>1 DEF RowsTyped
    <2>3. Now(t, "remove", "delete", S, NoVersion, <<>>, "idle", {})
        BY <1>5, <2>1, StartIs DEF Delete
    <2>4. Still(t)
        <3>1. S \subseteq 1..given'
            BY <1>1, <2>1
        <3>2. /\ "delete" \in Jobs \ {"none"} /\ "remove" \in Steps /\ "idle" \in Steps
              /\ "remove" \in StepsOf("delete") /\ <<>> \in Seq(Vectors)
            BY EmptySeq DEF Jobs, Steps, StepsOf
        <3> QED
            BY <2>3, <3>1, <3>2 DEF Still, Now
    <2>5. ThreadsTyped'
        BY <2>1, <2>3, <2>4, ThreadsBy
    <2>6. IndexesTyped' /\ FilesTyped'
        BY <1>2, <2>1, IndexesStay DEF Typed, FilesTyped, Mapping
    <2> QED
        BY <1>1, <1>2, <2>2, <2>5, <2>6 DEF Typed
<1> QED
    BY <1>3, <1>4, <1>5

\* The item an embedding puts into an index.
LEMMA ItemIs ==
    ASSUME NEW c \in 1..given, NEW v \in Versions, 1..given \subseteq Chunks
    PROVE  LET items == <<[id |-> c, vec |-> <<c, v>>]>>
           IN  items \in Seq(ItemSet) /\ Distinct(items) /\ IdsOf(items) = {c}
<1> DEFINE item == [id |-> c, vec |-> <<c, v>>]
<1>1. item \in ItemSet /\ item.id = c /\ item.vec[1] = c
    BY DEF ItemSet, Vectors
<1> HIDE DEF item
<1>2. <<item>> \in Seq(ItemSet) /\ DOMAIN <<item>> = 1..1 /\ <<item>>[1] = item
    BY <1>1
<1>3. 1..1 = {1}
    OBVIOUS
<1>4. Distinct(<<item>>) /\ IdsOf(<<item>>) = {c}
    BY <1>1, <1>2, <1>3 DEF Distinct, IdsOf
<1> QED
    BY <1>2, <1>4 DEF item

LEMMA TypedPut ==
    ASSUME Typed, NEW t \in Threads, Put(t) \/ RemoveFromIndex(t)
    PROVE  Typed'
<1>1. UNCHANGED <<dbVars, disk, restarts, flaws>>
      /\ flaws \subseteq {"overtaken", "torn", "unannounced"}
    BY DEF Put, RemoveFromIndex, Typed
<1>2. CASE Put(t)
    <2>1. PICK c \in thread[t].chunks :
              Have(t, AddItems(RemoveChunks(Index(t), {c}),
                               <<[id |-> c, vec |-> <<c, thread[t].version>>]>>))
        BY <1>2 DEF Put
    <2>2. thread[t].job = "embed" /\ Goto(t, "bump")
        BY <1>2, JobIs DEF Put, At
    <2>3. c \in 1..given /\ thread[t].version \in Versions /\ 1..given \subseteq Chunks
        BY <2>2, JobIs DEF Typed, RowsTyped
    <2>4. IndexTyped(AddItems(RemoveChunks(Index(t), {c}),
                              <<[id |-> c, vec |-> <<c, thread[t].version>>]>>))
        BY <2>3, ItemIs, IndexIs, RemoveIs, AddItemsIs
    <2> QED
        BY <1>1, <2>1, <2>2, <2>4, TypedGoto DEF Steps, StepsOf
<1>3. CASE RemoveFromIndex(t)
    <2>1. thread[t].job = "delete"
        BY <1>3, JobIs DEF RemoveFromIndex, At
    <2>2. CASE Goto(t, "bump") /\ mem' = mem
        BY <1>1, <2>1, <2>2, TypedGoto DEF Steps, StepsOf
    <2>3. CASE SavesAnd(t, "bump") /\ Have(t, RemoveChunks(Index(t), thread[t].chunks))
        <3>1. IndexTyped(RemoveChunks(Index(t), thread[t].chunks))
            BY IndexIs, RemoveIs
        <3> QED
            BY <1>1, <2>1, <2>3, <3>1, TypedSaveAnd
    <2> QED
        BY <1>3, <2>2, <2>3 DEF RemoveFromIndex, SavesAnd
<1> QED
    BY <1>2, <1>3

LEMMA TypedStep ==
    ASSUME Typed, Next
    PROVE  Typed'
<1>1. ASSUME NEW t \in Threads,
             \/ Search(t) \/ Compare(t) \/ Answer(t) \/ Loads(t) \/ Builds(t)
             \/ Saves(t) \/ Writes(t) \/ GetStore(t) \/ Close(t)
      PROVE  Typed'
    BY <1>1, TypedSearch, TypedCompare, TypedLoad, TypedBuild, TypedSave, TypedEnd, TypedWrite,
       TypedPut DEF Loads, Builds, Saves, Writes
<1> QED
    BY <1>1, TypedRestart DEF Next

-----------------------------------------------------------------------------
(* The lock of a process is held by the thread that works with its index.   *)

\* the steps in which a thread goes on with its job
Works(t) ==
    \/ Compare(t) \/ LoadVectors(t) \/ LoadMap(t) \/ NothingToLoad(t) \/ Stamp(t)
    \/ AddNewChunks(t) \/ Recheck(t) \/ Rebuild(t) \/ Restamp(t) \/ SaveVectors(t) \/ Put(t)

\* the others stay; the thread keeps what it was given
OnlyMoves(t) ==
    /\ thread' = [u \in Threads |-> IF u = t THEN thread'[t] ELSE thread[u]]
    /\ thread'[t].job = thread[t].job /\ thread'[t].chunks = thread[t].chunks
    /\ thread'[t].version = thread[t].version /\ thread'[t].known = thread[t].known

Goes(t, from, to) == OnlyMoves(t) /\ thread[t].at \in from /\ thread'[t].at \in to

LEMMA WorksTo ==
    ASSUME Typed, NEW t \in Threads
    PROVE  /\ Compare(t) => Goes(t, {"count", "compare"}, {"compare", "answer", "load"})
           /\ LoadVectors(t) => Goes(t, {"load"}, {"map"}) /\ thread'[t].file = disk.vecs
           /\ LoadMap(t) => Goes(t, {"map"}, {"stamp"})
           /\ NothingToLoad(t) => Goes(t, {"load"}, {"build", "stamp"})
           /\ Stamp(t) => Goes(t, {"stamp"}, IF thread[t].job = "search" THEN {"add"} ELSE {"put"})
           /\ AddNewChunks(t) => Goes(t, {"add"}, {"save vectors", "recount"})
           /\ Recheck(t) => Goes(t, {"recount", "recompare"}, {"recompare", "answer", "build"})
           /\ Rebuild(t) => Goes(t, {"build"}, {"answer", "save vectors"})
           /\ Restamp(t) => Goes(t, {"restamp"}, {"answer"})
           /\ SaveVectors(t) => Goes(t, {"save vectors"}, {"save map"})
           /\ Put(t) => Goes(t, {"put"}, {"bump"})
<1>1. ASSUME NEW step, Goto(t, step) PROVE OnlyMoves(t) /\ thread'[t].at = step
    BY <1>1, GotoIs DEF Now, OnlyMoves
<1>2. ASSUME NEW then, SavesAnd(t, then) PROVE OnlyMoves(t) /\ thread'[t].at = "save vectors"
    BY <1>2, WithIs DEF SavesAnd, Now, OnlyMoves
<1>3. ASSUME Compare(t)
      PROVE  Goes(t, {"count", "compare"}, {"compare", "answer", "load"})
    BY <1>1, <1>3 DEF Compare, InSync, OutOfSync, At, Goes
<1>4. ASSUME LoadVectors(t)
      PROVE  Goes(t, {"load"}, {"map"}) /\ thread'[t].file = disk.vecs
    BY <1>4, WithIs DEF LoadVectors, Now, OnlyMoves, At, Goes
<1>5. ASSUME LoadMap(t) PROVE Goes(t, {"map"}, {"stamp"})
    BY <1>5, WithIs DEF LoadMap, Now, OnlyMoves, At, Goes
<1>6. ASSUME NothingToLoad(t) PROVE Goes(t, {"load"}, {"build", "stamp"})
    BY <1>1, <1>6 DEF NothingToLoad, At, Goes
<1>7. ASSUME Stamp(t)
      PROVE  Goes(t, {"stamp"}, IF thread[t].job = "search" THEN {"add"} ELSE {"put"})
    <2>1. /\ thread[t].at = "stamp"
          /\ Goto(t, IF thread[t].job = "search" THEN "add" ELSE "put")
        BY <1>7 DEF Stamp, At
    <2> QED
        BY <1>1, <2>1 DEF Goes
<1>8. ASSUME AddNewChunks(t) PROVE Goes(t, {"add"}, {"save vectors", "recount"})
    <2>1. At(t, "add") /\ (SavesAnd(t, "answer") \/ Goto(t, "recount"))
        BY <1>8 DEF AddNewChunks, SavesAnd
    <2> QED
        BY <1>1, <1>2, <2>1 DEF At, Goes
<1>9. ASSUME Recheck(t)
      PROVE  Goes(t, {"recount", "recompare"}, {"recompare", "answer", "build"})
    BY <1>1, <1>9 DEF Recheck, At, Goes
<1>10. ASSUME Rebuild(t) PROVE Goes(t, {"build"}, {"answer", "save vectors"})
    <2>1. At(t, "build") /\ (SavesAnd(t, "restamp") \/ Goto(t, "answer"))
        BY <1>10 DEF Rebuild, SavesAnd
    <2> QED
        BY <1>1, <1>2, <2>1 DEF At, Goes
<1>11. ASSUME Restamp(t) PROVE Goes(t, {"restamp"}, {"answer"})
    <2>1. At(t, "restamp") /\ Goto(t, "answer")
        BY <1>11 DEF Restamp
    <2> QED
        BY <1>1, <2>1 DEF At, Goes
<1>12. ASSUME SaveVectors(t) PROVE Goes(t, {"save vectors"}, {"save map"})
    <2>1. At(t, "save vectors") /\ Goto(t, "save map")
        BY <1>12 DEF SaveVectors
    <2> QED
        BY <1>1, <2>1 DEF At, Goes
<1>13. ASSUME Put(t) PROVE Goes(t, {"put"}, {"bump"})
    <2>1. At(t, "put") /\ Goto(t, "bump")
        BY <1>13 DEF Put
    <2> QED
        BY <1>1, <2>1 DEF At, Goes
<1> QED
    BY <1>3, <1>4, <1>5, <1>6, <1>7, <1>8, <1>9, <1>10, <1>11, <1>12, <1>13

LEMMA WorksIs ==
    ASSUME Typed, Typed', NEW t \in Threads, Works(t)
    PROVE  /\ OnlyMoves(t) /\ Holds(t) /\ Holds(t)'
           /\ thread[t].at # "idle" /\ thread'[t].at # "idle"
           /\ lock' = lock /\ UNCHANGED <<rows, given, emb, revision>> /\ restarts' = restarts
<1>1. thread[t].at = "put" => thread[t].job = "embed"
    BY JobIs
<1>2. lock' = lock /\ UNCHANGED <<rows, given, emb, revision>> /\ restarts' = restarts
    BY DEF Works, Compare, LoadVectors, LoadMap, NothingToLoad, Stamp, AddNewChunks, Recheck,
           Rebuild, Restamp, SaveVectors, Put, dbVars
<1>3. /\ OnlyMoves(t) /\ thread[t].at \notin {"idle", "remove", "bump"}
      /\ thread'[t].at \notin {"idle", "remove"}
      /\ thread'[t].at = "bump" => thread[t].job = "embed"
    BY <1>1, WorksTo DEF Works, Goes
<1>4. Holds(t) /\ Holds(t)'
    BY <1>3 DEF Holds, OnlyMoves
<1> QED
    BY <1>2, <1>3, <1>4

\* What starts and what ends a job.
LEMMA JobsTo ==
    ASSUME Typed, NEW t \in Threads
    PROVE  /\ Search(t) => Now(t, IF HasIndex(t) THEN "count" ELSE "load", "search", {},
                               NoVersion, <<>>, "idle",
                               {<<c, emb[c]>> : c \in Embedded \ Unannounced})
           /\ AddChunk(t) => Now(t, "bump", "add", {given + 1}, NoVersion, <<>>, "idle", {})
           /\ \A c \in Chunks : \A v \in Versions : Embed(t, c, v) =>
                Now(t, IF HasIndex(t) THEN "put" ELSE "load", "embed", {c}, v, <<>>, "idle", {})
           /\ \A S \in SUBSET Chunks : Delete(t, S) =>
                Now(t, "remove", "delete", S, NoVersion, <<>>, "idle", {})
           /\ Close(t) => Now(t, "save vectors", "close", {}, NoVersion, <<>>, "idle", {})
<1>1. ASSUME Search(t)
      PROVE  Now(t, IF HasIndex(t) THEN "count" ELSE "load", "search", {}, NoVersion, <<>>, "idle",
                 {<<c, emb[c]>> : c \in Embedded \ Unannounced})
    BY <1>1, StartIs DEF Search
<1>2. ASSUME AddChunk(t)
      PROVE  Now(t, "bump", "add", {given + 1}, NoVersion, <<>>, "idle", {})
    BY <1>2, StartIs DEF AddChunk
<1>3. ASSUME NEW c \in Chunks, NEW v \in Versions, Embed(t, c, v)
      PROVE  Now(t, IF HasIndex(t) THEN "put" ELSE "load", "embed", {c}, v, <<>>, "idle", {})
    BY <1>3, StartIs DEF Embed
<1>4. ASSUME NEW S \in SUBSET Chunks, Delete(t, S)
      PROVE  Now(t, "remove", "delete", S, NoVersion, <<>>, "idle", {})
    BY <1>4, StartIs DEF Delete
<1>5. ASSUME Close(t)
      PROVE  Now(t, "save vectors", "close", {}, NoVersion, <<>>, "idle", {})
    BY <1>5, StartIs DEF Close
<1> QED
    BY <1>1, <1>2, <1>3, <1>4, <1>5

Ended(t) == thread' = [u \in Threads |-> IF u = t THEN Idle ELSE thread[u]]

LEMMA EndedIs ==
    ASSUME NEW t \in Threads, Ended(t)
    PROVE  /\ thread' = [u \in Threads |-> IF u = t THEN thread'[t] ELSE thread[u]]
           /\ thread'[t] = Idle /\ thread'[t].at = "idle" /\ thread'[t].job = "none"
           /\ thread'[t].known = {} /\ thread'[t].chunks = {}
<1>1. thread'[t] = Idle /\ \A u \in Threads \ {t} : thread'[u] = thread[u]
    BY DEF Ended
<1>2. /\ Idle.at = "idle" /\ Idle.job = "none" /\ Idle.known = {} /\ Idle.chunks = {}
    BY DEF Idle
<1> QED
    BY <1>1, <1>2 DEF Ended

LEMMA EndsTo ==
    ASSUME Typed, NEW t \in Threads
    PROVE  /\ Answer(t) => Ended(t) /\ thread[t].at = "answer" /\ thread[t].job = "search"
           /\ Bump(t) => /\ Ended(t) /\ thread[t].at = "bump"
                         /\ thread[t].job \in {"embed", "delete", "add"}
           /\ SaveMap(t) =>
                /\ thread[t].at = "save map"
                /\ \/ Ended(t) /\ thread[t].job = "close" /\ Release(t)
                   \/ /\ OnlyMoves(t) /\ thread'[t].at = "bump"
                      /\ thread[t].job = "delete" /\ Release(t)
                   \/ /\ OnlyMoves(t) /\ thread'[t].at \in {"answer", "restamp"}
                      /\ thread[t].job = "search" /\ lock' = lock
           /\ RemoveFromIndex(t) =>
                /\ OnlyMoves(t) /\ thread[t].at = "remove" /\ thread[t].job = "delete"
                /\ \/ thread'[t].at = "bump" /\ UNCHANGED <<mem, lock>>
                   \/ /\ thread'[t].at = "save vectors" /\ Acquire(t)
                      /\ Have(t, RemoveChunks(Index(t), thread[t].chunks))
<1>1. Answer(t) => Ended(t) /\ thread[t].at = "answer" /\ thread[t].job = "search"
    BY FinishIs, JobIs DEF Answer, At, Ended
<1>2. Bump(t) => Ended(t) /\ thread[t].at = "bump" /\ thread[t].job \in {"embed", "delete", "add"}
    BY FinishIs, JobIs DEF Bump, At, Ended
<1>3. ASSUME SaveMap(t)
      PROVE  /\ thread[t].at = "save map"
             /\ \/ Ended(t) /\ thread[t].job = "close" /\ Release(t)
                \/ /\ OnlyMoves(t) /\ thread'[t].at = "bump"
                   /\ thread[t].job = "delete" /\ Release(t)
                \/ /\ OnlyMoves(t) /\ thread'[t].at \in {"answer", "restamp"}
                   /\ thread[t].job = "search" /\ lock' = lock
    <2>1. /\ thread[t].at = "save map"
          /\ IF thread[t].job = "search" THEN UNCHANGED lock ELSE Release(t)
          /\ \/ thread[t].job = "search" /\ thread[t].then \in {"answer", "restamp"}
             \/ thread[t].job = "delete" /\ thread[t].then = "bump"
             \/ thread[t].job = "close" /\ thread[t].then = "idle"
        BY <1>3, JobIs DEF SaveMap, At, Saving
    <2>2. CASE thread[t].then = "idle"
        <3>1. Finish(t)
            BY <1>3, <2>2 DEF SaveMap
        <3> QED
            BY <2>1, <2>2, <3>1, FinishIs DEF Ended
    <2>3. CASE thread[t].then # "idle"
        <3>1. Now(t, thread[t].then, thread[t].job, thread[t].chunks, thread[t].version,
                  thread[t].file, "idle", thread[t].known)
            BY <1>3, <2>3, WithIs DEF SaveMap
        <3>2. OnlyMoves(t) /\ thread'[t].at = thread[t].then
            BY <3>1 DEF Now, OnlyMoves
        <3> QED
            BY <2>1, <2>3, <3>2
    <2> QED
        BY <2>2, <2>3
<1>4. ASSUME RemoveFromIndex(t)
      PROVE  /\ OnlyMoves(t) /\ thread[t].at = "remove" /\ thread[t].job = "delete"
             /\ \/ thread'[t].at = "bump" /\ UNCHANGED <<mem, lock>>
                \/ /\ thread'[t].at = "save vectors" /\ Acquire(t)
                   /\ Have(t, RemoveChunks(Index(t), thread[t].chunks))
    <2>1. thread[t].at = "remove" /\ thread[t].job = "delete"
        BY <1>4, JobIs DEF RemoveFromIndex, At
    <2>2. CASE Goto(t, "bump") /\ UNCHANGED <<mem, lock>>
        BY <2>1, <2>2, GotoIs DEF Now, OnlyMoves
    <2>3. CASE /\ SavesAnd(t, "bump") /\ Acquire(t)
               /\ Have(t, RemoveChunks(Index(t), thread[t].chunks))
        BY <2>1, <2>3, WithIs DEF Now, OnlyMoves, SavesAnd
    <2> QED
        BY <1>4, <2>2, <2>3 DEF RemoveFromIndex, SavesAnd
<1> QED
    BY <1>1, <1>2, <1>3, <1>4

LEMMA LockedBy ==
    ASSUME Typed, Locked, NEW t \in Threads,
           thread' = [u \in Threads |-> IF u = t THEN thread'[t] ELSE thread[u]],
           \/ lock' = lock /\ (Holds(t)' <=> Holds(t))
           \/ Acquire(t) /\ Holds(t)'
           \/ Release(t) /\ Holds(t) /\ ~Holds(t)'
    PROVE  Locked'
<1>1. Home[t] \in Procs /\ t # Nobody /\ \A u \in Threads : Home[u] \in Procs /\ u # Nobody
    BY ThreadIs, KbIndexAssumption
<1>2. \A u \in Threads \ {t} : thread'[u] = thread[u] /\ (Holds(u)' <=> Holds(u))
    BY DEF Holds
<1>3. CASE lock' = lock /\ (Holds(t)' <=> Holds(t))
    BY <1>1, <1>2, <1>3 DEF Locked
<1>4. CASE Acquire(t) /\ Holds(t)'
    <2>1. /\ lock[Home[t]] = Nobody /\ lock' \in [Procs -> Threads \cup {Nobody}]
          /\ lock'[Home[t]] = t /\ \A p \in Procs \ {Home[t]} : lock'[p] = lock[p]
        BY <1>1, <1>4 DEF Acquire, Free, Locked
    <2> QED
        BY <1>1, <1>2, <1>4, <2>1 DEF Locked
<1>5. CASE Release(t) /\ Holds(t) /\ ~Holds(t)'
    <2>1. /\ lock' \in [Procs -> Threads \cup {Nobody}] /\ lock[Home[t]] = t
          /\ lock'[Home[t]] = Nobody /\ \A p \in Procs \ {Home[t]} : lock'[p] = lock[p]
        BY <1>1, <1>5 DEF Release, Locked
    <2> QED
        BY <1>1, <1>2, <1>5, <2>1 DEF Locked
<1> QED
    BY <1>3, <1>4, <1>5

LEMMA LockedStep ==
    ASSUME Typed, Typed', Locked, Next
    PROVE  Locked'
<1>1. ASSUME NEW t \in Threads, Works(t) PROVE Locked'
    BY <1>1, WorksIs, LockedBy DEF OnlyMoves
<1>2. ASSUME NEW t \in Threads,
             \/ Search(t) \/ Close(t)
             \/ \E c \in Chunks, v \in Versions : Embed(t, c, v)
      PROVE  Locked'
    <2>1. Acquire(t)
        BY <1>2 DEF Search, Close, Embed
    <2>2. /\ thread' = [u \in Threads |-> IF u = t THEN thread'[t] ELSE thread[u]]
          /\ thread'[t].at \in {"count", "load", "put", "save vectors"}
        BY <1>2, JobsTo DEF Now
    <2> QED
        BY <2>1, <2>2, LockedBy DEF Holds
<1>3. ASSUME NEW t \in Threads, AddChunk(t) \/ \E S \in SUBSET Chunks : Delete(t, S)
      PROVE  Locked'
    <2>1. lock' = lock /\ thread[t].at = "idle"
        BY <1>3 DEF AddChunk, Delete, At
    <2>2. /\ thread' = [u \in Threads |-> IF u = t THEN thread'[t] ELSE thread[u]]
          /\ \/ thread'[t].at = "bump" /\ thread'[t].job = "add"
             \/ thread'[t].at = "remove"
        BY <1>3, JobsTo DEF Now
    <2> QED
        BY <2>1, <2>2, LockedBy DEF Holds
<1>4. ASSUME NEW t \in Threads, Answer(t) \/ Bump(t) PROVE Locked'
    <2>1. /\ Ended(t) /\ thread'[t].at = "idle"
          /\ thread' = [u \in Threads |-> IF u = t THEN thread'[t] ELSE thread[u]]
        BY <1>4, EndsTo, EndedIs
    <2>2. CASE Answer(t)
        BY <2>1, <2>2, EndsTo, LockedBy DEF Holds, Answer
    <2>3. CASE Bump(t)
        BY <2>1, <2>3, EndsTo, LockedBy DEF Holds, Bump
    <2> QED
        BY <1>4, <2>2, <2>3
<1>5. ASSUME NEW t \in Threads, SaveMap(t) PROVE Locked'
    <2>1. thread' = [u \in Threads |-> IF u = t THEN thread'[t] ELSE thread[u]]
        BY <1>5, EndsTo, EndedIs DEF OnlyMoves
    <2>2. \/ thread'[t].at = "idle" /\ Release(t)
          \/ thread'[t].at = "bump" /\ thread'[t].job = "delete" /\ Release(t)
          \/ thread'[t].at \in {"answer", "restamp"} /\ lock' = lock
        BY <1>5, EndsTo, EndedIs DEF OnlyMoves
    <2>3. Holds(t)
        BY <1>5 DEF SaveMap, At, Holds
    <2> QED
        BY <2>1, <2>2, <2>3, LockedBy DEF Holds
<1>6. ASSUME NEW t \in Threads, RemoveFromIndex(t) PROVE Locked'
    <2>1. /\ thread' = [u \in Threads |-> IF u = t THEN thread'[t] ELSE thread[u]]
          /\ thread'[t].job = "delete" /\ thread[t].at = "remove"
          /\ \/ thread'[t].at = "bump" /\ lock' = lock
             \/ thread'[t].at = "save vectors" /\ Acquire(t)
        BY <1>6, EndsTo DEF OnlyMoves
    <2> QED
        BY <2>1, LockedBy DEF Holds
<1>7. ASSUME NEW t \in Threads, GetStore(t) PROVE Locked'
    BY <1>7 DEF GetStore, Locked, Holds
<1>8. ASSUME NEW p \in Procs, Restart(p) PROVE Locked'
    <2>1. /\ lock' = [q \in Procs |-> IF q = p THEN Nobody ELSE lock[q]]
          /\ \A u \in Threads : thread'[u] = IF Home[u] = p THEN Idle ELSE thread[u]
        BY <1>8 DEF Restart, Ends, Locked
    <2>2. \A u \in Threads : Holds(u)' <=> Holds(u) /\ Home[u] # p
        BY <2>1 DEF Holds, Idle
    <2> QED
        BY <2>1, <2>2, ThreadIs, KbIndexAssumption DEF Locked
<1> QED
    BY <1>1, <1>2, <1>3, <1>4, <1>5, <1>6, <1>7, <1>8
       DEF Next, Loads, Builds, Saves, Writes, Works

-----------------------------------------------------------------------------
(* Every write that is under way has its place among the revisions.         *)

LEMMA WritersAre ==
    /\ Writers \subseteq Threads /\ IsFiniteSet(Writers) /\ Cardinality(Writers) \in Nat
    /\ \A S \in SUBSET Writers : IsFiniteSet(S) /\ Cardinality(S) \in Nat
                                 /\ Cardinality(S) <= Cardinality(Writers)
<1>1. Writers \subseteq Threads /\ IsFiniteSet(Threads)
    BY KbIndexAssumption DEF Writers
<1>2. IsFiniteSet(Writers)
    BY <1>1, FS_Subset
<1> QED
    BY <1>1, <1>2, FS_Subset, FS_CardinalityType

LEMMA WritersBy ==
    ASSUME NEW t \in Threads,
           thread' = [u \in Threads |-> IF u = t THEN thread'[t] ELSE thread[u]]
    PROVE  /\ (Announcing(t)' <=> Announcing(t)) => Writers' = Writers
           /\ ~Announcing(t) /\ Announcing(t)' =>
                Writers' = Writers \cup {t} /\ Cardinality(Writers') = Cardinality(Writers) + 1
           /\ Announcing(t) /\ ~Announcing(t)' =>
                Writers' = Writers \ {t} /\ Cardinality(Writers') = Cardinality(Writers) - 1
<1>1. \A u \in Threads \ {t} : Announcing(u)' <=> Announcing(u)
    BY DEF Announcing
<1>2. \A u \in Threads : u \in Writers <=> Announcing(u)
    BY DEF Writers
<1>3. \A u \in Threads : u \in Writers' <=> Announcing(u)'
    BY DEF Writers
<1>4. Writers \subseteq Threads /\ Writers' \subseteq Threads
    BY DEF Writers
<1>5. ASSUME Announcing(t)' <=> Announcing(t) PROVE Writers' = Writers
    BY <1>1, <1>2, <1>3, <1>4, <1>5
<1>6. ASSUME ~Announcing(t), Announcing(t)'
      PROVE  Writers' = Writers \cup {t} /\ Cardinality(Writers') = Cardinality(Writers) + 1
    <2>1. Writers' = Writers \cup {t} /\ t \notin Writers
        BY <1>1, <1>2, <1>3, <1>4, <1>6
    <2> QED
        BY <2>1, WritersAre, FS_AddElement
<1>7. ASSUME Announcing(t), ~Announcing(t)'
      PROVE  Writers' = Writers \ {t} /\ Cardinality(Writers') = Cardinality(Writers) - 1
    <2>1. Writers' = Writers \ {t} /\ t \in Writers
        BY <1>1, <1>2, <1>3, <1>4, <1>7
    <2> QED
        BY <2>1, WritersAre, FS_RemoveElement
<1> QED
    BY <1>5, <1>6, <1>7

\* what a step leaves of the revisions that were stamped
Stamps == \A p \in Procs : mem[p].revision \in 0..revision

LEMMA StampsBy ==
    ASSUME Stamps, NEW t \in Threads, revision \in Nat, revision' = revision,
           NEW on, NEW i, NEW stamp, MemNow(t, on, i, stamp), stamp \in 0..revision
    PROVE  Stamps'
<1>1. \A p \in Procs : mem'[p].revision = stamp \/ mem'[p] = mem[p]
    BY DEF MemNow
<1> QED
    BY <1>1 DEF Stamps

\* the index of its process after a step: as it was, another one, or none
Holding(t) ==
    \/ mem' = mem \/ Drop(t) \/ Stamped(t)
    \/ \E i : Have(t, i)

LEMMA HoldingIs ==
    ASSUME Typed, NEW t \in Threads
    PROVE  Works(t) \/ RemoveFromIndex(t) \/ GetStore(t) => Holding(t)
BY DEF Works, RemoveFromIndex, GetStore, Holding, Stamped, Compare, InSync, OutOfSync, LoadVectors,
       LoadMap, NothingToLoad, Stamp, AddNewChunks, Recheck, Rebuild, Restamp, SaveVectors, Put

LEMMA StampsHold ==
    ASSUME Typed, Stamps, NEW t \in Threads, Holding(t), revision \in Nat, revision' = revision
    PROVE  Stamps'
<1>1. 0 \in 0..revision /\ revision \in 0..revision /\ mem[Home[t]].revision \in 0..revision
    BY ThreadIs DEF Stamps
<1>2. CASE mem' = mem
    BY <1>2 DEF Stamps
<1>3. CASE Drop(t)
    BY <1>1, <1>3, HaveIs, StampsBy
<1>4. CASE Stamped(t)
    BY <1>1, <1>4, HaveIs, StampsBy
<1>5. ASSUME NEW i, Have(t, i) PROVE Stamps'
    BY <1>1, <1>5, HaveIs, StampsBy
<1> QED
    BY <1>2, <1>3, <1>4, <1>5 DEF Holding

LEMMA RevisionsStep ==
    ASSUME Typed, Typed', Revisions, Next
    PROVE  Revisions'
<1> DEFINE n == Cardinality(Writers)
<1>1. revision \in Nat /\ n \in Nat /\ revision + n <= MaxRevision /\ Stamps /\ MaxRevision \in Nat
    BY WritersAre, KbIndexAssumption DEF Revisions, Stamps
<1>2. MayWrite <=> revision + n < MaxRevision
    BY DEF MayWrite, Writers
<1> HIDE DEF n
<1>3. ASSUME NEW t \in Threads, OnlyMoves(t), thread[t].at # "idle", thread'[t].at # "idle",
             revision' = revision, Stamps'
      PROVE  Revisions'
    <2>1. Announcing(t)' <=> Announcing(t)
        BY <1>3 DEF OnlyMoves, Announcing
    <2>2. Writers' = Writers
        BY <1>3, <2>1, WritersBy DEF OnlyMoves
    <2> QED
        BY <1>1, <1>3, <2>2 DEF Revisions, Stamps, n
<1>4. ASSUME NEW t \in Threads, Works(t) PROVE Revisions'
    <2>1. Stamps'
        BY <1>1, <1>4, HoldingIs, WorksIs, StampsHold
    <2> QED
        BY <1>3, <1>4, <2>1, WorksIs
<1>5. ASSUME NEW t \in Threads, Search(t) \/ Close(t) \/ Answer(t) PROVE Revisions'
    <2>1. mem' = mem /\ revision' = revision
        BY <1>5 DEF Search, Close, Answer, dbVars
    <2>2. /\ thread' = [u \in Threads |-> IF u = t THEN thread'[t] ELSE thread[u]]
          /\ thread'[t].job \in {"search", "close", "none"}
        BY <1>5, JobsTo, EndsTo, EndedIs DEF Now
    <2>3. thread[t].job \in {"none", "search"}
        BY <1>5, JobIs DEF Search, Close, Answer, At
    <2>4. ~Announcing(t) /\ ~Announcing(t)'
        BY <2>2, <2>3 DEF Announcing
    <2>5. Writers' = Writers
        BY <2>2, <2>4, WritersBy
    <2> QED
        BY <1>1, <2>1, <2>5 DEF Revisions, Stamps, n
<1>6. ASSUME NEW t \in Threads,
             \/ AddChunk(t) \/ \E S \in SUBSET Chunks : Delete(t, S)
             \/ \E c \in Chunks, v \in Versions : Embed(t, c, v)
      PROVE  Revisions'
    <2>1. MayWrite /\ mem' = mem /\ revision' = revision /\ thread[t].at = "idle"
        BY <1>6 DEF AddChunk, Delete, Embed, At
    <2>2. /\ thread' = [u \in Threads |-> IF u = t THEN thread'[t] ELSE thread[u]]
          /\ thread'[t].job \in {"add", "delete", "embed"} /\ thread'[t].at # "idle"
        BY <1>6, JobsTo DEF Now
    <2>3. ~Announcing(t) /\ Announcing(t)'
        BY <2>1, <2>2 DEF Announcing
    <2>4. Cardinality(Writers') = n + 1
        BY <2>2, <2>3, WritersBy DEF n
    <2>5. revision + (n + 1) <= MaxRevision
        BY <1>1, <1>2, <2>1
    <2> QED
        BY <1>1, <2>1, <2>4, <2>5 DEF Revisions, Stamps
<1>7. ASSUME NEW t \in Threads, Bump(t) PROVE Revisions'
    <2>1. mem' = mem /\ revision' = revision + 1
        BY <1>7 DEF Bump
    <2>2. Announcing(t) /\ ~Announcing(t)'
        BY <1>7, EndsTo, EndedIs DEF Announcing
    <2>3. Cardinality(Writers') = n - 1
        BY <1>7, <2>2, EndsTo, EndedIs, WritersBy DEF n
    <2>4. /\ revision' \in Nat /\ revision' + (n - 1) <= MaxRevision
          /\ \A p \in Procs : mem'[p].revision \in 0..revision'
        BY <1>1, <2>1 DEF Stamps
    <2> QED
        BY <2>3, <2>4 DEF Revisions
<1>8. ASSUME NEW t \in Threads, SaveMap(t) PROVE Revisions'
    <2>1. mem' = mem /\ revision' = revision
        BY <1>8 DEF SaveMap, dbVars
    <2>2. /\ thread' = [u \in Threads |-> IF u = t THEN thread'[t] ELSE thread[u]]
          /\ Announcing(t)' <=> Announcing(t)
        BY <1>8, EndsTo, EndedIs DEF Announcing, OnlyMoves
    <2>3. Writers' = Writers
        BY <2>2, WritersBy
    <2> QED
        BY <1>1, <2>1, <2>3 DEF Revisions, Stamps, n
<1>9. ASSUME NEW t \in Threads, RemoveFromIndex(t) PROVE Revisions'
    <2>1. revision' = revision
        BY <1>9 DEF RemoveFromIndex, dbVars
    <2>2. Stamps'
        BY <1>1, <1>9, <2>1, HoldingIs, StampsHold
    <2> QED
        BY <1>3, <1>9, <2>1, <2>2, EndsTo
<1>10. ASSUME NEW t \in Threads, GetStore(t) PROVE Revisions'
    <2>1. revision' = revision /\ Writers' = Writers
        BY <1>10 DEF GetStore, dbVars, Writers, Announcing
    <2>2. Stamps'
        BY <1>1, <1>10, <2>1, HoldingIs, StampsHold
    <2> QED
        BY <1>1, <2>1, <2>2 DEF Revisions, Stamps, n
<1>11. ASSUME NEW p \in Procs, Restart(p) PROVE Revisions'
    <2>1. /\ revision' = revision /\ mem' = [q \in Procs |-> IF q = p THEN NoIndex ELSE mem[q]]
          /\ \A u \in Threads : thread'[u] = Idle \/ thread'[u] = thread[u]
        BY <1>11 DEF Restart, dbVars, Typed, IndexesTyped
    <2>2. Writers' \subseteq Writers
        BY <2>1 DEF Writers, Announcing, Idle
    <2>3. Cardinality(Writers') \in Nat /\ Cardinality(Writers') <= n
        BY <2>2, WritersAre DEF n
    <2>4. \A q \in Procs : mem'[q].revision \in 0..revision
        BY <1>1, <2>1 DEF Stamps, NoIndex
    <2>5. revision + Cardinality(Writers') <= MaxRevision
        BY <1>1, <2>3
    <2> QED
        BY <1>1, <2>1, <2>4, <2>5 DEF Revisions
<1> QED
    BY <1>4, <1>5, <1>6, <1>7, <1>8, <1>9, <1>10, <1>11
       DEF Next, Loads, Builds, Saves, Writes, Works

-----------------------------------------------------------------------------
(* What is deleted does not come back, and what was embedded stays so.      *)

LEMMA KnowsStay ==
    ASSUME Typed, NEW u \in Threads, Knows(u),
           \/ UNCHANGED <<rows, given, emb>>
           \/ rows' = rows \cup {given + 1} /\ given' = given + 1 /\ emb' = emb
           \/ \E c \in Chunks, v \in Versions :
                /\ rows' = rows /\ given' = given
                /\ emb' = IF c \in rows THEN [emb EXCEPT ![c] = v] ELSE emb
           \/ \E S : /\ rows' = rows \ S /\ given' = given
                     /\ emb' = [c \in Chunks |-> IF c \in S THEN NoVersion ELSE emb[c]],
           \/ thread'[u] = thread[u]
           \/ /\ thread'[u].job = thread[u].job /\ thread'[u].chunks = thread[u].chunks
              /\ thread'[u].known = thread[u].known
    PROVE  Knows(u)'
<1>1. /\ given \in Nat /\ 1..given \subseteq Chunks /\ emb \in [Chunks -> Versions \cup {NoVersion}]
      /\ thread[u].chunks \subseteq 1..given /\ NoVersion \notin Versions
    BY JobIs, KbIndexAssumption DEF Typed, RowsTyped
<1>2. CASE UNCHANGED <<rows, given, emb>>
    BY <1>2 DEF Knows
<1>3. CASE rows' = rows \cup {given + 1} /\ given' = given + 1 /\ emb' = emb
    <2>1. /\ given + 1 \notin 1..given /\ 1..given \subseteq 1..(given + 1)
          /\ \A c \in 1..given : c \in rows' <=> c \in rows
        BY <1>1, <1>3
    <2> QED
        BY <1>1, <1>3, <2>1 DEF Knows
<1>4. ASSUME NEW c \in Chunks, NEW v \in Versions, rows' = rows, given' = given,
             emb' = IF c \in rows THEN [emb EXCEPT ![c] = v] ELSE emb
      PROVE  Knows(u)'
    <2>1. \A d \in Chunks : emb[d] # NoVersion => emb'[d] # NoVersion
        BY <1>1, <1>4
    <2> QED
        BY <1>1, <1>4, <2>1 DEF Knows
<1>5. ASSUME NEW S, rows' = rows \ S, given' = given,
             emb' = [c \in Chunks |-> IF c \in S THEN NoVersion ELSE emb[c]]
      PROVE  Knows(u)'
    BY <1>1, <1>5 DEF Knows
<1> QED
    BY <1>2, <1>3, <1>4, <1>5

LEMMA FactsBy ==
    ASSUME Typed, Facts, NEW t \in Threads,
           thread' = [u \in Threads |-> IF u = t THEN thread'[t] ELSE thread[u]],
           \/ UNCHANGED <<rows, given, emb>>
           \/ rows' = rows \cup {given + 1} /\ given' = given + 1 /\ emb' = emb
           \/ \E c \in Chunks, v \in Versions :
                /\ rows' = rows /\ given' = given
                /\ emb' = IF c \in rows THEN [emb EXCEPT ![c] = v] ELSE emb
           \/ \E S : /\ rows' = rows \ S /\ given' = given
                     /\ emb' = [c \in Chunks |-> IF c \in S THEN NoVersion ELSE emb[c]],
           OnlyMoves(t) \/ Knows(t)'
    PROVE  Facts'
<1>1. ASSUME NEW u \in Threads \ {t} PROVE Knows(u)'
    BY KnowsStay DEF Facts
<1>2. CASE OnlyMoves(t)
    <2>1. Knows(t)'
        BY <1>2, KnowsStay DEF Facts, OnlyMoves
    <2> QED
        BY <1>1, <2>1 DEF Facts
<1>3. CASE Knows(t)'
    BY <1>1, <1>3 DEF Facts
<1> QED
    BY <1>2, <1>3

LEMMA FactsStep ==
    ASSUME Typed, Typed', Facts, Next
    PROVE  Facts'
<1>1. ASSUME NEW t \in Threads, Works(t) PROVE Facts'
    BY <1>1, WorksIs, FactsBy DEF OnlyMoves
<1>2. ASSUME NEW t \in Threads, Search(t) PROVE Facts'
    <2>1. UNCHANGED <<rows, given, emb>>
        BY <1>2 DEF Search, dbVars
    <2>2. /\ thread' = [u \in Threads |-> IF u = t THEN thread'[t] ELSE thread[u]]
          /\ thread'[t].job = "search"
          /\ thread'[t].known = {<<c, emb[c]>> : c \in Embedded \ Unannounced}
        BY <1>2, JobsTo DEF Now
    <2>3. \A c \in Embedded : c \in 1..given /\ emb[c] # NoVersion
        BY DEF Embedded, Typed, RowsTyped
    <2>4. Knows(t)'
        BY <2>1, <2>2, <2>3 DEF Knows
    <2> QED
        BY <2>1, <2>2, <2>4, FactsBy
<1>3. ASSUME NEW t \in Threads, Answer(t) \/ Bump(t) \/ SaveMap(t) \/ Close(t) PROVE Facts'
    <2>1. UNCHANGED <<rows, given, emb>>
        BY <1>3 DEF Answer, Bump, SaveMap, Close, dbVars
    <2>2. \/ OnlyMoves(t)
          \/ /\ thread' = [u \in Threads |-> IF u = t THEN thread'[t] ELSE thread[u]]
             /\ thread'[t].job # "delete" /\ thread'[t].known = {}
        BY <1>3, EndsTo, EndedIs, JobsTo DEF Now
    <2>3. OnlyMoves(t) \/ Knows(t)'
        BY <2>2 DEF Knows
    <2> QED
        BY <2>1, <2>2, <2>3, FactsBy DEF OnlyMoves
<1>4. ASSUME NEW t \in Threads, AddChunk(t) PROVE Facts'
    <2>1. rows' = rows \cup {given + 1} /\ given' = given + 1 /\ emb' = emb
        BY <1>4 DEF AddChunk
    <2>2. /\ thread' = [u \in Threads |-> IF u = t THEN thread'[t] ELSE thread[u]]
          /\ thread'[t].job = "add" /\ thread'[t].known = {}
        BY <1>4, JobsTo DEF Now
    <2>3. Knows(t)'
        BY <2>2 DEF Knows
    <2> QED
        BY <2>1, <2>2, <2>3, FactsBy
<1>5. ASSUME NEW t \in Threads, NEW c \in Chunks, NEW v \in Versions, Embed(t, c, v) PROVE Facts'
    <2>1. /\ rows' = rows /\ given' = given
          /\ emb' = IF c \in rows THEN [emb EXCEPT ![c] = v] ELSE emb
        BY <1>5 DEF Embed
    <2>2. /\ thread' = [u \in Threads |-> IF u = t THEN thread'[t] ELSE thread[u]]
          /\ thread'[t].job = "embed" /\ thread'[t].known = {}
        BY <1>5, JobsTo DEF Now
    <2>3. Knows(t)'
        BY <2>2 DEF Knows
    <2> QED
        BY <2>1, <2>2, <2>3, FactsBy
<1>6. ASSUME NEW t \in Threads, NEW S \in SUBSET Chunks, Delete(t, S) PROVE Facts'
    <2>1. /\ rows' = rows \ S /\ given' = given
          /\ emb' = [c \in Chunks |-> IF c \in S THEN NoVersion ELSE emb[c]]
        BY <1>6 DEF Delete
    <2>2. /\ thread' = [u \in Threads |-> IF u = t THEN thread'[t] ELSE thread[u]]
          /\ thread'[t].chunks = S /\ thread'[t].known = {}
        BY <1>6, JobsTo DEF Now
    <2>3. Knows(t)'
        BY <2>1, <2>2 DEF Knows
    <2> QED
        BY <2>1, <2>2, <2>3, FactsBy
<1>7. ASSUME NEW t \in Threads, RemoveFromIndex(t) PROVE Facts'
    <2>1. UNCHANGED <<rows, given, emb>>
        BY <1>7 DEF RemoveFromIndex, dbVars
    <2> QED
        BY <1>7, <2>1, EndsTo, FactsBy DEF OnlyMoves
<1>8. ASSUME NEW t \in Threads, GetStore(t) PROVE Facts'
    BY <1>8 DEF GetStore, dbVars, Facts, Knows
<1>9. ASSUME NEW p \in Procs, Restart(p) PROVE Facts'
    <2>1. /\ UNCHANGED <<rows, given, emb>>
          /\ \A u \in Threads : thread'[u] = Idle \/ thread'[u] = thread[u]
        BY <1>9 DEF Restart, dbVars
    <2> QED
        BY <2>1 DEF Facts, Knows, Idle
<1> QED
    BY <1>1, <1>2, <1>3, <1>4, <1>5, <1>6, <1>7, <1>8, <1>9
       DEF Next, Loads, Builds, Saves, Writes, Works

-----------------------------------------------------------------------------
(* What a step makes of the index of its process.                           *)

LEMMA BuildGood ==
    ASSUME Typed, NEW t \in Threads
    PROVE  /\ Good(Index(t)) =>
                LET i == AddItems(Index(t), RowsWithout(DOMAIN Index(t).at))
                IN  Good(i) /\ Indexed(i) = Indexed(Index(t)) \cup Embedded
           /\ Good(AddItems(NewIndex, RowsWithout({})))
           /\ Indexed(AddItems(NewIndex, RowsWithout({}))) = Embedded
<1>1. ASSUME Good(Index(t))
      PROVE  LET i == AddItems(Index(t), RowsWithout(DOMAIN Index(t).at))
             IN  Good(i) /\ Indexed(i) = Indexed(Index(t)) \cup Embedded
    <2> DEFINE D == DOMAIN Index(t).at
    <2>1. D = Indexed(Index(t))
        BY <1>1 DEF Good
    <2>2. /\ RowsWithout(D) \in Seq(ItemSet) /\ Distinct(RowsWithout(D))
          /\ IdsOf(RowsWithout(D)) = Embedded \ D
        BY RowsWithoutIs
    <2> HIDE DEF D
    <2>3. /\ Good(AddItems(Index(t), RowsWithout(D)))
          /\ Indexed(AddItems(Index(t), RowsWithout(D))) = Indexed(Index(t)) \cup (Embedded \ D)
        BY <1>1, <2>1, <2>2, IndexIs, AddItemsIs
    <2> QED
        BY <2>1, <2>3 DEF D
<1>2. /\ Good(AddItems(NewIndex, RowsWithout({})))
      /\ Indexed(AddItems(NewIndex, RowsWithout({}))) = Embedded
    <2>1. /\ RowsWithout({}) \in Seq(ItemSet) /\ Distinct(RowsWithout({}))
          /\ IdsOf(RowsWithout({})) = Embedded
        BY RowsWithoutIs
    <2>2. IndexTyped(NewIndex) /\ Good(NewIndex) /\ Indexed(NewIndex) = {}
        BY NewIndexIs
    <2>3. IdsOf(RowsWithout({})) \cap Indexed(NewIndex) = {}
        BY <2>2
    <2>4. /\ Good(AddItems(NewIndex, RowsWithout({})))
          /\ Indexed(AddItems(NewIndex, RowsWithout({}))) = Indexed(NewIndex) \cup Embedded
        BY <2>1, <2>2, <2>3, AddItemsIs
    <2> QED
        BY <2>2, <2>4
<1> QED
    BY <1>1, <1>2

LEMMA PutGood ==
    ASSUME Typed, NEW t \in Threads, Good(Index(t)), NEW c \in 1..given, NEW v \in Versions
    PROVE  LET i == AddItems(RemoveChunks(Index(t), {c}), <<[id |-> c, vec |-> <<c, v>>]>>)
           IN  Good(i) /\ Indexed(i) = Indexed(Index(t)) \cup {c}
<1> DEFINE items == <<[id |-> c, vec |-> <<c, v>>]>>
           r == RemoveChunks(Index(t), {c})
<1>1. items \in Seq(ItemSet) /\ Distinct(items) /\ IdsOf(items) = {c}
    BY ItemIs DEF Typed, RowsTyped
<1>2. IndexTyped(r) /\ Good(r) /\ Indexed(r) = Indexed(Index(t)) \ {c}
    BY IndexIs, RemoveIs
<1> HIDE DEF items, r
<1>3. Good(AddItems(r, items)) /\ Indexed(AddItems(r, items)) = Indexed(r) \cup {c}
    BY <1>1, <1>2, AddItemsIs
<1> QED
    BY <1>2, <1>3 DEF items, r

LEMMA GoodsBy ==
    ASSUME AllGood, NEW t \in Threads, NEW on, NEW i, NEW stamp, MemNow(t, on, i, stamp), Good(i)
    PROVE  AllGood'
<1>1. \A p \in Procs : mem'[p].index = i \/ mem'[p].index = mem[p].index
    BY DEF MemNow
<1>2. \A p \in Procs : Good(mem'[p].index)
    BY <1>1 DEF AllGood
<1> QED
    BY <1>2 DEF AllGood, Good, Fits, Indexed

LEMMA GoodsStay == ASSUME AllGood, mem' = mem PROVE AllGood'
BY DEF AllGood, Good, Fits, Indexed

LEMMA GoodStep ==
    ASSUME Typed, AllGood, OneBetween, FilesFit, NEW t \in Threads,
           \/ Works(t) \/ RemoveFromIndex(t) \/ GetStore(t)
    PROVE  AllGood'
<1>1. Good(Index(t)) /\ Good(NewIndex)
    BY NewIndexIs, ThreadIs DEF AllGood, Index
<1>2. CASE mem' = mem
    BY <1>2, GoodsStay
<1>3. CASE Drop(t)
    BY <1>1, <1>3, HaveIs, GoodsBy
<1>4. CASE Stamped(t)
    BY <1>1, <1>4, HaveIs, GoodsBy
<1>5. ASSUME NEW i, Have(t, i), Good(i) PROVE AllGood'
    BY <1>5, HaveIs, GoodsBy
<1>6. CASE LoadMap(t)
    <2>1. At(t, "map") /\ Have(t, Loaded(thread[t].file, disk.ids))
        BY <1>6 DEF LoadMap
    <2>2. \A u \in Threads : ~At(u, "save map")
        BY <2>1 DEF OneBetween, At
    <2>3. Fits(thread[t].file, disk.ids)
        BY <2>1, <2>2 DEF FilesFit
    <2>4. thread[t].file \in Seq(Vectors) /\ Mapping(disk.ids, 1..given)
        BY JobIs DEF Typed, FilesTyped
    <2> QED
        BY <1>5, <2>1, <2>3, <2>4, LoadedIs
<1>7. CASE NothingToLoad(t)
    BY <1>1, <1>2, <1>5, <1>7 DEF NothingToLoad
<1>8. CASE AddNewChunks(t)
    BY <1>1, <1>2, <1>5, <1>8, BuildGood DEF AddNewChunks
<1>9. CASE Rebuild(t)
    BY <1>2, <1>5, <1>9, BuildGood DEF Rebuild
<1>10. CASE Put(t)
    <2>1. PICK c \in thread[t].chunks :
              Have(t, AddItems(RemoveChunks(Index(t), {c}),
                               <<[id |-> c, vec |-> <<c, thread[t].version>>]>>))
        BY <1>10 DEF Put
    <2>2. c \in 1..given /\ thread[t].version \in Versions
        BY <1>10, JobIs DEF Put, At
    <2> QED
        BY <1>1, <1>5, <2>1, <2>2, PutGood
<1>11. CASE RemoveFromIndex(t)
    <2>1. Good(RemoveChunks(Index(t), thread[t].chunks))
        BY <1>1, IndexIs, RemoveIs
    <2> QED
        BY <1>2, <1>5, <1>11, <2>1 DEF RemoveFromIndex
<1>12. CASE \/ Compare(t) \/ LoadVectors(t) \/ Stamp(t) \/ Recheck(t) \/ Restamp(t)
            \/ SaveVectors(t) \/ GetStore(t)
    BY <1>2, <1>3, <1>4, <1>12 DEF Compare, InSync, OutOfSync, LoadVectors, Stamp, Recheck, Restamp,
                                    SaveVectors, GetStore, Stamped
<1> QED
    BY <1>6, <1>7, <1>8, <1>9, <1>10, <1>11, <1>12 DEF Works

-----------------------------------------------------------------------------
(* The two files of the index.                                              *)

\* A thread that has the lock of its process has it alone.
LEMMA Alone ==
    ASSUME Locked, NEW t \in Threads, NEW u \in Threads, t # u, Holds(u),
           Holds(t) \/ Free(t)
    PROVE  Home[u] # Home[t]
BY KbIndexAssumption DEF Locked, Free

\* A step between other steps of the files leaves them as they are.
LEMMA FilesBy ==
    ASSUME OneBetween, FilesFit, NEW t \in Threads,
           thread' = [u \in Threads |-> IF u = t THEN thread'[t] ELSE thread[u]],
           thread[t].at # "save map", thread'[t].at \notin {"map", "save map"}, disk' = disk,
           \A u \in Threads \ {t} : At(u, "save map") => mem'[Home[u]] = mem[Home[u]]
    PROVE  OneBetween' /\ FilesFit'
<1>1. \A u \in Threads \ {t} : thread'[u] = thread[u]
    OBVIOUS
<1>2. \A u \in Threads : At(u, "save map")' <=> At(u, "save map")
    BY <1>1 DEF At
<1>3. \A u \in Threads : At(u, "map")' => At(u, "map") /\ u # t
    BY <1>1 DEF At
<1>4. OneBetween'
    BY <1>2, <1>3 DEF OneBetween
<1>5. \A u \in Threads : At(u, "save map") => disk'.vecs = Index(u)'.vecs
    BY <1>2 DEF FilesFit, Index, At
<1>6. Fits(disk.vecs, disk.ids)' <=> Fits(disk.vecs, disk.ids)
    BY DEF Fits
<1> QED
    BY <1>1, <1>2, <1>3, <1>4, <1>5, <1>6 DEF FilesFit

\* whose index a step may change
LEMMA MemOthers ==
    ASSUME Typed, NEW t \in Threads, Holding(t), NEW p \in Procs \ {Home[t]}
    PROVE  mem'[p] = mem[p]
BY HaveIs DEF Holding, MemNow

LEMMA FilesStep ==
    ASSUME Typed, Typed', Locked, Next, AllGood, OneBetween, FilesFit, "torn" \notin flaws'
    PROVE  OneBetween' /\ FilesFit'
<1>1. ASSUME NEW t \in Threads, Holding(t), Holds(t) \/ Free(t), disk' = disk,
             thread' = [u \in Threads |-> IF u = t THEN thread'[t] ELSE thread[u]],
             thread[t].at # "save map", thread'[t].at \notin {"map", "save map"}
      PROVE  OneBetween' /\ FilesFit'
    <2>1. \A u \in Threads \ {t} : At(u, "save map") => mem'[Home[u]] = mem[Home[u]]
        BY <1>1, Alone, MemOthers, ThreadIs DEF At, Holds
    <2> QED
        BY <1>1, <2>1, FilesBy
<1>2. ASSUME NEW t \in Threads, Works(t), ~LoadVectors(t), ~SaveVectors(t)
      PROVE  OneBetween' /\ FilesFit'
    <2>1. disk' = disk
        BY <1>2 DEF Works, Compare, LoadMap, NothingToLoad, Stamp, AddNewChunks, Recheck, Rebuild,
                    Restamp, Put
    <2>2. thread[t].at # "save map" /\ thread'[t].at \notin {"map", "save map"}
        BY <1>2, WorksTo DEF Works, Goes
    <2> QED
        BY <1>1, <1>2, <2>1, <2>2, WorksIs, HoldingIs DEF OnlyMoves
<1>3. ASSUME NEW t \in Threads, LoadVectors(t) PROVE OneBetween' /\ FilesFit'
    <2>1. /\ OnlyMoves(t) /\ thread[t].at = "load" /\ thread'[t].at = "map"
          /\ thread'[t].file = disk.vecs /\ disk' = disk /\ mem' = mem
        BY <1>3, WorksTo DEF LoadVectors, Goes
    <2>2. \A u \in Threads \ {t} : thread'[u] = thread[u] /\ ~At(u, "save map")
        BY <1>3, <2>1 DEF LoadVectors, HalfSaved, Torn, OnlyMoves
    <2>3. \A u \in Threads : ~At(u, "save map") /\ ~At(u, "save map")'
        BY <2>1, <2>2 DEF At
    <2>4. \A u \in Threads : At(u, "map")' => thread'[u].file = disk'.vecs
        BY <2>1, <2>2 DEF FilesFit, At
    <2>5. Fits(disk.vecs, disk.ids)'
        BY <2>1, <2>3 DEF FilesFit, Fits
    <2> QED
        BY <2>3, <2>4, <2>5 DEF OneBetween, FilesFit
<1>4. ASSUME NEW t \in Threads, SaveVectors(t) PROVE OneBetween' /\ FilesFit'
    <2>1. /\ OnlyMoves(t) /\ thread[t].at = "save vectors" /\ thread'[t].at = "save map"
          /\ disk'.vecs = Index(t).vecs /\ mem' = mem
        <3>1. disk'.vecs = Index(t).vecs
            BY <1>4 DEF SaveVectors, Typed, FilesTyped
        <3> QED
            BY <1>4, <3>1, WorksTo DEF SaveVectors, Goes
    <2>2. \A u \in Threads \ {t} : /\ thread'[u] = thread[u]
                                   /\ ~At(u, "save map") /\ ~At(u, "map")
        BY <1>4, <2>1 DEF SaveVectors, BetweenFiles, Torn, OnlyMoves, At
    <2>3. /\ \A u \in Threads : ~At(u, "map")' /\ (At(u, "save map")' <=> u = t)
        BY <2>1, <2>2 DEF At
    <2>4. disk'.vecs = Index(t)'.vecs
        BY <2>1 DEF Index
    <2> QED
        BY <2>3, <2>4 DEF OneBetween, FilesFit
<1>5. ASSUME NEW t \in Threads, SaveMap(t) PROVE OneBetween' /\ FilesFit'
    <2>1. /\ At(t, "save map") /\ disk'.vecs = disk.vecs /\ disk'.ids = Index(t).ids
          /\ thread' = [u \in Threads |-> IF u = t THEN thread'[t] ELSE thread[u]]
          /\ thread'[t].at \notin {"map", "save map"}
        <3>1. disk'.vecs = disk.vecs /\ disk'.ids = Index(t).ids /\ At(t, "save map")
            BY <1>5 DEF SaveMap, Typed, FilesTyped
        <3> QED
            BY <1>5, <3>1, EndsTo, EndedIs DEF OnlyMoves
    <2>2. \A u \in Threads \ {t} : thread'[u] = thread[u] /\ ~At(u, "save map") /\ ~At(u, "map")
        BY <2>1 DEF OneBetween
    <2>3. \A u \in Threads : ~At(u, "map")' /\ ~At(u, "save map")'
        BY <2>1, <2>2 DEF At
    <2>4. Fits(disk.vecs, disk.ids)'
        <3>1. disk.vecs = Index(t).vecs /\ Good(Index(t))
            BY <2>1, ThreadIs DEF FilesFit, AllGood, Index
        <3> QED
            BY <2>1, <3>1 DEF Good, Fits
    <2> QED
        BY <2>3, <2>4 DEF OneBetween, FilesFit
<1>6. ASSUME NEW t \in Threads,
             \/ Search(t) \/ Close(t) \/ Answer(t) \/ Bump(t) \/ AddChunk(t)
             \/ \E c \in Chunks, v \in Versions : Embed(t, c, v)
             \/ \E S \in SUBSET Chunks : Delete(t, S)
      PROVE  OneBetween' /\ FilesFit'
    <2>1. disk' = disk /\ mem' = mem
        BY <1>6 DEF Search, Close, Answer, Bump, AddChunk, Embed, Delete
    <2>2. thread[t].at # "save map"
        BY <1>6 DEF Search, Close, Answer, Bump, AddChunk, Embed, Delete, At
    <2>3. /\ thread' = [u \in Threads |-> IF u = t THEN thread'[t] ELSE thread[u]]
          /\ thread'[t].at \notin {"map", "save map"}
        BY <1>6, JobsTo, EndsTo, EndedIs DEF Now
    <2> QED
        BY <2>1, <2>2, <2>3, FilesBy
<1>7. ASSUME NEW t \in Threads, RemoveFromIndex(t) PROVE OneBetween' /\ FilesFit'
    <2>1. disk' = disk /\ Free(t)
        BY <1>7 DEF RemoveFromIndex
    <2> QED
        BY <1>1, <1>7, <2>1, EndsTo, HoldingIs DEF OnlyMoves
<1>8. ASSUME NEW t \in Threads, GetStore(t) PROVE OneBetween' /\ FilesFit'
    <2>1. disk' = disk /\ Free(t) /\ thread' = thread /\ thread[t].at = "idle"
        BY <1>8 DEF GetStore, At
    <2>2. thread' = [u \in Threads |-> IF u = t THEN thread'[t] ELSE thread[u]]
        BY <2>1 DEF Typed, ThreadsTyped
    <2> QED
        BY <1>1, <1>8, <2>1, <2>2, HoldingIs
<1>9. ASSUME NEW p \in Procs, Restart(p) PROVE OneBetween' /\ FilesFit'
    <2>1. /\ disk' = disk /\ mem' = [q \in Procs |-> IF q = p THEN NoIndex ELSE mem[q]]
          /\ \A u \in Threads : thread'[u] = IF Home[u] = p THEN Idle ELSE thread[u]
          /\ \A u \in Threads : Home[u] = p => ~At(u, "save map")
        BY <1>9 DEF Restart, Ends, Torn, Typed, IndexesTyped
    <2>a. Idle.at = "idle"
        BY DEF Idle
    <2>b. \A u \in Threads : thread'[u] = thread[u] \/ thread'[u].at = "idle"
        BY <2>1, <2>a
    <2>2. \A u \in Threads : At(u, "save map")' <=> At(u, "save map")
        BY <2>1, <2>a, <2>b DEF At
    <2>3. \A u \in Threads : At(u, "map")' => At(u, "map") /\ thread'[u] = thread[u]
        BY <2>b DEF At
    <2>4. \A u \in Threads : At(u, "save map") => disk'.vecs = Index(u)'.vecs
        BY <2>1, ThreadIs DEF FilesFit, Index
    <2>5. Fits(disk.vecs, disk.ids)' <=> Fits(disk.vecs, disk.ids)
        BY <2>1 DEF Fits
    <2> QED
        BY <2>1, <2>2, <2>3, <2>4, <2>5 DEF OneBetween, FilesFit
<1> QED
    BY <1>2, <1>3, <1>4, <1>5, <1>6, <1>7, <1>8, <1>9
       DEF Next, Loads, Builds, Saves, Writes, Works

LEMMA FlawsGrow == ASSUME Next PROVE flaws \subseteq flaws'
<1>1. ASSUME NEW t \in Threads,
             \/ Search(t) \/ Compare(t) \/ Answer(t) \/ Loads(t) \/ Builds(t)
             \/ Saves(t) \/ Writes(t) \/ GetStore(t) \/ Close(t)
      PROVE  flaws \subseteq flaws'
    BY <1>1 DEF Search, Compare, Answer, Loads, LoadVectors, LoadMap, NothingToLoad, Stamp, Builds,
                AddNewChunks, Recheck, Rebuild, Restamp, Saves, SaveVectors, SaveMap, Writes,
                AddChunk, Embed, Put, Delete, RemoveFromIndex, Bump, GetStore, Close
<1>2. ASSUME NEW p \in Procs, Restart(p) PROVE flaws \subseteq flaws'
    BY <1>2 DEF Restart
<1> QED
    BY <1>1, <1>2 DEF Next

LEMMA SoundStep ==
    ASSUME Typed, Typed', Locked, Sound, Next
    PROVE  Sound'
<1>1. SUFFICES ASSUME "torn" \notin flaws' PROVE AllGood' /\ OneBetween' /\ FilesFit'
    BY DEF Sound
<1>2. AllGood /\ OneBetween /\ FilesFit
    BY <1>1, FlawsGrow DEF Sound
<1>3. OneBetween' /\ FilesFit'
    BY <1>1, <1>2, FilesStep
<1>4. ASSUME NEW t \in Threads, Works(t) \/ RemoveFromIndex(t) \/ GetStore(t) PROVE AllGood'
    BY <1>2, <1>4, GoodStep
<1>5. ASSUME NEW t \in Threads,
             \/ Search(t) \/ Close(t) \/ Answer(t) \/ Bump(t) \/ AddChunk(t) \/ SaveMap(t)
             \/ \E c \in Chunks, v \in Versions : Embed(t, c, v)
             \/ \E S \in SUBSET Chunks : Delete(t, S)
      PROVE  AllGood'
    <2>1. mem' = mem
        BY <1>5 DEF Search, Close, Answer, Bump, AddChunk, SaveMap, Embed, Delete
    <2> QED
        BY <1>2, <2>1, GoodsStay
<1>6. ASSUME NEW p \in Procs, Restart(p) PROVE AllGood'
    <2>1. mem' = [q \in Procs |-> IF q = p THEN NoIndex ELSE mem[q]]
        BY <1>6 DEF Restart, Typed, IndexesTyped
    <2>2. NoIndex.index = NewIndex
        BY DEF NoIndex
    <2>3. \A q \in Procs : mem'[q].index = NewIndex \/ mem'[q].index = mem[q].index
        BY <2>1, <2>2
    <2>4. \A q \in Procs : Good(mem'[q].index)
        BY <1>2, <2>3, NewIndexIs DEF AllGood
    <2> QED
        BY <2>4 DEF AllGood, Good, Fits, Indexed
<1>7. AllGood'
    BY <1>4, <1>5, <1>6 DEF Next, Loads, Builds, Saves, Writes, Works
<1> QED
    BY <1>3, <1>7

-----------------------------------------------------------------------------
(* An index under the current revision has all that is announced.           *)

LEMMA CoversBy ==
    ASSUME NEW t \in Threads, Knows(t), thread'[t] = thread[t], Covers(t),
           \A c \in 1..given : c \in rows' => c \in rows,
           mem'[Home[t]].index = mem[Home[t]].index
    PROVE  Covers(t)'
BY DEF Covers, Knows, Index, Indexed

LEMMA SearchesHold ==
    ASSUME NEW t \in Threads, Looking(t) \/ Looked(t)
    PROVE  Holds(t)
BY DEF Looking, Looked, Holds, Saving

LEMMA FillersHold ==
    ASSUME Typed, NEW t \in Threads, Filling(t)
    PROVE  Holds(t)
<1>1. thread[t].job = "embed" => thread[t].at \in StepsOf("embed")
    BY DEF Typed, ThreadsTyped, ThreadTyped
<1> QED
    BY <1>1 DEF Filling, Holds, StepsOf

\* A step of one thread leaves the others as they found it, and the indexes
\* of the other processes fresh.
LEMMA CurrentBy ==
    ASSUME Typed, Locked, Facts, AllFresh, AllFound, NEW t \in Threads, Holding(t),
           thread' = [u \in Threads |-> IF u = t THEN thread'[t] ELSE thread[u]],
           revision' = revision, Announced' \subseteq Announced,
           \A c \in 1..given : c \in rows' => c \in rows,
           mem' = mem \/ Holds(t) \/ Free(t),
           Loading(Home[t])' \/ Fresh(Home[t])', Found(t)'
    PROVE  AllFresh' /\ AllFound'
<1>1. \A u \in Threads \ {t} : thread'[u] = thread[u]
    OBVIOUS
<1>2. ASSUME NEW p \in Procs \ {Home[t]} PROVE Loading(p)' \/ Fresh(p)'
    <2>1. mem'[p] = mem[p]
        BY MemOthers
    <2>2. Loading(p) => Loading(p)'
        BY <1>1 DEF Loading, Filling
    <2>3. Fresh(p) => Fresh(p)'
        BY <2>1 DEF Fresh, Indexed
    <2> QED
        BY <2>2, <2>3 DEF AllFresh
<1>3. ASSUME NEW u \in Threads \ {t} PROVE Found(u)'
    <2>1. SUFFICES ASSUME (Looking(u) \/ Looked(u))' PROVE Covers(u)'
        BY DEF Found
    <2>2. Home[u] \in Procs /\ Home[t] \in Procs
        BY ThreadIs
    <2>3. CASE mem'[Home[u]] = mem[Home[u]]
        <3>1. Looking(u) \/ Looked(u)
            BY <1>1, <2>1, <2>3 DEF Looking, Looked, Saving, HasIndex
        <3> QED
            BY <1>1, <2>3, <3>1, CoversBy DEF AllFound, Found, Facts
    <2>4. CASE mem'[Home[u]] # mem[Home[u]]
        <3>1. Home[u] = Home[t] /\ (Holds(t) \/ Free(t))
            BY <2>2, <2>4, MemOthers
        <3>2. Holds(u)
            BY <1>1, <2>1 DEF Looking, Looked, Holds, Saving
        <3> QED
            BY <3>1, <3>2, Alone
    <2> QED
        BY <2>3, <2>4
<1> QED
    BY <1>2, <1>3 DEF AllFresh, AllFound

\* A step that leaves the index of its process alone.
LEMMA FreshStays ==
    ASSUME Typed, AllFresh, NEW t \in Threads, mem' = mem, revision' = revision,
           thread' = [u \in Threads |-> IF u = t THEN thread'[t] ELSE thread[u]],
           Announced' \subseteq Announced, Filling(t) => Filling(t)'
    PROVE  Loading(Home[t])' \/ Fresh(Home[t])'
<1>1. Loading(Home[t]) => Loading(Home[t])'
    BY DEF Loading, Filling
<1>2. Fresh(Home[t]) => Fresh(Home[t])'
    BY DEF Fresh, Indexed
<1> QED
    BY <1>1, <1>2, ThreadIs DEF AllFresh

LEMMA UnannouncedBy ==
    ASSUME NEW t \in Threads,
           thread' = [u \in Threads |-> IF u = t THEN thread'[t] ELSE thread[u]]
    PROVE  /\ (Announcing(t)' <=> Announcing(t)) /\ (Announcing(t) =>
                thread'[t].chunks = thread[t].chunks) => Unannounced' = Unannounced
           /\ ~Announcing(t) /\ Announcing(t)' =>
                Unannounced' = Unannounced \cup thread'[t].chunks
<1>1. \A c : c \in Unannounced <=> \E u \in Threads : Announcing(u) /\ c \in thread[u].chunks
    BY DEF Unannounced
<1>2. \A c : c \in Unannounced' <=> \E u \in Threads : Announcing(u)' /\ c \in thread'[u].chunks
    BY DEF Unannounced
<1>3. \A u \in Threads \ {t} : thread'[u] = thread[u] /\ (Announcing(u)' <=> Announcing(u))
    BY DEF Announcing
<1>4. ASSUME Announcing(t)' <=> Announcing(t),
             Announcing(t) => thread'[t].chunks = thread[t].chunks
      PROVE  Unannounced' = Unannounced
    <2>1. \A c : c \in Unannounced' <=> c \in Unannounced
        BY <1>1, <1>2, <1>3, <1>4
    <2> QED
        BY <2>1
<1>5. ASSUME ~Announcing(t), Announcing(t)'
      PROVE  Unannounced' = Unannounced \cup thread'[t].chunks
    <2>1. \A c : c \in Unannounced' <=> c \in Unannounced \/ c \in thread'[t].chunks
        BY <1>1, <1>2, <1>3, <1>5
    <2> QED
        BY <2>1
<1> QED
    BY <1>4, <1>5

\* What a step that goes on with its job leaves as it was.
LEMMA WorksKeeps ==
    ASSUME Typed, Typed', NEW t \in Threads, Works(t)
    PROVE  /\ Unannounced' = Unannounced /\ Embedded' = Embedded /\ Announced' = Announced
           /\ rows' = rows /\ emb' = emb /\ revision' = revision /\ Holds(t) /\ Holding(t)
           /\ thread' = [u \in Threads |-> IF u = t THEN thread'[t] ELSE thread[u]]
           /\ thread'[t].job = thread[t].job /\ thread'[t].known = thread[t].known
<1>1. OnlyMoves(t) /\ thread[t].at # "idle" /\ thread'[t].at # "idle"
    BY WorksIs
<1>2. Unannounced' = Unannounced
    BY <1>1, UnannouncedBy DEF OnlyMoves, Announcing
<1>3. rows' = rows /\ emb' = emb /\ revision' = revision
    BY WorksIs
<1>4. Embedded' = Embedded /\ Announced' = Announced
    BY <1>2, <1>3 DEF Announced, Embedded
<1> QED
    BY <1>1, <1>2, <1>3, <1>4, WorksIs, HoldingIs DEF OnlyMoves

\* Such a step, when it leaves the index fresh or loading, and the search right.
LEMMA CurrentWorks ==
    ASSUME Typed, Typed', Locked, Facts, AllFresh, AllFound, NEW t \in Threads, Works(t),
           \/ Loading(Home[t])' \/ Fresh(Home[t])'
           \/ mem' = mem /\ (Filling(t) => Filling(t)'),
           Found(t)'
    PROVE  AllFresh' /\ AllFound'
<1>1. /\ Announced' \subseteq Announced /\ rows' = rows /\ revision' = revision
      /\ Holds(t) /\ Holding(t)
      /\ thread' = [u \in Threads |-> IF u = t THEN thread'[t] ELSE thread[u]]
    BY WorksKeeps
<1>2. Loading(Home[t])' \/ Fresh(Home[t])'
    BY <1>1, FreshStays
<1> QED
    BY <1>1, <1>2, CurrentBy

\* A search that has its index keeps what it covers while the index stays.
LEMMA FoundStays ==
    ASSUME Typed, Typed', Facts, NEW t \in Threads, Works(t), mem' = mem, Covers(t)
    PROVE  Found(t)'
<1>1. thread'[t].known = thread[t].known /\ rows' = rows
    BY WorksKeeps
<1>2. Covers(t)'
    BY <1>1 DEF Covers, Index, Indexed
<1> QED
    BY <1>2 DEF Found

\* What a search knows of and is still there is embedded.
LEMMA KnownEmbedded ==
    ASSUME Facts, NEW t \in Threads
    PROVE  \A k \in thread[t].known : k[1] \in rows => k[1] \in Embedded
BY DEF Facts, Knows, Embedded

LEMMA CoversAll ==
    ASSUME Typed, Typed', Facts, NEW t \in Threads, Works(t),
           Embedded \subseteq Indexed(mem'[Home[t]].index)
    PROVE  Found(t)' /\ Fresh(Home[t])'
<1>1. /\ thread'[t].known = thread[t].known /\ rows' = rows
      /\ Announced' \subseteq Embedded
    BY WorksKeeps DEF Announced
<1>2. Covers(t)'
    BY <1>1, KnownEmbedded DEF Covers, Index, Indexed
<1>3. Fresh(Home[t])'
    BY <1>1 DEF Fresh, Indexed
<1> QED
    BY <1>2, <1>3 DEF Found

\* The index of the process after such a step.
LEMMA HaveNow ==
    ASSUME Typed, NEW t \in Threads
    PROVE  /\ \A i : Have(t, i) => mem'[Home[t]].index = i /\ mem'[Home[t]].on
           /\ Drop(t) => ~mem'[Home[t]].on
           /\ Stamped(t) => /\ mem'[Home[t]].index = Index(t)
                            /\ mem'[Home[t]].on = HasIndex(t)
<1>1. ASSUME NEW on, NEW i, NEW stamp, MemNow(t, on, i, stamp)
      PROVE  mem'[Home[t]].index = i /\ mem'[Home[t]].on = on
    BY <1>1 DEF MemNow
<1>2. ASSUME NEW i, Have(t, i) PROVE mem'[Home[t]].index = i /\ mem'[Home[t]].on
    <2>1. MemNow(t, TRUE, i, mem[Home[t]].revision)
        BY <1>2, HaveIs
    <2>2. mem'[Home[t]].index = i /\ mem'[Home[t]].on = TRUE
        BY <1>1, <2>1
    <2> QED
        BY <2>2
<1>3. ASSUME Drop(t) PROVE ~mem'[Home[t]].on
    <2>1. MemNow(t, FALSE, NewIndex, 0)
        BY <1>3, HaveIs
    <2>2. mem'[Home[t]].on = FALSE
        BY <1>1, <2>1
    <2> QED
        BY <2>2
<1>4. ASSUME Stamped(t) PROVE mem'[Home[t]].index = Index(t) /\ mem'[Home[t]].on = HasIndex(t)
    BY <1>1, <1>4, HaveIs
<1> QED
    BY <1>2, <1>3, <1>4

\* A search that has looked at the revision goes on with the index it has.
LEMMA LookedStays ==
    ASSUME Typed, Typed', Facts, AllFound, NEW t \in Threads, Works(t), mem' = mem,
           Looked(t) \/ ~HasIndex(t), thread'[t].at \notin {"count", "compare"}
    PROVE  Found(t)'
<1>1. CASE Looked(t)
    BY <1>1, FoundStays DEF AllFound, Found
<1>2. CASE ~HasIndex(t)
    BY <1>2 DEF Found, Looking, Looked, HasIndex
<1> QED
    BY <1>1, <1>2

LEMMA CurrentCompare ==
    ASSUME Typed, Typed', Locked, Facts, AllFresh, AllFound, NEW t \in Threads,
           Compare(t) \/ Recheck(t)
    PROVE  AllFresh' /\ AllFound'
<1>1. Works(t) /\ thread[t].at \in {"count", "compare", "recount", "recompare"} /\ ~Filling(t)
    BY WorksTo, JobIs DEF Works, Goes, Filling
<1>2. \A step : Goto(t, step) => thread'[t].at = step
    BY GotoIs DEF Now
<1>3. ASSUME Drop(t), Goto(t, "load") \/ Goto(t, "build") PROVE AllFresh' /\ AllFound'
    <2>1. Fresh(Home[t])'
        BY <1>3, HaveNow DEF Fresh
    <2>2. Found(t)'
        BY <1>2, <1>3 DEF Found, Looking, Looked, Saving
    <2> QED
        BY <1>1, <2>1, <2>2, CurrentWorks
<1>4. ASSUME mem' = mem, Found(t)' PROVE AllFresh' /\ AllFound'
    BY <1>1, <1>4, CurrentWorks
<1>5. ASSUME At(t, "count"), Goto(t, "compare"), mem' = mem PROVE Found(t)'
    <2>1. thread'[t].at = "compare" /\ revision' = revision
        BY <1>1, <1>2, <1>5, WorksKeeps
    <2>2. CASE mem[Home[t]].revision = revision
        BY <1>1, <1>5, <2>2, FoundStays DEF AllFound, Found, Looking, At
    <2>3. CASE mem[Home[t]].revision # revision
        BY <1>5, <2>1, <2>3 DEF Found, Looking, Looked, Saving
    <2> QED
        BY <2>2, <2>3
<1>6. ASSUME At(t, "compare"), RevisionAgrees(t), mem' = mem PROVE Found(t)'
    BY <1>1, <1>6, FoundStays DEF AllFound, Found, Looking, At, RevisionAgrees
<1>7. ASSUME At(t, "recount") \/ At(t, "recompare"), Goto(t, "recompare") \/ Goto(t, "answer"),
             mem' = mem
      PROVE  Found(t)'
    <2>1. Looked(t) \/ ~HasIndex(t)
        BY <1>7, JobIs DEF Looked, At
    <2> QED
        BY <1>1, <1>2, <1>7, <2>1, LookedStays
<1> QED
    BY <1>3, <1>4, <1>5, <1>6, <1>7 DEF Compare, Recheck, InSync, OutOfSync

LEMMA CurrentLoads ==
    ASSUME Typed, Typed', Locked, Facts, AllFresh, AllFound, NEW t \in Threads, Loads(t)
    PROVE  AllFresh' /\ AllFound'
<1>1. Works(t)
    BY DEF Loads, Works
<1>2. /\ thread'[t].at \in {"map", "stamp", "build", "add", "put"}
      /\ thread'[t].at = "put" => thread'[t].job = "embed"
    BY WorksTo, JobIs DEF Loads, Goes, OnlyMoves
<1>3. Found(t)'
    BY <1>2 DEF Found, Looking, Looked, Saving
<1>4. CASE thread'[t].at \in {"stamp", "add", "put"}
    <2>1. Loading(Home[t])'
        BY <1>2, <1>4 DEF Loading, Filling
    <2> QED
        BY <1>1, <1>3, <2>1, CurrentWorks
<1>5. CASE thread'[t].at \in {"map", "build"}
    <2>1. mem' = mem /\ (Filling(t) => Filling(t)')
        <3>1. LoadVectors(t) \/ NothingToLoad(t)
            BY <1>5, WorksTo DEF Loads, Goes
        <3>2. thread[t].at = "load" /\ thread'[t].job = thread[t].job
            BY <3>1, WorksTo DEF Goes, OnlyMoves
        <3>3. mem' = mem
            <4>1. \A step : Goto(t, step) => thread'[t].at = step
                BY GotoIs DEF Now
            <4> QED
                BY <1>5, <3>1, <4>1 DEF LoadVectors, NothingToLoad
        <3> QED
            BY <3>2, <3>3 DEF Filling
    <2> QED
        BY <1>1, <1>3, <2>1, CurrentWorks
<1> QED
    BY <1>2, <1>4, <1>5

LEMMA CurrentBuilds ==
    ASSUME Typed, Typed', Locked, Facts, AllGood, AllFresh, AllFound, NEW t \in Threads,
           AddNewChunks(t) \/ Rebuild(t)
    PROVE  AllFresh' /\ AllFound'
<1>1. Works(t) /\ Good(Index(t))
    BY ThreadIs DEF Works, AllGood, Index
<1>2. ASSUME Embedded \subseteq Indexed(mem'[Home[t]].index) PROVE AllFresh' /\ AllFound'
    BY <1>1, <1>2, CoversAll, CurrentWorks
<1>3. CASE AddNewChunks(t)
    <2>1. CASE Have(t, AddItems(Index(t), RowsWithout(DOMAIN Index(t).at)))
        BY <1>1, <1>2, <2>1, BuildGood, HaveNow
    <2>2. CASE RowsWithout(DOMAIN Index(t).at) = <<>> /\ mem' = mem
        BY <1>1, <1>2, <2>2, RowsWithoutIs DEF Good, Index
    <2> QED
        BY <1>3, <2>1, <2>2 DEF AddNewChunks
<1>4. CASE Rebuild(t)
    <2>1. CASE Embedded = {}
        <3>1. Embedded \subseteq Indexed(mem'[Home[t]].index)
            BY <2>1
        <3> QED
            BY <1>2, <3>1
    <2>2. CASE Have(t, AddItems(NewIndex, RowsWithout({})))
        BY <1>2, <2>2, BuildGood, HaveNow
    <2> QED
        BY <1>4, <2>1, <2>2 DEF Rebuild
<1> QED
    BY <1>3, <1>4

LEMMA CurrentRestamp ==
    ASSUME Typed, Typed', Locked, Facts, AllFresh, AllFound, NEW t \in Threads,
           Restamp(t), flaws' = {}
    PROVE  AllFresh' /\ AllFound'
<1>1. Works(t) /\ Stamped(t) /\ ~Overtaken(t) /\ thread[t].at = "restamp"
    BY DEF Works, Restamp, Stamped, At
<1>2. /\ mem'[Home[t]].index = Index(t) /\ mem'[Home[t]].on = HasIndex(t)
      /\ thread'[t].at = "answer" /\ thread'[t].known = thread[t].known /\ rows' = rows
      /\ Announced' = Announced
    BY <1>1, HaveNow, WorksTo, WorksKeeps DEF Goes
<1>3. Announced \subseteq Indexed(Index(t))
    <2>1. SUFFICES ASSUME NEW c \in Announced PROVE c \in Indexed(Index(t))
        OBVIOUS
    <2> DEFINE has == {j \in DOMAIN Index(t).ids : Index(t).ids[j] = c}
    <2>2. c \in Chunks \ Unannounced /\ c \in Embedded
        BY EmbeddedIs DEF Announced
    <2>3. {Index(t).vecs[k] : k \in has} = {<<d, emb[d]>> : d \in Embedded \cap {c}}
        BY <1>1, <2>2 DEF Overtaken
    <2>4. <<c, emb[c]>> \in {<<d, emb[d]>> : d \in Embedded \cap {c}}
        BY <2>2
    <2>5. PICK k \in has : TRUE
        BY <2>3, <2>4
    <2> QED
        BY <2>5 DEF Indexed
<1>4. Fresh(Home[t])'
    BY <1>2, <1>3 DEF Fresh, Indexed
<1>5. Found(t)'
    <2>1. CASE HasIndex(t)
        <3>1. Covers(t)
            BY <1>1, <2>1, JobIs DEF AllFound, Found, Looked
        <3>2. Covers(t)'
            BY <1>2, <3>1 DEF Covers, Index, Indexed
        <3> QED
            BY <3>2 DEF Found
    <2>2. CASE ~HasIndex(t)
        BY <1>2, <2>2 DEF Found, Looking, Looked, HasIndex
    <2> QED
        BY <2>1, <2>2
<1> QED
    BY <1>1, <1>4, <1>5, CurrentWorks

LEMMA CurrentPut ==
    ASSUME Typed, Typed', Locked, Facts, AllFresh, AllFound, NEW t \in Threads, Put(t)
    PROVE  AllFresh' /\ AllFound'
<1>1. Works(t) /\ thread'[t].at = "bump" /\ thread'[t].job = "embed"
    BY WorksTo, JobIs DEF Works, Goes, OnlyMoves
<1>2. Loading(Home[t])'
    BY <1>1 DEF Loading, Filling
<1>3. Found(t)'
    BY <1>1 DEF Found, Looking, Looked, Saving
<1> QED
    BY <1>1, <1>2, <1>3, CurrentWorks

LEMMA CurrentSaveVectors ==
    ASSUME Typed, Typed', Locked, Facts, AllFresh, AllFound, NEW t \in Threads, SaveVectors(t)
    PROVE  AllFresh' /\ AllFound'
<1>1. /\ Works(t) /\ mem' = mem /\ thread[t].at = "save vectors" /\ thread'[t].at = "save map"
      /\ thread'[t].job = thread[t].job /\ ~Filling(t)
    BY WorksTo, JobIs DEF Works, SaveVectors, Goes, OnlyMoves, Filling, Saving
<1>2. CASE thread[t].job = "search"
    BY <1>1, <1>2, LookedStays, CurrentWorks DEF Looked, Saving
<1>3. CASE thread[t].job # "search"
    <2>1. Found(t)'
        BY <1>1, <1>3 DEF Found, Looking, Looked
    <2> QED
        BY <1>1, <2>1, CurrentWorks
<1> QED
    BY <1>2, <1>3

\* A step that leaves the indexes of all processes alone, and announces nothing.
LEMMA CurrentStays ==
    ASSUME Typed, Locked, Facts, AllFresh, AllFound, NEW t \in Threads, mem' = mem,
           thread' = [u \in Threads |-> IF u = t THEN thread'[t] ELSE thread[u]],
           revision' = revision, Embedded' \ Embedded \subseteq Unannounced',
           Unannounced \subseteq Unannounced',
           \A c \in 1..given : c \in rows' => c \in rows,
           Filling(t) => Filling(t)', Found(t)'
    PROVE  AllFresh' /\ AllFound'
<1>1. Announced' \subseteq Announced
    BY DEF Announced
<1> QED
    BY <1>1, FreshStays, CurrentBy DEF Holding

LEMMA CurrentSaveMap ==
    ASSUME Typed, Typed', Locked, Facts, AllFresh, AllFound, NEW t \in Threads, SaveMap(t)
    PROVE  AllFresh' /\ AllFound'
<1>1. /\ mem' = mem /\ UNCHANGED <<rows, given, emb, revision>> /\ thread[t].at = "save map"
      /\ thread' = [u \in Threads |-> IF u = t THEN thread'[t] ELSE thread[u]]
    BY EndsTo, EndedIs DEF SaveMap, dbVars, OnlyMoves
<1>2. /\ ~Filling(t)
      /\ \/ /\ thread[t].job = "close" /\ thread'[t].at = "idle" /\ thread'[t].job = "none"
         \/ /\ thread[t].job = "delete" /\ thread'[t].job = "delete"
            /\ thread'[t].chunks = thread[t].chunks /\ thread'[t].at = "bump"
         \/ /\ thread[t].job = "search" /\ thread'[t].job = "search"
            /\ thread'[t].known = thread[t].known /\ thread'[t].at \in {"answer", "restamp"}
    BY <1>1, EndsTo, EndedIs DEF Filling, OnlyMoves
<1>3. Unannounced' = Unannounced
    BY <1>1, <1>2, UnannouncedBy DEF Announcing
<1>4. Found(t)'
    <2>1. CASE thread'[t].job # "search"
        BY <1>2, <2>1 DEF Found, Looking, Looked, Saving
    <2>2. CASE thread[t].job = "search" /\ HasIndex(t)
        <3>1. Covers(t)
            BY <1>1, <2>2 DEF AllFound, Found, Looked, Saving
        <3>2. thread'[t].known = thread[t].known
            BY <1>2, <2>2
        <3>3. mem' = mem /\ rows' = rows
            BY <1>1
        <3>4. Covers(t)'
            BY <3>1, <3>2, <3>3 DEF Covers, Index, Indexed
        <3> QED
            BY <3>4 DEF Found
    <2>3. CASE thread[t].job = "search" /\ ~HasIndex(t)
        BY <1>1, <1>2, <2>3 DEF Found, Looking, Looked, HasIndex
    <2> QED
        BY <1>2, <2>1, <2>2, <2>3
<1>5. Embedded' = Embedded
    BY <1>1 DEF Embedded
<1> QED
    BY <1>1, <1>2, <1>3, <1>4, <1>5, CurrentStays

\* The process of a thread that may take the lock loads nothing.
LEMMA FreeIsFresh ==
    ASSUME Typed, Locked, AllFresh, NEW t \in Threads, Free(t)
    PROVE  Fresh(Home[t])
<1>1. ASSUME NEW u \in Threads, Home[u] = Home[t] PROVE ~Filling(u)
    <2>1. u # Nobody
        BY KbIndexAssumption
    <2> QED
        BY <1>1, <2>1, FillersHold DEF Locked, Free
<1> QED
    BY <1>1, ThreadIs DEF AllFresh, Loading

LEMMA CurrentSearch ==
    ASSUME Typed, Typed', Locked, Facts, AllFresh, AllFound, NEW t \in Threads,
           Search(t) \/ Answer(t) \/ Close(t)
    PROVE  AllFresh' /\ AllFound'
<1>1. /\ mem' = mem /\ UNCHANGED <<rows, given, emb, revision>>
      /\ thread[t].at \in {"idle", "answer"}
    BY DEF Search, Answer, Close, dbVars, At
<1>2. /\ thread' = [u \in Threads |-> IF u = t THEN thread'[t] ELSE thread[u]]
      /\ thread'[t].job \in {"search", "none", "close"} /\ thread[t].job \in {"none", "search"}
    BY <1>1, JobIs, JobsTo, EndsTo, EndedIs DEF Now
<1>3. Unannounced' = Unannounced /\ ~Filling(t)
    BY <1>1, <1>2, UnannouncedBy DEF Announcing, Filling
<1>4. Embedded' = Embedded
    BY <1>1 DEF Embedded
<1>5. CASE Search(t)
    <2>1. /\ thread'[t].at = IF HasIndex(t) THEN "count" ELSE "load"
          /\ thread'[t].known = {<<c, emb[c]>> : c \in Announced}
        BY <1>5, JobsTo DEF Now, Announced
    <2>2. ASSUME Looking(t)' \/ Looked(t)' PROVE Covers(t)'
        <3>1. HasIndex(t) /\ mem[Home[t]].revision = revision
            BY <1>1, <2>1, <2>2 DEF Looking, Looked, Saving
        <3>2. Announced \subseteq Indexed(Index(t))
            BY <1>5, <3>1, FreeIsFresh DEF Search, Acquire, Fresh, HasIndex, Index
        <3> QED
            BY <1>1, <2>1, <3>2 DEF Covers, Index, Indexed
    <2>3. Found(t)'
        BY <2>2 DEF Found
    <2> QED
        BY <1>1, <1>2, <1>3, <1>4, <2>3, CurrentStays
<1>6. CASE Answer(t) \/ Close(t)
    <2>1. thread'[t].at \in {"idle", "save vectors"} /\ thread'[t].job \in {"none", "close"}
        BY <1>6, JobsTo, EndsTo, EndedIs DEF Now
    <2>2. Found(t)'
        BY <2>1 DEF Found, Looking, Looked
    <2> QED
        BY <1>1, <1>2, <1>3, <1>4, <2>2, CurrentStays
<1> QED
    BY <1>5, <1>6

\* What begins a write is not announced, and known to no search, until it ends.
LEMMA CurrentWrite ==
    ASSUME Typed, Typed', Locked, Facts, AllFresh, AllFound, NEW t \in Threads,
           \/ AddChunk(t)
           \/ \E c \in Chunks, v \in Versions : Embed(t, c, v)
           \/ \E S \in SUBSET Chunks : Delete(t, S)
    PROVE  AllFresh' /\ AllFound'
<1>1. mem' = mem /\ revision' = revision /\ thread[t].at = "idle" /\ thread[t].job = "none"
    BY JobIs DEF AddChunk, Embed, Delete, At
<1>2. /\ thread' = [u \in Threads |-> IF u = t THEN thread'[t] ELSE thread[u]]
      /\ thread'[t].job \in {"add", "embed", "delete"}
      /\ thread'[t].at \in {"bump", "put", "load", "remove"}
    BY JobsTo DEF Now
<1>3. Unannounced' = Unannounced \cup thread'[t].chunks
    BY <1>1, <1>2, UnannouncedBy DEF Announcing
<1>4. Found(t)' /\ ~Filling(t)
    BY <1>1, <1>2 DEF Found, Looking, Looked, Filling
<1>5. /\ given \in Nat /\ rows \subseteq 1..given /\ 1..given \subseteq Chunks
      /\ emb \in [Chunks -> Versions \cup {NoVersion}]
      /\ \A c \in Chunks : emb[c] # NoVersion => c \in rows
    BY DEF Typed, RowsTyped
<1>6. ASSUME Embedded' \ Embedded \subseteq thread'[t].chunks,
             \A c \in 1..given : c \in rows' => c \in rows
      PROVE  AllFresh' /\ AllFound'
    BY <1>1, <1>2, <1>3, <1>4, <1>6, CurrentStays
<1>7. CASE AddChunk(t)
    <2>1. rows' = rows \cup {given + 1} /\ emb' = emb /\ thread'[t].chunks = {given + 1}
        BY <1>7, JobsTo DEF AddChunk, Now
    <2>2. given + 1 \notin 1..given
        BY <1>5
    <2> QED
        BY <1>6, <2>1, <2>2 DEF Embedded
<1>8. ASSUME NEW c \in Chunks, NEW v \in Versions, Embed(t, c, v) PROVE AllFresh' /\ AllFound'
    <2>1. /\ rows' = rows /\ emb' = IF c \in rows THEN [emb EXCEPT ![c] = v] ELSE emb
          /\ thread'[t].chunks = {c}
        BY <1>8, JobsTo DEF Embed, Now
    <2>2. \A d \in Chunks \ {c} : emb'[d] = emb[d]
        BY <1>5, <2>1
    <2> QED
        BY <1>5, <1>6, <2>1, <2>2 DEF Embedded
<1>9. ASSUME NEW S \in SUBSET Chunks, Delete(t, S) PROVE AllFresh' /\ AllFound'
    <2>1. /\ rows' = rows \ S
          /\ emb' = [c \in Chunks |-> IF c \in S THEN NoVersion ELSE emb[c]]
        BY <1>9 DEF Delete
    <2>2. Embedded' \subseteq Embedded
        BY <1>5, <2>1 DEF Embedded
    <2> QED
        BY <1>6, <2>1, <2>2
<1> QED
    BY <1>7, <1>8, <1>9

\* What a deletion takes out of an index has left the rows before.
LEMMA CurrentRemove ==
    ASSUME Typed, Typed', Locked, Facts, AllGood, AllFresh, AllFound, NEW t \in Threads,
           RemoveFromIndex(t)
    PROVE  AllFresh' /\ AllFound'
<1>1. /\ OnlyMoves(t) /\ thread[t].at = "remove" /\ thread[t].job = "delete"
      /\ thread'[t].at \in {"bump", "save vectors"} /\ Free(t) /\ Holding(t)
      /\ UNCHANGED <<rows, given, emb, revision>>
    BY EndsTo, HoldingIs DEF RemoveFromIndex, dbVars
<1>2. thread' = [u \in Threads |-> IF u = t THEN thread'[t] ELSE thread[u]]
    BY <1>1 DEF OnlyMoves
<1>3. Unannounced' = Unannounced
    BY <1>1, <1>2, UnannouncedBy DEF OnlyMoves, Announcing
<1>4. Embedded' = Embedded /\ Announced' = Announced
    BY <1>1, <1>3 DEF Embedded, Announced
<1>5. Found(t)' /\ ~Filling(t)
    BY <1>1 DEF OnlyMoves, Found, Looking, Looked, Filling
<1>6. CASE mem' = mem
    BY <1>1, <1>2, <1>3, <1>4, <1>5, <1>6, CurrentStays
<1>7. CASE /\ Have(t, RemoveChunks(Index(t), thread[t].chunks))
           /\ thread[t].chunks \cap DOMAIN Index(t).at # {}
    <2>1. HasIndex(t)
        BY <1>7, IndexIs DEF NewIndex
    <2>2. MemNow(t, TRUE, RemoveChunks(Index(t), thread[t].chunks), mem[Home[t]].revision)
        BY <1>7, HaveIs
    <2>3. /\ mem'[Home[t]].index = RemoveChunks(Index(t), thread[t].chunks)
          /\ mem'[Home[t]].revision = mem[Home[t]].revision
        BY <2>2 DEF MemNow
    <2>4. Indexed(RemoveChunks(Index(t), thread[t].chunks)) = Indexed(Index(t)) \ thread[t].chunks
        BY IndexIs, RemoveIs DEF AllGood, Index
    <2>5. thread[t].chunks \cap Announced = {}
        BY <1>1 DEF Facts, Knows, Announced, Embedded
    <2>6. Fresh(Home[t])
        BY <1>1, FreeIsFresh
    <2>7. mem[Home[t]].revision = revision => Announced \subseteq Indexed(mem'[Home[t]].index)
        BY <2>1, <2>3, <2>4, <2>5, <2>6 DEF Fresh, HasIndex, Index
    <2>8. Fresh(Home[t])'
        BY <1>1, <1>4, <2>3, <2>7 DEF Fresh, Indexed
    <2> QED
        BY <1>1, <1>2, <1>4, <1>5, <2>8, CurrentBy
<1> QED
    BY <1>6, <1>7 DEF RemoveFromIndex

LEMMA CurrentGetStore ==
    ASSUME Typed, Typed', Locked, Facts, AllFresh, AllFound, NEW t \in Threads, GetStore(t)
    PROVE  AllFresh' /\ AllFound'
<1>1. /\ Drop(t) /\ thread' = thread /\ UNCHANGED <<rows, given, emb, revision>>
      /\ Free(t) /\ Holding(t) /\ thread[t].at = "idle" /\ thread[t].job = "none"
    BY HoldingIs, JobIs DEF GetStore, dbVars, At
<1>2. thread' = [u \in Threads |-> IF u = t THEN thread'[t] ELSE thread[u]]
    BY <1>1 DEF Typed, ThreadsTyped
<1>3. Announced' = Announced
    BY <1>1 DEF Announced, Embedded, Unannounced, Announcing
<1>4. Fresh(Home[t])'
    BY <1>1, HaveNow DEF Fresh
<1>5. Found(t)'
    BY <1>1 DEF Found, Looking, Looked
<1> QED
    BY <1>1, <1>2, <1>3, <1>4, <1>5, CurrentBy

\* No index is current under the revision that announces a write.
LEMMA CurrentBump ==
    ASSUME Typed, Typed', Revisions, Facts, AllFound, NEW t \in Threads, Bump(t)
    PROVE  AllFresh' /\ AllFound'
<1>1. mem' = mem /\ rows' = rows /\ revision' = revision + 1
    BY DEF Bump
<1>2. \A p \in Procs : mem'[p].revision # revision'
    BY <1>1 DEF Revisions
<1>3. /\ \A u \in Threads \ {t} : thread'[u] = thread[u]
      /\ thread'[t].at = "idle" /\ thread'[t].job = "none"
    <2>1. Ended(t)
        BY EndsTo
    <2>2. thread'[t].at = "idle" /\ thread'[t].job = "none"
        BY <2>1, EndedIs
    <2> QED
        BY <2>1, <2>2 DEF Ended
<1>4. AllFresh'
    BY <1>2 DEF AllFresh, Fresh
<1>5. Found(t)'
    BY <1>3 DEF Found, Looking, Looked
<1>6. ASSUME NEW u \in Threads \ {t} PROVE Found(u)'
    <2>1. SUFFICES ASSUME (Looking(u) \/ Looked(u))' PROVE Covers(u)'
        BY DEF Found
    <2>2. Home[u] \in Procs
        BY ThreadIs
    <2>3. Looked(u)
        BY <1>1, <1>2, <1>3, <2>1, <2>2 DEF Looking, Looked, Saving, HasIndex
    <2> QED
        BY <1>1, <1>3, <2>3, CoversBy DEF AllFound, Found, Facts
<1> QED
    BY <1>4, <1>5, <1>6 DEF AllFound

\* A process that ends in no write leaves what is announced.
LEMMA CurrentRestart ==
    ASSUME Typed, Typed', Facts, AllFresh, AllFound, NEW p \in Procs, Restart(p), flaws' = {}
    PROVE  AllFresh' /\ AllFound'
<1>1. /\ UNCHANGED <<rows, given, emb, revision>>
      /\ mem' = [q \in Procs |-> IF q = p THEN NoIndex ELSE mem[q]]
      /\ \A u \in Threads : thread'[u] = IF Home[u] = p THEN Idle ELSE thread[u]
      /\ \A u \in Threads : Home[u] = p => ~Announcing(u)
    BY DEF Restart, Ends, dbVars, Typed, IndexesTyped
<1>2. Idle.at = "idle" /\ Idle.job = "none" /\ ~NoIndex.on
    BY DEF Idle, NoIndex
<1>3. \A u \in Threads : Announcing(u)' <=> Announcing(u)
    BY <1>1, <1>2 DEF Announcing
<1>4. Unannounced' = Unannounced
    BY <1>1, <1>3 DEF Unannounced
<1>5. Announced' = Announced
    BY <1>1, <1>4 DEF Announced, Embedded
<1>6. Fresh(p)'
    BY <1>1, <1>2 DEF Fresh
<1>7. ASSUME NEW q \in Procs \ {p} PROVE Loading(q)' \/ Fresh(q)'
    <2>1. Loading(q) => Loading(q)'
        BY <1>1 DEF Loading, Filling
    <2>2. Fresh(q) => Fresh(q)'
        BY <1>1, <1>5 DEF Fresh, Indexed
    <2> QED
        BY <2>1, <2>2 DEF AllFresh
<1>8. ASSUME NEW u \in Threads PROVE Found(u)'
    <2>1. CASE Home[u] = p
        BY <1>1, <1>2, <2>1 DEF Found, Looking, Looked
    <2>2. CASE Home[u] # p
        <3>1. thread'[u] = thread[u] /\ mem'[Home[u]] = mem[Home[u]]
            BY <1>1, <2>2, ThreadIs
        <3>2. SUFFICES ASSUME (Looking(u) \/ Looked(u))' PROVE Covers(u)'
            BY DEF Found
        <3>3. Looking(u) \/ Looked(u)
            BY <1>1, <3>1, <3>2 DEF Looking, Looked, Saving, HasIndex
        <3> QED
            BY <1>1, <3>1, <3>3, CoversBy DEF AllFound, Found, Facts
    <2> QED
        BY <2>1, <2>2
<1> QED
    BY <1>6, <1>7, <1>8 DEF AllFresh, AllFound

LEMMA CurrentStep ==
    ASSUME Typed, Typed', Locked, Revisions, Facts, Sound, Current, Next
    PROVE  Current'
<1>1. SUFFICES ASSUME flaws' = {} PROVE AllFresh' /\ AllFound'
    BY DEF Current
<1>2. AllGood /\ AllFresh /\ AllFound
    <2>1. flaws = {}
        BY <1>1, FlawsGrow
    <2> QED
        BY <2>1 DEF Current, Sound
<1>3. ASSUME NEW t \in Threads, Search(t) \/ Compare(t) \/ Answer(t) \/ Loads(t) \/ Builds(t)
      PROVE  AllFresh' /\ AllFound'
    BY <1>1, <1>2, <1>3, CurrentSearch, CurrentCompare, CurrentLoads, CurrentBuilds, CurrentRestamp
       DEF Builds
<1>4. ASSUME NEW t \in Threads, Saves(t) \/ Writes(t) \/ GetStore(t) \/ Close(t)
      PROVE  AllFresh' /\ AllFound'
    BY <1>2, <1>4, CurrentSaveVectors, CurrentSaveMap, CurrentWrite, CurrentPut, CurrentRemove,
       CurrentBump, CurrentGetStore, CurrentSearch DEF Saves, Writes
<1>5. ASSUME NEW p \in Procs, Restart(p) PROVE AllFresh' /\ AllFound'
    BY <1>1, <1>2, <1>5, CurrentRestart
<1> QED
    BY <1>3, <1>4, <1>5 DEF Next

-----------------------------------------------------------------------------
(* The invariant holds at the start and after every step.                   *)

LEMMA InitInv ==
    ASSUME Init
    PROVE  IInv
<1>1. /\ rows = 1..Before /\ given = Before /\ revision = 0 /\ Before \in Nat
      /\ disk = [saved |-> FALSE, vecs |-> <<>>, ids |-> <<>>]
      /\ mem = [p \in Procs |-> NoIndex] /\ lock = [p \in Procs |-> Nobody]
      /\ thread = [t \in Threads |-> Idle] /\ restarts = 0 /\ flaws = {}
    BY KbIndexAssumption DEF Init
<1>2. /\ Idle.at = "idle" /\ Idle.job = "none" /\ Idle.known = {} /\ Idle.chunks = {}
    BY DEF Idle
<1>3. \A t \in Threads : thread[t] = Idle
    BY <1>1
<1>4. /\ NoIndex.on = FALSE /\ NoIndex.index = NewIndex /\ NoIndex.revision = 0
      /\ NoIndex = [on |-> NoIndex.on, index |-> NoIndex.index, revision |-> NoIndex.revision]
    BY DEF NoIndex
<1>5. \A p \in Procs : mem[p] = NoIndex
    BY <1>1
<1>6. Typed
    <2>1. RowsTyped
        BY <1>1, KbIndexAssumption DEF Init, RowsTyped
    <2>2. FilesTyped
        BY <1>1, EmptySeq DEF FilesTyped, Mapping
    <2>3. IndexTyped(NewIndex)
        BY EmptySeq DEF NewIndex, IndexTyped, Mapping
    <2>4. IndexesTyped
        BY <1>1, <1>4, <1>5, <2>3 DEF IndexesTyped
    <2>5. ASSUME NEW t \in Threads PROVE ThreadTyped(t)
        <3>1. Idle \in Threading
            BY EmptySeq DEF Idle, Threading, Steps, Jobs
        <3> QED
            BY <1>2, <1>3, <3>1 DEF ThreadTyped, Saving, StepsOf
    <2>6. ThreadsTyped
        BY <1>1, <2>5 DEF ThreadsTyped
    <2> QED
        BY <1>1, <2>1, <2>2, <2>4, <2>6, KbIndexAssumption DEF Typed
<1>7. Locked
    <2>1. \A t \in Threads : ~Holds(t)
        BY <1>2, <1>3 DEF Holds
    <2>2. lock \in [Procs -> Threads \cup {Nobody}] /\ \A p \in Procs : lock[p] = Nobody
        BY <1>1
    <2> QED
        BY <2>1, <2>2 DEF Locked
<1>8. Revisions
    <2>1. Writers = {}
        BY <1>2, <1>3 DEF Writers, Announcing
    <2>2. Cardinality(Writers) = 0 /\ MaxRevision \in Nat
        BY <2>1, FS_EmptySet, KbIndexAssumption
    <2> QED
        BY <1>1, <1>4, <1>5, <2>2 DEF Revisions
<1>9. Facts
    BY <1>2, <1>3 DEF Facts, Knows
<1>10. Sound
    <2>1. AllGood
        BY <1>4, <1>5, NewIndexIs DEF AllGood
    <2>2. \A t \in Threads : ~At(t, "save map") /\ ~At(t, "map")
        BY <1>2, <1>3 DEF At
    <2>3. Fits(disk.vecs, disk.ids)
        BY <1>1 DEF Fits
    <2> QED
        BY <2>1, <2>2, <2>3 DEF Sound, OneBetween, FilesFit
<1>11. Current
    <2>1. AllFresh
        BY <1>4, <1>5 DEF AllFresh, Fresh
    <2>2. AllFound
        BY <1>2, <1>3 DEF AllFound, Found, Looking, Looked
    <2> QED
        BY <2>1, <2>2 DEF Current
<1> QED
    BY <1>6, <1>7, <1>8, <1>9, <1>10, <1>11 DEF IInv

LEMMA Stutter ==
    ASSUME IInv, UNCHANGED vars
    PROVE  IInv'
<1>1. UNCHANGED <<rows, given, emb, revision, disk, mem, lock, thread, restarts, flaws>>
    BY DEF vars, dbVars
<1>2. Typed'
    <2>1. RowsTyped' /\ FilesTyped'
        BY <1>1 DEF IInv, Typed, RowsTyped, FilesTyped, Mapping
    <2>2. IndexesTyped'
        BY <1>1, IndexesStay DEF IInv
    <2>3. ThreadsTyped'
        BY <1>1, ThreadsStay DEF IInv, Typed, ThreadsTyped
    <2> QED
        BY <1>1, <2>1, <2>2, <2>3 DEF IInv, Typed
<1>3. Locked'
    BY <1>1 DEF IInv, Locked, Holds
<1>4. Revisions' /\ Facts'
    BY <1>1 DEF IInv, Revisions, Writers, Announcing, Facts, Knows
<1>5. Sound'
    <2>1. AllGood => AllGood'
        BY <1>1, GoodsStay
    <2>2. OneBetween => OneBetween'
        BY <1>1 DEF OneBetween, At
    <2>3. FilesFit => FilesFit'
        BY <1>1 DEF FilesFit, Fits, At, Index
    <2> QED
        BY <1>1, <2>1, <2>2, <2>3 DEF IInv, Sound
<1>6. Current'
    <2>1. Announced' = Announced
        BY <1>1 DEF Announced, Embedded, Unannounced, Announcing
    <2>2. AllFresh => AllFresh'
        BY <1>1, <2>1 DEF AllFresh, Fresh, Loading, Filling, Indexed
    <2>3. AllFound => AllFound'
        BY <1>1 DEF AllFound, Found, Looking, Looked, Saving, HasIndex, Covers, Index, Indexed
    <2> QED
        BY <1>1, <2>2, <2>3 DEF IInv, Current
<1> QED
    BY <1>2, <1>3, <1>4, <1>5, <1>6 DEF IInv

LEMMA NextInv ==
    ASSUME IInv, [Next]_vars
    PROVE  IInv'
<1>1. CASE Next
    <2>1. Typed'
        BY <1>1, TypedStep DEF IInv
    <2> QED
        BY <1>1, <2>1, LockedStep, RevisionsStep, FactsStep, SoundStep, CurrentStep DEF IInv
<1>2. CASE UNCHANGED vars
    BY <1>2, Stutter
<1> QED
    BY <1>1, <1>2

\* The lock of an index is held by the thread that works with it, each write
\* under way will raise the revision once, the maps of an index and its files
\* are one unless they were torn, and an index under the current revision has
\* every chunk that is announced (sqlite_store_index.py, vector_index.py).
THEOREM Invariance == Spec => []IInv
<1>1. Init => IInv
    BY InitInv
<1>2. IInv /\ [Next]_vars => IInv'
    BY NextInv
<1> QED
    BY <1>1, <1>2, PTL DEF Spec

-----------------------------------------------------------------------------
(* What the runs check.                                                     *)

\* Rows, files, indexes and threads keep their types; the two maps of an index
\* agree; a lock is held by a thread of its process that does something.
THEOREM TypeCorrectness == Spec => []TypeOK
<1>1. ASSUME IInv PROVE TypeOK
    <2>1. /\ rows \subseteq 1..given /\ 1..given \subseteq Chunks
          /\ emb \in [Chunks -> Versions \cup {NoVersion}]
          /\ \A c \in Chunks : emb[c] # NoVersion => c \in rows
          /\ restarts \in 0..MaxRestarts
          /\ flaws \subseteq {"overtaken", "torn", "unannounced"}
        BY <1>1 DEF IInv, Typed, RowsTyped
    <2>2. revision \in 0..MaxRevision
        <3>1. Cardinality(Writers) \in Nat /\ MaxRevision \in Nat
            BY WritersAre, KbIndexAssumption
        <3>2. revision \in Nat /\ revision + Cardinality(Writers) <= MaxRevision
            BY <1>1 DEF IInv, Revisions
        <3> QED
            BY <3>1, <3>2
    <2>3. disk.vecs \in Seq(Vectors) /\ Indexed(disk) \subseteq 1..given
        BY <1>1 DEF IInv, Typed, FilesTyped, Mapping, Indexed
    <2>4. ASSUME NEW p \in Procs
          PROVE  /\ mem[p].on \in BOOLEAN /\ mem[p].revision \in 0..revision
                 /\ mem[p].index.vecs \in Seq(Vectors)
                 /\ "torn" \notin flaws => Paired(mem[p].index)
                 /\ lock[p] \in Threads \cup {Nobody}
                 /\ lock[p] # Nobody => Home[lock[p]] = p /\ thread[lock[p]].at # "idle"
        <3>1. mem[p].on \in BOOLEAN /\ mem[p].index.vecs \in Seq(Vectors)
            BY <1>1 DEF IInv, Typed, IndexesTyped, IndexTyped
        <3>2. mem[p].revision \in 0..revision
            BY <1>1 DEF IInv, Revisions
        <3>3. "torn" \notin flaws => Paired(mem[p].index)
            BY <1>1 DEF IInv, Sound, AllGood, Good, Paired, Indexed
        <3>4. /\ lock[p] \in Threads \cup {Nobody}
              /\ lock[p] # Nobody => Home[lock[p]] = p /\ thread[lock[p]].at # "idle"
            BY <1>1 DEF IInv, Locked, Holds
        <3> QED
            BY <3>1, <3>2, <3>3, <3>4
    <2>5. ASSUME NEW t \in Threads
          PROVE  /\ thread[t].at \in Steps /\ thread[t].then \in Steps
                 /\ thread[t].job \in {"none", "search", "embed", "delete", "add", "close"}
                 /\ thread[t].at = "idle" => thread[t] = Idle
                 /\ thread[t].chunks \subseteq 1..given
                 /\ thread[t].version \in Versions \cup {NoVersion}
                 /\ thread[t].known \subseteq Vectors
        BY <1>1, JobIs DEF IInv, Jobs
    <2> QED
        BY <2>1, <2>2, <2>3, <2>4, <2>5 DEF TypeOK
<1> QED
    BY <1>1, Invariance, PTL

\* No index holds the vector of one chunk under the id of another, however
\* often chunks are embedded anew, phantoms are reclaimed, and the index is
\* saved and loaded, unless its two files were read or written across each
\* other (_add_batch_core, _maybe_rebuild_locked, load and save of vector_index.py).
THEOREM EveryVectorBelongs == Spec => []VectorsBelong
<1>1. IInv => VectorsBelong
    BY DEF IInv, Sound, AllGood, Good, Fits, VectorsBelong
<1> QED
    BY <1>1, Invariance, PTL

\* A search that answers from an index has found every chunk that is there and
\* whose embedding was announced before it began, whichever process wrote it,
\* as long as no build was overtaken, no writer ended between its row and the
\* revision and no files were torn (_index_in_sync, _ensure_index_loaded and
\* bump_kb_revision of sqlite_store_index.py).
THEOREM SearchFindsWhatIsThere == Spec => []FindsWhatIsThere
<1>1. ASSUME IInv PROVE FindsWhatIsThere
    <2>1. SUFFICES ASSUME flaws = {}, NEW t \in Threads, At(t, "answer"), HasIndex(t),
                          NEW k \in thread[t].known, k[1] \in rows
                   PROVE  k[1] \in Indexed(Index(t))
        BY DEF FindsWhatIsThere
    <2>2. Looked(t)
        BY <1>1, <2>1, JobIs DEF IInv, Looked, At
    <2>3. Covers(t)
        BY <1>1, <2>1, <2>2 DEF IInv, Current, AllFound, Found
    <2> QED
        BY <2>1, <2>3 DEF Covers
<1> QED
    BY <1>1, Invariance, PTL
=============================================================================

------------------------------- MODULE KbIndex -------------------------------
(***************************************************************************)
(* The vector index of the knowledge base (src/src/memory/kb_repo.py,       *)
(* sqlite_store_index.py, vector_index.py): the bot and the web back end    *)
(* are two processes over one database and one pair of index files.         *)
(*                                                                          *)
(* The rows of kb_chunks are the truth.  Each process keeps an index of     *)
(* them in memory, which it compares with the rows by their number and by a *)
(* revision that every writer raises after its write.  A process whose      *)
(* index does not compare loads the files, adds the chunks they miss, or    *)
(* builds the index anew.  The lock of the index holds within one process.  *)
(*                                                                          *)
(* A vector is the chunk it was made of and which of several embeddings of  *)
(* it; all have one dimension, and reads and writes of the database and of  *)
(* the files succeed.  A search that scans the rows is right by itself and  *)
(* not distinguished from one that finds the index empty.                   *)
(***************************************************************************)
EXTENDS Integers, Sequences, FiniteSets, FiniteSetsExt

CONSTANTS
    Procs,         \* the bot, the web back end
    Web,           \* processes whose get_store checks the index
    Threads,
    Home,          \* the process of a thread
    Chunks,        \* ids of chunks, in the order they are given out
    Versions,      \* embeddings a chunk may get
    Before,        \* how many chunks there are, embedded, at the start
    PhantomRatio,  \* vector_phantom_rebuild_ratio, in percent
    MaxRevision,   \* bound: writes that raise the revision
    MaxRestarts,   \* bound: ends of a process
    NoVersion,
    Nobody

ASSUME KbIndexAssumption ==
    /\ Web \subseteq Procs /\ Home \in [Threads -> Procs]
    /\ Chunks \subseteq Nat /\ IsFiniteSet(Chunks) /\ IsFiniteSet(Threads)
    /\ Before \in Nat /\ 1..Before \subseteq Chunks
    /\ PhantomRatio \in Nat /\ MaxRevision \in Nat /\ MaxRestarts \in Nat
    /\ NoVersion \notin Versions /\ Nobody \notin Threads

VARIABLES
    rows,      \* kb_chunks: the chunks there are
    given,     \* ids given out so far
    emb,       \* kb_chunks.embedding
    revision,  \* kb_meta.revision
    disk,      \* the .faiss file and the .map.json beside it
    mem,       \* _vector_index of each process, with _index_revision
    lock,      \* _INDEX_LOCK of each process
    thread,
    restarts,
    flaws      \* history: races that happened and are named below

dbVars == <<rows, given, emb, revision>>
vars   == <<dbVars, disk, mem, lock, thread, restarts, flaws>>

Vectors == Chunks \X Versions

\* An index: vectors by position, the chunk of each position that was not
\* removed (_id_map), and the position of each chunk (_reverse_map).
NewIndex == [vecs |-> <<>>, ids |-> <<>>, at |-> <<>>]
NoIndex == [on |-> FALSE, index |-> NewIndex, revision |-> 0]

Count(i) == Cardinality(DOMAIN i.ids)
Indexed(i) == {i.ids[k] : k \in DOMAIN i.ids}

\* The numbers of a finite set, smallest first.
InOrder(S) ==
    CHOOSE f \in [1..Cardinality(S) -> S] :
        \A j, k \in 1..Cardinality(S) : j < k => f[j] < f[k]

Embedded == {c \in rows : emb[c] # NoVersion}
Item(c) == [id |-> c, vec |-> <<c, emb[c]>>]
\* The rows SELECT ... ORDER BY id gives, but for those in S.
RowsWithout(S) ==
    LET order == InOrder(Embedded \ S)
    IN  [k \in DOMAIN order |-> Item(order[k])]

Idle == [at |-> "idle", job |-> "none", chunks |-> {}, version |-> NoVersion,
         file |-> <<>>, then |-> "idle", known |-> {}]

-----------------------------------------------------------------------------
\* The class VectorIndex.

\* mutant: behind as many as are mapped
TopOfMapped(i) == Count(i)

\* New vectors go behind all there are, phantoms included.
Top(i) == Len(i.vecs)

\* _add_batch_core
AppendItems(i, items) ==
    LET place == [c \in {items[k].id : k \in DOMAIN items} |->
                    Top(i) + (CHOOSE k \in DOMAIN items : items[k].id = c)]
        added == (Top(i) + 1)..(Top(i) + Len(items))
    IN  [vecs |-> i.vecs \o [k \in DOMAIN items |-> items[k].vec],
         ids  |-> [k \in DOMAIN i.ids \cup added |->
                     IF k \in added THEN items[k - Top(i)].id ELSE i.ids[k]],
         at   |-> [c \in DOMAIN i.at \cup DOMAIN place |->
                     IF c \in DOMAIN place THEN place[c] ELSE i.at[c]]]

\* _maybe_rebuild_locked: the cache holds the vectors of the mapped positions.
Cached(i) ==
    LET live == InOrder(DOMAIN i.ids \cap DOMAIN i.vecs)
    IN  [k \in DOMAIN live |-> [id |-> i.ids[live[k]], vec |-> i.vecs[live[k]]]]
Phantoms(i) == Len(i.vecs) - Count(i)
TooManyPhantoms(i) ==
    /\ PhantomRatio > 0 /\ Phantoms(i) > 0 /\ Cached(i) # <<>>
    /\ 100 * Phantoms(i) >= PhantomRatio * Max({Count(i), 1})
Reclaimed(i) ==
    IF TooManyPhantoms(i) THEN AppendItems(NewIndex, Cached(i)) ELSE i

AddItems(i, items) == AppendItems(Reclaimed(i), items)

\* mutant: the position map keeps the chunks
RemoveHalfOf(i, S) ==
    LET gone == {i.at[c] : c \in S \cap DOMAIN i.at}
    IN  [i EXCEPT !.ids = [k \in DOMAIN @ \ gone |-> @[k]]]

RemoveChunks(i, S) ==
    LET gone == {i.at[c] : c \in S \cap DOMAIN i.at}
    IN  [i EXCEPT !.ids = [k \in DOMAIN @ \ gone |-> @[k]],
                  !.at  = [c \in DOMAIN @ \ S |-> @[c]]]

\* load: the map of one file over the vectors of the other.
Loaded(vecs, ids) ==
    [vecs |-> vecs, ids |-> ids,
     at |-> [c \in {ids[k] : k \in DOMAIN ids} |-> CHOOSE k \in DOMAIN ids : ids[k] = c]]

-----------------------------------------------------------------------------
Paired(i) ==
    /\ Indexed(i) = DOMAIN i.at
    /\ \A c \in DOMAIN i.at : i.at[c] \in DOMAIN i.ids /\ i.ids[i.at[c]] = c

Steps == {"idle", "count", "compare", "load", "map", "stamp", "add", "recount",
          "recompare", "build", "restamp", "answer", "put", "remove", "bump",
          "save vectors", "save map"}

TypeOK ==
    /\ rows \subseteq 1..given /\ 1..given \subseteq Chunks
    /\ emb \in [Chunks -> Versions \cup {NoVersion}]
    /\ \A c \in Chunks : emb[c] # NoVersion => c \in rows
    /\ revision \in 0..MaxRevision
    /\ disk.vecs \in Seq(Vectors) /\ Indexed(disk) \subseteq 1..given
    /\ \A p \in Procs :
         /\ mem[p].on \in BOOLEAN /\ mem[p].revision \in 0..revision
         /\ mem[p].index.vecs \in Seq(Vectors)
         /\ "torn" \notin flaws => Paired(mem[p].index)
         /\ lock[p] \in Threads \cup {Nobody}
         /\ lock[p] # Nobody => Home[lock[p]] = p /\ thread[lock[p]].at # "idle"
    /\ \A t \in Threads :
         /\ thread[t].at \in Steps /\ thread[t].then \in Steps
         /\ thread[t].job \in {"none", "search", "embed", "delete", "add", "close"}
         /\ thread[t].at = "idle" => thread[t] = Idle
         /\ thread[t].chunks \subseteq 1..given
         /\ thread[t].version \in Versions \cup {NoVersion}
         /\ thread[t].known \subseteq Vectors
    /\ restarts \in 0..MaxRestarts
    /\ flaws \subseteq {"overtaken", "torn", "unannounced"}

Init ==
    /\ rows = 1..Before /\ given = Before /\ revision = 0
    /\ emb \in [Chunks -> Versions \cup {NoVersion}]
    /\ \A c \in Chunks : emb[c] # NoVersion <=> c \in rows
    /\ disk = [saved |-> FALSE, vecs |-> <<>>, ids |-> <<>>]
    /\ mem = [p \in Procs |-> NoIndex] /\ lock = [p \in Procs |-> Nobody]
    /\ thread = [t \in Threads |-> Idle]
    /\ restarts = 0 /\ flaws = {}

Index(t) == mem[Home[t]].index
HasIndex(t) == mem[Home[t]].on
At(t, step) == thread[t].at = step
Goto(t, step) == thread' = [thread EXCEPT ![t].at = step]
Finish(t) == thread' = [thread EXCEPT ![t] = Idle]
Free(t) == lock[Home[t]] = Nobody
Acquire(t) == Free(t) /\ lock' = [lock EXCEPT ![Home[t]] = t]
Release(t) == lock' = [lock EXCEPT ![Home[t]] = Nobody]
Have(t, index) == mem' = [mem EXCEPT ![Home[t]].on = TRUE, ![Home[t]].index = index]
Drop(t) == mem' = [mem EXCEPT ![Home[t]] = NoIndex]

\* Threads between the write of a row and the revision that announces it.
Announcing(t) ==
    /\ thread[t].job \in {"embed", "delete", "add"}
    /\ thread[t].at # "idle"
Unannounced == UNION {thread[t].chunks : t \in {u \in Threads : Announcing(u)}}
MayWrite == revision + Cardinality({t \in Threads : Announcing(t)}) < MaxRevision

-----------------------------------------------------------------------------
\* search_kb and _index_in_sync.

Search(t) ==
    /\ At(t, "idle") /\ Acquire(t)
    /\ thread' = [thread EXCEPT ![t].job = "search",
                                ![t].at = IF HasIndex(t) THEN "count" ELSE "load",
                                ![t].known = {<<c, emb[c]>> : c \in Embedded \ Unannounced}]
    /\ UNCHANGED <<dbVars, disk, mem, restarts, flaws>>

CountAgrees(t) == Count(Index(t)) = Cardinality(Embedded)
\* mutant: the number of chunks is all that is compared
CountIsEnough(t) == TRUE

RevisionAgrees(t) == mem[Home[t]].revision = revision

InSync(t) ==
    \/ /\ At(t, "count") /\ CountAgrees(t) /\ Goto(t, "compare")
       /\ UNCHANGED mem
    \/ /\ At(t, "compare") /\ RevisionAgrees(t) /\ Goto(t, "answer")
       /\ UNCHANGED mem
OutOfSync(t) ==
    /\ \/ At(t, "count") /\ ~CountAgrees(t)
       \/ At(t, "compare") /\ ~RevisionAgrees(t)
    /\ Drop(t) /\ Goto(t, "load")
Compare(t) ==
    /\ InSync(t) \/ OutOfSync(t)
    /\ UNCHANGED <<dbVars, disk, lock, restarts, flaws>>

Answer(t) ==
    /\ At(t, "answer") /\ Release(t) /\ Finish(t)
    /\ UNCHANGED <<dbVars, disk, mem, restarts, flaws>>

-----------------------------------------------------------------------------
\* _ensure_index_loaded and _init_vector_index.

\* Other threads between the two files of a pair.
BetweenFiles(t) == {u \in Threads \ {t} : thread[u].at \in {"map", "save map"}}
HalfSaved(t) == {u \in Threads \ {t} : At(u, "save map")}
Torn(S) == IF S = {} THEN {} ELSE {"torn"}

LoadVectors(t) ==
    /\ At(t, "load") /\ disk.saved
    /\ thread[t].job = "search" => Embedded # {}
    /\ thread' = [thread EXCEPT ![t].at = "map", ![t].file = disk.vecs]
    /\ flaws' = flaws \cup Torn(HalfSaved(t))
    /\ UNCHANGED <<dbVars, disk, mem, lock, restarts>>

LoadMap(t) ==
    /\ At(t, "map")
    /\ Have(t, Loaded(thread[t].file, disk.ids))
    /\ thread' = [thread EXCEPT ![t].at = "stamp", ![t].file = <<>>]
    /\ UNCHANGED <<dbVars, disk, lock, restarts, flaws>>

NothingToLoad(t) ==
    /\ At(t, "load")
    /\ \/ /\ thread[t].job = "search" /\ (~disk.saved \/ Embedded = {})
          /\ Goto(t, "build") /\ UNCHANGED mem
       \/ /\ thread[t].job = "embed" /\ ~disk.saved
          /\ Goto(t, "stamp") /\ Have(t, NewIndex)
    /\ UNCHANGED <<dbVars, disk, lock, restarts, flaws>>

\* The revision is read before the rows.
Stamp(t) ==
    /\ At(t, "stamp")
    /\ mem' = [mem EXCEPT ![Home[t]].revision = revision]
    /\ Goto(t, IF thread[t].job = "search" THEN "add" ELSE "put")
    /\ UNCHANGED <<dbVars, disk, lock, restarts, flaws>>

\* _incremental_add_new_chunks
AddNewChunks(t) ==
    /\ At(t, "add")
    /\ LET new == RowsWithout(DOMAIN Index(t).at)
       IN  \/ /\ new # <<>>
              /\ Have(t, AddItems(Index(t), new))
              /\ thread' = [thread EXCEPT ![t].at = "save vectors", ![t].then = "answer"]
           \/ /\ new = <<>> /\ UNCHANGED mem /\ Goto(t, "recount")
    /\ UNCHANGED <<dbVars, disk, lock, restarts, flaws>>

Recheck(t) ==
    /\ \/ At(t, "recount") /\ CountAgrees(t) /\ Goto(t, "recompare") /\ UNCHANGED mem
       \/ At(t, "recompare") /\ RevisionAgrees(t) /\ Goto(t, "answer") /\ UNCHANGED mem
       \/ At(t, "recount") /\ ~CountAgrees(t) /\ Drop(t) /\ Goto(t, "build")
       \/ At(t, "recompare") /\ ~RevisionAgrees(t) /\ Drop(t) /\ Goto(t, "build")
    /\ UNCHANGED <<dbVars, disk, lock, restarts, flaws>>

\* _full_rebuild_from_db; the revision is read after the rows.
Rebuild(t) ==
    /\ At(t, "build")
    /\ \/ /\ Embedded = {} /\ UNCHANGED mem /\ Goto(t, "answer")
       \/ /\ Embedded # {} /\ Have(t, AddItems(NewIndex, RowsWithout({})))
          /\ thread' = [thread EXCEPT ![t].at = "save vectors", ![t].then = "restamp"]
    /\ UNCHANGED <<dbVars, disk, lock, restarts, flaws>>

\* A chunk whose row is not what the index was built from, although the
\* revision that announces it has been raised.
Overtaken(t) ==
    \E c \in Chunks \ Unannounced :
        {Index(t).vecs[k] : k \in {j \in DOMAIN Index(t).ids : Index(t).ids[j] = c}}
            # {<<d, emb[d]>> : d \in Embedded \cap {c}}
Restamp(t) ==
    /\ At(t, "restamp")
    /\ mem' = [mem EXCEPT ![Home[t]].revision = revision]
    /\ Goto(t, "answer")
    /\ flaws' = IF Overtaken(t) THEN flaws \cup {"overtaken"} ELSE flaws
    /\ UNCHANGED <<dbVars, disk, lock, restarts>>

\* save: two files, each replaced in one step.
SaveVectors(t) ==
    /\ At(t, "save vectors")
    /\ disk' = [disk EXCEPT !.saved = TRUE, !.vecs = Index(t).vecs]
    /\ Goto(t, "save map")
    /\ flaws' = flaws \cup Torn(BetweenFiles(t))
    /\ UNCHANGED <<dbVars, mem, lock, restarts>>

SaveMap(t) ==
    /\ At(t, "save map")
    /\ disk' = [disk EXCEPT !.ids = Index(t).ids]
    /\ IF thread[t].then = "idle" THEN Finish(t)
       ELSE thread' = [thread EXCEPT ![t].at = thread[t].then, ![t].then = "idle"]
    /\ IF thread[t].job = "search" THEN UNCHANGED lock ELSE Release(t)
    /\ UNCHANGED <<dbVars, mem, restarts, flaws>>

-----------------------------------------------------------------------------
\* The writers.

\* add_kb_chunks
AddChunk(t) ==
    /\ At(t, "idle") /\ MayWrite /\ given + 1 \in Chunks
    /\ given' = given + 1 /\ rows' = rows \cup {given + 1}
    /\ thread' = [thread EXCEPT ![t].at = "bump", ![t].job = "add", ![t].chunks = {given + 1}]
    /\ UNCHANGED <<emb, revision, disk, mem, lock, restarts, flaws>>

\* update_chunk_embedding; the chunk was listed before and may be gone.
Embed(t, c, v) ==
    /\ At(t, "idle") /\ MayWrite /\ c \in 1..given /\ Acquire(t)
    /\ emb' = IF c \in rows THEN [emb EXCEPT ![c] = v] ELSE emb
    /\ thread' = [thread EXCEPT ![t].at = IF HasIndex(t) THEN "put" ELSE "load",
                                ![t].job = "embed", ![t].chunks = {c}, ![t].version = v]
    /\ UNCHANGED <<rows, given, revision, disk, mem, restarts, flaws>>

Put(t) ==
    /\ At(t, "put")
    /\ \E c \in thread[t].chunks :
         Have(t, AddItems(RemoveChunks(Index(t), {c}),
                          <<[id |-> c, vec |-> <<c, thread[t].version>>]>>))
    /\ Goto(t, "bump")
    /\ UNCHANGED <<dbVars, disk, lock, restarts, flaws>>

\* delete_kb_chunk, delete_kb_document
Delete(t, S) ==
    /\ At(t, "idle") /\ MayWrite /\ S # {} /\ S \subseteq rows
    /\ rows' = rows \ S
    /\ emb' = [c \in Chunks |-> IF c \in S THEN NoVersion ELSE emb[c]]
    /\ thread' = [thread EXCEPT ![t].at = "remove", ![t].job = "delete", ![t].chunks = S]
    /\ UNCHANGED <<given, revision, disk, mem, lock, restarts, flaws>>

\* _remove_chunks_from_index
RemoveFromIndex(t) ==
    /\ At(t, "remove") /\ Free(t)
    /\ \/ /\ thread[t].chunks \cap DOMAIN Index(t).at = {}
          /\ Goto(t, "bump") /\ UNCHANGED <<mem, lock>>
       \/ /\ thread[t].chunks \cap DOMAIN Index(t).at # {}
          /\ Acquire(t) /\ Have(t, RemoveChunks(Index(t), thread[t].chunks))
          /\ thread' = [thread EXCEPT ![t].at = "save vectors", ![t].then = "bump"]
    /\ UNCHANGED <<dbVars, disk, restarts, flaws>>

\* bump_kb_revision
Bump(t) ==
    /\ At(t, "bump")
    /\ revision' = revision + 1
    /\ Finish(t)
    /\ IF thread[t].job = "embed" THEN Release(t) ELSE UNCHANGED lock
    /\ UNCHANGED <<rows, given, emb, disk, mem, restarts, flaws>>

-----------------------------------------------------------------------------
\* get_store of the web back end: _invalidate_stale_vector_index
GetStore(t) ==
    /\ At(t, "idle") /\ Home[t] \in Web /\ Free(t)
    /\ HasIndex(t) /\ ~CountAgrees(t)
    /\ Drop(t)
    /\ UNCHANGED <<dbVars, disk, lock, thread, restarts, flaws>>

\* SQLiteStore.close; the process ends by Restart.
Close(t) ==
    /\ At(t, "idle") /\ HasIndex(t) /\ Acquire(t)
    /\ thread' = [thread EXCEPT ![t].at = "save vectors", ![t].job = "close"]
    /\ UNCHANGED <<dbVars, disk, mem, restarts, flaws>>

Ends(p) == {t \in Threads : Home[t] = p}
Restart(p) ==
    /\ restarts < MaxRestarts /\ restarts' = restarts + 1
    /\ mem' = [mem EXCEPT ![p] = NoIndex]
    /\ lock' = [lock EXCEPT ![p] = Nobody]
    /\ thread' = [t \in Threads |-> IF t \in Ends(p) THEN Idle ELSE thread[t]]
    /\ flaws' = flaws
         \cup Torn({t \in Ends(p) : At(t, "save map")})
         \cup (IF \E t \in Ends(p) : Announcing(t) THEN {"unannounced"} ELSE {})
    /\ UNCHANGED <<dbVars, disk>>

Loads(t) == LoadVectors(t) \/ LoadMap(t) \/ NothingToLoad(t) \/ Stamp(t)
Builds(t) == AddNewChunks(t) \/ Recheck(t) \/ Rebuild(t) \/ Restamp(t)
Saves(t) == SaveVectors(t) \/ SaveMap(t)
Writes(t) ==
    \/ AddChunk(t) \/ Put(t) \/ RemoveFromIndex(t) \/ Bump(t)
    \/ \E c \in Chunks, v \in Versions : Embed(t, c, v)
    \/ \E S \in SUBSET Chunks : Delete(t, S)

Next ==
    \/ \E t \in Threads :
         \/ Search(t) \/ Compare(t) \/ Answer(t)
         \/ Loads(t) \/ Builds(t) \/ Saves(t) \/ Writes(t)
         \/ GetStore(t) \/ Close(t)
    \/ \E p \in Procs : Restart(p)

Spec == Init /\ [][Next]_vars

-----------------------------------------------------------------------------
\* A search that answers from an index misses no chunk whose embedding was
\* written and announced before it began, whichever process wrote it, but for
\* two accidents: a full build was overtaken between its rows and its revision
\* (sqlite_store_index.py:353, 394), or a writer ended between its row and the
\* revision (bump_kb_revision, sqlite_store_index.py:152).
FindsWhatIsThere ==
    flaws = {} =>
        \A t \in Threads : At(t, "answer") /\ HasIndex(t) =>
            \A k \in thread[t].known : k[1] \in rows => k[1] \in Indexed(Index(t))

\* No process ever holds the vector of one chunk under the id of another, or
\* an id without a vector, unless the two files of the index were read or
\* written across each other (VectorIndex.save, vector_index.py:245).
VectorsBelong ==
    "torn" \notin flaws =>
        \A p \in Procs : LET i == mem[p].index
                         IN  \A k \in DOMAIN i.ids : k \in DOMAIN i.vecs /\ i.vecs[k][1] = i.ids[k]

\* What _ensure_index_loaded says of itself (sqlite_store_index.py:197): with
\* as many chunks as before under a new revision the old vectors are thrown
\* away, so that a search finds a chunk under the embedding that was announced
\* before the search began.
ReindexIsSeen ==
    flaws = {} =>
        \A t \in Threads : At(t, "answer") /\ HasIndex(t) =>
            \A k \in thread[t].known :
                k[1] \in rows /\ emb[k[1]] = k[2] =>
                    k \in {Index(t).vecs[j] : j \in DOMAIN Index(t).ids}
=============================================================================

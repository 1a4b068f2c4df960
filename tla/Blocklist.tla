----------------------------- MODULE Blocklist ------------------------------
(***************************************************************************)
(* The list of conversations that are not polled and not sent to: the       *)
(* poller's streaks, blocks and reconciliation                              *)
(* (src/src/poller_core_access.py, poller_strategy.py), the table           *)
(* blocked_conversations with the cache in front of it                      *)
(* (src/src/memory/blacklist_repo.py), the failures of the send tool        *)
(* (src/src/tools/chat.py), and the request that clears the list.           *)
(*                                                                          *)
(* Four views of one fact that no lock ties together: the table, the cache  *)
(* that the send tool asks, the set `skip' that the poller asks, and the    *)
(* rows a reconciliation has loaded.  Each writer goes from one to the next *)
(* in steps of its own.                                                     *)
(*                                                                          *)
(* A reason is either `lasting' (_is_permanent_block_candidate) or          *)
(* `passing'; rows of the send tool are `send'.  The hour of a cooldown is  *)
(* left out: who asks finds a cooldown running or over, whichever.          *)
(* One platform is modelled.  The pool that fetches conversations has lost  *)
(* the platform, so a row it writes for any but the default platform goes   *)
(* to the table of that one: here it is no row at all.                      *)
(***************************************************************************)
EXTENDS Naturals, Sequences, FiniteSets

CONSTANTS
    Chats,
    Friends,         \* single chats, with friends of another tenant
    Probeable,       \* chats with a name, other than a work notification
    Reachable,       \* chats the account can access again, if it asks often enough
    Senders,         \* threads that run the send tool
    Threshold,       \* blacklist_min_consecutive_failures
    ReconcileEvery,  \* blacklist_reconcile_every
    BatchSize,       \* reconcile_probe_batch_size
    FailuresToBlock, \* failed sends until a block is permanent
    NoChat

ASSUME BlocklistAssumption ==
    /\ Friends \cup Probeable \cup Reachable \subseteq Chats
    /\ NoChat \notin Chats
    /\ IsFiniteSet(Chats)
    /\ Threshold \in Nat
    /\ ReconcileEvery \in Nat \ {0} /\ BatchSize \in Nat \ {0}
    /\ FailuresToBlock \in Nat \ {0}

VARIABLES
    table,     \* blocked_conversations: chat -> row
    order,     \* the chats of the table, oldest row first
    cache,     \* BlacklistRepo._cache: chat -> cooldown_until, of the chats that
               \* sends may fail in; no other entry leads to anything
    loaded,    \* _cache_loaded
    skip,      \* _inaccessible_conversations
    streak,    \* _perm_fail_streak
    poller,    \* the polling thread: where it is, its chat and its locals
    rounds,    \* _poll_count modulo ReconcileEvery
    probeIdx,  \* _reconcile_probe_idx
    sender,    \* the threads of the send tool
    web,       \* the request that clears the list
    lasting,   \* history: chats the poller blocked for a lasting reason, until the
               \*          list is cleared or a failed send writes over the row
    torn       \* history: chats that have a row or are skipped, but not both: for
               \*          a write that failed or went to another platform's table,
               \*          a start that could not read, a clear that overlapped

storeVars  == <<table, order, cache, loaded, lasting>>
pollerVars == <<skip, streak, poller, rounds, probeIdx>>
vars == <<storeVars, pollerVars, sender, web, torn>>

Untils == {"hour", "forever"}   \* cooldown_until; NULL is forever
Kinds  == {"lasting", "passing", "send"}
Row    == [kind : Kinds, until : Untils, fails : 1 .. FailuresToBlock]

Blocked == DOMAIN table
Forget(f, c) == [d \in DOMAIN f \ {c} |-> f[d]]
Put(f, c, v) == [d \in DOMAIN f \cup {c} |-> IF d = c THEN v ELSE f[d]]
Least(a, b) == IF a < b THEN a ELSE b
IndexOf(seq, c) == CHOOSE i \in DOMAIN seq : seq[i] = c
DropAt(seq, i) == SubSeq(seq, 1, i - 1) \o SubSeq(seq, i + 1, Len(seq))

-----------------------------------------------------------------------------
(* BlacklistRepo.  A write is a transaction behind the write gate; the cache *)
(* follows it in the same step: a send that asks between the two is a send   *)
(* that asked before both.  The counts and cache entries of chats that are   *)
(* no friends are left out: only failed sends read them.                    *)

\* add_blocked_conversation without cooldown_until: a permanent block wins, an
\* existing row keeps its cooldown, a new one has an hour
UntilOf(c, permanent) ==
    IF permanent THEN "forever" ELSE IF c \in Blocked THEN table[c].until ELSE "hour"

FailsOf(c) ==
    IF c \in Blocked \cap Friends THEN Least(table[c].fails + 1, FailuresToBlock) ELSE 1

PutCache(c, until) == IF c \in Friends THEN Put(cache, c, until) ELSE cache

AddRow(c, kind, permanent, fails) ==
    /\ table' = Put(table, c, [kind |-> kind, until |-> UntilOf(c, permanent), fails |-> fails])
    /\ order' = IF c \in Blocked THEN order ELSE Append(order, c)
    /\ cache' = PutCache(c, UntilOf(c, permanent))
    /\ UNCHANGED loaded

\* mutant: the order of the rows keeps one that is gone
RemoveRowOnly(c) ==
    /\ table' = Forget(table, c) /\ cache' = Forget(cache, c)
    /\ UNCHANGED <<order, loaded, lasting>>

\* remove_blocked_conversation
RemoveRow(c) ==
    /\ table' = Forget(table, c)
    /\ order' = IF c \in Blocked THEN DropAt(order, IndexOf(order, c)) ELSE order
    /\ cache' = Forget(cache, c)
    /\ UNCHANGED <<loaded, lasting>>

\* upgrade_to_permanent_block, force_permanent_preserve_reason: an UPDATE finds the
\* row or changes nothing
RaiseToPermanent(c) ==
    /\ table' = IF c \in Blocked THEN [table EXCEPT ![c].until = "forever"] ELSE table
    /\ cache' = IF c \in Blocked THEN PutCache(c, "forever") ELSE cache
    /\ UNCHANGED <<order, loaded, lasting>>

-----------------------------------------------------------------------------
(* The polling thread.                                                      *)

Idle == [at |-> "idle", chat |-> NoChat, kind |-> "passing",
         rows |-> << >>, probes |-> << >>, back |-> "idle"]

At(place) == poller.at = place
GoOn(place) == poller' = [poller EXCEPT !.at = place]
ToNext == poller' = Idle

\* poll_once begins; every ReconcileEvery cycles it reconciles first
NewCycle ==
    /\ At("idle")
    /\ rounds' = (rounds + 1) % ReconcileEvery
    /\ IF rounds' = 0 THEN GoOn("reconcile") ELSE UNCHANGED poller
    /\ UNCHANGED <<storeVars, skip, streak, probeIdx, sender, web, torn>>

\* _poll_one_conversation passes over a chat in `skip'; any other may wait for a
\* later cycle (_should_skip_longtail_fetch), so a cycle fetches any of them
PollChat(c) ==
    /\ At("idle") /\ c \notin skip
    /\ poller' = [poller EXCEPT !.chat = c, !.at = "fetch"]
    /\ UNCHANGED <<storeVars, skip, streak, rounds, probeIdx, sender, web, torn>>

Fetched ==
    /\ At("fetch")
    /\ streak' = [streak EXCEPT ![poller.chat] = 0]
    /\ ToNext
    /\ UNCHANGED <<storeVars, skip, rounds, probeIdx, sender, web, torn>>

\* a global, transient or single-chat error does not count
FetchFailed ==
    /\ At("fetch")
    /\ ToNext
    /\ UNCHANGED <<storeVars, skip, streak, rounds, probeIdx, sender, web, torn>>

\* _register_perm_failure: the streak counts, and is cleared at the threshold;
\* the answer is True either way
RegisterFailure(c) ==
    streak' = [streak EXCEPT ![c] = IF Threshold = 0 \/ @ + 1 >= Threshold THEN 0 ELSE @ + 1]

ToBlock == TRUE

\* a permission error of a group
FetchDenied(kind) ==
    /\ At("fetch") /\ poller.chat \notin Friends
    /\ RegisterFailure(poller.chat)
    /\ IF ToBlock THEN poller' = [poller EXCEPT !.at = "block", !.kind = kind] ELSE ToNext
    /\ UNCHANGED <<storeVars, skip, rounds, probeIdx, sender, web, torn>>

\* an error that names another tenant or a chat one is out of does not wait
\* for a streak
DeniedForGood(kind) ==
    /\ At("fetch")
    /\ poller' = [poller EXCEPT !.at = "block", !.kind = kind]
    /\ UNCHANGED <<storeVars, skip, streak, rounds, probeIdx, sender, web, torn>>

\* the blocked_chats of list-all, in the polling thread itself
ListedAsBlocked(c) ==
    /\ At("idle")
    /\ poller' = [poller EXCEPT !.at = "list block", !.chat = c, !.kind = "lasting"]
    /\ UNCHANGED <<storeVars, skip, streak, rounds, probeIdx, sender, web, torn>>

Blocking == poller.at \in {"block", "list block"}

\* _block_conversation: the row, then the set of skipped chats
BlockRow ==
    /\ Blocking
    /\ LET c == poller.chat  permanent == poller.kind = "lasting" IN
       /\ AddRow(c, poller.kind, permanent, FailsOf(c))
       /\ lasting' = IF permanent THEN lasting \cup {c} ELSE lasting
       /\ poller' = [Idle EXCEPT !.at = "blocking", !.chat = c]
    /\ UNCHANGED <<skip, streak, rounds, probeIdx, sender, web, torn>>

\* a thread of the pool has no platform: the row is another platform's, with a
\* cooldown that its row there may have had before; the cache knows no platform
BlockRowElsewhere ==
    /\ At("block")
    /\ \E until \in Untils :
          /\ poller.kind = "lasting" => until = "forever"
          /\ cache' = PutCache(poller.chat, until)
    /\ poller' = [Idle EXCEPT !.at = "blocking", !.chat = poller.chat]
    /\ UNCHANGED <<table, order, loaded, lasting, skip, streak, rounds, probeIdx, sender, web, torn>>

BlockSkip ==
    /\ At("blocking")
    /\ skip' = skip \cup {poller.chat}
    /\ torn' = IF poller.chat \in Blocked THEN torn \ {poller.chat} ELSE torn \cup {poller.chat}
    /\ ToNext
    /\ UNCHANGED <<storeVars, streak, rounds, probeIdx, sender, web>>

\* a row that cannot be written does not keep the chat from being skipped
BlockRowFails ==
    /\ Blocking
    /\ skip' = skip \cup {poller.chat}
    /\ torn' = IF poller.chat \in Blocked THEN torn \ {poller.chat} ELSE torn \cup {poller.chat}
    /\ ToNext
    /\ UNCHANGED <<storeVars, streak, rounds, probeIdx, sender, web>>

-----------------------------------------------------------------------------
(* _reconcile_blocklist, in the polling thread: first the loaded rows one   *)
(* by one, then a batch of the rest is probed.                              *)

\* mutant: only the reason counts
KeptForReason(c) == table[c].kind = "lasting"

\* a row no reconciliation frees
Kept(c) == table[c].until = "forever" \/ table[c].kind = "lasting"

\* what a row asks for: a lasting reason that is not permanent is made so, a
\* chat among the top conversations is freed at once
Work(c, listed) ==
    IF Kept(c) THEN (IF table[c].until = "forever" THEN "none" ELSE "raise")
    ELSE IF c \in listed THEN "free" ELSE IF c \in Probeable THEN "probe" ELSE "none"

\* the list of top conversations, empty if it cannot be had, and the rows
LoadRows(listed) ==
    /\ At("reconcile")
    /\ poller' = [poller EXCEPT !.at = "rows",
         !.rows = [i \in DOMAIN order |-> [chat |-> order[i], work |-> Work(order[i], listed)]]]
    /\ UNCHANGED <<storeVars, skip, streak, rounds, probeIdx, sender, web, torn>>

Load == \E listed \in SUBSET Chats : LoadRows(listed)

AtRow(work) == At("rows") /\ poller.rows # << >> /\ Head(poller.rows).work = work
NextRow == poller' = [poller EXCEPT !.rows = Tail(@)]

KeepRow ==
    /\ AtRow("none")
    /\ NextRow
    /\ UNCHANGED <<storeVars, skip, streak, rounds, probeIdx, sender, web, torn>>

ProbeRow ==
    /\ AtRow("probe")
    /\ poller' = [poller EXCEPT !.rows = Tail(@), !.probes = Append(@, Head(poller.rows).chat)]
    /\ UNCHANGED <<storeVars, skip, streak, rounds, probeIdx, sender, web, torn>>

RaiseRow ==
    /\ AtRow("raise")
    /\ RaiseToPermanent(Head(poller.rows).chat)
    /\ NextRow
    /\ UNCHANGED <<skip, streak, rounds, probeIdx, sender, web, torn>>

\* the row first, then the poller's own set
Free(c) ==
    /\ RemoveRow(c)
    /\ UNCHANGED <<skip, streak, rounds, probeIdx, sender, web, torn>>

FreeListed(c) ==
    /\ AtRow("free") /\ c = Head(poller.rows).chat
    /\ Free(c)
    /\ poller' = [poller EXCEPT !.rows = Tail(@), !.chat = c, !.at = "freeing", !.back = "rows"]

\* an error of the store ends the reconciliation
StoreFails ==
    /\ At("reconcile") \/ AtRow("free") \/ AtRow("raise")
    /\ ToNext
    /\ UNCHANGED <<storeVars, skip, streak, rounds, probeIdx, sender, web, torn>>

\* mutant: every batch begins with the oldest row
ChooseFirstBatch ==
    /\ At("rows") /\ poller.rows = << >>
    /\ IF poller.probes = << >> THEN ToNext
       ELSE poller' = [poller EXCEPT !.at = "probe", !.probes = SubSeq(@, 1, Least(BatchSize, Len(@)))]
    /\ UNCHANGED <<storeVars, skip, streak, rounds, probeIdx, sender, web, torn>>

\* the batch begins where the last one ended and does not wrap around
ChooseBatch ==
    /\ At("rows") /\ poller.rows = << >>
    /\ LET n == Len(poller.probes)
           start == probeIdx % n
           end == Least(start + BatchSize, n)
       IN IF n = 0
          THEN ToNext /\ UNCHANGED probeIdx
          ELSE /\ poller' = [poller EXCEPT !.at = "probe", !.probes = SubSeq(@, start + 1, end)]
               /\ probeIdx' = end % n
    /\ UNCHANGED <<storeVars, skip, streak, rounds, sender, web, torn>>

ProbeFinds(c) ==
    /\ At("probe") /\ poller.probes # << >> /\ c = Head(poller.probes)
    /\ Free(c)
    /\ poller' = [poller EXCEPT !.probes = Tail(@), !.chat = c, !.at = "freeing", !.back = "probe"]

ProbeFails ==
    /\ At("probe") /\ poller.probes # << >>
    /\ poller' = [poller EXCEPT !.probes = Tail(@)]
    /\ UNCHANGED <<storeVars, skip, streak, rounds, probeIdx, sender, web, torn>>

ProbesDone ==
    /\ At("probe") /\ poller.probes = << >>
    /\ ToNext
    /\ UNCHANGED <<storeVars, skip, streak, rounds, probeIdx, sender, web, torn>>

FreeSkip ==
    /\ At("freeing")
    /\ skip' = skip \ {poller.chat}
    /\ streak' = [streak EXCEPT ![poller.chat] = 0]
    /\ torn' = torn \ {poller.chat}
    /\ poller' = [poller EXCEPT !.at = poller.back, !.chat = NoChat, !.back = "idle"]
    /\ UNCHANGED <<storeVars, rounds, probeIdx, sender, web>>

-----------------------------------------------------------------------------
(* The send tool.  Sends to other chats only ask the list.                  *)

Resting == [at |-> "idle", chat |-> NoChat, plain |-> TRUE, fails |-> 0]

\* is_conversation_blocked: what it may answer
Answers(f, c) ==
    CASE c \notin DOMAIN f -> {FALSE}
      [] c \in DOMAIN f /\ f[c] = "forever" -> {TRUE}
      [] OTHER -> BOOLEAN

\* _ensure_cache_loaded lays the table over the cache, once
CacheNow ==
    IF loaded THEN cache
    ELSE [c \in (Blocked \cap Friends) \cup DOMAIN cache |-> IF c \in Blocked THEN table[c].until ELSE cache[c]]

AskCache == cache' = CacheNow /\ loaded' = TRUE /\ UNCHANGED <<table, order, lasting>>

Send(s, c) ==
    /\ sender[s].at = "idle"
    /\ AskCache
    /\ \E refused \in Answers(CacheNow, c) :
          sender' = IF refused THEN sender
                    ELSE [sender EXCEPT ![s] = [Resting EXCEPT !.at = "sending", !.chat = c]]
    /\ UNCHANGED <<pollerVars, web, torn>>

\* sent, failed for another reason, or a write of the store failed
SendEnds(s) ==
    /\ sender[s].at \in {"sending", "add"}
    /\ sender' = [sender EXCEPT ![s] = Resting]
    /\ UNCHANGED <<storeVars, pollerVars, web, torn>>

\* the platform does not let this account write to the friend of another
\* tenant; a chat in its cooldown gets the next count, any other one more
SendFails(s) ==
    /\ sender[s].at = "sending"
    /\ AskCache
    /\ LET c == sender[s].chat IN
       \E existing \in Answers(CacheNow, c) :
          LET cooling == existing /\ ~(c \in Blocked /\ table[c].until = "forever")
          IN  sender' = [sender EXCEPT ![s].at = "add", ![s].plain = ~cooling,
                                       ![s].fails = IF cooling THEN FailsOf(c) ELSE 0]
    /\ UNCHANGED <<pollerVars, web, torn>>

SendAdd(s) ==
    /\ sender[s].at = "add"
    /\ LET c == sender[s].chat IN
       AddRow(c, "send", FALSE, IF sender[s].plain THEN FailsOf(c) ELSE sender[s].fails)
    /\ lasting' = lasting \ {sender[s].chat}
    /\ sender' = [sender EXCEPT ![s].at = "added"]
    /\ UNCHANGED <<pollerVars, web, torn>>

\* the count, read back from the row if it was not given
Failures(s) ==
    IF ~sender[s].plain THEN sender[s].fails
    ELSE IF sender[s].chat \in Blocked THEN table[sender[s].chat].fails ELSE 0

SendRaise(s) ==
    /\ sender[s].at = "added" /\ Failures(s) >= FailuresToBlock
    /\ RaiseToPermanent(sender[s].chat)
    /\ sender' = [sender EXCEPT ![s] = Resting]
    /\ UNCHANGED <<pollerVars, web, torn>>

\* the cooldown starts anew in the row, by an UPDATE that passes the cache by
SendCool(s) ==
    /\ sender[s].at = "added" /\ Failures(s) < FailuresToBlock
    /\ table' = IF sender[s].chat \in Blocked THEN [table EXCEPT ![sender[s].chat].until = "hour"]
                ELSE table
    /\ lasting' = lasting \ {sender[s].chat}
    /\ sender' = [sender EXCEPT ![s] = Resting]
    /\ UNCHANGED <<order, cache, loaded, pollerVars, web, torn>>

-----------------------------------------------------------------------------
(* clear_cross_org_skips, in a request thread.                              *)

ClearSkip ==
    /\ web = "idle"
    /\ skip' = {} /\ torn' = {}
    /\ web' = "table"
    /\ UNCHANGED <<storeVars, streak, poller, rounds, probeIdx, sender>>

\* a chat that was blocked since ClearSkip stays in `skip'
ClearTable ==
    /\ web = "table"
    /\ table' = << >> /\ order' = << >> /\ cache' = << >> /\ lasting' = {}
    /\ torn' = skip
    /\ web' = "idle"
    /\ UNCHANGED <<loaded, pollerVars, sender>>

\* the rows remain, and their chats are fetched again
ClearTableFails ==
    /\ web = "table"
    /\ torn' = torn \cup (Blocked \ skip)
    /\ web' = "idle"
    /\ UNCHANGED <<storeVars, pollerVars, sender>>

-----------------------------------------------------------------------------
(* The world, and the specification.                                        *)

Started == [Idle EXCEPT !.at = "reconcile"]

Init ==
    /\ table = << >> /\ order = << >> /\ lasting = {}
    /\ cache = << >> /\ loaded = FALSE
    /\ skip = {}
    /\ streak = [c \in Chats |-> 0]
    /\ poller = Started /\ rounds = 0 /\ probeIdx = 0
    /\ sender = [s \in Senders |-> Resting]
    /\ web = "idle"
    /\ torn = {}

Ended ==
    /\ cache' = << >> /\ loaded' = FALSE
    /\ streak' = [c \in Chats |-> 0]
    /\ poller' = Started /\ rounds' = 0 /\ probeIdx' = 0
    /\ sender' = [s \in Senders |-> Resting]
    /\ web' = "idle"
    /\ UNCHANGED <<table, order, lasting>>

\* mutant: only permanent blocks survive
RestartForgets ==
    /\ Ended
    /\ skip' = {c \in Blocked : table[c].until = "forever"} /\ torn' = {}

\* the process ends anywhere; the table remains, and the poller constructed anew
\* skips what is in it
Restart == Ended /\ skip' = Blocked /\ torn' = {}

\* the poller constructed anew cannot read the table, and skips nothing
RestartBlind == Ended /\ skip' = {} /\ torn' = Blocked

Poll ==
    \/ NewCycle \/ Fetched \/ FetchFailed
    \/ BlockRow \/ BlockRowElsewhere \/ BlockRowFails \/ BlockSkip
    \/ KeepRow \/ ProbeRow \/ RaiseRow \/ StoreFails
    \/ ChooseBatch \/ ProbeFails \/ ProbesDone \/ FreeSkip
    \/ \E c \in Chats : PollChat(c) \/ ListedAsBlocked(c) \/ FreeListed(c) \/ ProbeFinds(c)
    \/ \E kind \in Kinds \ {"send"} : FetchDenied(kind) \/ DeniedForGood(kind)
    \/ Load

SendStep(s) ==
    \/ \E c \in Friends : Send(s, c)
    \/ SendEnds(s) \/ SendFails(s) \/ SendAdd(s)
    \/ SendRaise(s) \/ SendCool(s)

Web == ClearSkip \/ ClearTable \/ ClearTableFails

Next ==
    \/ Poll \/ Web \/ Restart \/ RestartBlind
    \/ \E s \in Senders : SendStep(s)

Spec == Init /\ [][Next]_vars

(* The polling thread goes on from cycle to cycle, and a reachable chat that  *)
(* is probed again and again answers.  Nothing makes sends or clears.        *)
FairSpec ==
    /\ Spec /\ WF_vars(Poll) /\ SF_vars(NewCycle)
    /\ \A c \in Reachable : SF_vars(ProbeFinds(c))

-----------------------------------------------------------------------------
(* Properties.                                                              *)

PollerAt == {"idle", "fetch", "block", "list block", "blocking", "reconcile", "rows", "probe", "freeing"}
SenderAt == {"idle", "sending", "add", "added"}

Works    == {"none", "raise", "free", "probe"}

StoreTypeOK ==
    /\ Blocked \subseteq Chats /\ \A c \in Blocked : table[c] \in Row
    /\ order \in Seq(Chats) /\ {order[i] : i \in DOMAIN order} = Blocked
    /\ \A i, j \in DOMAIN order : order[i] = order[j] => i = j
    /\ DOMAIN cache \subseteq Friends /\ \A c \in DOMAIN cache : cache[c] \in Untils
    /\ loaded \in BOOLEAN
    /\ lasting \subseteq Chats

PollerTypeOK ==
    /\ skip \subseteq Chats
    /\ streak \in [Chats -> Nat]
    /\ poller \in [at : PollerAt, chat : Chats \cup {NoChat}, kind : Kinds \ {"send"},
                    rows : Seq([chat : Chats, work : Works]), probes : Seq(Chats),
                    back : {"idle", "rows", "probe"}]
    /\ poller.at \in {"fetch", "block", "list block", "blocking", "freeing"} => poller.chat \in Chats
    /\ poller.at \notin {"rows", "probe", "freeing"} => poller.rows = << >> /\ poller.probes = << >>
    /\ poller.at = "freeing" => poller.back # "idle"
    /\ rounds \in 0 .. ReconcileEvery - 1 /\ probeIdx \in Nat

SenderTypeOK ==
    /\ sender \in [Senders -> [at : SenderAt, chat : Chats \cup {NoChat}, plain : BOOLEAN,
                               fails : 0 .. FailuresToBlock]]
    /\ \A s \in Senders :
          /\ sender[s].at # "idle" => sender[s].chat \in Chats
          /\ sender[s].at = "add" => sender[s].plain \/ sender[s].fails > 0

TypeOK ==
    /\ StoreTypeOK /\ PollerTypeOK /\ SenderTypeOK
    /\ web \in {"idle", "table"}
    /\ torn \subseteq Chats

Amid(c, place) == poller.chat = c /\ poller.at = place

\* What the poller has blocked it skips, also while a clear and its own steps
\* overlap; and what it skips has a row, by which a reconciliation can free it
\* again.  Four things tear the two apart: a write that failed, a row that went
\* to another platform's table, a start that could not read the rows, a clear
\* that deleted the row of a chat blocked meanwhile.
SkipMatchesRows ==
    /\ \A c \in Blocked :
          table[c].kind # "send" => c \in skip \/ c \in torn \/ Amid(c, "blocking") \/ web = "table"
    /\ \A c \in skip : c \in Blocked \/ c \in torn \/ Amid(c, "freeing")

\* A block for a lasting reason ends in two ways: the list is cleared, or a send
\* to the chat that was under way fails and writes over the row
\* (tools/chat.py:381-389, :423-431), after which it counts as any failed send.
\* A second block for a passing reason does not end it, and no reconciliation
\* does, although it works on rows it loaded before.
LastingEndsByName ==
    \A c \in lasting : c \in Blocked /\ table[c].until = "forever"

\* the chats a reconciliation would probe
Probed == {c \in Blocked \cap Probeable : ~Kept(c)}

\* While the process runs, its store works and no other chat joins or leaves
\* those that are probed, a reachable chat does not stay blocked for a passing
\* reason: the batches of probes get round to it.
EventuallyHealed ==
    \A c \in Probeable \cap Reachable :
        (<>[][/\ ~Restart /\ ~RestartBlind /\ ~StoreFails
              /\ Probed' \ {c} = Probed \ {c}]_vars)
            => []<>(c \in Blocked => Kept(c))
=============================================================================

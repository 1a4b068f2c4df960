# Linkora in TLA+

Linkora is an assistant that answers messages of DingTalk, Feishu and WeCom in the name
of their user. It polls a messaging platform through a command line program, collects
what one sender writes into a batch, has an LLM agent answer the batch, and sends the
answer. By default all of this runs in one Python process (`lifecycle.run`, mode `both`)
with many threads: one poller per platform, a reader of the event stream, a
`threading.Timer` per debounced batch, retry timers, and the request threads of a web
console. State is shared in dictionaries behind a handful of locks, and in SQLite. With
the modes `web` and `worker` (`platform/lifecycle.py:107-115`) the console is a process
of its own that shares the SQLite files only: the reply locks, slots and sets of the
other process are then out of its reach, a replay from the console is not kept apart
from the poller's messages, and a clear of the blacklist does not reach the poller's
set. The modules describe the mode `both`; `KbIndex` alone has several processes.

This directory holds TLA+ modules of the message path (intake, debounce,
reply) and of what stands beside it (blacklist, read gate, dead letters, vector
index, LLM client), TLC configurations that check them, and TLAPS proofs. Paths below are
relative to `src/src/` of the repository unless they begin with `src/`.

## The path of a message

```
 server ──list-all, list-direct──▶ MessagePoller ──handle_message──▶ debounce buffer
        ──event stream───────────▶  (PollCycle)                       (Debounce)
                                                                          │ _handle_message_impl
                                                                          ▼
 server ◀──chat_message_send── _send_reply ◀── gates, LLM agent ◀── reply lock, slots
                               └───────────────── (ReplyLock) ─────────────────┘
                                        │           │             │
                              read gate, timers  dead letters  models of the LLM, index
                                 (ReadGate)     (DeadLetters)  (ModelPool)    (KbIndex)
```

`Blocklist` is beside the first arrow: it decides which conversations are polled.

Each arrow is a call in which the caller gives up responsibility early: the
poller moves its cursor before it hands a message on, marks it when the buffer
has taken it, the buffer pops a batch before it merges it, and the reply section
returns without an answer in a dozen places. What can go wrong is therefore
mostly *between* two steps: a message handled twice, or by nobody.

## Inventory

| Component | State | Operations | What is hard | What makes it correct |
|---|---|---|---|---|
| Message intake (`poller.py`, `poller_strategy.py`, `poller_core_*.py`) | `_last_list_all_time`, `_last_poll_time` (cursors), `_processed_msg_ids` (LRU), `dedup_messages` (store), `_stream_queue` | `run_loop`, `poll_once`, both fetch paths, merging, de-duplication, `_dispatch_messages`, `_dispatch_one`, `_on_stream_message` | cursors move first, marks come last; two kinds of marks; two paths and a stream deliver the same message; restarts | handled at most once unless a mark was lost; nothing marked that was not handled; nothing passed over |
| Debounce buffer (`platform/message_loop.py`) | `_pending_messages` with its timers, first-seen times, platforms and flags, under `_timer_lock` | `handle_message`, `_process_pending_messages`, cancellation by `shutdown` | a fired timer cannot be cancelled; entries are created before duplicate tests; work on a popped batch happens outside the lock | a batch always has a live timer, a message is in one batch, copies never wait side by side |
| Reply lock and slots (`platform/runtime_inbound.py`, `runtime_reply_guard.py`) | `_replying_chats`, `_reply_lock_retries`, `reply_semaphore`, back-off and rate-limit times | `_handle_message_with_rid`, retries, watchdog, `finally` | the watchdog lets two threads into one section; retries start over; the LLM may hang | slots conserved, no orphaned lock, one thread per chat unless evicted |
| Sending (`platform/runtime_dispatch.py`, `reply_shard.py`) | `last_replied_msg_id`, `last_reply_time`, throttle time | `_send_reply`, `_record_reply_success`, shards | failure after part of the shards, throttle in two sections | no repeated answer, cooldown respected |
| Read gate and delayed marks (`platform/runtime_inbound.py`, `runtime_reply_guard.py`) | cached list of unread conversations, its failure flag, timers with tokens | `_owner_conversation_is_read`, the recheck before sending, `_schedule_mark_read_after_reply` | the list is old, the flag is shared, timers replace each other | the engine's own marks do not silence it; what was replied to is marked |
| Reply by the LLM (`platform/runtime_llm_reply.py`, `llm/agent*.py`) | drafts | `_process_llm_reply` | the call may fail in many ways, or hang | every way out has its outcome |
| Dead letters (`memory/draft_repo.py`, `runtime_llm_reply.py`, `src/web/routers/dead_letters.py`) | rows with a status | `add_dead_letter`, `replay_dead_letter`, discard | two request threads, and a new failure during a replay | a failed message stays in the table until it is answered or discarded |
| LLM client (`llm/client.py`) | pool of models, cooldown per model, semaphore | `chat`, `_retry_primary_model`, rotation | shared by all reply threads without a lock | no model is lost; a request fails only after all had their turn, or by the `IndexError` of a rotation that another one overtook |
| Event stream (`dws_adapter/event_stream.py`) | consumer process, restart back-off | start, read, restart | restart races stop | one consumer per platform |
| Vector index (`memory/vector_index.py`, `sqlite_store_index.py`, `kb_repo.py`) | index in memory and in two files, revision of the table, lock of the index | search, load, add, remove, rebuild, save | two processes; files, index and table change one after the other | what the table holds is found, and with its own vector |
| Store (`memory/*`) | SQLite files, one connection per thread | repositories | busy snapshots | statements are atomic |
| Schedulers (`llm/*summary*`, `proactive_digest.py`, `doc_sync_scheduler.py`, backups) | last-run times, idle state | periodic jobs | overlap with repliers and shutdown | no job twice in its period |
| Blacklist (`poller_core_access.py`, `memory/blacklist_repo.py`, `tools/chat.py`) | rows of the store, set of skipped conversations, cache, error streaks, rows loaded to reconcile | block, reconcile with rotating probes, blocked sends, clear | four views of one fact written one after the other | rows and set agree but for named accidents; lasting blocks end by a clear or a failed send only, passing ones end |
| Lifecycle (`platform/lifecycle.py`, `runtime_lifecycle.py`) | `_running`, components | `run`, `shutdown`, `reload_config` | threads that are not joined | nothing works on a closed store |
| Tools (`tools/idempotency.py`) | idempotency records | execute | a repeated call after a crash | an effect happens once |
| Gates and rules (`gate/reply_gate.py`, `rule_engine.py`), skills, intents, retrieval, OA digest, metrics, alerts, configuration, web console, utilities | mostly caches | matching and formatting | little concurrency of their own | out of the core |

`PROJECT.json` lists every component with its sources and says how far it is
modelled, and every hazard at its line.

## Modules

| Module | What it is |
|---|---|
| `Deliveries` | Messages as the engine tells them apart: key, chat, content, time, and the tests for a physical copy and for a stale message |
| `DeliveryLedger` | Abstract specification: what the debounce buffer promises for each delivery, with no buffer, timer or clock |
| `Debounce` | The buffer with its timer threads, the clock, and shutdown |
| `DebounceProof` | Proofs about `Debounce`, among them that it implements `DeliveryLedger` |
| `ReplyLock` | One call of `_handle_message_impl` per job: filters, cooldown, lock, watchdog, retries, slot, gates, LLM, `_send_reply`, `finally` |
| `ReplyLockProof` | Proofs about `ReplyLock` |
| `PollCycle` | The poller's cycle with both fetch paths, cursors, merging, de-duplication, the dispatch limit, the stream thread and restarts |
| `PollCycleProof` | Proofs about `PollCycle` |
| `Blocklist` | Permission errors, reconciliation, blocked sends of the model's tool, and the console, over one list seen in four places |
| `BlocklistProof` | Proofs about `Blocklist` |
| `ReadGate` | The gate for conversations the owner has read, and the marks the engine sets after its answers |
| `ReadGateProof` | Proofs about `ReadGate` |
| `DeadLetters` | The table of dead letters and its replays. Composes with `ReplyLock` (INSTANCE): a replay is one more thread through the same section |
| `DeadLettersProof` | Proofs about `DeadLetters` |
| `KbIndex` | The vector index of several processes over one table and one pair of files |
| `KbIndexProof` | Proofs about `KbIndex` |
| `ModelPool` | `chat()` of the LLM client by several threads over one pool |
| `ModelPoolProof` | Proofs about `ModelPool` |
| `MCDebounce`, `MCReplyLock`, `MCPollCycle`, `MCBlocklist`, `MCReadGate`, `MCDeadLetters`, `MCKbIndex`, `MCModelPool` | Small instances for TLC |

### Debounce

A *delivery* is one call of `handle_message`; two copies of a message are two
deliveries. Since each accepted delivery starts one `Timer`, a delivery also
names its timer, and `timer[d]` follows it: `unborn`, `armed`, `ready` (the
thread has passed its `_running` test and waits for `_timer_lock`; it can no
longer be cancelled), `merging` (it has popped a batch), `dead`.

| Action | Code |
|---|---|
| `Ignore`, `Enqueue` | `handle_message`, one critical section: entry, three duplicate loops, append, cancel, adaptive delay, metrics, new timer |
| `Fire`, `FireStopped` | the timer comes due; the `_running` test |
| `TakeBatch`, `TakeNothing` | the critical section of `_process_pending_messages`: delete the registered timer, pop the entry |
| `HandOver`, `OcrFails` | after the OCR wait: stale messages dropped, rest merged and handed to `_handle_message_impl`; or the exception that ends the thread |
| `StopRunning`, `CancelTimers`, `CloseStore` | `shutdown` and the end of `run` |

Delays keep their structure (window by batch content, hard cap, floor of one
second) with small numbers for the seconds. Merging is taken as the set of the
batch: what the merge hands to `_handle_message_impl` stands for all of it.
`CappedWait` and `EventuallySettled` both name the sender who keeps writing: past the
hard cap each message restarts the timer with a floor of one second, so he holds up
his batch as long as he writes faster.

### ReplyLock

A *job* is a thread running `_handle_message_impl`; `pc` walks through the code.
Time appears as steps of its own: a lock may grow older than
`_REPLY_LOCK_MAX_SECONDS` whenever it is held, a cooldown or back-off may end.
The chats are those of one platform, whose semaphore they share. What a rule, a
gate or the agent decides is a free choice among the code's outcomes, with the
same effect on `last_replied_msg_id` that outcome has. What the code swallows is in
the model: a mark may stay unwritten wherever one is made (`Mark`), so may the time of
the last answer, and an error after the send makes a failed send of a successful one
(`RecordBreaks`). The histories `told` and `recent` say which messages were answered,
and which chats were just sent to by `_send_reply`, *as long as the store has the mark
or the time*; the two action properties speak of those. Jobs whose LLM call may
never return are named (`Hung`).

| Action | Code |
|---|---|
| `Dismiss`, `CannotTell`, `Admit` | inbound filters, cooldown, a store that cannot tell the cooldown, fallback for voice and video |
| `Acquire`, `TakeOver`, `PutOff`, `GiveUp`, `RetryFires`, `ResetRetries` | the critical section of `_replying_lock`, its watchdog and its retry timer |
| `GetSlot`, `SlotTimeout` | `reply_semaphore.acquire(timeout)` |
| `AlreadyAnswered`, `Gate`, `Raises`, `Pass` | the tests after the slot, and an error in them |
| `LlmReturns`, `LlmKeepsQuiet` | outcomes of `_process_llm_reply` |
| `AgentSends`, `SelfReplied` | the agent answers with its tool `send_message`, past `_send_reply`; the message is marked, no cooldown begins |
| `Withhold`, `Veto`, `Cleared`, `Sends`, `SendFails` | `_send_reply` up to the send |
| `SensitiveWord`, `FallbackSent` | `_handle_sensitive_blocked_reply`: the fallback goes out, the message is marked, no cooldown begins |
| `Record`, `RecordBreaks` | `_record_reply_success`: time and mark, each of which may fail; an exception after them, which counts as a failed send |
| `FreeSlot`, `Unlock` | the `finally` block |

### PollCycle

`stage` is where `run_loop` is: `idle`, `fast` (the list-all batch is handed on
at once), `convs` (one conversation after another), `drain` (de-duplicated, the
stream's queue joins), `final` (what the dispatch limit left is handed on).
A merge of several messages is the set of them; it goes by the id of its last
one (`Head`), as in `_combine_message_group`. Of a group of nothing but polite or empty
texts only the first message is left (`First`), and the others are neither handed on
nor marked. Histories `handled`, `unmarked` and `dropped` say what happened to a
message; `dropped` is set only by the paths of the code that let a message go:

* the age gate of both fetch paths (`Aged`);
* before the first fetch, or before the window of list-all, which is clamped to its
  widest (`AllStart`);
* left out by list-all (`left` of `FetchAll`): cut off by the page limit, hidden by a
  refusal that the adapter returns as an empty list, or in a conversation that is
  skipped as inaccessible or blacklisted;
* swallowed in a group of politeness, or shadowed by the known head of its group;
* the dispatch limit, an exception of the handler, an error of the store that ends the
  batch or the cycle, an unreadable page, a restart.

The properties of the cursors say that there is no other way. A second that fills a
page is not a loss of that kind but a standstill: a conversation that is fetched only
by itself stays in that second for good (`Stuck`, in `EventuallyHandled`).

| Action | Code |
|---|---|
| `ListAll` (`FetchAll`), `FetchAllFails`, `FastPathDone` | `_fetch_messages_via_list_all`, `_handle_list_all_fetch` |
| `PollConversation`, `SkipConversation`, `BadPage`, `CycleBreaks` | `_poll_conversations`, `_poll_one_conversation`, `_update_poll_time_and_db` |
| `Deduplicate`, `Drain`, `CycleEnds` | `_global_deduplicate`, stream queue, `_dispatch_messages` |
| `Hand`, `HandlerRaises`, `BothFail`, `Settle`, `SaveFails` | `_dispatch_one`: handler, marks in memory and store, `save_message` |
| `StreamTest`, `StreamInsert` | the two critical sections of `_on_stream_message` |
| `Restart` | the process ends anywhere and starts again |

Abstractions: timestamps are small numbers in the resolution of the cursors;
the server returns the oldest messages of a range first, a page at a time; the
LRU cache may forget any of its older ids once it is full, which contains what
the real order forgets; worker threads that fetch several conversations are
taken one after another, since they share no data of a conversation.

### Blocklist

A blocked conversation is a row of the store (`table`, with `order` the order of
its rows), a member of the set the poller skips (`skip`) and part of a cache
(`cache`, `loaded`). `poller` is where the polling thread is, `sender` where each
call of the tool `send_message` is. `lasting` remembers the conversations the poller
blocked for a lasting reason, until a clear or a failed send over their row; `torn`
those of which a failed write, a row in another platform's table, a start that could not
read the rows, or a clear that met a block left the places different. One
polling thread is modelled; the pollers of other platforms have conversations of
their own. A cooldown has no clock: who asks gets either answer (`Answers`).

| Action | Code |
|---|---|
| `NewCycle`, `PollChat` | the start of a cycle with its periodic reconciliation, and the test whether a conversation is skipped |
| `Fetched`, `FetchFailed`, `FetchDenied`, `DeniedForGood` | what a fetch returns, with the streak of errors and `_register_perm_failure` |
| `ListedAsBlocked` | the `blocked_chats` of list-all, in the polling thread |
| `BlockRow`, `BlockSkip`, `BlockRowFails` | `_block_conversation`: the row first, the set second |
| `BlockRowElsewhere` | the same in a worker of the pool, which has lost the platform: the row goes to the default platform's table |
| `Load`, `KeepRow`, `RaiseRow`, `FreeListed`, `StoreFails` | `_reconcile_blocklist` row by row |
| `ChooseBatch`, `ProbeRow`, `ProbeFinds`, `ProbeFails`, `ProbesDone`, `FreeSkip` | the rotating probes and what they set free |
| `Send`, `SendEnds`, `SendFails`, `SendAdd`, `SendRaise`, `SendCool` | `send_message` to a conversation that refuses |
| `ClearSkip`, `ClearTable`, `ClearTableFails` | the console's clear |
| `Restart`, `RestartBlind` | the process ends anywhere and starts again, with the rows loaded or not |

Facts no property claims: a second cooldown is written past
the cache (`tools/chat.py:423-431`), and the cache is loaded once, from the platform of
whoever asks first (`memory/blacklist_repo.py:66-81`).

### ReadGate

`handler[c]` is the thread that answers conversation `c`, with the message it answers
and the list it judges by (its history fields `quiet` and `sure` say that all was read
when the recheck asked, and that the question was answered); `threads` are the timer
threads, `timers` the registered one of each conversation. `read`, `owner` and `sent`
are the newest messages read, read by the owner himself, and replied to. `Most` bounds
the messages of a conversation.

| Action | Code |
|---|---|
| `Arrive`, `OwnerReads` | the environment |
| `ListAges` | 30 seconds pass for the cached list |
| `AskFirst`, `AskAgain`, `Listed`, `NotAList`, `CallFails`, `Store` | `_unread_conversation_ids` at the gate and at the recheck: test of the cache, call, result, write to cache and flag |
| `Suppress`, `Proceed`, `End`, `Send` | the verdict, other ends of the handling, and the sent answer, which replaces the timer |
| `Elapse`, `Fire`, `MarkRead`, `MarkFails` | the timer thread: due, token test, the call |

Bounds and abstractions: one handler per conversation (the lock of `ReplyLock`),
answers in ascending order, other gates as `End`, no restart, a delay above zero
and `mark_read_after_process` on, as by default.

### DeadLetters

`Section` is `ReplyLock` with a job for each message and for each pair of row
and request. `letter[r]` is a row, `request[q]` the row a request of the console
replays. `twice`, `refiled` (a row was filed after the answer had gone out) and
`dropped` are histories.

| Action | Code |
|---|---|
| `Handle(j)` = `Goes`, `Drops`, `Answers`, `DeadLetter`, `LetterAfterAnswer`, `Breaks` | a step of the section, and what it means to the message: on its way, dropped at a named gate, answered, put in the table (or dropped, if the queue is disabled or the row cannot be written), put there although it was answered, or ended by an exception |
| `Time` | the clocks of the section |
| `Begin`, `Resolve` | `replay_dead_letter`: the test of the status; the write of the outcome |
| `Discard` | the endpoint that discards |

`LetterAfterAnswer` is the row of an answer with a sensitive word, written after the
fallback went out (`platform/runtime_reply_guard.py:134-150`), and that of an error after
the answer, the engine's or the agent's own (`platform/runtime_llm_reply.py:91`,
`:174-184`).

Left out: the stage of a failure, the watchdog (checked in `ReplyLock`), failing
sends and records, media, follow-ups, and restarts.

### KbIndex

`rows`, `given`, `emb` and `revision` are the table; `disk` the two files; `mem[p]`
the index of process `p`; `lock[p]` its index lock; `thread[t]` what a thread is at.
An index is a sequence of vectors with a map from places to chunks. `flaws` names
the accidents the code does not prevent: `overtaken` (a full build stamps a
revision newer than the rows it read), `torn` (two files of different writers) and
`unannounced` (a writer ended before it raised the revision).

| Action | Code |
|---|---|
| `Search`, `Compare`, `Answer` | `search_kb` up to its result |
| `LoadVectors`, `LoadMap`, `NothingToLoad`, `Stamp` | `_ensure_index_loaded` from the files |
| `AddNewChunks`, `Recheck`, `Rebuild`, `Restamp` | `_incremental_add_new_chunks`, `_build_index` |
| `SaveVectors`, `SaveMap` | `VectorIndex.save`, two replaced files |
| `AddChunk`, `Embed`, `Put`, `Delete`, `RemoveFromIndex`, `Bump` | the writers of `kb_repo` |
| `GetStore`, `Close`, `Restart` | open, close, the end of a process |

Vectors are a chunk with the version of its embedding; distances, lexical search
and ranking are left out, as are errors of files and database. One dimension.

### ModelPool

`chat[t]` is one call of `chat()`: its layer (primary, fallback, secondary), its
copy of the pool, its place in it, its tries. `pool` is the shared order, `cool` the
models in cooldown. The histories `raced` and `shifted` of a call say that another
thread's rotation came into its copy of the pool, or between the index and the pop of its
own rotation.

| Action | Code |
|---|---|
| `Begin`, `Copy` | entry; the copy of the pool, element by element |
| `StreamPick`, `StreamCalls`, `StreamReturns` | the first try as a stream |
| `LayerEnds`, `SkipCooling`, `Pick` | the loop over a layer |
| `CheckFindsCooling`, `CheckPasses`, `Call` | the cooldown test and the semaphore |
| `Answers`, `Refuses`, `Falters`, `Limits` | what the provider says |
| `Find`, `Pop`, `PutBack` | the rotation after a rate limit: `index`, `pop`, `append`, with other threads between them |
| `Return` | result or exception |

The budget of tries is left out: no path of the code reaches it. A stream that is
refused with its `stream_options` is called a second time without them
(`llm/client.py:917-926`); the two calls are one here, since each takes and returns its
permit by itself.

## Runs

| Run | Question | Instance | States |
|---|---|---|---|
| `Debounce` | Does the buffer keep every accepted message in one place with a timer that will fire, keep copies apart, carry the platform, balance its metrics, keep to the hard cap, implement the ledger and settle every message? | 4 deliveries: structured data, a captioned picture, a copy of the data under a second key, the same data again on purpose; 2 keys of one chat; arrivals to time 2, clock to 4 | 138,837 |
| `ReplyLock` | Do lock, watchdog, slots and `finally` stay consistent, is nothing answered twice or sent during a cooldown that the store knows of, and does every thread end? | 3 jobs in one chat: one that may hang, its redelivery, a follow-up by another message; 1 slot, 1 retry | 285,174 |
| `PollCycle` | Is a message handled twice only if a mark was lost, is only what was handled marked, do the cursors pass over nothing? | one conversation on both paths, two polite words and, in the second of the latter, a question that is streamed too; limit 1, cache of 3, page of 2, age and window of 1, clock to 2 | 1,223,238 |
| `PollLive` | Does every message get to the handler or to a named loss, or stand behind a full second? | a conversation fetched only by itself, own words between two questions, which fill a page with the first in one second; page of 2, clock to 2 | 41,538 |
| `Blocklist` | Do rows and set agree but by accident, do lasting blocks end by name only, does a reachable conversation become free of a passing block? | a group nobody reaches and a friend, both probed, one at a time; one sender; threshold 1, block after 3 failed sends as in the code, reconciliation in each cycle | 614,397 |
| `ReadGate` | Is what was replied to marked, does the engine's mark never silence it, is nothing sent to a chat surely read? | two chats with two messages and one; the LLM has an answer in the first only; a list of 2 | 594,719 |
| `DeadLetters` | Is a message answered twice only by overlapping replays or a row filed after its answer, lost only by a named path, and does one row of a message wait at most? | one chat, one message, three rows, two requests, of which one replays two rows; one slot, one retry | 454,042 |
| `KbIndex` | But for three accidents, does the index find what the table holds, and never another chunk's vector? | bot and console with a thread each, two chunks, one embedding, three writes, one restart | 1,240,346 |
| `ModelPool` | Is the pool kept, and does a request fail only after each model had its turn, or by a named accident of rotations? | two threads, two models, one fallback, one secondary, two tries, one permit; threads symmetric | 2,014,362 |
| `ReplyPutOff` | counterexample: a message put off for a busy chat "is handled after the previous answer" | three jobs of one chat | |
| `ReadGateStale` | counterexample: "a new message puts its conversation back on the list of unread ones" | as `ReadGate` | |
| `KbReindex` | counterexample: "a new revision of the same number: full rebuild, the old vectors are thrown away" | one process, one chunk, embedded twice | |

The first nine pass. The other three are counterexamples: each states what a
comment says, and TLC finds a run of the code's own steps that does otherwise.
`PROJECT.json` quotes the comments and tells what happens.

**Why the bounds are enough to be interesting.** In `Debounce`, four deliveries
are the fewest that have a batch of several, a cross-key copy, and two equal
texts that are *not* copies of each other, one of them stale; the clock runs
past every window and past the hard cap. In `ReplyLock`, one slot
makes every second thread wait, one retry makes the counter run out, three
threads let the watchdog evict a thread while another is put off. In
`PollCycle`, two messages of one second and a pair that is merged meet a limit
of one, so the same second is fetched again, a group meets its own head
as known, and restarts may hit between any two steps; fetched together with the
question the polite words are merged into it, fetched before it one swallows the other;
with the clock to 2 the first word grows older than age and window allow. In `PollLive`
a page is filled by the messages of one second, or of two. `PollCycle` has no bound on
restarts, failures or cycles; `handled` counts to 2, which tells once from more.
In `Blocklist`, a batch of one with two rows makes the rotation matter: one
conversation stays blocked and is in the way of the other; rows that come and go in
step with the rotation are excepted by the property, so a longer list would add
nothing. Three failed sends tell the code's limit from a block at once, and a failed
send may meet a lasting row before the limit. There is no bound on
restarts, failures or rounds. In `ReadGate`, the second message of a chat lets a
timer be replaced while the old one fires, and the second chat lets the shared
flag and the shared list be written by another thread; a list cut off by its
length does not occur (the proof covers it). In `DeadLetters`, two
requests for the first row are the fewest that race, a second row can be written while
the first is replayed, and a third by a replay of the second: a chain of failures. To
the reply section a replay, which has an id of its own, is what a second message of the
chat would be. In `KbIndex`, three writes suffice to exchange
one chunk for another at the same number, the case that the number alone cannot
tell. Two threads and two models suffice in `ModelPool` for a rotation between the
three steps of another; two tries let a retry be told from a change of model.

Bounds and limits: `LastArrival`, `MaxTime` (Debounce), `MaxTime` (PollCycle), `Most`
(ReadGate), `MaxRevision`, `MaxRestarts` (KbIndex). The constraint `MCNoAccident` of
run `KbIndex` ends a behaviour at its first accident, past which the properties
claim nothing; accidents before it, and all that leads to them, are explored.
`CHECK_DEADLOCK FALSE` is set for `Debounce`, `ReplyLock`, `PollCycle`, `Blocklist`,
`ReadGate` and `DeadLetters`, because each may come to rest: all deliveries settled
with the clock at its bound, all threads done, every message answered and
marked. `KbIndex` and `ModelPool` are checked for deadlock: a thread that waits for
the index lock or a permit always gets on.

## Fairness

* `Debounce`: weak fairness of the clock and of each timer thread. A `Timer`
  that was started runs, and a thread that can run is scheduled. Nothing makes
  messages arrive or the engine stop. `EventuallySettled` excuses an engine that
  was stopped, and a sender who adds to the batch again and again for ever (in the
  finite instance nobody does; `CappedWait` is what bounds the wait there).
* `ReplyLock`: weak fairness of each thread, except for the LLM call of a `Hung`
  job. No fairness of the watchdog's clock, cooldowns or back-offs: the
  threads must end without their help.
* `PollCycle`: weak fairness of the cycle and the stream thread; strong fairness
  of `ListAll` and of `PollConversation`, that is, a channel asked again and again
  answers once, list-all with all or a part of what it should. `EventuallyHandled`
  excuses processes that are restarted, or stores that fail, again and again, and
  messages behind a second that fills a page.
* `Blocklist`: weak fairness of the polling thread, strong fairness of the start
  of a cycle (steps of the console and senders come between) and of a successful
  probe of each reachable conversation: one that can be read answers when it is
  probed again and again. `EventuallyHealed` excuses a process that restarts, or a
  store that fails, for ever, rows that the rules say to keep, and other rows that join
  and leave the probed ones for ever.
* `ReadGate`: weak fairness of the timer threads alone. Messages, the owner and the
  handlers owe nothing.
* `DeadLetters`, `KbIndex`, `ModelPool`: safety only; no fairness.

## Proofs

The theorems hold for every number of deliveries, keys, jobs, chats, slots,
retries, messages, conversations, pages, processes, chunks, threads, models and
limits, all delays and all contents, under the named assumptions on the constants
(sets of actors and messages that are counted are finite). Every invariant and action
property that a passing run checks is proved.

**Debounce.** `IInv` joins the type invariant with what a delivery's fate, its place and
its timer have to do with each other: `JobState` (a batch in work belongs to a `merging`
thread), `OwnKey` (batches hold deliveries of the key of their timer), `Apart` and
`Placed` (a queued delivery is in exactly one place), `Entries` (an entry's data exist),
`OwnTimer` (a registered timer is one of the key), and the properties `LiveTimer` and
`NoTwinsPending`. `LiveTimer` alone is not inductive: that `TakeBatch` by a *late*
thread, which deletes a timer that is not its own, leaves no batch without a timer needs
that it pops the whole batch of the same key, which is `OwnKey` and `Entries`. From
`IInv` follow `TypeOK`, `LiveTimer`, `OneHome`, `NoTwinsPending`, `PlatformCarried`, and
the refinement: each step of the buffer is a step of `DeliveryLedger` or a stutter
(`LedgerStep`). The ledger's `fate` is mapped to `Whereabouts`, which is read off the
buffer and the batches in work, so a delivery that vanished from both would be seen;
`WhereaboutsIsFate` follows from `Placed`. `CappedWait` needs `EntryAge`: the entry of a
key is no younger than what waits in it, although it may stem from a duplicate that was
ignored. For the metrics (`MetricsAddUp`) the invariant is `Balanced`: what was promised
is the batches that wait with the mark, those in work with it and those that were cut,
counted each once. It needs that a thread that holds a marked batch never takes a second
one (`MarkStays`) and that a lost batch or a stopped engine is never undone
(`NeverQuietAgain`).

**ReplyLock.** `IInv` joins the type invariant with `MediaOutside` (media jobs are never
in the section), `OwnerInside`, `SectionOwner` (a thread in the section that was not
evicted owns its chat) and `SlotsConserved`. `OneAtATime` follows from `SectionOwner`.
The two action properties need one more invariant, `TInv`: `TestsHold` (a thread between
its last test and its send still sees what it tested, unless a media job or an evicted
thread is in its chat), `AnswersMarked` (an answered message whose mark the store did
not lose is marked, or the thread that answered is about to mark it) and `SendsCool`
(the same of the time of a send). That `TestsHold` is preserved rests on who may write
`lastReplied` and `cooling` and on such a thread being alone in its section (`Alone`);
the other two are what lets a test of the store say something about answers, though each
write may fail.

**PollCycle.** `IInv` says what each stage leaves behind (`Tidy`), that waiting
merges share no message (`Separate`, from `MergedPartitions`: being linked
within the merge window both ways is an equivalence), that what waits has not
been handled or lost its mark (`WaitingUnknown`), that what was handled is
marked, about to be, or lost its mark (`HandledKnown`, `ActingHandled`), and that
the stream's early marks stand for messages still in the queue, the batch or the
histories (`StreamKept`). For the cursors the property itself is not inductive: a
conversation on both paths has its own cursor moved by list-all too, possibly
over older messages. `Reached` therefore states, by path, what lies behind *the* cursor that
answers for a message: list-all's for a listed conversation, its own for any
other. That a cursor never passes a message that arrives later needs `Past`
(nothing has a time in the future) and the existence of a latest timestamp in
a set of messages (`LatestExists`, from the well-foundedness of `<`).

The media fallback, which answers without the lock, is an empty set in the TLC
instance and arbitrary in the proofs.

**Blocklist.** `TypeOK` relates the rows and their order: what is in `order` is what is
blocked, without repetition (an insertion goes to the end, a removal closes the gap).
`LastingEndsByName` rests on `Harmless`: no row a reconciliation has loaded to free or
to probe is of a chat in `lasting`, because such a chat is blocked for ever when the
rows are loaded, and only the polling thread itself adds to `lasting`, not in the middle
of a reconciliation; what the others write in between leaves a lasting row as it is, or
takes it out of `lasting` by name (`Keeps`). `SkipMatchesRows` needs `Freeing` (a row
found between the two steps that free its conversation was written by the send tool
meanwhile).

**ReadGate.** `IInv` has `Ahead` (a handler works on a message after the last one that
was replied to), `Storable`, `Replied` and `Unique` (timers mark what was replied to,
each message at most one of them), `ReadBy` (what is read was read by the owner, or
replied to), `GenuineLists` (the same of each conversation missing on a list, for the
time the list was made) and `Quiet` (a recheck that found the chat read got a list
without it). `NotByItself` follows from `GenuineLists` and `Ahead`: a
conversation is missing on a list for what the engine has replied to, and the
message that is judged is newer than that.

**DeadLetters.** The rows of a message form a tree: a failed replay of a row files the
next one under that row's id. An id is *spent* when a job of it is past the point where
it could answer, and *over* when one has answered already. `IInv` joins the type
invariant of the table and of the section with `Rows` (a request that has passed the
test of the status has a row, which does not wait any more once the request has left
it), `Marked` (an id a chat was marked with is spent), `SentAnswered` (a job that has
just answered is of an answered message), `OneLife` (but for races, of the ids of a
message one at most is not spent, and when it has been answered all are over, but for
races and rows filed after the answer) and `Tree` (no row is below itself, and in every
set of rows that is closed under failures of a spent id there is one that waits or whose
job may still answer). `TwiceOnlyByName` and `OneRowWaits` follow from `OneLife`,
`LostOnlyByName` from `Tree`. That there are no cycles is what the hard step needs: when
a job ends because its id was answered before, or a row is resolved under a job that
ended long ago, the hope must be found again in the rows below, without the row itself.
Of the reply section the proof needs only what a step does to the place of its job and
to the last replied id (`Course`).

`RepliesThroughTheSection` is the refinement: with messages and pairs of row and request
for its jobs, every step of `DeadLetters` is a step of `ReplyLock`, or none to its
variables (`HandleSection`, `SectionStep`). The theorems about the section can
therefore be read for messages and replays (`SectionProof`, an instance of
`ReplyLockProof` without media jobs). The watchdog of the locks is not among the steps of
`DeadLetters`, so nothing is evicted (`NoneEvicted`), and what the section promises but
for evictions holds without exception: a chat has one job in the section
(`ReplaysWaitTheirTurn`), nothing is answered under an id the store has the mark of, nor
sent by `_send_reply` into a chat whose last answer the store has the time of
(`ReplaysKeepTheirDistance`), and slots and locks come back (`ReplaysReturnTheirSlots`).

**KbIndex.** `FindsWhatIsThere` speaks of a search at its end, so `IInv` has to follow the
index from the moment a chunk is announced. Its parts:

* `Typed` gives each thread the steps its job can be at, and `Locked` the lock
  of a process to the thread that works with its index.
* `Revisions`: each write under way will raise the revision once, and no index is
  under a revision yet to come. When a writer raises it, every index is out
  of date at once, with nothing to be proved about what it holds.
* `Facts`: a deleted chunk does not come back, and a chunk a search knows of
  keeps an embedding as long as it has a row.
* `Sound`: unless the files were torn, the two maps of an index are inverse to
  each other, every id has its own vector, and the two files fit but for
  the time between the replacements of the one and the other (`FilesFit`, `OneBetween`).
* `Current`: unless a build was overtaken, a writer broke off or the files were torn, an
  index under the current revision has every chunk that is announced
  (`Fresh`). It fails while an index that was loaded is being filled (`Loading`),
  and what writers have embedded and not yet announced is no debt (`Announced`). For a
  search, `Found` carries this past its comparison of revisions: up to there what it
  knows of is in an index that will be found current, and from there on it is in its index.

Since rows enter an index in the order of their ids, the proofs need that a finite set
of numbers has such an enumeration (`InOrder`), which follows, without an induction,
from a smallest set that had none (`OrderExists`, by the well-foundedness of `<`). The
step of a thread is proved for each part by itself and for each place the thread can be
at.

**ModelPool.** `IInv` is local for each call of `chat` (`Typed`; `Layered`, what belongs to
the first layer; `Turns`, the models before the one that is tried had their turn;
`Copied`, a copy made in peace has every model of the pool; `Failed`, the promise of
`AskedUnlessRaced`; `Fits`, an index is one of the pool unless a rotation came after
it) and shared in `Copying` (a copy that nothing has disturbed agrees
with the pool so far), `Apart` (each model is in one place) and `Whole` (a model of
the provider is in the pool or held by a rotation). That a pool is never longer than
the models there are (`NoLonger`) is what lets the copy be known to be complete.

**Only model-checked:** the liveness properties (`EventuallySettled`,
`EventuallyDone`, `EventuallyHandled`, `EventuallyHealed`, `EventuallyMarked`), which
need fairness and are out of the prover's reach.

## Further disagreements

Places where code and comment differ, met while modelling, without a run of
their own:

* A batch's time of first arrival (`platform/message_loop.py:348`) is set before the
  duplicate tests return (`:346`): an ignored duplicate leaves an empty entry whose
  time shortens the window of the next batch.
* A batch "must fire within first_seen + HARD_CAP" (`platform/message_loop.py:100-101`),
  but past the cap each message still restarts the timer with a floor of one
  second (`:126`): a sender who writes faster holds up his batch for good
  (`CappedWait`, `EventuallySettled`).
* Shutdown cancels the timers "so that no LLM call and no message follows"
  (`platform/lifecycle.py:40`), but a thread whose timer has fired goes on.
* A thread without a slot in time drops its message (`platform/runtime_inbound.py:506`);
  `:497` and `config_models/platform.py:93` say it is not dropped but handled serially.
* Messages past the dispatch limit are not fetched again in the next round
  (`poller_core_dispatch.py:34` against `:17-18`): they lie behind their cursor.
* A single page of a conversation whose messages are all of one second never advances
  the cursor (`poller_strategy.py:907-910`): no later message of a conversation that only
  this path fetches is seen (`Stuck` of `PollCycle`). "The overlap is removed by msg_id"
  (`:896-899`) holds, but nothing new comes with it.
* Of a group of only polite texts the later ones are neither handled nor marked
  (`poller_core_parse.py:781-784`), though all messages of a merge are said to be
  marked.
* The event stream may repeat a message that a poll has just fetched, for the poll
  marks it later (`poller.py:373` and its comment).
* The first fetch of a conversation begins *now*: `upsert_conversation` writes the
  current time as its last message (`poller_strategy.py:649`) before
  `_compute_last_poll_time` reads it, though "nothing that would be handled is lost"
  (`:494-495`).
* `_register_perm_failure` always returns True, so a threshold of permission errors
  (`poller_core_access.py:418-419`, `config_models/platform.py:185-188`) has no effect.
* A permanent block is "never lifted by the reconciliation"
  (`poller_core_access.py:264-270`), but a failed send that was under way when the poller
  blocked the chat gives the row the reason of a failed send (`tools/chat.py:381-389`) and
  a cooldown of one hour (`:423-431`), and the next reconciliation that reaches the chat
  frees it. `LastingEndsByName` names that.
* The rotation of the probes "covers all over the rounds" (`poller_core_access.py:313`)
  only while the list rests. With five rows, batches of three and the index at four,
  two rows that are freed and blocked again between the rounds make 4 % 3 = 1 of it, and
  then 4 again: the first row is never probed.
* A start that cannot read the blacklist goes on without one (`poller.py:152-153`), and
  the workers of `poll_concurrency` write the blocks of any platform to the table of the
  default platform (`poller_strategy.py:1047-1065`, `platform/base.py:59`): until they are
  blocked again, such conversations are fetched after a restart.
* A replay resolves its row as `replayed` unless the call raised, whatever became of
  the answer (`platform/runtime_llm_reply.py:266-267`), and the batch endpoint counts it
  as a success (`src/web/routers/dead_letters.py:64-67`); the raw message is
  stored as a JSON string, so a replay takes every chat for a single one; letters
  of the sensitive-word filter store the blocked answer instead of the message
  (`platform/runtime_reply_guard.py:144`), and their replay answers a message that has had
  its fallback already; so does the replay of a letter that an error after the answer
  left behind;
  discard and resolve do not test the status.
* `_unread_conv_unknown` is shared between threads without a lock
  (`platform/runtime_inbound.py:265-268`, `config_models/platform.py:182`); two adapters
  return an empty list when they fail (`dws_adapter/chat.py:74-84`,
  `im_adapter/feishu.py:292-305`), which the gate
  takes for "everything is read"; the list ends after 20 conversations.
* With all models cooling and a fallback configured, `chat` raises a RuntimeError and
  not the exception its callers wait for (`llm/client.py:710-726` against `:675-682`,
  `llm/exceptions.py:13-17`); an authorisation error goes on to the next model of the
  pool, where the docstring ends the layer for 401 and 403 (`:566`); the second fallback
  is not tried without a first (`:658`); two rotations at once can move another model or
  raise an IndexError, of which only the ValueError is caught (`:756-759`), and which
  ends the chat before the models after it and both fallbacks were tried
  (`AskedUnlessRaced`); a short cooldown after a timeout replaces a longer one after a
  rate limit; a rate limit while streaming sets no cooldown; `_rebuild_model_pool` has
  no callers.
* An answer whose time or mark cannot be written counts as sent all the same
  (`platform/runtime_dispatch.py:333-358`), an exception after them as a failed send
  (`:377`, `:490`) that is "tried again in the next round"; the fallback for a sensitive
  word and the agent's own send begin no cooldown. Two answers in a row are possible
  then; `NoRepeatedAnswer` and `CooldownSeparates` say so.
* A retried send has a new uuid; the throttle of sends tests and writes in two
  sections though it is called safe across threads; `_mark_shard_processed` knows one
  of the ids a send may return.

## What is not modelled

Text: merging, rules, prompts, retrieval and formatting decide only by their
verdict, which is a free choice. External programs are the environment: they
answer, fail or hang. Sharding of an answer and the throttle are not in
`_send_reply`. The consequences *across* intake, buffer and reply (a message marked
by the poller and lost with the buffer when the process ends, a failed send that
"the next round" would have to retry though the message is marked, a batch that
waits for OCR and is overtaken) are hazards without a property so far; they need
the composition below. Of the engine's life, only the part of `shutdown` that the
buffer meets is modelled; of the console, only the handlers that change what the
engine works with. The agent's loop, skills, schedulers, memory extraction, tool
idempotency, the reader of the event stream, the adapters and the configuration
are listed with their reasons in `PROJECT.json`. Most of the repository's lines
are adapters, prompts, tools, request handlers and schema, without control that
several actors share; the modules cover the rest only in part.

## Plan

Done, in the order in which a message can be lost without a trace: `Debounce`,
`ReplyLock`, `PollCycle`, then what stands beside them: `Blocklist`, `ReadGate`,
`DeadLetters` (with `ReplyLock`), `KbIndex`, `ModelPool`.

1. `ReplyPipeline`: `PollCycle`, `Debounce` and `ReplyLock` composed at the
   granularity of their interfaces, against an abstract specification "every
   message is answered at most once, or let go at a named place", with crash and
   restart; the failed send and the batch lost at shutdown belong here.
2. `SendReply`: shards with partial failure, and the throttle.
3. `Teardown`: threads, stores and the reload of the configuration.
4. `ToolIdempotency`, `EventStream`, the schedulers and the memory extraction, each
   with its own promise.
5. Proof of the refinement of the composition.

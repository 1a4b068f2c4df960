------------------------------ MODULE Debounce ------------------------------
(***************************************************************************)
(* The debounce buffer of the engine: MessageLoopMixin.handle_message and   *)
(* _process_pending_messages (src/src/platform/message_loop.py), and what   *)
(* LifecycleMixin.shutdown does to it (src/src/platform/lifecycle.py).      *)
(*                                                                          *)
(* A poller thread calls handle_message once per fetched copy of a message; *)
(* we call such a call a delivery.  Deliveries with one (chat, sender) key  *)
(* collect in a batch.  Every accepted delivery starts a threading.Timer    *)
(* and cancels the one it replaces, so a delivery also names its timer.  A  *)
(* timer that has fired runs _process_pending_messages in a thread of its   *)
(* own, which may be waiting for _timer_lock when it is "cancelled".        *)
(***************************************************************************)
EXTENDS Deliveries, FiniteSets

CONSTANTS
    None,             \* no timer, no value
    PlatformOf,       \* [Key -> platform whose poller delivers this key]
    ShortDelay,       \* reply_cooldown_seconds + 5
    ImageDelay,       \* reply_cooldown_seconds + 20
    IncompleteDelay,  \* max(reply_cooldown_seconds + 5, 60)
    CapSlack,         \* the 60 s that hard_cap adds to it
    MinDelay,         \* the floor max(1.0, ...) of the delay
    LastArrival,      \* bound: no delivery arrives after this time
    MaxTime           \* bound: the clock stops here

ASSUME NoneAssumption ==
    None \notin Delivery \cup Nat \cup {PlatformOf[k] : k \in Key}

ASSUME TimingAssumption ==
    /\ {LastArrival, MaxTime, CapSlack} \subseteq Nat
    /\ {ShortDelay, ImageDelay, IncompleteDelay, MinDelay} \subseteq Nat \ {0}

VARIABLES
    now,             \* time.time()
    phase,           \* progress of LifecycleMixin.shutdown
    open,            \* keys with an entry in _pending_messages
    pending,         \* _pending_messages: the deliveries of the entry
    firstSeen,       \* _pending_first_seen
    batchPlatform,   \* _pending_platform
    waitFlag,        \* keys with _pending_incomplete_wait
    registered,      \* _pending_timers: the timer the code would cancel
    timer,           \* the state of the Timer each delivery started
    due,             \* when that Timer fires
    arrived,         \* history: when the delivery was accepted
    job,             \* the batch a timer thread has popped
    jobPlatform,     \* its platform_id
    jobWait,         \* timer threads with was_incomplete
    delayCount,      \* _incomplete_delay_count
    firedWith,       \* _incomplete_fired_with_request
    firedWithout,    \* _incomplete_fired_without_request
    fate             \* history: what became of each delivery

clockVars  == <<now, phase>>
bufferVars == <<open, pending, firstSeen, batchPlatform>>
timerVars  == <<registered, timer, due, arrived>>
jobVars    == <<job, jobPlatform, jobWait>>
metricVars == <<delayCount, firedWith, firedWithout>>
vars == <<clockVars, bufferVars, waitFlag, timerVars, jobVars, metricVars, fate>>

Platform   == {PlatformOf[k] : k \in Key}
Phases     == {"running", "stopping", "cancelled", "closed"}
TimerState == {"unborn", "armed", "ready", "merging", "dead"}

TypeOK ==
    /\ now \in Nat
    /\ phase \in Phases
    /\ open \in SUBSET Key
    /\ pending \in [Key -> SUBSET Delivery]
    /\ firstSeen \in [Key -> Nat \cup {None}]
    /\ batchPlatform \in [Key -> Platform \cup {None}]
    /\ waitFlag \in SUBSET Key
    /\ registered \in [Key -> Delivery \cup {None}]
    /\ timer \in [Delivery -> TimerState]
    /\ due \in [Delivery -> Int]
    /\ arrived \in [Delivery -> Nat]
    /\ job \in [Delivery -> SUBSET Delivery]
    /\ jobPlatform \in [Delivery -> Platform \cup {None}]
    /\ jobWait \in SUBSET Delivery
    /\ {delayCount, firedWith, firedWithout} \subseteq Nat
    /\ fate \in [Delivery -> Fates]

-----------------------------------------------------------------------------
(* The three de-duplication loops of handle_message, and                     *)
(* _compute_debounce_delay.                                                 *)

\* mutant: without the cross-channel loop over the other keys of the chat
DuplicateInKeyOnly(d) ==
    \E p \in pending[KeyOf[d]] : MsgId[p] = MsgId[d] \/ SamePhysical(p, d)

\* mutant: same content is enough, however far apart (two equal messages sent
\* on purpose)
DuplicateByContent(d) ==
    \E k \in Key : \E p \in pending[k] : SameChat(p, d) /\ Content[p] = Content[d]

Duplicate(d) ==
    \/ \E p \in pending[KeyOf[d]] : MsgId[p] = MsgId[d] \/ SamePhysical(p, d)
    \/ \E k \in Key : \E p \in pending[k] : SameChat(p, d) /\ SamePhysical(p, d)

Incomplete(batch) ==
    (\E d \in batch : "data" \in Traits[d]) /\ ~HasRequest(batch)

HardCap == IncompleteDelay + CapSlack

AtLeast(a, b) == IF a < b THEN b ELSE a
AtMost(a, b)  == IF a < b THEN a ELSE b

Window(batch) ==
    IF Incomplete(batch) THEN IncompleteDelay
    ELSE IF \A d \in batch : "image" \in Traits[d] THEN ImageDelay
    ELSE ShortDelay

\* _compute_debounce_delay, for a batch whose _pending_first_seen is seen
DebounceDelay(batch, seen) ==
    LET age == IF seen = None THEN 0 ELSE now - seen
    IN  AtMost(Window(batch), AtLeast(MinDelay, HardCap - age))

-----------------------------------------------------------------------------
Init ==
    /\ now = 0
    /\ phase = "running"
    /\ open = {}
    /\ pending = [k \in Key |-> {}]
    /\ firstSeen = [k \in Key |-> None]
    /\ batchPlatform = [k \in Key |-> None]
    /\ waitFlag = {}
    /\ registered = [k \in Key |-> None]
    /\ timer = [d \in Delivery |-> "unborn"]
    /\ due = [d \in Delivery |-> 0]
    /\ arrived = [d \in Delivery |-> 0]
    /\ job = [d \in Delivery |-> {}]
    /\ jobPlatform = [d \in Delivery |-> None]
    /\ jobWait = {}
    /\ delayCount = 0 /\ firedWith = 0 /\ firedWithout = 0
    /\ fate = [d \in Delivery |-> "new"]

\* Timers wake up on time; how late their threads get on is up to TimerThread.
Tick ==
    /\ now < MaxTime
    /\ \A t \in Delivery : timer[t] = "armed" => now < due[t]
    /\ now' = now + 1
    /\ UNCHANGED <<phase, bufferVars, waitFlag, timerVars, jobVars,
                   metricVars, fate>>

-----------------------------------------------------------------------------
(* handle_message, one critical section of _timer_lock.  The entry of the   *)
(* key is created before the duplicate tests, and stays if one of them hits.*)

\* mutant: the entry is labelled with its chat instead of its platform
OpenEntryOfChat(k) ==
    /\ open' = open \cup {k}
    /\ firstSeen' = IF k \in open THEN firstSeen
                    ELSE [firstSeen EXCEPT ![k] = now]
    /\ batchPlatform' = IF k \in open THEN batchPlatform
                        ELSE [batchPlatform EXCEPT ![k] = ChatOf[k]]

\* mutant: the hard cap counts from the last message
OpenEntryAnew(k) ==
    /\ open' = open \cup {k}
    /\ firstSeen' = [firstSeen EXCEPT ![k] = now]
    /\ batchPlatform' = IF k \in open THEN batchPlatform
                        ELSE [batchPlatform EXCEPT ![k] = PlatformOf[k]]

OpenEntry(k) ==
    /\ open' = open \cup {k}
    /\ firstSeen' = IF k \in open THEN firstSeen
                    ELSE [firstSeen EXCEPT ![k] = now]
    /\ batchPlatform' = IF k \in open THEN batchPlatform
                        ELSE [batchPlatform EXCEPT ![k] = PlatformOf[k]]

\* mutant: the copy cancels the timer of the batch and starts none
IgnoreCancelling(d) ==
    /\ fate[d] = "new" /\ now <= LastArrival
    /\ Duplicate(d)
    /\ OpenEntry(KeyOf[d])
    /\ fate' = [fate EXCEPT ![d] = "ignored"]
    /\ timer' = [t \in Delivery |->
                    IF t = registered[KeyOf[d]] /\ timer[t] = "armed"
                    THEN "dead" ELSE timer[t]]
    /\ UNCHANGED <<clockVars, pending, waitFlag, registered, due, arrived, jobVars,
                   metricVars>>

Ignore(d) ==
    /\ fate[d] = "new" /\ now <= LastArrival
    /\ Duplicate(d)
    /\ OpenEntry(KeyOf[d])
    /\ fate' = [fate EXCEPT ![d] = "ignored"]
    /\ UNCHANGED <<clockVars, pending, waitFlag, timerVars, jobVars,
                   metricVars>>

\* mutant: every incomplete arrival counts, also into a batch that waits
CountEachWait(k, batch) ==
    /\ waitFlag' = IF Incomplete(batch) THEN waitFlag \cup {k} ELSE waitFlag
    /\ delayCount' = IF Incomplete(batch) THEN delayCount + 1 ELSE delayCount

\* a batch that waits for its request is counted once
CountWait(k, batch) ==
    /\ waitFlag' = IF Incomplete(batch) THEN waitFlag \cup {k} ELSE waitFlag
    /\ delayCount' = IF Incomplete(batch) /\ k \notin waitFlag
                     THEN delayCount + 1 ELSE delayCount

Enqueue(d) ==
    LET k == KeyOf[d]
        batch == pending[k] \cup {d}
    IN
    /\ fate[d] = "new" /\ now <= LastArrival
    /\ ~Duplicate(d)
    /\ OpenEntry(k)
    /\ pending' = [pending EXCEPT ![k] = batch]
    /\ registered' = [registered EXCEPT ![k] = d]
    /\ timer' = [t \in Delivery |->
                    IF t = d THEN "armed"
                    ELSE IF t = registered[k] /\ timer[t] = "armed"
                    THEN "dead"      \* Timer.cancel(): no effect once fired
                    ELSE timer[t]]
    /\ due' = [due EXCEPT ![d] = now + DebounceDelay(batch, firstSeen'[k])]
    /\ arrived' = [arrived EXCEPT ![d] = now]
    /\ CountWait(k, batch)
    /\ fate' = [fate EXCEPT ![d] = "queued"]
    /\ UNCHANGED <<clockVars, jobVars, firedWith, firedWithout>>

-----------------------------------------------------------------------------
(* _process_pending_messages, in the thread of timer t.                     *)

\* the Timer comes due and its thread passes the _running test ...
Fire(t) ==
    /\ timer[t] = "armed" /\ due[t] <= now
    /\ phase = "running"
    /\ timer' = [timer EXCEPT ![t] = "ready"]
    /\ UNCHANGED <<clockVars, bufferVars, waitFlag, registered, due, arrived, jobVars,
                   metricVars, fate>>

\* ... or fails it and returns, leaving the batch where it is
FireStopped(t) ==
    /\ timer[t] = "armed" /\ due[t] <= now
    /\ phase # "running"
    /\ timer' = [timer EXCEPT ![t] = "dead"]
    /\ UNCHANGED <<clockVars, bufferVars, waitFlag, registered, due, arrived, jobVars,
                   metricVars, fate>>

\* the critical section: forget the registered timer, whosever it is, and pop
\* the entry.  No entry, or an empty one, ends the thread.
TakeNothing(t) ==
    /\ timer[t] = "ready" /\ KeyOf[t] \notin open
    /\ registered' = [registered EXCEPT ![KeyOf[t]] = None]
    /\ timer' = [timer EXCEPT ![t] = "dead"]
    /\ UNCHANGED <<clockVars, bufferVars, waitFlag, due, arrived, jobVars, metricVars,
                   fate>>

\* mutant: the batch is read but not popped
TakeBatchUnpopped(t) ==
    LET k == KeyOf[t] IN
    /\ timer[t] = "ready" /\ k \in open
    /\ registered' = [registered EXCEPT ![k] = None]
    /\ batchPlatform' = [batchPlatform EXCEPT ![k] = None]
    /\ firstSeen' = [firstSeen EXCEPT ![k] = None]
    /\ waitFlag' = waitFlag \ {k}
    /\ job' = [job EXCEPT ![t] = pending[k]]
    /\ jobPlatform' = [jobPlatform EXCEPT ![t] = batchPlatform[k]]
    /\ jobWait' = IF k \in waitFlag THEN jobWait \cup {t} ELSE jobWait
    /\ timer' = [timer EXCEPT ![t] = IF pending[k] = {} THEN "dead" ELSE "merging"]
    /\ UNCHANGED <<clockVars, open, pending, due, arrived, metricVars, fate>>

TakeBatch(t) ==
    LET k == KeyOf[t] IN
    /\ timer[t] = "ready" /\ k \in open
    /\ registered' = [registered EXCEPT ![k] = None]
    /\ open' = open \ {k}
    /\ pending' = [pending EXCEPT ![k] = {}]
    /\ batchPlatform' = [batchPlatform EXCEPT ![k] = None]
    /\ firstSeen' = [firstSeen EXCEPT ![k] = None]
    /\ waitFlag' = waitFlag \ {k}
    /\ job' = [job EXCEPT ![t] = pending[k]]
    /\ jobPlatform' = [jobPlatform EXCEPT ![t] = batchPlatform[k]]
    /\ jobWait' = IF k \in waitFlag THEN jobWait \cup {t} ELSE jobWait
    /\ timer' = [timer EXCEPT ![t] = IF pending[k] = {} THEN "dead" ELSE "merging"]
    /\ UNCHANGED <<clockVars, due, arrived, metricVars, fate>>

\* The OCR wait is over: drop stale deliveries, merge the rest, call
\* _handle_message_impl (whose exceptions are swallowed).  OCR text of an
\* image may turn out to hold a request verb.
HandOver(t) ==
    LET fresh == Fresh(job[t])
    IN
    /\ timer[t] = "merging"
    /\ fate' = [d \in Delivery |-> IF d \notin job[t] THEN fate[d]
                                   ELSE IF d \in fresh THEN "handed" ELSE "stale"]
    /\ IF t \in jobWait
       THEN \/ /\ HasRequest(fresh) \/ HasImage(fresh)
               /\ firedWith' = firedWith + 1 /\ UNCHANGED firedWithout
            \/ /\ ~HasRequest(fresh)
               /\ firedWithout' = firedWithout + 1 /\ UNCHANGED firedWith
       ELSE UNCHANGED <<firedWith, firedWithout>>
    /\ timer' = [timer EXCEPT ![t] = "dead"]
    /\ job' = [job EXCEPT ![t] = {}]
    /\ jobWait' = jobWait \ {t}
    /\ UNCHANGED <<clockVars, bufferVars, waitFlag, registered, due, arrived,
                   jobPlatform, delayCount>>

\* wait_for_ocr re-raises what the OCR task raised unless it is a Timeout-,
\* Runtime- or OSError: a sqlite3 error of its write-back ends the thread.
OcrFails(t) ==
    /\ timer[t] = "merging" /\ HasImage(job[t])
    /\ fate' = [d \in Delivery |-> IF d \in job[t] THEN "lost" ELSE fate[d]]
    /\ timer' = [timer EXCEPT ![t] = "dead"]
    /\ job' = [job EXCEPT ![t] = {}]
    /\ jobWait' = jobWait \ {t}
    /\ UNCHANGED <<clockVars, bufferVars, waitFlag, registered, due, arrived,
                   jobPlatform, metricVars>>

-----------------------------------------------------------------------------
(* Shutdown.  Poller threads are told to stop but not joined: they may still*)
(* deliver, so Ignore and Enqueue do not look at phase.                     *)

StopRunning ==
    /\ phase = "running"
    /\ phase' = "stopping"
    /\ UNCHANGED <<now, bufferVars, waitFlag, timerVars, jobVars, metricVars,
                   fate>>

\* mutant: the platforms are cleared with the other tables of the buffer
CancelTimersAndPlatforms ==
    /\ phase = "stopping"
    /\ phase' = "cancelled"
    /\ timer' = [t \in Delivery |-> IF t = registered[KeyOf[t]] /\ timer[t] = "armed"
                                    THEN "dead" ELSE timer[t]]
    /\ registered' = [k \in Key |-> None]
    /\ firstSeen' = [k \in Key |-> None]
    /\ batchPlatform' = [k \in Key |-> None]
    /\ waitFlag' = {}
    /\ UNCHANGED <<now, open, pending, due, arrived, jobVars, metricVars, fate>>

CancelTimers ==
    /\ phase = "stopping"
    /\ phase' = "cancelled"
    /\ timer' = [t \in Delivery |-> IF t = registered[KeyOf[t]] /\ timer[t] = "armed"
                                    THEN "dead" ELSE timer[t]]
    /\ registered' = [k \in Key |-> None]
    /\ firstSeen' = [k \in Key |-> None]
    /\ waitFlag' = {}
    /\ UNCHANGED <<now, open, pending, batchPlatform, due, arrived, jobVars, metricVars,
                   fate>>

CloseStore ==
    /\ phase = "cancelled"
    /\ phase' = "closed"
    /\ UNCHANGED <<now, bufferVars, waitFlag, timerVars, jobVars, metricVars,
                   fate>>

-----------------------------------------------------------------------------
HandleMessage(d) == Ignore(d) \/ Enqueue(d)

TimerThread(t) ==
    \/ Fire(t)
    \/ FireStopped(t)
    \/ TakeNothing(t)
    \/ TakeBatch(t)
    \/ HandOver(t)
    \/ OcrFails(t)

Shutdown == StopRunning \/ CancelTimers \/ CloseStore

Next ==
    \/ Tick
    \/ \E d \in Delivery : HandleMessage(d)
    \/ \E t \in Delivery : TimerThread(t)
    \/ Shutdown

Spec == Init /\ [][Next]_vars

(* Time passes, and a thread that can run is eventually scheduled.  Nothing *)
(* makes deliveries arrive or the engine shut down.                         *)
Fairness ==
    /\ WF_vars(Tick)
    /\ \A t \in Delivery : WF_vars(TimerThread(t))

FairSpec == Spec /\ Fairness

-----------------------------------------------------------------------------
(* Properties.                                                              *)

\* What the ledger is told of a delivery: that it is queued if the buffer or a
\* timer thread holds it, and nothing it knows if it is queued and nobody does.
Whereabouts ==
    [d \in Delivery |->
        IF (\E k \in Key : d \in pending[k]) \/ (\E t \in Delivery : d \in job[t])
        THEN "queued"
        ELSE IF fate[d] = "queued" THEN "nowhere" ELSE fate[d]]

Ledger == INSTANCE DeliveryLedger WITH fate <- Whereabouts

\* While the engine runs, a key with waiting deliveries always has a timer it
\* knows of and that will still pop them: no path through de-duplication,
\* cancellation and late timer threads leaves a batch with nobody to fire it.
LiveTimer ==
    phase = "running" =>
        \A k \in Key : pending[k] # {} =>
            /\ registered[k] # None
            /\ KeyOf[registered[k]] = k
            /\ timer[registered[k]] \in {"armed", "ready"}

\* An accepted delivery is in the buffer or in the batch of one timer thread,
\* never in both, never in two batches, and nothing else is in them: no
\* interleaving of handle_message and timer threads answers a delivery twice
\* or drops it between the pop and the merge.
OneHome ==
    \A d \in Delivery :
        /\ (\E k \in Key : d \in pending[k]) =>
               \A t \in Delivery : d \notin job[t]
        /\ \A t, u \in Delivery : d \in job[t] /\ d \in job[u] => t = u
        /\ fate[d] = "queued" <=>
               (d \in pending[KeyOf[d]] \/ \E t \in Delivery : d \in job[t])

\* Two copies of one physical message never wait side by side in one chat, nor
\* one msg_id twice under one key, however their keys and ids were built.
NoTwinsPending ==
    \A k, l \in Key : \A p \in pending[k] : \A q \in pending[l] :
        p # q => /\ ~(SameChat(p, q) /\ SamePhysical(p, q))
                 /\ k = l => MsgId[p] # MsgId[q]

\* A timer thread, which inherits no context, restores the platform whose
\* poller delivered the batch, also when it pops a batch that is not the one it
\* was started for, and also during shutdown.
PlatformCarried ==
    /\ \A k \in Key : pending[k] # {} => batchPlatform[k] = PlatformOf[k]
    /\ \A t \in Delivery : timer[t] = "merging" =>
           jobPlatform[t] = PlatformOf[KeyOf[t]]

\* The incomplete-wait metrics balance: every batch counted as delayed is still
\* waiting, being merged, or counted in one of the two outcomes; only a lost
\* batch or a shutdown leaves a difference.
MetricsAddUp ==
    LET settled == firedWith + firedWithout + Cardinality(waitFlag) + Cardinality(jobWait)
    IN  /\ settled <= delayCount
        /\ (phase = "running" /\ \A d \in Delivery : fate[d] # "lost")
               => settled = delayCount

\* The buffer with its threads and its clock implements the ledger: what the
\* buffer and the timer threads hold is what the ledger has queued, it gets there
\* once, and leaves whole, with a batch of its key (message_loop.py:437-490).
Implements == Ledger!LedgerSpec

\* However timers replace each other, late threads pop, and copies leave empty
\* entries behind, no delivery waits for its timer past the hard cap, unless the
\* last message of its batch came within MinDelay of the cap or later: the floor
\* of the delay lets a sender who goes on writing hold up the batch for good.
CappedWait ==
    phase = "running" =>
        \A k \in Key : \A d \in pending[k] :
            LET t == registered[k]
            IN  timer[t] = "armed" =>
                    due[t] <= AtLeast(arrived[d] + HardCap, arrived[t] + MinDelay)

\* Whatever the timer threads do, an accepted delivery is handed over, discarded as
\* stale or lost in OCR, unless the engine stops, or its sender keeps on adding
\* to the batch for good.
EventuallySettled ==
    \A d \in Delivery :
        \/ fate[d] = "queued" ~> (fate[d] # "queued" \/ phase # "running")
        \/ []<><<\E e \in Delivery : KeyOf[e] = KeyOf[d] /\ Enqueue(e)>>_vars
=============================================================================

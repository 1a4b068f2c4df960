--------------------------- MODULE DebounceProof ----------------------------
(***************************************************************************)
(* Proofs about the debounce buffer, for every set of deliveries and keys,  *)
(* every delay and every bound of the clock.                                *)
(***************************************************************************)
EXTENDS Debounce, FiniteSetTheorems, TLAPS

-----------------------------------------------------------------------------
(* The inductive invariant.                                                 *)

\* a merging thread is one with a batch; a delivery not yet made has no timer
JobState ==
    /\ \A t \in Delivery : timer[t] = "merging" <=> job[t] # {}
    /\ \A d \in Delivery : fate[d] = "new" => timer[d] = "unborn"

\* what is in the buffer or in a batch is queued and under its own key
OwnKey ==
    /\ \A k \in Key : \A d \in pending[k] : KeyOf[d] = k /\ fate[d] = "queued"
    /\ \A t \in Delivery : \A d \in job[t] :
           KeyOf[d] = KeyOf[t] /\ fate[d] = "queued"

\* no delivery has two places
Apart ==
    /\ \A t \in Delivery : \A d \in job[t] : d \notin pending[KeyOf[d]]
    /\ \A t, u \in Delivery : \A d \in job[t] : d \in job[u] => t = u

\* no accepted delivery is without a place
Placed ==
    \A d \in Delivery : fate[d] = "queued" =>
        d \in pending[KeyOf[d]] \/ \E t \in Delivery : d \in job[t]

\* an entry that holds deliveries is open, an open entry knows its platform
Entries ==
    /\ \A k \in Key : pending[k] # {} => k \in open
    /\ \A k \in Key : k \in open => batchPlatform[k] = PlatformOf[k]
    /\ \A t \in Delivery : timer[t] = "merging" => jobPlatform[t] = PlatformOf[KeyOf[t]]

\* a key never has the timer of another key registered
OwnTimer ==
    \A k \in Key : registered[k] # None => KeyOf[registered[k]] = k

IInv ==
    /\ TypeOK
    /\ JobState
    /\ OwnKey
    /\ Apart
    /\ Placed
    /\ Entries
    /\ OwnTimer
    /\ LiveTimer
    /\ NoTwinsPending

-----------------------------------------------------------------------------
LEMMA DelayType ==
    ASSUME TypeOK, NEW batch, NEW seen \in Nat \cup {None}
    PROVE  DebounceDelay(batch, seen) \in Int
<1>1. now \in Int /\ (seen # None => seen \in Int)
    BY NoneAssumption DEF TypeOK
<1>2. Window(batch) \in Int
    BY TimingAssumption DEF Window
<1>3. HardCap \in Int /\ MinDelay \in Int
    BY TimingAssumption DEF HardCap
<1> QED
    BY <1>1, <1>2, <1>3 DEF DebounceDelay, AtMost, AtLeast

\* Init establishes the invariant.
LEMMA InitInvariant == Init => IInv
<1> SUFFICES ASSUME Init PROVE IInv
    OBVIOUS
<1> USE DeliveryAssumption, NoneAssumption DEF Init
<1>1. TypeOK
    BY DEF TypeOK, Phases, TimerState, Fates
<1>2. JobState /\ OwnKey /\ Apart /\ Placed /\ Entries /\ OwnTimer
    BY DEF JobState, OwnKey, Apart, Placed, Entries, OwnTimer
<1>3. LiveTimer /\ NoTwinsPending
    BY DEF LiveTimer, NoTwinsPending
<1> QED
    BY <1>1, <1>2, <1>3 DEF IInv

\* Every step keeps every variable in its type.
LEMMA TypeStep ==
    ASSUME TypeOK, [Next]_vars
    PROVE  TypeOK'
<1> USE DeliveryAssumption DEF TypeOK, clockVars, bufferVars, timerVars, jobVars, metricVars
<1>1. CASE Tick
    BY <1>1 DEF Tick
<1>2. ASSUME NEW d \in Delivery, Ignore(d) PROVE TypeOK'
    BY <1>2 DEF Ignore, OpenEntry, Fates, Platform
<1>3. ASSUME NEW d \in Delivery, Enqueue(d) PROVE TypeOK'
    <2> DEFINE k == KeyOf[d]
               batch == pending[k] \cup {d}
    <2>1. k \in Key /\ firstSeen' \in [Key -> Nat \cup {None}]
          /\ open' \in SUBSET Key /\ batchPlatform' \in [Key -> Platform \cup {None}]
        BY <1>3 DEF Enqueue, OpenEntry, Platform
    <2>2. DebounceDelay(batch, firstSeen'[k]) \in Int
        BY <2>1, DelayType
    <2>3. due' \in [Delivery -> Int]
        <3>1. now + DebounceDelay(batch, firstSeen'[k]) \in Int
            <4> HIDE DEF batch
            <4> QED BY <2>2
        <3> HIDE DEF batch
        <3>2. due' = [due EXCEPT ![d] = now + DebounceDelay(batch, firstSeen'[k])]
            BY <1>3 DEF Enqueue, batch
        <3> QED
            BY <3>1, <3>2
    <2>9. arrived' \in [Delivery -> Nat]
        BY <1>3 DEF Enqueue
    <2>4. pending' \in [Key -> SUBSET Delivery] /\ registered' \in [Key -> Delivery \cup {None}]
        BY <1>3, <2>1 DEF Enqueue
    <2>5. timer' \in [Delivery -> TimerState]
        BY <1>3 DEF Enqueue, TimerState
    <2>6. waitFlag' \in SUBSET Key /\ delayCount' \in Nat
        BY <1>3, <2>1 DEF Enqueue, CountWait
    <2>7. fate' \in [Delivery -> Fates]
        BY <1>3 DEF Enqueue, Fates
    <2>8. UNCHANGED <<now, phase, job, jobPlatform, jobWait, firedWith, firedWithout>>
        BY <1>3 DEF Enqueue
    <2> QED
        BY <2>1, <2>3, <2>4, <2>5, <2>6, <2>7, <2>8, <2>9
<1>4. ASSUME NEW t \in Delivery, Fire(t) PROVE TypeOK'
    BY <1>4 DEF Fire, TimerState
<1>5. ASSUME NEW t \in Delivery, FireStopped(t) PROVE TypeOK'
    BY <1>5 DEF FireStopped, TimerState
<1>6. ASSUME NEW t \in Delivery, TakeNothing(t) PROVE TypeOK'
    BY <1>6 DEF TakeNothing, TimerState
<1>7. ASSUME NEW t \in Delivery, TakeBatch(t) PROVE TypeOK'
    BY <1>7 DEF TakeBatch, TimerState
<1>8. ASSUME NEW t \in Delivery, HandOver(t) PROVE TypeOK'
    BY <1>8 DEF HandOver, TimerState, Fates
<1>9. ASSUME NEW t \in Delivery, OcrFails(t) PROVE TypeOK'
    BY <1>9 DEF OcrFails, TimerState, Fates
<1>10. CASE StopRunning
    BY <1>10 DEF StopRunning, Phases
<1>11. CASE CancelTimers
    BY <1>11 DEF CancelTimers, Phases, TimerState
<1>12. CASE CloseStore
    BY <1>12 DEF CloseStore, Phases
<1>13. CASE UNCHANGED vars
    BY <1>13 DEF vars
<1> QED
    BY <1>1, <1>2, <1>3, <1>4, <1>5, <1>6, <1>7, <1>8, <1>9, <1>10, <1>11,
       <1>12, <1>13 DEF Next, HandleMessage, TimerThread, Shutdown

-----------------------------------------------------------------------------
(* Every step keeps the rest of the invariant: one lemma per conjunct, one   *)
(* step per action.                                                         *)

\* What a delivery that is being made has not got yet.
LEMMA NewDelivery ==
    ASSUME IInv, NEW d \in Delivery, fate[d] = "new"
    PROVE  /\ timer[d] = "unborn" /\ job[d] = {}
           /\ \A k \in Key : d \notin pending[k]
           /\ \A t \in Delivery : d \notin job[t]
BY DEF IInv, JobState, OwnKey

LEMMA JobStateStep ==
    ASSUME IInv, [Next]_vars
    PROVE  JobState'
<1> USE DeliveryAssumption DEF IInv, JobState, TypeOK, clockVars, bufferVars,
        timerVars, jobVars, metricVars
<1>1. CASE Tick
    BY <1>1 DEF Tick
<1>2. ASSUME NEW d \in Delivery, Ignore(d) PROVE JobState'
    BY <1>2 DEF Ignore
<1>3. ASSUME NEW d \in Delivery, Enqueue(d) PROVE JobState'
    <2>1. timer[d] = "unborn" /\ job[d] = {} /\ job' = job
        BY <1>3, NewDelivery DEF Enqueue
    <2>2. \A t \in Delivery : t # d => fate'[t] = fate[t]
        BY <1>3 DEF Enqueue
    <2>3. \A t \in Delivery : t # d =>
              \/ timer'[t] = timer[t]
              \/ timer[t] = "armed" /\ timer'[t] = "dead"
        BY <1>3 DEF Enqueue
    <2>4. fate'[d] = "queued" /\ timer'[d] = "armed"
        BY <1>3 DEF Enqueue
    <2> QED
        BY <2>1, <2>2, <2>3, <2>4
<1>4. ASSUME NEW t \in Delivery, Fire(t) PROVE JobState'
    BY <1>4 DEF Fire
<1>5. ASSUME NEW t \in Delivery, FireStopped(t) PROVE JobState'
    BY <1>5 DEF FireStopped
<1>6. ASSUME NEW t \in Delivery, TakeNothing(t) PROVE JobState'
    BY <1>6 DEF TakeNothing
<1>7. ASSUME NEW t \in Delivery, TakeBatch(t) PROVE JobState'
    BY <1>7 DEF TakeBatch
<1>8. ASSUME NEW t \in Delivery, HandOver(t) PROVE JobState'
    BY <1>8 DEF HandOver, OwnKey
<1>9. ASSUME NEW t \in Delivery, OcrFails(t) PROVE JobState'
    BY <1>9 DEF OcrFails, OwnKey
<1>10. CASE StopRunning
    BY <1>10 DEF StopRunning
<1>11. CASE CancelTimers
    BY <1>11 DEF CancelTimers
<1>12. CASE CloseStore
    BY <1>12 DEF CloseStore
<1>13. CASE UNCHANGED vars
    BY <1>13 DEF vars
<1> QED
    BY <1>1, <1>2, <1>3, <1>4, <1>5, <1>6, <1>7, <1>8, <1>9, <1>10, <1>11,
       <1>12, <1>13 DEF Next, HandleMessage, TimerThread, Shutdown

LEMMA PlacesStep ==
    ASSUME IInv, [Next]_vars
    PROVE  OwnKey' /\ Apart' /\ Placed'
<1> USE DeliveryAssumption DEF IInv, OwnKey, Apart, Placed, TypeOK, clockVars,
        bufferVars, timerVars, jobVars, metricVars
<1>0. ASSUME UNCHANGED <<pending, job, fate>> PROVE OwnKey' /\ Apart' /\ Placed'
    BY <1>0
<1>1. CASE Tick
    BY <1>0, <1>1 DEF Tick
<1>2. ASSUME NEW d \in Delivery, Ignore(d) PROVE OwnKey' /\ Apart' /\ Placed'
    <2>1. fate[d] = "new" /\ UNCHANGED <<pending, job>>
          /\ fate' = [fate EXCEPT ![d] = "ignored"]
        BY <1>2 DEF Ignore
    <2> QED
        BY <2>1, NewDelivery
<1>3. ASSUME NEW d \in Delivery, Enqueue(d) PROVE OwnKey' /\ Apart' /\ Placed'
    <2>1. fate[d] = "new" /\ UNCHANGED job
          /\ fate' = [fate EXCEPT ![d] = "queued"]
          /\ pending' = [pending EXCEPT ![KeyOf[d]] = pending[KeyOf[d]] \cup {d}]
        BY <1>3 DEF Enqueue
    <2>2. \A t \in Delivery : d \notin job[t]
        BY <2>1, NewDelivery
    <2>3. OwnKey'
        BY <2>1, <2>2
    <2>4. Apart'
        BY <2>1, <2>2
    <2>5. Placed'
        BY <2>1
    <2> QED
        BY <2>3, <2>4, <2>5
<1>4. ASSUME NEW t \in Delivery, Fire(t) PROVE OwnKey' /\ Apart' /\ Placed'
    BY <1>0, <1>4 DEF Fire
<1>5. ASSUME NEW t \in Delivery, FireStopped(t) PROVE OwnKey' /\ Apart' /\ Placed'
    BY <1>0, <1>5 DEF FireStopped
<1>6. ASSUME NEW t \in Delivery, TakeNothing(t) PROVE OwnKey' /\ Apart' /\ Placed'
    BY <1>0, <1>6 DEF TakeNothing
<1>7. ASSUME NEW t \in Delivery, TakeBatch(t) PROVE OwnKey' /\ Apart' /\ Placed'
    <2>1. /\ pending' = [pending EXCEPT ![KeyOf[t]] = {}]
          /\ job' = [job EXCEPT ![t] = pending[KeyOf[t]]]
          /\ fate' = fate /\ timer[t] = "ready"
        BY <1>7 DEF TakeBatch
    <2>2. job[t] = {}
        BY <2>1 DEF JobState
    <2>3. OwnKey'
        BY <2>1, <2>2
    <2>4. Apart'
        BY <2>1, <2>2
    <2>5. Placed'
        BY <2>1, <2>2
    <2> QED
        BY <2>3, <2>4, <2>5
<1>8. ASSUME NEW t \in Delivery, HandOver(t) PROVE OwnKey' /\ Apart' /\ Placed'
    <2>1. /\ pending' = pending /\ job' = [job EXCEPT ![t] = {}]
          /\ \A d \in Delivery : d \notin job[t] => fate'[d] = fate[d]
          /\ \A d \in job[t] : fate'[d] # "queued"
        BY <1>8 DEF HandOver
    <2> QED
        BY <2>1
<1>9. ASSUME NEW t \in Delivery, OcrFails(t) PROVE OwnKey' /\ Apart' /\ Placed'
    <2>1. /\ pending' = pending /\ job' = [job EXCEPT ![t] = {}]
          /\ \A d \in Delivery : d \notin job[t] => fate'[d] = fate[d]
          /\ \A d \in job[t] : fate'[d] # "queued"
        BY <1>9 DEF OcrFails
    <2> QED
        BY <2>1
<1>10. CASE StopRunning
    BY <1>0, <1>10 DEF StopRunning
<1>11. CASE CancelTimers
    BY <1>0, <1>11 DEF CancelTimers
<1>12. CASE CloseStore
    BY <1>0, <1>12 DEF CloseStore
<1>13. CASE UNCHANGED vars
    BY <1>0, <1>13 DEF vars
<1> QED
    BY <1>1, <1>2, <1>3, <1>4, <1>5, <1>6, <1>7, <1>8, <1>9, <1>10, <1>11,
       <1>12, <1>13 DEF Next, HandleMessage, TimerThread, Shutdown

LEMMA EntriesStep ==
    ASSUME IInv, [Next]_vars
    PROVE  Entries' /\ OwnTimer'
<1> USE DeliveryAssumption, NoneAssumption DEF IInv, Entries, OwnTimer, TypeOK,
        clockVars, bufferVars, timerVars, jobVars, metricVars
<1>1. CASE Tick
    BY <1>1 DEF Tick
<1>2. ASSUME NEW d \in Delivery, Ignore(d) PROVE Entries' /\ OwnTimer'
    BY <1>2 DEF Ignore, OpenEntry
<1>3. ASSUME NEW d \in Delivery, Enqueue(d) PROVE Entries' /\ OwnTimer'
    <2>1. pending' = [pending EXCEPT ![KeyOf[d]] = pending[KeyOf[d]] \cup {d}]
          /\ OpenEntry(KeyOf[d]) /\ registered' = [registered EXCEPT ![KeyOf[d]] = d]
          /\ jobPlatform' = jobPlatform
        BY <1>3 DEF Enqueue
    <2>2. \A t \in Delivery : timer'[t] = "merging" => timer[t] = "merging"
        BY <1>3 DEF Enqueue
    <2>3. Entries'
        BY <2>1, <2>2 DEF OpenEntry
    <2>4. OwnTimer'
        BY <2>1
    <2> QED
        BY <2>3, <2>4
<1>4. ASSUME NEW t \in Delivery, Fire(t) PROVE Entries' /\ OwnTimer'
    BY <1>4 DEF Fire
<1>5. ASSUME NEW t \in Delivery, FireStopped(t) PROVE Entries' /\ OwnTimer'
    BY <1>5 DEF FireStopped
<1>6. ASSUME NEW t \in Delivery, TakeNothing(t) PROVE Entries' /\ OwnTimer'
    BY <1>6 DEF TakeNothing
<1>7. ASSUME NEW t \in Delivery, TakeBatch(t) PROVE Entries' /\ OwnTimer'
    BY <1>7 DEF TakeBatch
<1>8. ASSUME NEW t \in Delivery, HandOver(t) PROVE Entries' /\ OwnTimer'
    BY <1>8 DEF HandOver
<1>9. ASSUME NEW t \in Delivery, OcrFails(t) PROVE Entries' /\ OwnTimer'
    BY <1>9 DEF OcrFails
<1>10. CASE StopRunning
    BY <1>10 DEF StopRunning
<1>11. CASE CancelTimers
    BY <1>11 DEF CancelTimers
<1>12. CASE CloseStore
    BY <1>12 DEF CloseStore
<1>13. CASE UNCHANGED vars
    BY <1>13 DEF vars
<1> QED
    BY <1>1, <1>2, <1>3, <1>4, <1>5, <1>6, <1>7, <1>8, <1>9, <1>10, <1>11,
       <1>12, <1>13 DEF Next, HandleMessage, TimerThread, Shutdown

LEMMA LiveTimerStep ==
    ASSUME IInv, [Next]_vars
    PROVE  LiveTimer'
<1> USE DeliveryAssumption, NoneAssumption DEF IInv, LiveTimer, TypeOK, clockVars,
        bufferVars, timerVars, jobVars, metricVars
<1>1. CASE Tick
    BY <1>1 DEF Tick
<1>2. ASSUME NEW d \in Delivery, Ignore(d) PROVE LiveTimer'
    BY <1>2 DEF Ignore
<1>3. ASSUME NEW d \in Delivery, Enqueue(d) PROVE LiveTimer'
    <2>1. /\ pending' = [pending EXCEPT ![KeyOf[d]] = pending[KeyOf[d]] \cup {d}]
          /\ registered' = [registered EXCEPT ![KeyOf[d]] = d]
          /\ phase' = phase /\ timer'[d] = "armed"
        BY <1>3 DEF Enqueue
    <2>2. \A t \in Delivery : t # d /\ t # registered[KeyOf[d]] => timer'[t] = timer[t]
        BY <1>3 DEF Enqueue
    <2>3. ASSUME NEW k \in Key, phase' = "running", pending'[k] # {}
          PROVE  /\ registered'[k] # None
                 /\ KeyOf[registered'[k]] = k
                 /\ timer'[registered'[k]] \in {"armed", "ready"}
        <3>1. CASE k = KeyOf[d]
            BY <2>1, <3>1
        <3>2. CASE k # KeyOf[d]
            <4>1. /\ registered'[k] = registered[k] /\ registered[k] \in Delivery
                  /\ KeyOf[registered[k]] = k
                  /\ timer[registered[k]] \in {"armed", "ready"}
                BY <2>1, <2>3, <3>2
            <4>2. registered[k] # d /\ registered[k] # registered[KeyOf[d]]
                BY <3>2, <4>1 DEF OwnTimer
            <4> QED
                BY <2>2, <4>1, <4>2
        <3> QED
            BY <3>1, <3>2
    <2> QED
        BY <2>3
<1>4. ASSUME NEW t \in Delivery, Fire(t) PROVE LiveTimer'
    BY <1>4 DEF Fire
<1>5. ASSUME NEW t \in Delivery, FireStopped(t) PROVE LiveTimer'
    BY <1>5 DEF FireStopped
<1>6. ASSUME NEW t \in Delivery, TakeNothing(t) PROVE LiveTimer'
    BY <1>6 DEF TakeNothing, Entries
<1>7. ASSUME NEW t \in Delivery, TakeBatch(t) PROVE LiveTimer'
    BY <1>7 DEF TakeBatch
<1>8. ASSUME NEW t \in Delivery, HandOver(t) PROVE LiveTimer'
    BY <1>8 DEF HandOver
<1>9. ASSUME NEW t \in Delivery, OcrFails(t) PROVE LiveTimer'
    BY <1>9 DEF OcrFails
<1>10. CASE StopRunning
    BY <1>10 DEF StopRunning
<1>11. CASE CancelTimers
    BY <1>11 DEF CancelTimers
<1>12. CASE CloseStore
    BY <1>12 DEF CloseStore
<1>13. CASE UNCHANGED vars
    BY <1>13 DEF vars
<1> QED
    BY <1>1, <1>2, <1>3, <1>4, <1>5, <1>6, <1>7, <1>8, <1>9, <1>10, <1>11,
       <1>12, <1>13 DEF Next, HandleMessage, TimerThread, Shutdown

\* Being one physical message does not depend on which copy one asks.
LEMMA SamePhysicalSymmetric ==
    ASSUME NEW a \in Delivery, NEW b \in Delivery, SamePhysical(a, b)
    PROVE  SamePhysical(b, a)
BY DeliveryAssumption DEF SamePhysical, Distance

LEMMA NoTwinsStep ==
    ASSUME IInv, [Next]_vars
    PROVE  NoTwinsPending'
<1> USE DeliveryAssumption DEF IInv, NoTwinsPending, TypeOK, clockVars,
        bufferVars, timerVars, jobVars, metricVars
<1>0. ASSUME \A k \in Key : pending'[k] \subseteq pending[k] PROVE NoTwinsPending'
    BY <1>0
<1>1. CASE Tick
    BY <1>0, <1>1 DEF Tick
<1>2. ASSUME NEW d \in Delivery, Ignore(d) PROVE NoTwinsPending'
    BY <1>0, <1>2 DEF Ignore
<1>3. ASSUME NEW d \in Delivery, Enqueue(d) PROVE NoTwinsPending'
    <2> SUFFICES ASSUME NEW k \in Key, NEW l \in Key, NEW p \in pending'[k],
                        NEW q \in pending'[l], p # q
                 PROVE  /\ ~(SameChat(p, q) /\ SamePhysical(p, q))
                        /\ k = l => MsgId[p] # MsgId[q]
        OBVIOUS
    <2>1. pending' = [pending EXCEPT ![KeyOf[d]] = pending[KeyOf[d]] \cup {d}]
          /\ ~Duplicate(d)
        BY <1>3 DEF Enqueue
    <2>2. \A o \in Key : \A e \in pending[o] :
             /\ ~(SameChat(e, d) /\ SamePhysical(e, d))
             /\ ~(SameChat(d, e) /\ SamePhysical(d, e))
             /\ o = KeyOf[d] => MsgId[e] # MsgId[d]
        <3> TAKE o \in Key
        <3> TAKE e \in pending[o]
        <3>1. ~(SameChat(e, d) /\ SamePhysical(e, d))
              /\ (o = KeyOf[d] => MsgId[e] # MsgId[d])
            BY <2>1 DEF Duplicate
        <3>2. SameChat(d, e) => SameChat(e, d)
            BY DEF SameChat
        <3>3. SamePhysical(d, e) => SamePhysical(e, d)
            BY SamePhysicalSymmetric
        <3> QED
            BY <3>1, <3>2, <3>3
    <2>3. CASE p = d
        BY <2>1, <2>2, <2>3 DEF OwnKey
    <2>4. CASE q = d
        BY <2>1, <2>2, <2>4 DEF OwnKey
    <2>5. CASE p # d /\ q # d
        BY <2>1, <2>5
    <2> QED
        BY <2>3, <2>4, <2>5
<1>4. ASSUME NEW t \in Delivery, Fire(t) PROVE NoTwinsPending'
    BY <1>0, <1>4 DEF Fire
<1>5. ASSUME NEW t \in Delivery, FireStopped(t) PROVE NoTwinsPending'
    BY <1>0, <1>5 DEF FireStopped
<1>6. ASSUME NEW t \in Delivery, TakeNothing(t) PROVE NoTwinsPending'
    BY <1>0, <1>6 DEF TakeNothing
<1>7. ASSUME NEW t \in Delivery, TakeBatch(t) PROVE NoTwinsPending'
    BY <1>0, <1>7 DEF TakeBatch
<1>8. ASSUME NEW t \in Delivery, HandOver(t) PROVE NoTwinsPending'
    BY <1>0, <1>8 DEF HandOver
<1>9. ASSUME NEW t \in Delivery, OcrFails(t) PROVE NoTwinsPending'
    BY <1>0, <1>9 DEF OcrFails
<1>10. CASE StopRunning
    BY <1>0, <1>10 DEF StopRunning
<1>11. CASE CancelTimers
    BY <1>0, <1>11 DEF CancelTimers
<1>12. CASE CloseStore
    BY <1>0, <1>12 DEF CloseStore
<1>13. CASE UNCHANGED vars
    BY <1>0, <1>13 DEF vars
<1> QED
    BY <1>1, <1>2, <1>3, <1>4, <1>5, <1>6, <1>7, <1>8, <1>9, <1>10, <1>11,
       <1>12, <1>13 DEF Next, HandleMessage, TimerThread, Shutdown

-----------------------------------------------------------------------------
(* The theorems.                                                            *)

\* The strengthened invariant of the buffer, its threads and shutdown.
THEOREM Invariance == Spec => []IInv
<1>1. Init => IInv
    BY InitInvariant
<1>2. IInv /\ [Next]_vars => IInv'
    BY TypeStep, JobStateStep, PlacesStep, EntriesStep, LiveTimerStep, NoTwinsStep DEF IInv
<1> QED
    BY <1>1, <1>2, PTL DEF Spec

\* Every variable keeps its type.
THEOREM TypeCorrectness == Spec => []TypeOK
BY Invariance, PTL DEF IInv

\* No batch is ever left without a timer that will pop it.
THEOREM AlwaysLiveTimer == Spec => []LiveTimer
BY Invariance, PTL DEF IInv

\* of a running engine: an entry is no younger than what waits in it, and has the
\* time it was made at
EntryAge ==
    phase = "running" =>
        \A k \in open : /\ firstSeen[k] # None /\ firstSeen[k] <= now
                       /\ \A d \in pending[k] : firstSeen[k] <= arrived[d]

LEMMA CappedStep ==
    ASSUME IInv, EntryAge, CappedWait, [Next]_vars
    PROVE  EntryAge' /\ CappedWait'
<1> USE DeliveryAssumption, NoneAssumption
<1>0. TypeOK /\ TypeOK' /\ OwnKey /\ Entries /\ OwnTimer
    BY TypeStep DEF IInv
<1>1. ASSUME NEW d \in Delivery, Ignore(d) PROVE EntryAge' /\ CappedWait'
    <2>1. /\ UNCHANGED <<now, phase, pending, registered, due, arrived, timer>>
          /\ OpenEntry(KeyOf[d]) /\ KeyOf[d] \in Key
        BY <1>1 DEF Ignore, clockVars, timerVars
    <2>2. KeyOf[d] \notin open => pending[KeyOf[d]] = {}
        BY <1>0, <2>1 DEF Entries
    <2>3. EntryAge'
        BY <1>0, <2>1, <2>2 DEF EntryAge, OpenEntry, TypeOK
    <2> QED
        BY <2>1, <2>3 DEF CappedWait
<1>2. ASSUME NEW d \in Delivery, Enqueue(d) PROVE EntryAge' /\ CappedWait'
    <2> DEFINE k == KeyOf[d]
    <2>1. /\ k \in Key /\ now \in Nat /\ now' = now /\ phase' = phase
          /\ OpenEntry(k)
          /\ pending' = [pending EXCEPT ![k] = pending[k] \cup {d}]
          /\ registered' = [registered EXCEPT ![k] = d]
          /\ due' = [due EXCEPT ![d] = now + DebounceDelay(pending[k] \cup {d}, firstSeen'[k])]
          /\ arrived' = [arrived EXCEPT ![d] = now]
          /\ fate[d] = "new"
        BY <1>0, <1>2 DEF Enqueue, clockVars, TypeOK
    <2>2. k \notin open => pending[k] = {}
        BY <1>0, <2>1 DEF Entries
    <2>3. \A l \in Key : d \notin pending[l]
        BY <1>0, <2>1 DEF OwnKey
    <2>4. phase = "running" => /\ firstSeen'[k] \in Nat /\ firstSeen'[k] <= now
                              /\ \A e \in pending[k] : firstSeen'[k] <= arrived[e]
        BY <1>0, <2>1, <2>2 DEF EntryAge, OpenEntry, TypeOK
    <2>5. \A l \in Key : l # k => firstSeen'[l] = firstSeen[l] /\ (l \in open' <=> l \in open)
                               /\ pending'[l] = pending[l] /\ registered'[l] = registered[l]
        BY <1>0, <2>1 DEF OpenEntry, TypeOK
    <2>6. \A e \in Delivery : e # d => arrived'[e] = arrived[e] /\ due'[e] = due[e]
        BY <1>0, <2>1 DEF TypeOK
    <2>7. arrived'[d] = now /\ pending'[k] = pending[k] \cup {d} /\ registered'[k] = d
        BY <1>0, <2>1 DEF TypeOK
    <2>8. EntryAge'
        <3> SUFFICES ASSUME phase = "running", NEW l \in open'
                     PROVE  /\ firstSeen'[l] # None /\ firstSeen'[l] <= now
                            /\ \A e \in pending'[l] : firstSeen'[l] <= arrived'[e]
            BY <2>1 DEF EntryAge
        <3>1. l \in Key
            BY <1>0 DEF TypeOK
        <3>2. CASE l = k
            <4>1. \A e \in pending[k] : e \in Delivery /\ e # d
                BY <1>0, <2>1, <2>3 DEF TypeOK
            <4> QED
                BY <2>4, <2>6, <2>7, <3>2, <4>1
        <3>3. CASE l # k
            <4>1. \A e \in pending[l] : e \in Delivery /\ e # d
                BY <1>0, <2>3, <3>1 DEF TypeOK
            <4> QED
                BY <2>5, <2>6, <3>1, <3>3, <4>1 DEF EntryAge
        <3> QED
            BY <3>2, <3>3
    <2>9. ASSUME phase = "running", NEW e \in pending'[k]
          PROVE  due'[d] <= AtLeast(arrived'[e] + HardCap, arrived'[d] + MinDelay)
        <3> DEFINE seen == firstSeen'[k]
                   B == pending[k] \cup {d}
        <3>1. seen \in Nat /\ seen # None /\ seen <= arrived'[e] /\ arrived'[e] \in Nat
            <4>1. e \in Delivery /\ (e = d \/ e \in pending[k])
                BY <1>0, <2>1, <2>7, <2>9 DEF TypeOK
            <4>2. arrived'[e] \in Nat
                BY <1>0, <4>1 DEF TypeOK
            <4> QED
                BY <2>4, <2>6, <2>7, <2>9, <4>1, <4>2
        <3>2. due'[d] = now + DebounceDelay(B, seen)
            BY <1>0, <2>1 DEF TypeOK
        <3>3. Window(B) \in Int /\ HardCap \in Int /\ MinDelay \in Int
            BY TimingAssumption DEF Window, HardCap
        <3> HIDE DEF seen, B
        <3>4. DebounceDelay(B, seen) <= AtLeast(MinDelay, HardCap - (now - seen))
            BY <2>1, <3>1, <3>3 DEF DebounceDelay, AtMost, AtLeast
        <3>5. DebounceDelay(B, seen) \in Int
            BY <2>1, <3>1, <3>3 DEF DebounceDelay, AtMost, AtLeast
        <3> QED
            BY <2>1, <2>7, <3>1, <3>2, <3>3, <3>4, <3>5 DEF AtLeast
    <2>10. ASSUME phase = "running", NEW l \in Key, l # k, NEW e \in pending'[l],
                  timer'[registered'[l]] = "armed"
           PROVE  due'[registered'[l]]
                    <= AtLeast(arrived'[e] + HardCap, arrived'[registered'[l]] + MinDelay)
        <3> DEFINE t == registered[l]
        <3>1. /\ e \in pending[l] /\ e \in Delivery /\ e # d /\ registered'[l] = t
            BY <1>0, <2>3, <2>5, <2>10 DEF TypeOK
        <3>2. t \in Delivery /\ t # d
            <4>1. t # None
                BY <1>0, <2>10, <3>1 DEF IInv, LiveTimer
            <4> QED
                BY <1>0, <2>10, <4>1 DEF TypeOK, OwnTimer
        <3>3. timer[t] = "armed"
            BY <1>2, <2>10, <3>1, <3>2 DEF Enqueue
        <3>4. due[t] <= AtLeast(arrived[e] + HardCap, arrived[t] + MinDelay)
            BY <2>10, <3>1, <3>3 DEF CappedWait
        <3> HIDE DEF t
        <3> QED
            BY <2>6, <3>1, <3>2, <3>4
    <2>11. CappedWait'
        <3> SUFFICES ASSUME phase = "running", NEW l \in Key, NEW e \in pending'[l],
                            timer'[registered'[l]] = "armed"
                     PROVE  due'[registered'[l]]
                              <= AtLeast(arrived'[e] + HardCap, arrived'[registered'[l]] + MinDelay)
            BY <2>1 DEF CappedWait
        <3>1. CASE l = k
            BY <2>7, <2>9, <3>1
        <3>2. CASE l # k
            BY <2>10, <3>2
        <3> QED
            BY <3>1, <3>2
    <2> QED
        BY <2>8, <2>11
<1>3. ASSUME NEW t \in Delivery, TakeBatch(t) PROVE EntryAge' /\ CappedWait'
    <2> DEFINE k == KeyOf[t]
    <2>1. /\ k \in Key /\ UNCHANGED <<now, phase, due, arrived>>
          /\ open' = open \ {k} /\ pending' = [pending EXCEPT ![k] = {}]
          /\ firstSeen' = [firstSeen EXCEPT ![k] = None]
          /\ registered' = [registered EXCEPT ![k] = None]
          /\ \A u \in Delivery : timer'[u] = "armed" => timer[u] = "armed"
        BY <1>0, <1>3 DEF TakeBatch, clockVars, TypeOK
    <2>2. \A l \in Key : l # k => /\ firstSeen'[l] = firstSeen[l] /\ pending'[l] = pending[l]
                                /\ registered'[l] = registered[l]
        BY <1>0, <2>1 DEF TypeOK
    <2>3. pending'[k] = {}
        BY <1>0, <2>1 DEF TypeOK
    <2>4. EntryAge'
        BY <1>0, <2>1, <2>2 DEF EntryAge, TypeOK
    <2>5. \A l \in Key : phase = "running" /\ pending[l] # {} => registered[l] \in Delivery
        BY <1>0 DEF TypeOK, IInv, LiveTimer
    <2>6. CappedWait'
        BY <2>1, <2>2, <2>3, <2>5 DEF CappedWait
    <2> QED
        BY <2>4, <2>6
<1>4. CASE Tick
    <2>1. now' = now + 1 /\ UNCHANGED <<phase, open, firstSeen, pending, registered, timer, due, arrived>>
        BY <1>4 DEF Tick, bufferVars, timerVars
    <2> QED
        BY <1>0, <2>1 DEF EntryAge, CappedWait, TypeOK
<1>5. ASSUME UNCHANGED <<now, phase, open, firstSeen, pending, due, arrived>>,
             \A k \in Key : pending[k] # {} => registered'[k] = registered[k],
             \A t \in Delivery : timer'[t] = "armed" => timer[t] = "armed"
      PROVE  EntryAge' /\ CappedWait'
    <2>1. \A k \in Key : phase = "running" /\ pending[k] # {} => registered[k] \in Delivery
        BY <1>0 DEF TypeOK, IInv, LiveTimer
    <2> QED
        BY <1>5, <2>1 DEF EntryAge, CappedWait
<1>6. ASSUME NEW t \in Delivery, TakeNothing(t) PROVE EntryAge' /\ CappedWait'
    <2>1. pending[KeyOf[t]] = {}
        BY <1>0, <1>6 DEF TakeNothing, Entries
    <2> QED
        BY <1>0, <1>5, <1>6, <2>1 DEF TakeNothing, clockVars, bufferVars, TypeOK
<1>7. ASSUME NEW t \in Delivery, Fire(t) \/ FireStopped(t) \/ HandOver(t) \/ OcrFails(t)
      PROVE  EntryAge' /\ CappedWait'
    BY <1>0, <1>5, <1>7 DEF Fire, FireStopped, HandOver, OcrFails, clockVars, bufferVars,
                            TypeOK
<1>8. CASE Shutdown
    BY <1>8 DEF Shutdown, StopRunning, CancelTimers, CloseStore, EntryAge, CappedWait
<1>9. CASE UNCHANGED vars
    BY <1>5, <1>9 DEF vars, clockVars, bufferVars, timerVars
<1> QED
    BY <1>1, <1>2, <1>3, <1>4, <1>6, <1>7, <1>8, <1>9 DEF Next, HandleMessage, TimerThread

\* _compute_debounce_delay: the hard cap of a batch holds however its timers
\* replace each other, but for a sender who writes within its last second or past
\* it.
THEOREM AlwaysCapped == Spec => []CappedWait
<1>1. Init => EntryAge /\ CappedWait
    BY DEF Init, EntryAge, CappedWait
<1>2. IInv /\ EntryAge /\ CappedWait /\ [Next]_vars => EntryAge' /\ CappedWait'
    BY CappedStep
<1> QED
    BY <1>1, <1>2, Invariance, PTL DEF Spec

\* No two copies of one message ever wait side by side in a chat.
THEOREM NeverTwins == Spec => []NoTwinsPending
BY Invariance, PTL DEF IInv

\* Every accepted delivery is in exactly one place.
THEOREM AlwaysOneHome == Spec => []OneHome
<1>1. ASSUME IInv PROVE OneHome
    <2> SUFFICES ASSUME NEW d \in Delivery
                 PROVE  /\ (\E k \in Key : d \in pending[k]) =>
                               \A t \in Delivery : d \notin job[t]
                        /\ \A t, u \in Delivery : d \in job[t] /\ d \in job[u] => t = u
                        /\ fate[d] = "queued" <=>
                               (d \in pending[KeyOf[d]] \/ \E t \in Delivery : d \in job[t])
        BY DEF OneHome
    <2>1. KeyOf[d] \in Key
        BY DeliveryAssumption
    <2>2. (\E k \in Key : d \in pending[k]) => \A t \in Delivery : d \notin job[t]
        <3>1. ASSUME NEW k \in Key, d \in pending[k] PROVE KeyOf[d] = k
            BY <1>1, <3>1 DEF IInv, OwnKey
        <3>2. ASSUME NEW t \in Delivery, d \in job[t] PROVE d \notin pending[KeyOf[d]]
            BY <1>1, <3>2 DEF IInv, Apart
        <3> QED
            BY <3>1, <3>2
    <2>3. \A t, u \in Delivery : d \in job[t] /\ d \in job[u] => t = u
        BY <1>1 DEF IInv, Apart
    <2>4. fate[d] = "queued" => (d \in pending[KeyOf[d]] \/ \E t \in Delivery : d \in job[t])
        BY <1>1 DEF IInv, Placed
    <2>5. (d \in pending[KeyOf[d]] \/ \E t \in Delivery : d \in job[t]) => fate[d] = "queued"
        BY <1>1, <2>1 DEF IInv, OwnKey
    <2> QED
        BY <2>2, <2>3, <2>4, <2>5
<1> QED
    BY <1>1, Invariance, PTL

\* Timer threads always restore the platform the batch came from.
THEOREM AlwaysPlatform == Spec => []PlatformCarried
<1>1. IInv => PlatformCarried
    BY DEF IInv, PlatformCarried, Entries
<1> QED
    BY <1>1, Invariance, PTL

-----------------------------------------------------------------------------
(* The metrics of incomplete batches.                                       *)

Settled == firedWith + firedWithout + Cardinality(waitFlag) + Cardinality(jobWait)
Quiet == phase = "running" /\ \A d \in Delivery : fate[d] # "lost"

\* A thread that took a batch with its mark does not take another.
Balanced ==
    /\ IsFiniteSet(waitFlag) /\ IsFiniteSet(jobWait)
    /\ \A t \in jobWait : timer[t] \in {"merging", "dead"}
    /\ Settled <= delayCount
    /\ Quiet => Settled = delayCount

\* No step makes the engine run again, or finds what was lost.
LEMMA NeverQuietAgain == ASSUME IInv, [Next]_vars PROVE Quiet' => Quiet
<1> USE DEF clockVars
<1>1. phase' = "running" => phase = "running"
    BY DEF Next, HandleMessage, TimerThread, Shutdown, Tick, Ignore, Enqueue, Fire, FireStopped,
       TakeNothing, TakeBatch, HandOver, OcrFails, StopRunning, CancelTimers, CloseStore, vars
<1>2. ASSUME NEW d \in Delivery, fate[d] = "lost" PROVE fate'[d] = "lost"
    <2>0. TypeOK /\ OwnKey
        BY DEF IInv
    <2>1. CASE fate' = fate
        BY <1>2, <2>1
    <2>2. ASSUME NEW e \in Delivery, HandleMessage(e) PROVE fate'[d] = "lost"
        BY <1>2, <2>0, <2>2 DEF HandleMessage, Ignore, Enqueue, TypeOK
    <2>3. ASSUME NEW t \in Delivery, HandOver(t) \/ OcrFails(t) PROVE fate'[d] = "lost"
        <3>1. d \notin job[t]
            BY <1>2, <2>0 DEF OwnKey
        <3> QED
            BY <1>2, <2>3, <3>1 DEF HandOver, OcrFails
    <2> QED
        BY <2>1, <2>2, <2>3 DEF Next, TimerThread, Shutdown, Tick, Fire, FireStopped,
           TakeNothing, TakeBatch, StopRunning, CancelTimers, CloseStore, vars
<1> QED
    BY <1>1, <1>2 DEF Quiet

\* A thread that has the mark of its batch has merged it or will.
LEMMA MarkStays ==
    ASSUME IInv, Balanced, [Next]_vars
    PROVE  \A t \in jobWait : timer'[t] \in {"merging", "dead"}
<1> SUFFICES ASSUME NEW t \in jobWait PROVE timer'[t] \in {"merging", "dead"}
    OBVIOUS
<1>1. t \in Delivery /\ timer[t] \in {"merging", "dead"} /\ TypeOK /\ JobState
    BY DEF IInv, TypeOK, Balanced
<1> USE DEF TypeOK, timerVars
<1>2. CASE timer' = timer
    BY <1>1, <1>2
<1>3. ASSUME NEW d \in Delivery, Enqueue(d) PROVE timer'[t] \in {"merging", "dead"}
    <2>1. timer[d] = "unborn"
        BY <1>1, <1>3 DEF Enqueue, JobState
    <2> QED
        BY <1>1, <1>3, <2>1 DEF Enqueue
<1>4. ASSUME NEW u \in Delivery, TimerThread(u) PROVE timer'[t] \in {"merging", "dead"}
    BY <1>1, <1>4 DEF TimerThread, Fire, FireStopped, TakeNothing, TakeBatch, HandOver, OcrFails
<1>5. CASE CancelTimers
    BY <1>1, <1>5 DEF CancelTimers
<1> QED
    BY <1>2, <1>3, <1>4, <1>5 DEF Next, HandleMessage, Ignore, Shutdown, Tick, StopRunning,
       CloseStore, vars

\* Counters that move together keep the balance.
LEMMA KeepsBalance ==
    ASSUME IInv, IInv', Balanced, Quiet' => Quiet,
           \A t \in jobWait' : timer'[t] \in {"merging", "dead"},
           IsFiniteSet(waitFlag'), IsFiniteSet(jobWait'),
           \/ Settled' = Settled /\ delayCount' = delayCount
           \/ Settled' = Settled + 1 /\ delayCount' = delayCount + 1
           \/ Settled' <= Settled /\ delayCount' = delayCount /\ ~Quiet'
    PROVE  Balanced'
<1> DEFINE a == Settled  b == Settled'  x == delayCount  y == delayCount'
<1>1. a \in Nat /\ x \in Nat /\ y \in Nat
    BY FS_CardinalityType DEF IInv, TypeOK, Balanced, Settled
<1>2. b \in Nat
    BY FS_CardinalityType DEF IInv, TypeOK, Settled
<1>3. /\ a <= x /\ (Quiet => a = x)
      /\ \/ b = a /\ y = x
         \/ b = a + 1 /\ y = x + 1
         \/ b <= a /\ y = x /\ ~Quiet'
    BY DEF Balanced
<1> HIDE DEF a, b, x, y
<1>4. b <= y /\ (Quiet' => b = y)
    BY <1>1, <1>2, <1>3
<1> QED
    BY <1>4 DEF Balanced, b, y

LEMMA BalanceStep ==
    ASSUME IInv, IInv', Balanced, [Next]_vars
    PROVE  Balanced'
<1> DEFINE w == Cardinality(waitFlag)  j == Cardinality(jobWait)
<1>0. Quiet' => Quiet
    BY NeverQuietAgain
<1>m. \A t \in jobWait : timer'[t] \in {"merging", "dead"}
    BY MarkStays
<1>f. IsFiniteSet(waitFlag) /\ IsFiniteSet(jobWait)
    BY DEF Balanced
<1>n. w \in Nat /\ j \in Nat /\ firedWith \in Nat /\ firedWithout \in Nat /\ delayCount \in Nat
    BY <1>f, FS_CardinalityType DEF IInv, TypeOK
<1>1. CASE UNCHANGED <<waitFlag, jobWait, metricVars>>
    BY <1>0, <1>1, <1>f, <1>m, KeepsBalance DEF Settled, metricVars
<1>2. ASSUME NEW d \in Delivery, Enqueue(d) PROVE Balanced'
    <2> DEFINE k == KeyOf[d]
               batch == pending[k] \cup {d}
    <2>1. jobWait' = jobWait /\ firedWith' = firedWith /\ firedWithout' = firedWithout
        BY <1>2 DEF Enqueue, jobVars
    <2>2. CASE waitFlag' = waitFlag /\ delayCount' = delayCount
        BY <1>0, <1>f, <1>m, <2>1, <2>2, KeepsBalance DEF Settled
    <2>3. CASE waitFlag' = waitFlag \cup {k} /\ k \notin waitFlag /\ delayCount' = delayCount + 1
        <3>1. IsFiniteSet(waitFlag') /\ Cardinality(waitFlag') = w + 1
            BY <1>f, <2>3, FS_AddElement
        <3> HIDE DEF w, j
        <3>2. /\ Settled = firedWith + firedWithout + w + j
              /\ Settled' = firedWith + firedWithout + (w + 1) + j
            BY <2>1, <3>1 DEF Settled, w, j
        <3>3. Settled' = Settled + 1
            BY <1>n, <3>2
        <3> QED
            BY <1>0, <1>f, <1>m, <2>1, <2>3, <3>1, <3>3, KeepsBalance
    <2> QED
        BY <1>2, <2>2, <2>3 DEF Enqueue, CountWait
<1>3. ASSUME NEW t \in Delivery, TakeBatch(t) PROVE Balanced'
    <2> DEFINE k == KeyOf[t]
    <2>1. /\ waitFlag' = waitFlag \ {k} /\ UNCHANGED metricVars
          /\ jobWait' = IF k \in waitFlag THEN jobWait \cup {t} ELSE jobWait
          /\ timer[t] = "ready"
          /\ timer' = [timer EXCEPT ![t] = IF pending[k] = {} THEN "dead" ELSE "merging"]
        BY <1>3 DEF TakeBatch
    <2>2. t \notin jobWait /\ timer'[t] \in {"merging", "dead"}
        BY <2>1 DEF Balanced, IInv, TypeOK
    <2>3. CASE k \in waitFlag
        <3>1. /\ IsFiniteSet(waitFlag') /\ Cardinality(waitFlag') = w - 1
              /\ IsFiniteSet(jobWait') /\ Cardinality(jobWait') = j + 1
            BY <1>f, <2>1, <2>2, <2>3, FS_AddElement, FS_RemoveElement
        <3> HIDE DEF w, j
        <3>2. /\ Settled = firedWith + firedWithout + w + j
              /\ Settled' = firedWith + firedWithout + (w - 1) + (j + 1)
            BY <2>1, <3>1 DEF Settled, w, j, metricVars
        <3>3. Settled' = Settled /\ delayCount' = delayCount
            BY <1>n, <2>1, <3>2 DEF metricVars
        <3>4. \A u \in jobWait' : timer'[u] \in {"merging", "dead"}
            BY <1>m, <2>1, <2>2
        <3> QED
            BY <1>0, <3>1, <3>3, <3>4, KeepsBalance
    <2>4. CASE k \notin waitFlag
        BY <1>1, <2>1, <2>4
    <2> QED
        BY <2>3, <2>4
<1>4. ASSUME NEW t \in Delivery, HandOver(t) PROVE Balanced'
    <2>1. waitFlag' = waitFlag /\ jobWait' = jobWait \ {t} /\ delayCount' = delayCount
        BY <1>4 DEF HandOver
    <2>2. CASE t \in jobWait
        <3>1. IsFiniteSet(jobWait') /\ Cardinality(jobWait') = j - 1
            BY <1>f, <2>1, <2>2, FS_RemoveElement
        <3>2. \/ firedWith' = firedWith + 1 /\ firedWithout' = firedWithout
              \/ firedWithout' = firedWithout + 1 /\ firedWith' = firedWith
            BY <1>4, <2>2 DEF HandOver
        <3> HIDE DEF w, j
        <3>3. /\ Settled = firedWith + firedWithout + w + j
              /\ Settled' = firedWith' + firedWithout' + w + (j - 1)
            BY <2>1, <3>1 DEF Settled, w, j
        <3>4. Settled' = Settled
            BY <1>n, <3>2, <3>3
        <3> QED
            BY <1>0, <1>f, <1>m, <2>1, <3>1, <3>4, KeepsBalance
    <2>3. CASE t \notin jobWait
        <3>1. jobWait' = jobWait /\ UNCHANGED metricVars
            BY <1>4, <2>1, <2>3 DEF HandOver, metricVars
        <3> QED
            BY <1>1, <2>1, <3>1
    <2> QED
        BY <2>2, <2>3
<1>5. ASSUME NEW t \in Delivery, OcrFails(t) PROVE Balanced'
    <2>1. waitFlag' = waitFlag /\ jobWait' = jobWait \ {t} /\ UNCHANGED metricVars
        BY <1>5 DEF OcrFails
    <2>2. ~Quiet'
        <3>1. PICK d \in job[t] : TRUE
            BY <1>5 DEF OcrFails, HasImage
        <3>2. d \in Delivery /\ fate'[d] = "lost"
            BY <1>5, <3>1 DEF OcrFails, IInv, TypeOK
        <3> QED
            BY <3>2 DEF Quiet
    <2>3. CASE t \in jobWait
        <3>1. IsFiniteSet(jobWait') /\ Cardinality(jobWait') = j - 1
            BY <1>f, <2>1, <2>3, FS_RemoveElement
        <3> HIDE DEF w, j
        <3>2. /\ Settled = firedWith + firedWithout + w + j
              /\ Settled' = firedWith + firedWithout + w + (j - 1)
            BY <2>1, <3>1 DEF Settled, w, j, metricVars
        <3>3. Settled' <= Settled /\ delayCount' = delayCount
            BY <1>n, <2>1, <3>2 DEF metricVars
        <3> QED
            BY <1>0, <1>f, <1>m, <2>1, <2>2, <3>1, <3>3, KeepsBalance
    <2>4. CASE t \notin jobWait
        BY <1>1, <2>1, <2>4
    <2> QED
        BY <2>3, <2>4
<1>6. CASE CancelTimers
    <2>1. waitFlag' = {} /\ jobWait' = jobWait /\ UNCHANGED metricVars /\ phase' = "cancelled"
        BY <1>6 DEF CancelTimers, jobVars
    <2>2. IsFiniteSet(waitFlag') /\ Cardinality(waitFlag') = 0
        BY <2>1, FS_EmptySet
    <2> HIDE DEF w, j
    <2>3. /\ Settled = firedWith + firedWithout + w + j
          /\ Settled' = firedWith + firedWithout + 0 + j
        BY <2>1, <2>2 DEF Settled, w, j, metricVars
    <2>4. Settled' <= Settled /\ delayCount' = delayCount
        BY <1>n, <2>1, <2>3 DEF metricVars
    <2>5. ~Quiet'
        BY <2>1 DEF Quiet
    <2> QED
        BY <1>0, <1>f, <1>m, <2>1, <2>2, <2>4, <2>5, KeepsBalance
<1>7. ASSUME NEW t \in Delivery, Fire(t) \/ FireStopped(t) \/ TakeNothing(t) PROVE Balanced'
    BY <1>1, <1>7 DEF Fire, FireStopped, TakeNothing, jobVars
<1>8. ASSUME NEW d \in Delivery, Ignore(d) PROVE Balanced'
    BY <1>1, <1>8 DEF Ignore, jobVars
<1>9. CASE Tick \/ StopRunning \/ CloseStore \/ UNCHANGED vars
    BY <1>1, <1>9 DEF Tick, StopRunning, CloseStore, vars, jobVars
<1> QED
    BY <1>2, <1>3, <1>4, <1>5, <1>6, <1>7, <1>8, <1>9
       DEF Next, HandleMessage, TimerThread, Shutdown

\* Every batch that was counted as waiting for its request is counted once in
\* what became of it, but for lost batches and those a shutdown forgets.
THEOREM AlwaysAddsUp == Spec => []MetricsAddUp
<1>1. Init => Balanced
    <2> SUFFICES ASSUME Init PROVE Balanced
        OBVIOUS
    <2>1. waitFlag = {} /\ jobWait = {} /\ delayCount = 0 /\ firedWith = 0 /\ firedWithout = 0
        BY DEF Init
    <2>2. IsFiniteSet({}) /\ Cardinality({}) = 0
        BY FS_EmptySet
    <2>3. Settled = 0
        BY <2>1, <2>2 DEF Settled
    <2> QED
        BY <2>1, <2>2, <2>3 DEF Balanced
<1>2. IInv /\ IInv' /\ Balanced /\ [Next]_vars => Balanced'
    BY BalanceStep
<1>3. Balanced => MetricsAddUp
    BY DEF Balanced, MetricsAddUp, Settled, Quiet
<1> QED
    BY <1>1, <1>2, <1>3, Invariance, PTL DEF Spec

-----------------------------------------------------------------------------
(* Every step of the buffer is a step of the ledger, or stutters.           *)

\* What the ledger is told agrees with the history of every delivery.
LEMMA WhereaboutsIsFate == IInv => Whereabouts = fate
<1> SUFFICES ASSUME IInv PROVE Whereabouts = fate
    OBVIOUS
<1>1. \A d \in Delivery : Whereabouts[d] = fate[d]
    <2> SUFFICES ASSUME NEW d \in Delivery PROVE Whereabouts[d] = fate[d]
        OBVIOUS
    <2>1. KeyOf[d] \in Key
        BY DeliveryAssumption
    <2>2. ((\E k \in Key : d \in pending[k]) \/ (\E t \in Delivery : d \in job[t]))
              <=> fate[d] = "queued"
        BY <2>1 DEF IInv, OwnKey, Placed
    <2> QED
        BY <2>2 DEF Whereabouts
<1>2. fate = [d \in Delivery |-> fate[d]]
    BY DEF IInv, TypeOK
<1>3. Whereabouts = [d \in Delivery |-> Whereabouts[d]]
    BY DEF Whereabouts
<1> QED
    BY <1>1, <1>2, <1>3

\* The same after a step.
LEMMA WhereaboutsIsFateNext == IInv' => Whereabouts' = fate'
<1>1. (IInv => Whereabouts = fate)'
    BY WhereaboutsIsFate, PTL
<1> QED
    BY <1>1

LEMMA LedgerStep ==
    ASSUME IInv, IInv', [Next]_vars
    PROVE  [Ledger!LedgerNext]_Whereabouts
<1> USE DeliveryAssumption DEF TypeOK, clockVars, bufferVars, timerVars, jobVars, metricVars
<1>w. Whereabouts = fate /\ Whereabouts' = fate'
    BY WhereaboutsIsFate, WhereaboutsIsFateNext
<1> SUFFICES ASSUME fate' # fate PROVE Ledger!LedgerNext
    BY <1>w
<1>0. TypeOK
    BY DEF IInv
<1>1. ASSUME NEW d \in Delivery, Ignore(d) PROVE Ledger!LedgerNext
    <2>1. PICK k \in Key : \E p \in pending[k] :
              SameChat(p, d) /\ (MsgId[p] = MsgId[d] \/ SamePhysical(p, d))
        <3>1. KeyOf[d] \in Key /\ \A p \in pending[KeyOf[d]] : SameChat(p, d)
            BY DEF IInv, OwnKey, SameChat
        <3> QED
            BY <1>1, <3>1 DEF Ignore, Duplicate
    <2>2. PICK p \in pending[k] :
              SameChat(p, d) /\ (MsgId[p] = MsgId[d] \/ SamePhysical(p, d))
        BY <2>1
    <2>3. p \in Ledger!Waiting
        BY <1>0, <1>w DEF IInv, OwnKey, Ledger!Waiting
    <2>4. fate[d] = "new" /\ fate' = [fate EXCEPT ![d] = "ignored"]
        BY <1>1 DEF Ignore
    <2>5. Ledger!Discard(d)
        BY <1>w, <2>2, <2>3, <2>4 DEF Ledger!Discard, Ledger!SameChat, SameChat,
           Ledger!SamePhysical, SamePhysical, Ledger!Distance, Distance
    <2> QED
        BY <2>5 DEF Ledger!LedgerNext
<1>2. ASSUME NEW d \in Delivery, Enqueue(d) PROVE Ledger!LedgerNext
    <2>1. Ledger!Accept(d)
        BY <1>2, <1>w DEF Enqueue, Ledger!Accept
    <2> QED
        BY <2>1 DEF Ledger!LedgerNext
<1>3. ASSUME NEW t \in Delivery, timer[t] = "merging"
      PROVE  job[t] \in Ledger!Batches
    <2>1. job[t] # {} /\ job[t] \subseteq Delivery
        BY <1>0, <1>3 DEF IInv, JobState
    <2>2. job[t] \subseteq Ledger!Waiting
        BY <2>1, <1>w DEF IInv, OwnKey, Ledger!Waiting
    <2>3. \A a, b \in job[t] : KeyOf[a] = KeyOf[b]
        BY <1>0 DEF IInv, OwnKey
    <2> QED
        BY <2>1, <2>2, <2>3 DEF Ledger!Batches
<1>4. ASSUME NEW t \in Delivery, HandOver(t) PROVE Ledger!LedgerNext
    <2>1. Ledger!Settle(job[t])
        BY <1>4, <1>w DEF HandOver, Ledger!Settle, Ledger!Fresh, Fresh
    <2>2. job[t] \in Ledger!Batches
        BY <1>3, <1>4 DEF HandOver
    <2> QED
        BY <2>1, <2>2 DEF Ledger!LedgerNext
<1>5. ASSUME NEW t \in Delivery, OcrFails(t) PROVE Ledger!LedgerNext
    <2>1. Ledger!Lose(job[t])
        BY <1>5, <1>w DEF OcrFails, Ledger!Lose, Ledger!HasImage, HasImage
    <2>2. job[t] \in Ledger!Batches
        BY <1>3, <1>5 DEF OcrFails
    <2> QED
        BY <2>1, <2>2 DEF Ledger!LedgerNext
<1>6. ~ Tick /\ ~ StopRunning /\ ~ CancelTimers /\ ~ CloseStore /\ ~ UNCHANGED vars
    BY DEF Tick, StopRunning, CancelTimers, CloseStore, vars
<1>7. \A t \in Delivery : ~ Fire(t) /\ ~ FireStopped(t) /\ ~ TakeNothing(t) /\ ~ TakeBatch(t)
    BY DEF Fire, FireStopped, TakeNothing, TakeBatch
<1> QED
    BY <1>1, <1>2, <1>4, <1>5, <1>6, <1>7 DEF Next, HandleMessage, TimerThread, Shutdown

\* The buffer implements the ledger: an accepted delivery leaves once, with a
\* batch of its key, and a delivery is ignored only beside a waiting copy.
THEOREM BufferImplementsLedger == Spec => Implements
<1>1. Init => Ledger!LedgerInit
    BY DEF Init, Ledger!LedgerInit, Whereabouts
<1>2. IInv /\ IInv' /\ [Next]_vars => [Ledger!LedgerNext]_Whereabouts
    BY LedgerStep
<1> QED
    BY <1>1, <1>2, Invariance, PTL DEF Spec, Implements, Ledger!LedgerSpec
=============================================================================

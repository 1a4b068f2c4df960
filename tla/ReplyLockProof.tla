-------------------------- MODULE ReplyLockProof ----------------------------
(***************************************************************************)
(* Proofs about the reply section, for every set of jobs and chats, every   *)
(* number of slots and every number of retries.                             *)
(***************************************************************************)
EXTENDS ReplyLock, FiniteSetTheorems, TLAPS

\* media jobs go round the lock
MediaOutside ==
    \A j \in Media : pc[j] \notin Locked \cup {"contend", "retrying"}

\* whoever is in the section and was not evicted owns its chat
SectionOwner ==
    \A j \in Job : InSection(j) /\ j \notin evicted => owner[ChatOf[j]] = j

IInv ==
    /\ TypeOK
    /\ MediaOutside
    /\ OwnerInside
    /\ SectionOwner
    /\ SlotsConserved

-----------------------------------------------------------------------------
LEMMA InitInvariant == Init => IInv
<1> SUFFICES ASSUME Init PROVE IInv
    OBVIOUS
<1> USE JobAssumption, LimitAssumption DEF Init
<1>1. TypeOK
    BY DEF TypeOK, PC
<1>2. MediaOutside /\ OwnerInside /\ SectionOwner
    BY DEF MediaOutside, OwnerInside, SectionOwner, InSection, Locked, Sending
<1>3. SlotsConserved
    BY FS_EmptySet DEF SlotsConserved
<1> QED
    BY <1>1, <1>2, <1>3 DEF IInv

\* The steps of a job, one conjunct of the invariant at a time.
LEMMA TypeStep ==
    ASSUME TypeOK, [Next]_vars
    PROVE  TypeOK'
<1> USE JobAssumption, LimitAssumption
    DEF TypeOK, PC, Locked, Sending, lockVars, slotVars, replyVars, coolVars, markVars, Goto
<1>1. ASSUME NEW j \in Job, BeforeLock(j) PROVE TypeOK'
    BY <1>1 DEF BeforeLock, Dismiss, CannotTell, Admit, Enters
<1>2. ASSUME NEW j \in Job, Contend(j) PROVE TypeOK'
    <2>1. CASE Acquire(j) \/ TakeOver(j)
        BY <2>1 DEF Acquire, TakeOver, Register
    <2>2. CASE PutOff(j)
        BY <2>2 DEF PutOff
    <2>3. CASE GiveUp(j)
        BY <2>3 DEF GiveUp
    <2> QED
        BY <1>2, <2>1, <2>2, <2>3 DEF Contend
<1>3. ASSUME NEW j \in Job, RetryFires(j) PROVE TypeOK'
    BY <1>3 DEF RetryFires
<1>4. ASSUME NEW j \in Job, Slot(j) PROVE TypeOK'
    BY <1>4 DEF Slot, ResetRetries, GetSlot, SlotTimeout
<1>5. ASSUME NEW j \in Job, Gates(j) PROVE TypeOK'
    BY <1>5 DEF Gates, AlreadyAnswered, Gate, Raises, AfterSend, Pass, Mark
<1>6. ASSUME NEW j \in Job, SendReply(j) PROVE TypeOK'
    BY <1>6 DEF SendReply, Withhold, Veto, SensitiveWord, FallbackSent, Cleared, Sends,
       SendFails, Record, RecordBreaks, Writes, BacksOff, Mark, AfterSend, Twins
<1>7. ASSUME NEW j \in Job, Leave(j) PROVE TypeOK'
    BY <1>7 DEF Leave, FreeSlot, Unlock
<1>8. ASSUME NEW j \in Job, Llm(j) PROVE TypeOK'
    BY <1>8 DEF Llm, LlmReturns, LlmKeepsQuiet, AgentSends, SelfReplied, Twins, Mark
<1>9. CASE Time
    BY <1>9 DEF Time, LockGrowsOld, CooldownEnds, BackoffEnds
<1>10. CASE UNCHANGED vars
    BY <1>10 DEF vars
<1> QED
    BY <1>1, <1>2, <1>3, <1>4, <1>5, <1>6, <1>7, <1>8, <1>9, <1>10 DEF Next, Runs

LEMMA OwnershipStep ==
    ASSUME IInv, [Next]_vars
    PROVE  MediaOutside' /\ OwnerInside' /\ SectionOwner'
<1> DEFINE Goal == MediaOutside' /\ OwnerInside' /\ SectionOwner'
<1> USE JobAssumption DEF IInv, MediaOutside, OwnerInside, SectionOwner, InSection,
        TypeOK, PC, Locked, Sending, lockVars, slotVars, replyVars, coolVars, markVars, Goto
<1>1. ASSUME NEW j \in Job, BeforeLock(j) PROVE Goal
    BY <1>1 DEF BeforeLock, Dismiss, CannotTell, Admit, Enters
<1>2. ASSUME NEW j \in Job, Contend(j) PROVE Goal
    <2>1. CASE Acquire(j)
        BY <2>1 DEF Acquire, Register
    <2>2. CASE TakeOver(j)
        BY <2>2 DEF TakeOver, Register
    <2>3. CASE PutOff(j)
        BY <2>3 DEF PutOff
    <2>4. CASE GiveUp(j)
        BY <2>4 DEF GiveUp
    <2> QED
        BY <1>2, <2>1, <2>2, <2>3, <2>4 DEF Contend
<1>3. ASSUME NEW j \in Job, RetryFires(j) PROVE Goal
    BY <1>3 DEF RetryFires
<1>4. ASSUME NEW j \in Job, Slot(j) PROVE Goal
    BY <1>4 DEF Slot, ResetRetries, GetSlot, SlotTimeout
<1>5. ASSUME NEW j \in Job, Gates(j) PROVE Goal
    BY <1>5 DEF Gates, AlreadyAnswered, Gate, Raises, AfterSend, Pass, Mark
<1>6. ASSUME NEW j \in Job, SendReply(j) PROVE Goal
    BY <1>6 DEF SendReply, Withhold, Veto, SensitiveWord, FallbackSent, Cleared, Sends,
       SendFails, Record, RecordBreaks, Writes, BacksOff, Mark, AfterSend, Twins
<1>7. ASSUME NEW j \in Job, Leave(j) PROVE Goal
    BY <1>7 DEF Leave, FreeSlot, Unlock
<1>8. ASSUME NEW j \in Job, Llm(j) PROVE Goal
    BY <1>8 DEF Llm, LlmReturns, LlmKeepsQuiet, AgentSends, SelfReplied, Twins, Mark
<1>9. CASE Time
    BY <1>9 DEF Time, LockGrowsOld, CooldownEnds, BackoffEnds
<1>10. CASE UNCHANGED vars
    BY <1>10 DEF vars
<1> QED
    BY <1>1, <1>2, <1>3, <1>4, <1>5, <1>6, <1>7, <1>8, <1>9, <1>10 DEF Next, Runs

\* The threads that may hold a slot.
LEMMA SlotsStep ==
    ASSUME IInv, [Next]_vars
    PROVE  SlotsConserved'
<1> USE JobAssumption DEF IInv, InSection, TypeOK, PC, Locked, Sending,
        lockVars, slotVars, replyVars, coolVars, markVars, Goto
<1> DEFINE Inside(j) == InSection(j) /\ pc[j] \notin {"held", "slot", "unlock"}
<1>0. IsFiniteSet(slotHeld)
    BY FS_Subset
<1>a. ASSUME UNCHANGED slotVars, \A k \in slotHeld : Inside(k)'
      PROVE  SlotsConserved'
    BY <1>a DEF SlotsConserved
<1>b. \A k \in slotHeld : k \in Job /\ Inside(k) /\ k \notin {m \in Media : pc[m] \in Locked}
    BY DEF SlotsConserved, MediaOutside
<1>1. ASSUME NEW j \in Job, BeforeLock(j) PROVE SlotsConserved'
    BY <1>1, <1>a, <1>b DEF BeforeLock, Dismiss, CannotTell, Admit, Enters
<1>2. ASSUME NEW j \in Job, Contend(j) PROVE SlotsConserved'
    BY <1>2, <1>a, <1>b DEF Contend, Acquire, TakeOver, Register, PutOff, GiveUp
<1>3. ASSUME NEW j \in Job, RetryFires(j) PROVE SlotsConserved'
    BY <1>3, <1>a, <1>b DEF RetryFires
<1>4. ASSUME NEW j \in Job, Slot(j) PROVE SlotsConserved'
    <2>1. CASE ResetRetries(j) \/ SlotTimeout(j)
        BY <2>1, <1>a, <1>b DEF ResetRetries, SlotTimeout
    <2>2. CASE GetSlot(j)
        <3>1. j \notin slotHeld /\ slotHeld' = slotHeld \cup {j} /\ permits' = permits - 1
            BY <2>2, <1>b DEF GetSlot
        <3>2. Cardinality(slotHeld') = Cardinality(slotHeld) + 1
            BY <3>1, <1>0, FS_AddElement
        <3>3. permits + Cardinality(slotHeld) = Slots /\ Cardinality(slotHeld) \in Nat
            BY <1>0, FS_CardinalityType DEF SlotsConserved
        <3>4. permits' + Cardinality(slotHeld') = Slots
            BY <3>1, <3>2, <3>3
        <3>5. \A k \in slotHeld' : Inside(k)'
            BY <2>2, <3>1, <1>b DEF GetSlot
        <3> QED
            BY <3>4, <3>5 DEF SlotsConserved
    <2> QED
        BY <1>4, <2>1, <2>2 DEF Slot
<1>5. ASSUME NEW j \in Job, Gates(j) PROVE SlotsConserved'
    BY <1>5, <1>a, <1>b DEF Gates, AlreadyAnswered, Gate, Raises, AfterSend, Pass
<1>6. ASSUME NEW j \in Job, SendReply(j) PROVE SlotsConserved'
    BY <1>6, <1>a, <1>b DEF SendReply, Withhold, Veto, SensitiveWord, FallbackSent, Cleared, Sends,
       SendFails, Record, RecordBreaks, Writes, AfterSend
<1>7. ASSUME NEW j \in Job, Leave(j) PROVE SlotsConserved'
    <2>1. CASE FreeSlot(j)
        <3>1. slotHeld' = slotHeld \ {j} /\ permits' = IF j \in slotHeld THEN permits + 1 ELSE permits
            BY <2>1 DEF FreeSlot
        <3>2. permits + Cardinality(slotHeld) = Slots /\ Cardinality(slotHeld) \in Nat
            BY <1>0, FS_CardinalityType DEF SlotsConserved
        <3>3. CASE j \in slotHeld
            <4>1. Cardinality(slotHeld') = Cardinality(slotHeld) - 1
                BY <3>1, <3>3, <1>0, FS_RemoveElement
            <4> QED
                BY <2>1, <3>1, <3>2, <3>3, <4>1, <1>b DEF FreeSlot, SlotsConserved
        <3>4. CASE j \notin slotHeld
            <4>1. slotHeld' = slotHeld
                BY <3>1, <3>4
            <4> QED
                BY <2>1, <3>1, <3>2, <3>4, <4>1, <1>b DEF FreeSlot, SlotsConserved
        <3> QED
            BY <3>3, <3>4
    <2>2. CASE Unlock(j)
        BY <2>2, <1>a, <1>b DEF Unlock
    <2> QED
        BY <1>7, <2>1, <2>2 DEF Leave
<1>8. ASSUME NEW j \in Job, Llm(j) PROVE SlotsConserved'
    BY <1>8, <1>a, <1>b DEF Llm, LlmReturns, LlmKeepsQuiet, AgentSends, SelfReplied, Twins
<1>9. CASE Time
    BY <1>9, <1>a, <1>b DEF Time, LockGrowsOld, CooldownEnds, BackoffEnds
<1>10. CASE UNCHANGED vars
    BY <1>10, <1>a, <1>b DEF vars
<1> QED
    BY <1>1, <1>2, <1>3, <1>4, <1>5, <1>6, <1>7, <1>8, <1>9, <1>10 DEF Next, Runs

-----------------------------------------------------------------------------
LEMMA StepInvariant == ASSUME IInv, [Next]_vars PROVE IInv'
BY TypeStep, OwnershipStep, SlotsStep DEF IInv

\* The strengthened invariant of lock, watchdog and slots.
THEOREM Invariance == Spec => []IInv
<1>1. Init => IInv
    BY InitInvariant
<1>2. IInv /\ [Next]_vars => IInv'
    BY StepInvariant
<1> QED
    BY <1>1, <1>2, PTL DEF Spec

\* Every variable keeps its type; no retry counter passes its limit.
THEOREM TypeCorrectness == Spec => []TypeOK
BY Invariance, PTL DEF IInv

\* No slot of the platform is leaked or freed twice.
THEOREM AlwaysSlotsConserved == Spec => []SlotsConserved
BY Invariance, PTL DEF IInv

\* No lock of a chat is left behind by a thread that has ended.
THEOREM NoOrphanedLock == Spec => []OwnerInside
BY Invariance, PTL DEF IInv

\* Two threads work on one chat only when the watchdog has evicted one of them.
THEOREM AlwaysOneAtATime == Spec => []OneAtATime
<1>1. IInv => OneAtATime
    BY DEF IInv, SectionOwner, OneAtATime
<1> QED
    BY <1>1, Invariance, PTL

-----------------------------------------------------------------------------
(* Between a test and the send it guards, nobody else touches the chat.      *)

\* what the tests of a thread still say when it is past them
TestsHold ==
    \A j \in Job : ~Interfered(j) =>
        /\ pc[j] \in {"llm", "check", "send"} => ~Answered(j)
        /\ pc[j] = "send" => ~Cools(j)

\* A thread that nothing interferes with is alone in its section.
LEMMA Alone ==
    ASSUME IInv, NEW j \in Job, NEW k \in Job, j # k, ChatOf[j] = ChatOf[k],
           ~Interfered(j), pc[j] \in Locked \cup Sending
    PROVE  pc[k] \notin Locked \cup Sending
<1>1. j \notin Media \cup evicted /\ k \notin Media \cup evicted
    BY DEF Interfered
<1>2. InSection(j)
    BY <1>1 DEF InSection
<1>3. ~InSection(k)
    BY <1>1, <1>2 DEF IInv, SectionOwner
<1> QED
    BY <1>1, <1>3 DEF InSection

\* Whoever marks a chat or starts its cooldown is in the section, at the gates or
\* later, and evictions are never taken back.
LEMMA WhoMarks ==
    ASSUME IInv, [Next]_vars
    PROVE  /\ evicted \subseteq evicted'
           /\ \A c \in Chat :
                 (lastReplied'[c] # lastReplied[c] \/ c \in cooling' \ cooling) =>
                     \E k \in Job : /\ ChatOf[k] = c /\ pc[k] \in Locked \cup Sending
                                    /\ pc'[k] \notin {"llm", "check", "send"}
<1> DEFINE Goal == /\ evicted \subseteq evicted'
                   /\ \A c \in Chat :
                         (lastReplied'[c] # lastReplied[c] \/ c \in cooling' \ cooling) =>
                             \E k \in Job : /\ ChatOf[k] = c /\ pc[k] \in Locked \cup Sending
                                            /\ pc'[k] \notin {"llm", "check", "send"}
<1> USE JobAssumption DEF IInv, TypeOK, PC, Locked, Sending, lockVars, slotVars, replyVars, coolVars, markVars, Goto
<1>1. ASSUME NEW j \in Job, BeforeLock(j) PROVE Goal
    BY <1>1 DEF BeforeLock, Dismiss, CannotTell, Admit, Enters
<1>2. ASSUME NEW j \in Job, Contend(j) PROVE Goal
    BY <1>2 DEF Contend, Acquire, TakeOver, Register, PutOff, GiveUp
<1>3. ASSUME NEW j \in Job, RetryFires(j) PROVE Goal
    BY <1>3 DEF RetryFires
<1>4. ASSUME NEW j \in Job, Slot(j) PROVE Goal
    BY <1>4 DEF Slot, ResetRetries, GetSlot, SlotTimeout
<1>5. ASSUME NEW j \in Job, Gates(j) PROVE Goal
    BY <1>5 DEF Gates, AlreadyAnswered, Gate, Raises, AfterSend, Pass, Mark
<1>6. ASSUME NEW j \in Job, SendReply(j) PROVE Goal
    BY <1>6 DEF SendReply, Withhold, Veto, SensitiveWord, FallbackSent, Cleared, Sends,
       SendFails, Record, RecordBreaks, Writes, BacksOff, Mark, AfterSend, Twins
<1>7. ASSUME NEW j \in Job, Leave(j) PROVE Goal
    BY <1>7 DEF Leave, FreeSlot, Unlock
<1>8. ASSUME NEW j \in Job, Llm(j) PROVE Goal
    BY <1>8 DEF Llm, LlmReturns, LlmKeepsQuiet, AgentSends, SelfReplied, Twins, Mark
<1>9. CASE Time
    BY <1>9 DEF Time, LockGrowsOld, CooldownEnds, BackoffEnds
<1>10. CASE UNCHANGED vars
    BY <1>10 DEF vars
<1> QED
    BY <1>1, <1>2, <1>3, <1>4, <1>5, <1>6, <1>7, <1>8, <1>9, <1>10 DEF Next, Runs

\* How a thread gets past a test.
LEMMA WhoPasses ==
    ASSUME IInv, [Next]_vars, NEW j \in Job, j \notin Media
    PROVE  /\ pc'[j] \in {"llm", "check", "send"} =>
                  \/ pc[j] \in {"llm", "check", "send"}
                  \/ ~Answered(j) /\ pc[j] = "gates"
           /\ pc'[j] = "send" => pc[j] = "send" \/ (~Cools(j) /\ pc[j] = "check")
<1> DEFINE Goal == /\ pc'[j] \in {"llm", "check", "send"} =>
                          \/ pc[j] \in {"llm", "check", "send"}
                          \/ ~Answered(j) /\ pc[j] = "gates"
                   /\ pc'[j] = "send" => pc[j] = "send" \/ (~Cools(j) /\ pc[j] = "check")
<1> USE JobAssumption DEF IInv, TypeOK, PC, Locked, Sending, Goto
<1>1. ASSUME NEW k \in Job, BeforeLock(k) PROVE Goal
    BY <1>1 DEF BeforeLock, Dismiss, CannotTell, Admit, Enters
<1>2. ASSUME NEW k \in Job, Contend(k) PROVE Goal
    BY <1>2 DEF Contend, Acquire, TakeOver, Register, PutOff, GiveUp
<1>3. ASSUME NEW k \in Job, RetryFires(k) PROVE Goal
    BY <1>3 DEF RetryFires
<1>4. ASSUME NEW k \in Job, Slot(k) PROVE Goal
    BY <1>4 DEF Slot, ResetRetries, GetSlot, SlotTimeout
<1>5. ASSUME NEW k \in Job, Gates(k) PROVE Goal
    BY <1>5 DEF Gates, AlreadyAnswered, Gate, Raises, AfterSend, Pass
<1>6. ASSUME NEW k \in Job, SendReply(k) PROVE Goal
    BY <1>6 DEF SendReply, Withhold, Veto, SensitiveWord, FallbackSent, Cleared, Sends,
       SendFails, Record, RecordBreaks, Writes, AfterSend
<1>7. ASSUME NEW k \in Job, Leave(k) PROVE Goal
    BY <1>7 DEF Leave, FreeSlot, Unlock
<1>8. ASSUME NEW k \in Job, Llm(k) PROVE Goal
    BY <1>8 DEF Llm, LlmReturns, LlmKeepsQuiet, AgentSends, SelfReplied, Twins
<1>9. CASE Time
    BY <1>9 DEF Time, LockGrowsOld, CooldownEnds, BackoffEnds
<1>10. CASE UNCHANGED vars
    BY <1>10 DEF vars
<1> QED
    BY <1>1, <1>2, <1>3, <1>4, <1>5, <1>6, <1>7, <1>8, <1>9, <1>10 DEF Next, Runs

LEMMA TestsHoldStep ==
    ASSUME IInv, TestsHold, [Next]_vars
    PROVE  TestsHold'
<1> SUFFICES ASSUME NEW j \in Job, ~Interfered(j)'
             PROVE  /\ pc'[j] \in {"llm", "check", "send"} => ~Answered(j)'
                    /\ pc'[j] = "send" => ~Cools(j)'
    BY DEF TestsHold
<1>1. ~Interfered(j) /\ j \notin Media
    BY WhoMarks DEF Interfered
<1>2. CASE pc'[j] \notin {"llm", "check", "send"}
    BY <1>2
<1>3. CASE pc'[j] \in {"llm", "check", "send"}
    <2>1. pc[j] \in Locked \cup Sending
        BY <1>1, <1>3, WhoPasses DEF Locked, Sending
    <2>2. ~\E k \in Job : /\ ChatOf[k] = ChatOf[j] /\ pc[k] \in Locked \cup Sending
                          /\ pc'[k] \notin {"llm", "check", "send"}
        BY <1>1, <1>3, <2>1, Alone
    <2>3. lastReplied'[ChatOf[j]] = lastReplied[ChatOf[j]]
          /\ ChatOf[j] \notin cooling' \ cooling
        BY <2>2, WhoMarks, JobAssumption
    <2>4. ~Answered(j) /\ (pc'[j] = "send" => ~Cools(j))
        BY <1>1, <1>3, WhoPasses DEF TestsHold
    <2> QED
        BY <2>3, <2>4 DEF Answered, Cools
<1> QED
    BY <1>2, <1>3

\* A message answered is marked, or one of its threads is about to mark it.
AnswersMarked ==
    \A k \in told :
        \/ lastReplied[ChatOf[k]] = IdOf[k]
        \/ \E t \in Twins(k) : pc[t] \in {"record", "selfSent", "fallback"}

\* A chat just answered cools, or the thread that sent is about to write the time.
SendsCool ==
    \A c \in recent : c \in cooling \/ \E k \in Job : ChatOf[k] = c /\ pc[k] = "record"

\* Every mark leaves, of the answers of its chat, those that it marks.
LEMMA MarkStep ==
    ASSUME TypeOK, AnswersMarked, NEW j \in Job, Mark(j),
           \A k \in Job : ChatOf[k] # ChatOf[j] => pc'[k] = pc[k]
    PROVE  AnswersMarked'
<1> USE JobAssumption DEF TypeOK, AnswersMarked, Mark, Twins
<1> SUFFICES ASSUME NEW k \in told'
             PROVE  \/ lastReplied'[ChatOf[k]] = IdOf[k]
                    \/ \E t \in Twins(k) : pc'[t] \in {"record", "selfSent", "fallback"}
    OBVIOUS
<1>1. CASE ChatOf[k] = ChatOf[j]
    BY <1>1
<1>2. CASE ChatOf[k] # ChatOf[j]
    BY <1>2
<1> QED
    BY <1>1, <1>2

LEMMA AnswersMarkedStep ==
    ASSUME TypeOK, AnswersMarked, [Next]_vars
    PROVE  AnswersMarked'
<1> USE JobAssumption DEF TypeOK, PC, Locked, Sending, Goto
<1>a. ASSUME UNCHANGED markVars,
             \A k \in Job : pc[k] \in {"record", "selfSent", "fallback"} => pc'[k] = pc[k]
      PROVE  AnswersMarked'
    BY <1>a DEF AnswersMarked, markVars, Twins
<1>b. ASSUME NEW j \in Job, told' = told \cup Twins(j), lastReplied' = lastReplied,
             pc'[j] \in {"record", "selfSent", "fallback"},
             \A k \in Job \ {j} : pc'[k] = pc[k],
             pc[j] \notin {"record", "selfSent", "fallback"}
      PROVE  AnswersMarked'
    BY <1>b DEF AnswersMarked, Twins
<1>1. ASSUME NEW j \in Job, BeforeLock(j) PROVE AnswersMarked'
    BY <1>1, <1>a DEF BeforeLock, Dismiss, CannotTell, Admit, Enters, replyVars
<1>2. ASSUME NEW j \in Job, Contend(j) PROVE AnswersMarked'
    BY <1>2, <1>a DEF Contend, Acquire, TakeOver, Register, PutOff, GiveUp, replyVars
<1>3. ASSUME NEW j \in Job, RetryFires(j) PROVE AnswersMarked'
    BY <1>3, <1>a DEF RetryFires, replyVars
<1>4. ASSUME NEW j \in Job, Slot(j) PROVE AnswersMarked'
    BY <1>4, <1>a DEF Slot, ResetRetries, GetSlot, SlotTimeout, replyVars
<1>5. ASSUME NEW j \in Job, Gates(j) PROVE AnswersMarked'
    <2>1. CASE AlreadyAnswered(j) \/ Gate(j)
        BY <2>1, MarkStep DEF AlreadyAnswered, Gate
    <2>2. CASE Raises(j) \/ Pass(j)
        BY <2>2, <1>a DEF Raises, AfterSend, Pass, replyVars
    <2> QED
        BY <1>5, <2>1, <2>2 DEF Gates
<1>6. ASSUME NEW j \in Job, SendReply(j) PROVE AnswersMarked'
    <2>1. CASE Withhold(j) \/ SendFails(j)
        <3>1. Mark(j) \/ UNCHANGED markVars
            BY <2>1 DEF Withhold, SendFails
        <3>2. pc[j] \in {"check", "send"} /\ \A k \in Job \ {j} : pc'[k] = pc[k]
            BY <2>1 DEF Withhold, SendFails
        <3> QED
            BY <3>1, <3>2, <1>a, MarkStep
    <2>2. CASE Veto(j) \/ FallbackSent(j) \/ Record(j) \/ RecordBreaks(j)
        BY <2>2, MarkStep DEF Veto, FallbackSent, Record, RecordBreaks, Writes
    <2>3. CASE SensitiveWord(j)
        BY <2>3, <1>b DEF SensitiveWord
    <2>4. CASE Sends(j)
        BY <2>4, <1>b DEF Sends
    <2>5. CASE Cleared(j)
        BY <2>5, <1>a DEF Cleared, replyVars
    <2> QED
        BY <1>6, <2>1, <2>2, <2>3, <2>4, <2>5 DEF SendReply
<1>7. ASSUME NEW j \in Job, Leave(j) PROVE AnswersMarked'
    BY <1>7, <1>a DEF Leave, FreeSlot, Unlock, replyVars
<1>8. ASSUME NEW j \in Job, Llm(j) PROVE AnswersMarked'
    <2>1. CASE LlmReturns(j)
        BY <2>1, <1>a DEF LlmReturns, replyVars
    <2>2. CASE LlmKeepsQuiet(j) \/ SelfReplied(j)
        BY <2>2, MarkStep DEF LlmKeepsQuiet, SelfReplied
    <2>3. CASE AgentSends(j)
        BY <2>3, <1>b DEF AgentSends
    <2> QED
        BY <1>8, <2>1, <2>2, <2>3 DEF Llm
<1>9. CASE Time
    BY <1>9, <1>a DEF Time, LockGrowsOld, CooldownEnds, BackoffEnds, replyVars
<1>10. CASE UNCHANGED vars
    BY <1>10, <1>a DEF vars, replyVars
<1> QED
    BY <1>1, <1>2, <1>3, <1>4, <1>5, <1>6, <1>7, <1>8, <1>9, <1>10 DEF Next, Runs

LEMMA SendsCoolStep ==
    ASSUME TypeOK, SendsCool, [Next]_vars
    PROVE  SendsCool'
<1> USE JobAssumption DEF TypeOK, PC, Locked, Sending, Goto, SendsCool
<1>a. ASSUME UNCHANGED coolVars, \A k \in Job : pc[k] = "record" => pc'[k] = "record"
      PROVE  SendsCool'
    BY <1>a DEF coolVars
<1>1. ASSUME NEW j \in Job, BeforeLock(j) PROVE SendsCool'
    BY <1>1, <1>a DEF BeforeLock, Dismiss, CannotTell, Admit, Enters, replyVars
<1>2. ASSUME NEW j \in Job, Contend(j) PROVE SendsCool'
    BY <1>2, <1>a DEF Contend, Acquire, TakeOver, Register, PutOff, GiveUp, replyVars
<1>3. ASSUME NEW j \in Job, RetryFires(j) PROVE SendsCool'
    BY <1>3, <1>a DEF RetryFires, replyVars
<1>4. ASSUME NEW j \in Job, Slot(j) PROVE SendsCool'
    BY <1>4, <1>a DEF Slot, ResetRetries, GetSlot, SlotTimeout, replyVars
<1>5. ASSUME NEW j \in Job, Gates(j) PROVE SendsCool'
    BY <1>5, <1>a DEF Gates, AlreadyAnswered, Gate, Raises, AfterSend, Pass, replyVars
<1>6. ASSUME NEW j \in Job, SendReply(j) PROVE SendsCool'
    <2>1. CASE Withhold(j) \/ Veto(j) \/ SensitiveWord(j) \/ FallbackSent(j)
               \/ Cleared(j) \/ SendFails(j)
        BY <2>1, <1>a DEF Withhold, Veto, SensitiveWord, FallbackSent, Cleared,
           SendFails, replyVars
    <2>2. CASE Sends(j)
        BY <2>2 DEF Sends
    <2>3. CASE Record(j) \/ RecordBreaks(j)
        <3>1. /\ \A k \in Job \ {j} : pc'[k] = pc[k]
              /\ \/ cooling' = cooling \cup {ChatOf[j]} /\ recent' = recent
                 \/ recent' = recent \ {ChatOf[j]} /\ cooling' = cooling
            BY <2>3 DEF Record, RecordBreaks, Writes
        <3> QED
            BY <3>1
    <2> QED
        BY <1>6, <2>1, <2>2, <2>3 DEF SendReply
<1>7. ASSUME NEW j \in Job, Leave(j) PROVE SendsCool'
    BY <1>7, <1>a DEF Leave, FreeSlot, Unlock, replyVars
<1>8. ASSUME NEW j \in Job, Llm(j) PROVE SendsCool'
    BY <1>8, <1>a DEF Llm, LlmReturns, LlmKeepsQuiet, AgentSends, SelfReplied, replyVars
<1>9. CASE Time
    BY <1>9 DEF Time, LockGrowsOld, CooldownEnds, BackoffEnds, replyVars, coolVars
<1>10. CASE UNCHANGED vars
    BY <1>10, <1>a DEF vars, replyVars
<1> QED
    BY <1>1, <1>2, <1>3, <1>4, <1>5, <1>6, <1>7, <1>8, <1>9, <1>10 DEF Next, Runs

\* what the tests, the marks and the cooldowns say together
TInv == TestsHold /\ AnswersMarked /\ SendsCool

LEMMA InitTests == Init => TInv
BY DEF Init, TInv, TestsHold, AnswersMarked, SendsCool

LEMMA TestsStep == ASSUME IInv, TInv, [Next]_vars PROVE TInv'
BY TestsHoldStep, AnswersMarkedStep, SendsCoolStep DEF TInv, IInv

LEMMA NotTold ==
    ASSUME IInv, TInv, NEW j \in Job, ~Interfered(j), pc[j] \in {"llm", "check", "send"}
    PROVE  j \notin told
<1>1. ~Answered(j)
    BY DEF TInv, TestsHold
<1>2. ~\E t \in Twins(j) : pc[t] \in {"record", "selfSent", "fallback"}
    BY Alone DEF Twins, Locked, Sending
<1> QED
    BY <1>1, <1>2 DEF TInv, AnswersMarked, Answered

LEMMA NotRecent ==
    ASSUME IInv, TInv, NEW j \in Job, ~Interfered(j), pc[j] \in {"check", "send"},
           ~Cools(j)
    PROVE  ChatOf[j] \notin recent \/ j \in Followup
<1>1. ~\E k \in Job : ChatOf[k] = ChatOf[j] /\ pc[k] = "record"
    BY Alone DEF Locked, Sending
<1> QED
    BY <1>1 DEF TInv, SendsCool, Cools

\* A message is not answered twice while the store has the mark of its answer.
THEOREM NeverRepeated == Spec => NoRepeatedAnswer
<1>1. Init => TInv
    BY InitTests
<1>2. IInv /\ TInv /\ [Next]_vars => TInv'
    BY TestsStep
<1>3. IInv /\ TInv => \A j \in Job :
          AgentSends(j) \/ SensitiveWord(j) \/ Sends(j) => j \notin told \/ Interfered(j)
    <2> SUFFICES ASSUME IInv, TInv, NEW j \in Job,
                        AgentSends(j) \/ SensitiveWord(j) \/ Sends(j)
                 PROVE  j \notin told \/ Interfered(j)
        OBVIOUS
    <2>1. pc[j] \in {"llm", "check", "send"}
        BY DEF AgentSends, SensitiveWord, Sends, Goto
    <2> QED
        BY <2>1, NotTold
<1> QED
    BY <1>1, <1>2, <1>3, Invariance, PTL DEF Spec, NoRepeatedAnswer

\* No answer of _send_reply to a chat it has just answered, but to a follow-up.
THEOREM AlwaysSeparated == Spec => CooldownSeparates
<1>1. Init => TInv
    BY InitTests
<1>2. IInv /\ TInv /\ [Next]_vars => TInv'
    BY TestsStep
<1>3. IInv /\ TInv => \A j \in Job :
          SensitiveWord(j) \/ Sends(j) =>
             ChatOf[j] \notin recent \/ j \in Followup \/ Interfered(j)
    <2> SUFFICES ASSUME IInv, TInv, NEW j \in Job, ~Interfered(j),
                        SensitiveWord(j) \/ Sends(j)
                 PROVE  ChatOf[j] \notin recent \/ j \in Followup
        OBVIOUS
    <2>1. pc[j] \in {"check", "send"} /\ ~Cools(j)
        BY DEF SensitiveWord, Sends, Goto, TInv, TestsHold
    <2> QED
        BY <2>1, NotRecent
<1> QED
    BY <1>1, <1>2, <1>3, Invariance, PTL DEF Spec, CooldownSeparates
=============================================================================

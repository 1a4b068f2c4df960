-------------------------- MODULE DeadLettersProof ---------------------------
(***************************************************************************)
(* Proofs about the dead letters, for any messages, chats, rows, requests   *)
(* and replays, and any slots and retries of the reply section.             *)
(*                                                                          *)
(* The rows of a message form a tree: a message or a row is spent when a    *)
(* job of it is past the point where it could answer, and a failure leaves  *)
(* a row below it.                                                          *)
(***************************************************************************)
EXTENDS DeadLetters, FiniteSetTheorems, TLAPS

-----------------------------------------------------------------------------
(* The inductive invariant.                                                 *)

Ids == Message \cup Row

\* a job that leaves, one that has just answered, one that has begun, and one that
\* may still answer or leave a row
Past(j) == pc[j] \in {"freeSlot", "unlock", "done"}
Sent(j) == pc[j] \in {"record", "selfSent", "fallback"}
Began(j) == pc[j] # "entry" \/ j \in Message \cup Running
Active(j) == Began(j) /\ ~Past(j)

Known(i) == i \in Message \/ letter[i] # NoLetter
Source(i) == IF i \in Message THEN i ELSE letter[i].of
Spent(i) == \E j \in Job : IdOf[j] = i /\ Past(j)
Over(i) == \E j \in Job : IdOf[j] = i /\ (Past(j) \/ Sent(j))
Excused(m) == Raced(m) \/ m \in refiled

\* rows and requests: what is replayed has a row, a request that returned has
\* moved, a row whose replay was resolved does not wait
Rows ==
    /\ \A r \in Row : letter[r].id \in Message => letter[r].of = letter[r].id
    /\ \A r \in Row, q \in Request :
          Begun(r, q) => /\ letter[r] # NoLetter
                         /\ request[q] # r => letter[r].status # "pending"
    /\ \A q \in Request : request[q] # None => <<request[q], q>> \in Replay
    /\ \A q \in returned : pc[<<request[q], q>>] # "entry"

\* an id that a chat was marked with is one of a job that is past
Marked == \A c \in Chat : lastReplied[c] # None => Spent(lastReplied[c])

\* a job that has just answered is of an answered message
SentAnswered == \A j \in Job : Sent(j) => About(j) \in answered

\* but for races, a message has one id that is not spent; when it has been answered
\* its ids are over, but for races and rows that were filed all the same
OneLife ==
    /\ \A i, k \in Ids :
          /\ i # k /\ Known(i) /\ Known(k) /\ Source(i) = Source(k)
          /\ ~Spent(i) /\ ~Spent(k)
          => Raced(Source(i))
    /\ \A i \in Ids :
          Known(i) /\ Source(i) \in answered /\ ~Over(i) => Excused(Source(i))

\* a set of rows with all rows that failures of i, or of one of them, left
Below(S, i) == \A r \in Row : letter[r].id \in S \cup {i} => r \in S

\* something in the set of rows may still answer the message
Hope(S, m) ==
    \E r \in S : /\ letter[r].of = m
                 /\ \/ letter[r].status = "pending"
                    \/ \E j \in Job : IdOf[j] = r /\ Active(j)

\* no row is below itself, and below what is spent there is hope
Tree ==
    /\ \A r \in Row : \E S \in SUBSET Row : Below(S, r) /\ r \notin S
    /\ \A i \in Ids, S \in SUBSET Row :
          /\ Known(i) /\ Spent(i) /\ Source(i) \notin answered \cup dropped
          /\ Below(S, i)
          => Hope(S, Source(i))

IInv ==
    /\ TypeOK /\ Rows /\ SentAnswered /\ Marked
    /\ OneLife /\ TwiceOnlyByName /\ Tree

-----------------------------------------------------------------------------
(* Jobs.                                                                    *)

\* A job is a message, or a row with a request.
LEMMA JobShape ==
    ASSUME NEW j \in Job
    PROVE  /\ IdOf[j] \in Ids /\ ChatOf[j] \in Chat
           /\ About(j) = Source(IdOf[j])
           /\ \/ j \in Message /\ IdOf[j] = j
              \/ /\ j \in Replay /\ j \notin Message /\ IdOf[j] \notin Message
                 /\ \E r \in Row, q \in Request : j = <<r, q>> /\ IdOf[j] = r
                 /\ j[1] \in Row /\ j[2] \in Request /\ j = <<j[1], j[2]>> /\ IdOf[j] = j[1]
<1> USE LettersAssumption
<1>1. CASE j \in Message
    BY <1>1 DEF Job, IdOf, ChatOf, About, Source, Ids
<1>2. CASE j \notin Message
    <2>1. j \in Replay /\ j \in Row \X Request
        BY <1>2 DEF Job
    <2>2. PICK r \in Row, q \in Request : j = <<r, q>>
        BY <2>1
    <2>3. j[1] = r /\ j[2] = q /\ IdOf[j] = r /\ r \notin Message
        BY <1>2, <2>2 DEF IdOf
    <2>4. ChatOf[j] \in Chat
        BY <2>3 DEF ChatOf
    <2> QED
        BY <1>2, <2>1, <2>2, <2>3, <2>4 DEF About, Source, Ids
<1> QED
    BY <1>1, <1>2

LEMMA ReplayShape ==
    ASSUME NEW r \in Row, NEW q \in Request, <<r, q>> \in Replay
    PROVE  /\ <<r, q>> \in Job /\ <<r, q>> \notin Message /\ IdOf[<<r, q>>] = r
           /\ (\E p \in Request : <<request[p], p>> = <<r, q>>) <=> request[q] = r
BY LettersAssumption DEF Job, IdOf

\* A job of a row has begun when its request has.
LEMMA BegunBegan ==
    ASSUME NEW r \in Row, NEW q \in Request, <<r, q>> \in Replay
    PROVE  Began(<<r, q>>) <=> Begun(r, q)
BY ReplayShape DEF Began, Begun, Running

\* A job that has begun is about a message.
LEMMA BeganKnown ==
    ASSUME TypeOK, Rows, NEW j \in Job, Began(j)
    PROVE  Known(IdOf[j]) /\ About(j) \in Message
<1>1. CASE j \in Message
    BY <1>1, JobShape DEF Known, About
<1>2. CASE j \notin Message
    <2>1. PICK r \in Row, q \in Request : j = <<r, q>> /\ IdOf[j] = r /\ j \in Replay
        BY <1>2, JobShape
    <2>2. letter[r] # NoLetter
        BY <2>1, BegunBegan DEF Rows
    <2>3. letter[r].of \in Message
        BY <2>1, <2>2 DEF TypeOK
    <2> QED
        BY <1>2, <2>1, <2>2, <2>3, JobShape DEF Known, Source
<1> QED
    BY <1>1, <1>2

\* Two jobs of one id are a race when both have begun.
LEMMA SameIdRaces ==
    ASSUME TypeOK, Rows, NEW j \in Job, NEW k \in Job, j # k, IdOf[j] = IdOf[k],
           Began(j), Began(k)
    PROVE  Raced(About(j))
<1>1. j \notin Message /\ k \notin Message
    BY JobShape
<1>2. PICK r \in Row, q \in Request : j = <<r, q>> /\ IdOf[j] = r /\ j \in Replay
    BY <1>1, JobShape
<1>3. PICK s \in Row, p \in Request : k = <<s, p>> /\ IdOf[k] = s /\ k \in Replay
    BY <1>1, JobShape
<1>4. r = s /\ p # q /\ Begun(r, p) /\ Begun(r, q)
    BY <1>2, <1>3, BegunBegan
<1>5. letter[r].of = About(j)
    BY <1>1, <1>2, JobShape DEF Source
<1> QED
    BY <1>4, <1>5 DEF Raced

-----------------------------------------------------------------------------
(* What a step of a job does to the reply section.                          *)

Moves(j) ==
    \/ Goes(j) \/ Drops(j) \/ Answers(j)
    \/ DeadLetter(j) \/ LetterAfterAnswer(j) \/ Breaks(j)

\* a step that leaves a row
Leaves(j) == (DeadLetter(j) \/ LetterAfterAnswer(j)) /\ AddDeadLetter(j)

\* where a job goes, and what it may mark
Course(j) ==
    /\ Section!TypeOK'
    /\ \A k \in Job : k # j => pc'[k] = pc[k]
    /\ pc[j] # "done" /\ pc'[j] # "entry"
    /\ Past(j) => Past(j)'
    /\ Sent(j) => Sent(j)' \/ Past(j)'
    /\ \A c \in Chat : \/ lastReplied'[c] = lastReplied[c]
                       \/ lastReplied'[c] = IdOf[j] /\ Past(j)'

\* what follows an answer
LEMMA SentCourse ==
    ASSUME Section!TypeOK, NEW j \in Job,
           Section!Record(j) \/ Section!SelfReplied(j) \/ Section!FallbackSent(j)
    PROVE  Course(j) /\ Sent(j) /\ ~Past(j) /\ Past(j)'
<1> USE LettersAssumption, JobShape DEF Course, Past, Sent, Ids, Section!TypeOK, Section!PC,
        Section!Locked, Section!Sending, Section!lockVars, Section!slotVars, Section!Goto,
        Section!Mark
<1>1. CASE Section!Record(j)
    BY <1>1 DEF Section!Record, Section!Writes, Section!AfterSend
<1>2. CASE Section!SelfReplied(j)
    BY <1>2 DEF Section!SelfReplied, Section!coolVars
<1>3. CASE Section!FallbackSent(j)
    BY <1>3 DEF Section!FallbackSent, Section!AfterSend, Section!coolVars
<1> QED
    BY <1>1, <1>2, <1>3

LEMMA GoesCourse ==
    ASSUME Section!TypeOK, NEW j \in Job, Goes(j)
    PROVE  /\ Course(j) /\ (Sent(j)' => Sent(j))
           /\ Past(j)' => Past(j) \/ Sent(j) \/ lastReplied[ChatOf[j]] = IdOf[j]
<1> DEFINE Goal == /\ Course(j) /\ (Sent(j)' => Sent(j))
                   /\ Past(j)' => Past(j) \/ Sent(j) \/ lastReplied[ChatOf[j]] = IdOf[j]
<1> USE LettersAssumption, JobShape DEF Course, Past, Sent, Ids, Section!TypeOK, Section!PC,
        Section!Locked, Section!Sending, Section!lockVars, Section!slotVars, Section!coolVars,
        Section!markVars, Section!replyVars, Section!Goto
<1>1. CASE Section!Admit(j)
    BY <1>1 DEF Section!Admit, Section!Enters
<1>2. CASE Section!Acquire(j)
    BY <1>2 DEF Section!Acquire, Section!Register
<1>3. CASE Section!PutOff(j)
    BY <1>3 DEF Section!PutOff
<1>4. CASE Section!RetryFires(j)
    BY <1>4 DEF Section!RetryFires
<1>5. CASE Section!ResetRetries(j)
    BY <1>5 DEF Section!ResetRetries
<1>6. CASE Section!GetSlot(j)
    BY <1>6 DEF Section!GetSlot
<1>7. CASE Section!AlreadyAnswered(j)
    BY <1>7 DEF Section!AlreadyAnswered, Section!Mark, Section!Answered
<1>8. CASE Section!Pass(j)
    BY <1>8 DEF Section!Pass
<1>9. CASE Section!LlmReturns(j)
    BY <1>9 DEF Section!LlmReturns
<1>10. CASE Section!Cleared(j)
    BY <1>10 DEF Section!Cleared
<1>11. CASE Section!Record(j) \/ Section!SelfReplied(j) \/ Section!FallbackSent(j)
    <2>1. Course(j) /\ Sent(j) /\ Past(j)'
        BY <1>11, SentCourse
    <2> QED
        BY <2>1 DEF Past, Sent
<1>12. CASE Section!FreeSlot(j)
    BY <1>12 DEF Section!FreeSlot
<1>13. CASE Section!Unlock(j)
    BY <1>13 DEF Section!Unlock
<1> QED
    BY <1>1, <1>2, <1>3, <1>4, <1>5, <1>6, <1>7, <1>8, <1>9, <1>10, <1>11, <1>12, <1>13
       DEF Goes

LEMMA GateCourse ==
    ASSUME Section!TypeOK, NEW j \in Job, Section!Gate(j)
    PROVE  Course(j) /\ ~Sent(j)'
BY LettersAssumption, JobShape DEF Course, Past, Sent, Ids, Section!TypeOK, Section!PC,
   Section!Locked, Section!Sending, Section!lockVars, Section!slotVars, Section!coolVars,
   Section!Goto, Section!Gate, Section!Mark

LEMMA QuietCourse ==
    ASSUME Section!TypeOK, NEW j \in Job, Section!LlmKeepsQuiet(j)
    PROVE  Course(j) /\ ~Past(j) /\ ~Sent(j) /\ Past(j)'
BY LettersAssumption, JobShape DEF Course, Past, Sent, Ids, Section!TypeOK, Section!PC,
   Section!Locked, Section!Sending, Section!lockVars, Section!slotVars, Section!coolVars,
   Section!Goto, Section!LlmKeepsQuiet, Section!Mark

LEMMA VetoCourse ==
    ASSUME Section!TypeOK, NEW j \in Job, Section!Veto(j)
    PROVE  Course(j) /\ ~Past(j) /\ ~Sent(j) /\ Past(j)'
BY LettersAssumption, JobShape DEF Course, Past, Sent, Ids, Section!TypeOK, Section!PC,
   Section!Locked, Section!Sending, Section!lockVars, Section!slotVars, Section!coolVars,
   Section!Goto, Section!Veto, Section!AfterSend, Section!Mark

LEMMA RaisesCourse ==
    ASSUME Section!TypeOK, NEW j \in Job, Section!Raises(j)
    PROVE  Course(j) /\ ~Sent(j)'
BY LettersAssumption, JobShape DEF Course, Past, Sent, Ids, Section!TypeOK, Section!PC,
   Section!Locked, Section!Sending, Section!lockVars, Section!slotVars, Section!coolVars,
   Section!markVars, Section!replyVars, Section!Goto, Section!Raises, Section!AfterSend

LEMMA DropsCourse ==
    ASSUME Section!TypeOK, NEW j \in Job, Drops(j)
    PROVE  Course(j) /\ ~Sent(j)'
<1> USE LettersAssumption, JobShape DEF Course, Past, Sent, Ids, Section!TypeOK, Section!PC,
        Section!Locked, Section!Sending, Section!lockVars, Section!slotVars, Section!coolVars,
        Section!markVars, Section!replyVars, Section!Goto
<1>1. CASE Section!Dismiss(j) \/ Section!CannotTell(j)
    BY <1>1 DEF Section!Dismiss, Section!CannotTell, Section!Enters
<1>2. CASE Section!GiveUp(j)
    BY <1>2 DEF Section!GiveUp
<1>3. CASE Section!SlotTimeout(j)
    BY <1>3 DEF Section!SlotTimeout
<1>4. CASE Section!Withhold(j)
    BY <1>4 DEF Section!Withhold, Section!AfterSend, Section!Mark
<1>5. CASE Section!Veto(j) \/ Section!Gate(j) \/ Section!LlmKeepsQuiet(j)
    <2>1. Course(j) /\ (~Sent(j)' \/ Past(j)')
        BY <1>5, VetoCourse, GateCourse, QuietCourse
    <2> QED
        BY <2>1 DEF Past, Sent
<1> QED
    BY <1>1, <1>2, <1>3, <1>4, <1>5 DEF Drops

LEMMA AnswersCourse ==
    ASSUME Section!TypeOK, NEW j \in Job, Answers(j)
    PROVE  Course(j) /\ ~Past(j) /\ ~Sent(j) /\ Sent(j)' /\ ~Past(j)'
<1> USE LettersAssumption, JobShape DEF Course, Past, Sent, Ids, Section!TypeOK, Section!PC,
        Section!Locked, Section!Sending, Section!lockVars, Section!slotVars, Section!coolVars,
        Section!Twins, Section!Goto
<1>1. CASE Section!Sends(j)
    BY <1>1 DEF Section!Sends
<1>2. CASE Section!AgentSends(j)
    BY <1>2 DEF Section!AgentSends
<1>3. CASE Section!SensitiveWord(j)
    BY <1>3 DEF Section!SensitiveWord
<1> QED
    BY <1>1, <1>2, <1>3 DEF Answers

\* A row is left by a job that ends, before an answer or after its own.
LEMMA LeavesCourse ==
    ASSUME Section!TypeOK, NEW j \in Job, DeadLetter(j) \/ LetterAfterAnswer(j)
    PROVE  /\ Course(j) /\ ~Past(j) /\ Past(j)' /\ ~Sent(j)'
           /\ DeadLetter(j) => ~Sent(j)
           /\ LetterAfterAnswer(j) => Sent(j)
<1>1. CASE DeadLetter(j)
    <2>1. Course(j) /\ ~Past(j) /\ ~Sent(j) /\ Past(j)'
        BY <1>1, QuietCourse, VetoCourse DEF DeadLetter
    <2>2. ~LetterAfterAnswer(j)
        BY <2>1, SentCourse DEF LetterAfterAnswer
    <2> QED
        BY <2>1, <2>2 DEF Past, Sent
<1>2. CASE LetterAfterAnswer(j)
    <2>1. Course(j) /\ Sent(j) /\ ~Past(j) /\ Past(j)'
        BY <1>2, SentCourse DEF LetterAfterAnswer
    <2>2. ~DeadLetter(j)
        BY <2>1, QuietCourse, VetoCourse DEF DeadLetter
    <2> QED
        BY <2>1, <2>2 DEF Past, Sent
<1> QED
    BY <1>1, <1>2

\* Every step of a job, and what it leaves of table and histories.
LEMMA MovesCourse ==
    ASSUME Section!TypeOK, NEW j \in Job, Moves(j)
    PROVE  Course(j) /\ UNCHANGED request /\ (Sent(j)' => Sent(j) \/ Answers(j))
BY GoesCourse, DropsCourse, AnswersCourse, LeavesCourse, RaisesCourse
   DEF Moves, DeadLetter, LetterAfterAnswer, Breaks, Goes, Drops, Answers, tableVars

\* A failure leaves a row that waits, below the id of its job.
LEMMA Filed ==
    ASSUME TypeOK, Rows, NEW j \in Job, Began(j), AddDeadLetter(j)
    PROVE  \E x \in Row :
              /\ letter'[x] \in [id : Ids, of : Message, status : Statuses]
              /\ letter'[x].id = IdOf[j] /\ letter'[x].of = About(j)
              /\ letter'[x].status = "pending"
              /\ \/ letter' = letter
                 \/ letter[x] = NoLetter /\ \A r \in Row : r # x => letter'[r] = letter[r]
<1>1. About(j) \in Message /\ Known(IdOf[j])
    BY BeganKnown
<1>3. CASE \E r \in Row : letter[r].id = IdOf[j] /\ letter[r].status = "pending"
    <2>1. PICK x \in Row : letter[x].id = IdOf[j] /\ letter[x].status = "pending"
        BY <1>3
    <2>2. letter' = letter
        BY <1>3 DEF AddDeadLetter
    <2>3. letter[x] \in [id : Ids, of : Message, status : Statuses]
        BY <2>1 DEF TypeOK, NoLetter, Ids
    <2>4. letter[x].of = About(j)
        BY <2>1, JobShape DEF TypeOK, Rows, Source, Ids
    <2> QED
        BY <2>1, <2>2, <2>3, <2>4
<1>4. CASE ~\E r \in Row : letter[r].id = IdOf[j] /\ letter[r].status = "pending"
    <2>1. PICK x \in Free(j) : letter' = [letter EXCEPT ![x] = Fresh(j)]
        BY <1>4 DEF AddDeadLetter
    <2>2. x \in Row /\ letter[x] = NoLetter
        BY <2>1 DEF Free
    <2>3. letter'[x] = Fresh(j) /\ \A r \in Row : r # x => letter'[r] = letter[r]
        BY <2>1, <2>2 DEF TypeOK
    <2>4. Fresh(j) \in [id : Ids, of : Message, status : Statuses]
        BY <1>1, JobShape DEF Fresh, Statuses
    <2> QED
        BY <2>2, <2>3, <2>4 DEF Fresh
<1> QED
    BY <1>3, <1>4

\* A step of a job starts no other job and moves none but itself.
LEMMA HandleBegan ==
    ASSUME TypeOK, Rows, NEW j \in Job, Handle(j)
    PROVE  /\ Began(j) /\ Moves(j) /\ Course(j) /\ UNCHANGED request
           /\ \A r \in Row, q \in Request : Begun(r, q)' <=> Begun(r, q)
<1>1. Began(j) /\ Moves(j)
    BY DEF Handle, UnderWay, Began, Moves
<1>2. Course(j) /\ UNCHANGED request
    BY <1>1, MovesCourse DEF TypeOK
<1>3. ASSUME NEW r \in Row, NEW q \in Request PROVE Begun(r, q)' <=> Begun(r, q)
    <2>1. CASE <<r, q>> \notin Replay
        BY <2>1 DEF Begun
    <2>2. CASE <<r, q>> \in Replay /\ <<r, q>> = j
        <3>1. Begun(r, q)
            BY <1>1, <2>2, BegunBegan
        <3> QED
            BY <1>2, <2>2, <3>1 DEF Begun, Course
    <2>3. CASE <<r, q>> \in Replay /\ <<r, q>> # j
        BY <1>2, <2>3, ReplayShape DEF Begun, Course
    <2> QED
        BY <2>1, <2>2, <2>3
<1> QED
    BY <1>1, <1>2, <1>3

LEMMA HandleTyped ==
    ASSUME TypeOK, Rows, NEW j \in Job, Handle(j)
    PROVE  TypeOK' /\ Rows'
<1> USE HandleBegan
<1>1. Section!TypeOK'
    BY DEF Course
<1>2. /\ letter' \in [Row -> {NoLetter} \cup [id : Ids, of : Message, status : Statuses]]
      /\ \A r \in Row : letter'[r].id \in Row => letter'[letter'[r].id].of = letter'[r].of
      /\ \A r \in Row : letter'[r].id \in Message => letter'[r].of = letter'[r].id
      /\ \A r \in Row : letter[r] # NoLetter => letter'[r] = letter[r]
    <2>1. CASE letter' = letter
        BY <2>1 DEF TypeOK, Rows, Ids
    <2>2. CASE Leaves(j) /\ letter' # letter
        <3>1. PICK x \in Row :
                  /\ letter'[x] \in [id : Ids, of : Message, status : Statuses]
                  /\ letter'[x].id = IdOf[j] /\ letter'[x].of = About(j)
                  /\ letter[x] = NoLetter /\ \A r \in Row : r # x => letter'[r] = letter[r]
            BY <2>2, Filed DEF Leaves
        <3>2. letter' \in [Row -> {NoLetter} \cup [id : Ids, of : Message, status : Statuses]]
            <4>1. \E f : letter' = [letter EXCEPT ![f] = Fresh(j)]
                BY <2>2 DEF Leaves, AddDeadLetter
            <4> QED
                BY <3>1, <4>1 DEF TypeOK, Ids
        <3>3. ASSUME NEW r \in Row, letter'[r].id \in Row
              PROVE  letter'[letter'[r].id].of = letter'[r].of
            <4>1. CASE r = x
                <5>1. IdOf[j] \in Row /\ letter[IdOf[j]] # NoLetter
                    BY <3>1, <3>3, <4>1, BeganKnown, LettersAssumption DEF Known
                <5>2. letter[IdOf[j]].of = About(j)
                    BY <5>1, JobShape, LettersAssumption DEF Source
                <5> QED
                    BY <3>1, <4>1, <5>1, <5>2
            <4>2. CASE r # x
                <5>1. letter[r].id \in Row /\ letter[letter[r].id].of = letter[r].of
                    BY <3>1, <3>3, <4>2 DEF TypeOK
                <5>2. letter[r].of \in Message
                    BY <5>1, LettersAssumption DEF TypeOK, NoLetter
                <5>3. letter[r].id # x
                    BY <3>1, <5>1, <5>2, LettersAssumption DEF NoLetter
                <5> QED
                    BY <3>1, <4>2, <5>1, <5>3
            <4> QED
                BY <4>1, <4>2
        <3>4. ASSUME NEW r \in Row, letter'[r].id \in Message
              PROVE  letter'[r].of = letter'[r].id
            BY <3>1, <3>4, JobShape DEF Rows, Source
        <3> QED
            BY <3>1, <3>2, <3>3, <3>4
    <2> QED
        BY <2>1, <2>2 DEF Moves, Leaves, Goes, Drops, Answers, DeadLetter, LetterAfterAnswer,
           Breaks, tableVars
<1>3. /\ returned' \subseteq {q \in Request : request'[q] # None}
      /\ \A q \in returned' : pc'[<<request'[q], q>>] # "entry"
    <2>1. ASSUME NEW q \in returned PROVE q \in Request /\ request[q] # None /\ pc'[<<request[q], q>>] # "entry"
        <3>1. q \in Request /\ request[q] \in Row /\ <<request[q], q>> \in Replay
              /\ request[q] # None /\ pc[<<request[q], q>>] # "entry"
            BY <2>1 DEF TypeOK, Rows
        <3> QED
            BY <3>1, ReplayShape DEF Course
    <2>2. CASE j \in Running /\ pc'[j] \in {"retrying", "done"}
        <3>1. PICK q \in Request : j = <<request[q], q>>
            BY <2>2 DEF Running
        <3>2. request[q] \in Row \cup {None}
            BY DEF TypeOK
        <3>3. j \notin Message
            BY <3>1, <3>2, LettersAssumption
        <3>4. j[1] \in Row /\ j[1] = request[q] /\ j[2] = q
            BY <3>1, <3>3, JobShape
        <3>5. request[q] # None
            BY <3>4, LettersAssumption
        <3>6. returned' = returned \cup {q}
            BY <2>2, <3>4 DEF Handle, Returns
        <3> QED
            BY <2>1, <2>2, <3>1, <3>5, <3>6
    <2>3. CASE ~(j \in Running /\ pc'[j] \in {"retrying", "done"})
        <3>1. returned' = returned
            BY <2>3 DEF Handle, Returns
        <3> QED
            BY <2>1, <3>1
    <2> QED
        BY <2>2, <2>3
<1>4. raised' \subseteq {q \in Request : request'[q] # None}
    <2>1. CASE Breaks(j) /\ raised' # raised
        <3>1. PICK q \in Request : j = <<request[q], q>>
            BY <2>1 DEF Breaks, Running
        <3>2. request[q] \in Row \cup {None}
            BY DEF TypeOK
        <3>3. j \notin Message
            BY <3>1, <3>2, LettersAssumption
        <3>4. j[1] \in Row /\ j[1] = request[q] /\ j[2] = q
            BY <3>1, <3>3, JobShape
        <3>5. request[q] # None
            BY <3>4, LettersAssumption
        <3> QED
            BY <2>1, <3>4, <3>5 DEF Breaks, TypeOK
    <2>2. CASE ~Breaks(j) \/ raised' = raised
        BY <2>2 DEF Moves, Goes, Drops, Answers, DeadLetter, LetterAfterAnswer, tableVars, TypeOK
    <2> QED
        BY <2>1, <2>2
<1>5. /\ answered' \subseteq Message /\ twice' \subseteq answered'
      /\ refiled' \cup dropped' \subseteq Message
    BY BeganKnown DEF Moves, Goes, Drops, Answers, DeadLetter, LetterAfterAnswer, Breaks,
       historyVars, TypeOK
<1>6. \A q \in Request : request'[q] # None => letter'[request'[q]] # NoLetter
    BY <1>2 DEF TypeOK
<1>7. \A r \in Row, q \in Request :
          Begun(r, q)' => /\ letter'[r] # NoLetter
                          /\ request'[q] # r => letter'[r].status # "pending"
    BY <1>2 DEF Rows
<1>8. TypeOK'
    BY <1>1, <1>2, <1>3, <1>4, <1>5, <1>6 DEF TypeOK, Ids
<1>9. Rows'
    BY <1>2, <1>3, <1>7 DEF Rows
<1> QED
    BY <1>8, <1>9

\* Requests, discards and time leave the jobs and the histories of answers.
LEMMA OthersTyped ==
    ASSUME TypeOK, Rows, Time \/ UNCHANGED vars
                         \/ (\E q \in Request, r \in Row : Begin(q, r))
                         \/ (\E q \in Request : Resolve(q)) \/ (\E r \in Row : Discard(r))
    PROVE  TypeOK' /\ Rows'
<1> USE LettersAssumption
<1>a. ASSUME UNCHANGED sectionVars PROVE Section!TypeOK'
    BY <1>a DEF sectionVars, TypeOK, Section!TypeOK
<1>1. CASE Time
    <2>1. Section!TypeOK'
        BY <1>1 DEF Time, TypeOK, Section!CooldownEnds, Section!TypeOK, Section!lockVars,
           Section!slotVars, Section!markVars
    <2> QED
        BY <1>1, <2>1 DEF Time, Section!CooldownEnds, tableVars, historyVars, TypeOK, Rows, Begun
<1>2. CASE UNCHANGED vars
    BY <1>2, <1>a DEF vars, sectionVars, tableVars, historyVars, TypeOK, Rows, Begun
<1>3. ASSUME NEW q \in Request, NEW r \in Row, Begin(q, r)
      PROVE  TypeOK' /\ Rows'
    <2>1. letter[r] # NoLetter /\ <<r, q>> \in Replay
        BY <1>3 DEF Begin, MayReplay, NoLetter
    <2>2. /\ request' \in [Request -> Row \cup {None}]
          /\ request'[q] = r /\ \A p \in Request : p # q => request'[p] = request[p]
          /\ request[q] = None
        BY <1>3 DEF Begin, TypeOK
    <2>3. UNCHANGED <<sectionVars, letter, returned, raised, historyVars>>
        BY <1>3 DEF Begin
    <2>4. TypeOK'
        BY <2>1, <2>2, <2>3, <1>a DEF TypeOK, historyVars
    <2>5. q \notin returned
        BY <2>2 DEF TypeOK
    <2>6. \A s \in Row, p \in Request :
              Begun(s, p)' => Begun(s, p) \/ (s = r /\ p = q)
        BY <2>2, <2>3 DEF Begun, sectionVars
    <2> QED
        BY <2>1, <2>2, <2>3, <2>4, <2>5, <2>6 DEF Rows, sectionVars, TypeOK
<1>4. ASSUME NEW q \in Request, Resolve(q)
      PROVE  TypeOK' /\ Rows'
    <2>1. q \in returned /\ request[q] \in Row /\ letter[request[q]] # NoLetter
        BY <1>4 DEF Resolve, TypeOK
    <2>2. PICK status \in {"failed", "replayed"} :
              letter' = [letter EXCEPT ![request[q]].status = status]
        BY <1>4 DEF Resolve
    <2>3. /\ request' \in [Request -> Row \cup {None}]
          /\ request'[q] = None /\ \A p \in Request : p # q => request'[p] = request[p]
          /\ returned' = returned \ {q} /\ raised' = raised \ {q}
          /\ UNCHANGED <<sectionVars, historyVars>>
        BY <1>4 DEF Resolve, Finish, TypeOK
    <2>4. /\ letter' \in [Row -> {NoLetter} \cup [id : Ids, of : Message, status : Statuses]]
          /\ letter'[request[q]].status \in {"failed", "replayed"}
          /\ \A r \in Row : /\ letter'[r].id = letter[r].id /\ letter'[r].of = letter[r].of
                            /\ r # request[q] => letter'[r] = letter[r]
        BY <2>1, <2>2 DEF TypeOK, Statuses, Ids
    <2>5. \A r \in Row : letter[r] # NoLetter => letter'[r] # NoLetter
        BY <2>4 DEF NoLetter
    <2>6. TypeOK'
        BY <2>1, <2>3, <2>4, <2>5, <1>a DEF TypeOK, Ids, historyVars
    <2>7. \A s \in Row, p \in Request : Begun(s, p)' => Begun(s, p)
        BY <2>3 DEF Begun, sectionVars
    <2>8. Rows'
        BY <2>3, <2>4, <2>5, <2>7 DEF Rows, sectionVars, TypeOK
    <2> QED
        BY <2>6, <2>8
<1>5. ASSUME NEW d \in Row, Discard(d)
      PROVE  TypeOK' /\ Rows'
    <2>1. letter[d] # NoLetter /\ letter[d].of \in Message
        BY <1>5 DEF Discard, NoLetter, TypeOK
    <2>2. /\ UNCHANGED <<sectionVars, request, returned, raised, answered, twice, refiled>>
          /\ dropped' \subseteq Message
        BY <1>5, <2>1 DEF Discard, TypeOK
    <2>3. /\ letter' \in [Row -> {NoLetter} \cup [id : Ids, of : Message, status : Statuses]]
          /\ letter'[d].status = "discarded"
          /\ \A r \in Row : /\ letter'[r].id = letter[r].id /\ letter'[r].of = letter[r].of
                            /\ r # d => letter'[r] = letter[r]
        BY <1>5, <2>1 DEF Discard, TypeOK, Statuses, Ids
    <2>4. \A r \in Row : letter[r] # NoLetter => letter'[r] # NoLetter
        BY <2>3 DEF NoLetter
    <2>5. TypeOK'
        BY <2>2, <2>3, <2>4, <1>a DEF TypeOK, Ids
    <2>6. Rows'
        BY <2>2, <2>3, <2>4 DEF Rows, Begun, sectionVars
    <2> QED
        BY <2>5, <2>6
<1> QED
    BY <1>1, <1>2, <1>3, <1>4, <1>5

LEMMA StepTyped == ASSUME TypeOK, Rows, [Next]_vars PROVE TypeOK' /\ Rows'
BY HandleTyped, OthersTyped DEF Next

-----------------------------------------------------------------------------
(* What is never taken back.                                                *)

\* What is known of rows, jobs and races stays; answers and drops are never
\* forgotten.
Stays ==
    /\ \A j \in Job : (Began(j) => Began(j)') /\ (Past(j) => Past(j)')
    /\ \A r \in Row : letter[r] # NoLetter =>
          letter'[r] # NoLetter /\ letter'[r].id = letter[r].id /\ letter'[r].of = letter[r].of
    /\ \A r \in Row, q \in Request : Begun(r, q) => Begun(r, q)'
    /\ \A j \in Job : Sent(j) => Sent(j)' \/ Past(j)'
    /\ answered \subseteq answered' /\ refiled \subseteq refiled' /\ dropped \subseteq dropped'

LEMMA StepStays == ASSUME TypeOK, Rows, [Next]_vars PROVE Stays
<1>a. ASSUME \A r \in Row, q \in Request : Begun(r, q) => Begun(r, q)', NEW j \in Job, Began(j)
      PROVE  Began(j)'
    <2>1. CASE j \in Message
        BY <2>1 DEF Began
    <2>2. CASE j \notin Message
        <3>1. PICK r \in Row, q \in Request : j = <<r, q>> /\ j \in Replay
            BY <2>2, JobShape
        <3>2. Begun(r, q)'
            BY <1>a, <3>1, BegunBegan
        <3>3. request'[q] = r \/ pc'[j] # "entry"
            BY <3>1, <3>2 DEF Begun
        <3> QED
            BY <3>1, <3>3 DEF Began, Running
    <2> QED
        BY <2>1, <2>2
<1>b. ASSUME UNCHANGED pc PROVE \A j \in Job : (Past(j) => Past(j)') /\ (Sent(j) => Sent(j)')
    BY <1>b DEF Past, Sent
<1>1. ASSUME NEW j \in Job, Handle(j) PROVE Stays
    <2>1. \A r \in Row, q \in Request : Begun(r, q) => Begun(r, q)'
        BY <1>1, HandleBegan
    <2>2. \A k \in Job : (Past(k) => Past(k)') /\ (Sent(k) => Sent(k)' \/ Past(k)')
        BY <1>1, HandleBegan DEF Course, Past, Sent
    <2>3. answered \subseteq answered' /\ refiled \subseteq refiled' /\ dropped \subseteq dropped'
        BY <1>1, HandleBegan DEF Moves, Goes, Drops, Answers, DeadLetter, LetterAfterAnswer,
           Breaks, historyVars
    <2>4. \A r \in Row : letter[r] # NoLetter => letter'[r] = letter[r]
        <3>1. CASE letter' = letter
            BY <3>1
        <3>2. CASE Leaves(j)
            BY <1>1, <3>2, Filed, HandleBegan DEF Leaves
        <3> QED
            BY <1>1, <3>1, <3>2, HandleBegan DEF Moves, Leaves, Goes, Drops, Answers, DeadLetter,
               LetterAfterAnswer, Breaks, tableVars
    <2> QED
        BY <1>a, <2>1, <2>2, <2>3, <2>4 DEF Stays
<1>2. CASE Time \/ UNCHANGED vars
    <2>1. UNCHANGED <<pc, letter, request, answered, refiled, dropped>>
        BY <1>2 DEF Time, Section!CooldownEnds, vars, sectionVars, tableVars, historyVars
    <2>2. \A r \in Row, q \in Request : Begun(r, q) => Begun(r, q)'
        BY <2>1 DEF Begun
    <2> QED
        BY <1>a, <1>b, <2>1, <2>2 DEF Stays
<1>3. ASSUME NEW q \in Request, NEW r \in Row, Begin(q, r) PROVE Stays
    <2>1. UNCHANGED <<pc, letter, answered, refiled, dropped>>
        BY <1>3 DEF Begin, sectionVars, historyVars
    <2>2. \A s \in Row, p \in Request : Begun(s, p) => Begun(s, p)'
        BY <1>3, <2>1, LettersAssumption DEF Begin, Begun, TypeOK
    <2> QED
        BY <1>a, <1>b, <2>1, <2>2 DEF Stays
<1>4. ASSUME NEW q \in Request, Resolve(q) PROVE Stays
    <2>1. UNCHANGED <<pc, answered, refiled, dropped>>
        BY <1>4 DEF Resolve, Finish, sectionVars, historyVars
    <2>2. \A s \in Row, p \in Request : Begun(s, p) => Begun(s, p)'
        <3>1. request' = [request EXCEPT ![q] = None] /\ q \in returned
            BY <1>4 DEF Resolve, Finish
        <3>2. pc[<<request[q], q>>] # "entry"
            BY <3>1 DEF Rows
        <3> QED
            BY <2>1, <3>1, <3>2 DEF Begun, TypeOK
    <2>3. \A s \in Row : letter[s] # NoLetter =>
              letter'[s] # NoLetter /\ letter'[s].id = letter[s].id /\ letter'[s].of = letter[s].of
        <3>1. \E status \in {"failed", "replayed"} :
                  letter' = [letter EXCEPT ![request[q]].status = status]
            BY <1>4 DEF Resolve
        <3>2. \A s \in Row : letter'[s].id = letter[s].id /\ letter'[s].of = letter[s].of
                             /\ (letter'[s].status = letter[s].status \/ letter'[s].status # "none")
            BY <3>1 DEF TypeOK, NoLetter
        <3> QED
            BY <3>1, <3>2, LettersAssumption DEF NoLetter, TypeOK, Statuses
    <2> QED
        BY <1>a, <1>b, <2>1, <2>2, <2>3 DEF Stays
<1>5. ASSUME NEW d \in Row, Discard(d) PROVE Stays
    <2>1. UNCHANGED <<pc, request, answered, refiled>> /\ dropped \subseteq dropped'
        BY <1>5 DEF Discard, sectionVars
    <2>2. \A s \in Row, p \in Request : Begun(s, p) => Begun(s, p)'
        BY <2>1 DEF Begun
    <2>3. \A s \in Row : letter[s] # NoLetter =>
              letter'[s] # NoLetter /\ letter'[s].id = letter[s].id /\ letter'[s].of = letter[s].of
        BY <1>5 DEF Discard, TypeOK, NoLetter
    <2> QED
        BY <1>a, <1>b, <2>1, <2>2, <2>3 DEF Stays
<1> QED
    BY <1>1, <1>2, <1>3, <1>4, <1>5 DEF Next

LEMMA RacedStays == ASSUME TypeOK, Stays, NEW m \in Message, Raced(m) PROVE Raced(m)'
<1>1. PICK r \in Row, p \in Request, q \in Request :
          letter[r].of = m /\ p # q /\ Begun(r, p) /\ Begun(r, q)
    BY DEF Raced
<1>2. letter'[r].of = m
    BY <1>1, LettersAssumption DEF Stays, NoLetter
<1> QED
    BY <1>1, <1>2 DEF Stays, Raced

LEMMA KnownStays ==
    ASSUME TypeOK, Stays, NEW i \in Ids, Known(i)
    PROVE  Known(i)' /\ Source(i)' = Source(i) /\ Source(i) \in Message
BY DEF Stays, Known, Source, Ids, TypeOK

LEMMA SpentStays ==
    ASSUME Stays, NEW i
    PROVE  (Spent(i) => Spent(i)') /\ (Over(i) => Over(i)')
BY DEF Stays, Spent, Over

LEMMA ExcusedStays ==
    ASSUME TypeOK, Stays, NEW m \in Message, Excused(m)
    PROVE  Excused(m)'
BY RacedStays DEF Stays, Excused

\* An id is spent by the step of a job of it.
LEMMA SpentBy ==
    ASSUME TypeOK, Rows, [Next]_vars, NEW k \in Job, ~Past(k), Past(k)'
    PROVE  Handle(k)
<1>1. pc'[k] # pc[k]
    BY DEF Past
<1>2. ASSUME NEW j \in Job, Handle(j) PROVE j = k
    BY <1>1, <1>2, HandleBegan DEF Course
<1> QED
    BY <1>1, <1>2 DEF Next, Time, Section!CooldownEnds, Begin, Resolve, Finish, Discard,
                      sectionVars, vars

\* A job that may still answer finds its id spent only in a race.
LEMMA FreshLife ==
    ASSUME TypeOK, Rows, NEW j \in Job, Began(j), ~Past(j), Spent(IdOf[j])
    PROVE  Raced(About(j))
<1>1. PICK k \in Job : IdOf[k] = IdOf[j] /\ Past(k)
    BY DEF Spent
<1>2. k # j /\ Began(k)
    BY <1>1 DEF Past, Began
<1> QED
    BY <1>1, <1>2, SameIdRaces

\* What else there is of its message is spent, and the message not answered.
LEMMA OtherLife ==
    ASSUME TypeOK, Rows, OneLife, NEW j \in Job, Began(j), ~Past(j),
           NEW k \in Ids, Known(k), Source(k) = About(j), k # IdOf[j], ~Spent(k)
    PROVE  Raced(About(j))
BY JobShape, BeganKnown, FreshLife DEF OneLife

LEMMA AnsweredLife ==
    ASSUME TypeOK, Rows, OneLife, NEW j \in Job, Began(j), ~Past(j), ~Sent(j),
           About(j) \in answered
    PROVE  Excused(About(j))
<1>1. CASE Over(IdOf[j])
    <2>1. PICK k \in Job : IdOf[k] = IdOf[j] /\ (Past(k) \/ Sent(k))
        BY <1>1 DEF Over
    <2>2. k # j /\ Began(k)
        BY <2>1 DEF Past, Sent, Began
    <2> QED
        BY <2>1, <2>2, SameIdRaces DEF Excused
<1>2. CASE ~Over(IdOf[j])
    BY <1>2, JobShape, BeganKnown DEF OneLife
<1> QED
    BY <1>1, <1>2

\* The job j leaves the row x for its id.
Files(j, x) ==
    /\ Handle(j) /\ Leaves(j) /\ letter[x] = NoLetter
    /\ letter'[x].id = IdOf[j] /\ letter'[x].of = About(j)
    /\ \A r \in Row : r # x => letter'[r] = letter[r]

LEMMA RowsStep ==
    ASSUME TypeOK, Rows, [Next]_vars
    PROVE  \/ \A r \in Row : /\ letter'[r].id = letter[r].id
                             /\ letter[r] = NoLetter => letter'[r] = NoLetter
           \/ \E j \in Job, x \in Row : Files(j, x)
<1> DEFINE Kept == \A r \in Row : /\ letter'[r].id = letter[r].id
                                  /\ letter[r] = NoLetter => letter'[r] = NoLetter
<1>1. CASE letter' = letter
    BY <1>1
<1>2. ASSUME NEW j \in Job, Handle(j), letter' # letter
      PROVE  \E x \in Row : Files(j, x)
    <2>1. Leaves(j) /\ Began(j)
        BY <1>2, HandleBegan DEF Moves, Leaves, Goes, Drops, Answers, DeadLetter,
           LetterAfterAnswer, Breaks, tableVars
    <2> QED
        BY <1>2, <2>1, Filed DEF Files, Leaves
<1>3. ASSUME NEW q \in Request, Resolve(q) PROVE Kept
    <2>1. request[q] \in Row /\ letter[request[q]] # NoLetter
        BY <1>3 DEF Resolve, TypeOK
    <2>2. \E status : letter' = [letter EXCEPT ![request[q]].status = status]
        BY <1>3 DEF Resolve
    <2> QED
        BY <2>1, <2>2 DEF TypeOK
<1>4. ASSUME NEW d \in Row, Discard(d) PROVE Kept
    BY <1>4 DEF Discard, TypeOK, NoLetter
<1> QED
    BY <1>1, <1>2, <1>3, <1>4 DEF Next, Time, Begin, vars, tableVars

\* A message is answered by a job of it, and again when it was before.
LEMMA AnswersStep ==
    ASSUME TypeOK, [Next]_vars, NEW m, m \in answered' \ answered \/ m \in twice' \ twice
    PROVE  \E j \in Job : /\ Handle(j) /\ Answers(j) /\ m = About(j)
                          /\ m \in twice' \ twice => m \in answered
<1>1. ASSUME NEW j \in Job, Handle(j), ~Answers(j) PROVE UNCHANGED <<answered, twice>>
    BY <1>1 DEF Handle, Goes, Drops, DeadLetter, LetterAfterAnswer, Breaks, historyVars
<1>2. PICK j \in Job : Handle(j) /\ Answers(j)
    BY <1>1 DEF Next, Time, Begin, Resolve, Finish, Discard, vars, historyVars
<1> QED
    BY <1>2 DEF Answers

-----------------------------------------------------------------------------
(* Marks, lives and answers.                                                *)

LEMMA MarkedStep == ASSUME TypeOK, Rows, Marked, [Next]_vars PROVE Marked'
<1>1. Stays
    BY StepStays
<1>2. ASSUME NEW c \in Chat, NEW i, i # None, lastReplied'[c] = i, lastReplied[c] = i
      PROVE  Spent(i)'
    BY <1>1, <1>2, SpentStays DEF Marked
<1>3. ASSUME NEW j \in Job, Handle(j), NEW c \in Chat, NEW i, lastReplied'[c] = i, lastReplied[c] # i
      PROVE  Spent(i)'
    BY <1>3, HandleBegan DEF Course, Spent
<1>4. (\E j \in Job : Handle(j)) \/ UNCHANGED lastReplied
    BY DEF Next, Time, Section!CooldownEnds, Section!lockVars, Section!slotVars, Section!markVars,
           Begin, Resolve, Finish, Discard, sectionVars, vars
<1>5. \A c \in Chat : \A i : i # None /\ lastReplied'[c] = i => Spent(i)'
    BY <1>2, <1>3, <1>4
<1> QED
    BY <1>5 DEF Marked, Spent

LEMMA SentStep ==
    ASSUME TypeOK, Rows, SentAnswered, [Next]_vars
    PROVE  SentAnswered'
<1>1. Stays
    BY StepStays
<1> SUFFICES ASSUME NEW k \in Job, Sent(k)' PROVE About(k)' \in answered'
    BY DEF SentAnswered
<1>2. Sent(k) \/ (Handle(k) /\ Answers(k))
    <2>1. ASSUME NEW j \in Job, Handle(j) PROVE Sent(k) \/ (Handle(k) /\ Answers(k))
        <3>1. Course(j) /\ (Sent(j)' => Sent(j) \/ Answers(j))
            BY <2>1, HandleBegan, MovesCourse DEF TypeOK
        <3> QED
            BY <2>1, <3>1 DEF Course, Sent
    <2>2. (\E j \in Job : Handle(j)) \/ UNCHANGED pc
        BY DEF Next, Time, Section!CooldownEnds, Begin, Resolve, Finish, Discard,
           sectionVars, vars
    <2> QED
        BY <2>1, <2>2 DEF Sent
<1>3. Began(k) /\ About(k) \in answered'
    <2>1. CASE Sent(k)
        BY <1>1, <2>1 DEF Sent, Began, SentAnswered, Stays
    <2>2. CASE Handle(k) /\ Answers(k)
        BY <2>2, HandleBegan DEF Answers
    <2> QED
        BY <1>2, <2>1, <2>2
<1>4. About(k)' = About(k)
    <2>1. Known(IdOf[k]) /\ IdOf[k] \in Ids
        BY <1>3, BeganKnown, JobShape
    <2> QED
        BY <1>1, <2>1, KnownStays, JobShape DEF About, Source
<1> QED
    BY <1>3, <1>4

LEMMA LifeStep ==
    ASSUME TypeOK, Rows, OneLife, TwiceOnlyByName, [Next]_vars
    PROVE  OneLife' /\ TwiceOnlyByName'
<1>1. Stays
    BY StepStays
<1>a. ASSUME NEW j \in Job, Handle(j), Answers(j) \/ Leaves(j)
      PROVE  /\ Began(j) /\ ~Past(j) /\ About(j) \in Message
             /\ Answers(j) => ~Sent(j) /\ Sent(j)'
             /\ Leaves(j) => Past(j)'
             /\ DeadLetter(j) => ~Sent(j)
    BY <1>a, HandleBegan, AnswersCourse, LeavesCourse, BeganKnown DEF Leaves, TypeOK
<1>b. ASSUME NEW m \in Message
      PROVE  (Raced(m) => Raced(m)') /\ (Excused(m) => Excused(m)')
    BY <1>1, RacedStays, ExcusedStays
\* what is unspent beside a job that answers or ends was a race already
<1>c. ASSUME NEW j \in Job, Handle(j), Answers(j) \/ Leaves(j),
             NEW k \in Ids, Known(k), Source(k) = About(j), k # IdOf[j], ~Spent(k)'
      PROVE  Raced(About(j))
    <2>1. ~Spent(k)
        BY <1>1, <1>c, SpentStays
    <2> QED
        BY <1>a, <1>c, <2>1, OtherLife
\* an id that comes to be known is a row that a failure leaves
<1>d. ASSUME NEW i \in Ids, ~Known(i), Known(i)'
      PROVE  \E j \in Job : /\ Handle(j) /\ Leaves(j) /\ Source(i)' = About(j)
                            /\ \A k \in Ids : Known(k)' /\ k # i => Known(k)
    <2>1. i \in Row /\ i \notin Message /\ letter[i] = NoLetter /\ letter'[i] # NoLetter
        BY <1>d DEF Known, Ids
    <2>2. PICK j \in Job, x \in Row : Files(j, x)
        BY <2>1, RowsStep
    <2>3. x = i
        BY <2>1, <2>2 DEF Files
    <2> QED
        BY <2>1, <2>2, <2>3 DEF Files, Source, Known, Ids
\* an id beside a row that a failure leaves
<1>e. ASSUME NEW i \in Ids, NEW k \in Ids, i # k, ~Known(i), Known(i)', Known(k)',
             Source(i)' = Source(k)', ~Spent(k)'
      PROVE  Raced(Source(i))'
    <2>1. PICK j \in Job : /\ Handle(j) /\ Leaves(j) /\ Source(i)' = About(j) /\ Known(k)
        BY <1>d, <1>e
    <2>2. Source(k) = About(j)
        BY <1>1, <1>e, <2>1, KnownStays
    <2>3. k # IdOf[j]
        BY <1>a, <1>e, <2>1 DEF Spent
    <2> QED
        BY <1>a, <1>b, <1>c, <1>e, <2>1, <2>2, <2>3
<1>2. ASSUME NEW i \in Ids, NEW k \in Ids, i # k, Known(i)', Known(k)', Source(i)' = Source(k)',
             ~Spent(i)', ~Spent(k)'
      PROVE  Raced(Source(i))'
    <2>1. CASE Known(i) /\ Known(k)
        BY <1>1, <1>2, <1>b, <2>1, KnownStays, SpentStays DEF OneLife
    <2>2. CASE ~Known(i)
        BY <1>2, <1>e, <2>2
    <2>3. CASE ~Known(k)
        <3>1. Raced(Source(k))'
            BY <1>2, <1>e, <2>3
        <3> QED
            BY <1>2, <3>1
    <2> QED
        BY <2>1, <2>2, <2>3
<1>3. ASSUME NEW i \in Ids, Known(i)', Source(i)' \in answered', ~Over(i)'
      PROVE  Excused(Source(i))'
    <2>1. CASE ~Known(i)
        <3>1. PICK j \in Job : Handle(j) /\ Leaves(j) /\ Source(i)' = About(j)
            BY <1>3, <1>d, <2>1
        <3>2. CASE DeadLetter(j)
            <4>1. About(j) \in answered
                BY <1>3, <3>1, <3>2 DEF DeadLetter
            <4> QED
                BY <1>a, <1>b, <3>1, <3>2, <4>1, AnsweredLife
        <3>3. CASE LetterAfterAnswer(j)
            BY <3>1, <3>3 DEF LetterAfterAnswer, Excused
        <3> QED
            BY <3>1, <3>2, <3>3 DEF Leaves
    <2>2. CASE Known(i) /\ Source(i) \in answered
        BY <1>1, <1>3, <1>b, <2>2, KnownStays, SpentStays DEF OneLife
    <2>3. CASE Known(i) /\ Source(i) \notin answered
        <3>1. Source(i)' = Source(i)
            BY <1>1, <2>3, KnownStays
        <3>2. PICK j \in Job : Handle(j) /\ Answers(j) /\ Source(i) = About(j)
            BY <1>3, <2>3, <3>1, AnswersStep
        <3>3. i # IdOf[j] /\ ~Spent(i)'
            BY <1>3, <1>a, <3>2 DEF Over, Spent
        <3>4. Raced(About(j)) /\ About(j) \in Message
            BY <1>3, <1>a, <1>c, <2>3, <3>2, <3>3
        <3> QED
            BY <1>b, <3>1, <3>2, <3>4 DEF Excused
    <2> QED
        BY <2>1, <2>2, <2>3
<1>4. ASSUME NEW m \in twice' PROVE Excused(m)'
    <2>1. CASE m \in twice
        BY <1>b, <2>1 DEF TwiceOnlyByName, TypeOK, Excused
    <2>2. CASE m \notin twice
        <3>1. PICK j \in Job : Handle(j) /\ Answers(j) /\ m = About(j) /\ m \in answered
            BY <2>2, AnswersStep
        <3> QED
            BY <1>a, <1>b, <3>1, AnsweredLife
    <2> QED
        BY <2>1, <2>2
<1> QED
    BY <1>2, <1>3, <1>4 DEF OneLife, TwiceOnlyByName, Excused
-----------------------------------------------------------------------------
(* The tree of rows.                                                        *)

\* Nothing is below a row that was not filed.
LEMMA NoneBelow ==
    ASSUME TypeOK, NEW x \in Row, letter[x] = NoLetter, NEW r \in Row
    PROVE  letter[r].id # x
BY LettersAssumption DEF TypeOK, NoLetter

\* What is below an id in the next state is below it now.
LEMMA BelowBefore ==
    ASSUME TypeOK, Stays, NEW i \in Ids, NEW S \in SUBSET Row, Below(S, i)'
    PROVE  Below(S, i)
BY LettersAssumption DEF Stays, Below, NoLetter, Ids

\* What is below a row, without the row.
LEMMA BelowLess ==
    ASSUME NEW i \in Ids, NEW S \in SUBSET Row, Below(S, i), NEW r \in S,
           NEW D \in SUBSET Row, Below(D, r)
    PROVE  Below(S \cap D, r)
BY DEF Below

LEMMA AcyclicStep ==
    ASSUME TypeOK, Rows, Tree, [Next]_vars, NEW r \in Row
    PROVE  \E S \in SUBSET Row : Below(S, r)' /\ r \notin S
<1>1. PICK S \in SUBSET Row : Below(S, r) /\ r \notin S
    BY DEF Tree
<1>2. CASE \A s \in Row : letter'[s].id = letter[s].id
    BY <1>1, <1>2 DEF Below
<1>3. ASSUME NEW j \in Job, NEW x \in Row, Files(j, x)
      PROVE  \E D \in SUBSET Row : Below(D, r)' /\ r \notin D
    <2>1. \A s \in Row : letter[s].id # x
        BY <1>3, NoneBelow DEF Files
    <2>2. IdOf[j] # x
        BY <1>3, HandleBegan, BeganKnown, LettersAssumption DEF Files, Known
    <2>3. \A s \in Row : letter'[s].id = IF s = x THEN IdOf[j] ELSE letter[s].id
        BY <1>3 DEF Files
    <2>4. CASE r = x
        <3>1. Below({}, r)'
            BY <2>1, <2>2, <2>3, <2>4 DEF Below
        <3> QED
            BY <3>1
    <2>5. CASE r # x
        <3> DEFINE D == IF IdOf[j] \in S \cup {r} THEN S \cup {x} ELSE S
        <3>1. D \in SUBSET Row /\ r \notin D
            BY <1>1, <2>5
        <3>2. Below(D, r)'
            BY <1>1, <2>1, <2>2, <2>3 DEF Below
        <3> QED
            BY <3>1, <3>2
    <2> QED
        BY <2>4, <2>5
<1> QED
    BY <1>2, <1>3, RowsStep

\* A job that ends at something else than an answer or a drop leaves a row, or
\* its id was spent before.
LEMMA Fails ==
    ASSUME TypeOK, Rows, SentAnswered, Marked, [Next]_vars, NEW j \in Job, ~Past(j), Past(j)',
           About(j) \notin answered' \cup dropped'
    PROVE  \/ UNCHANGED letter /\ Spent(IdOf[j])
           \/ \E x \in Row : /\ letter'[x].id = IdOf[j] /\ letter'[x].of = About(j)
                             /\ letter'[x].status = "pending"
<1>1. Handle(j) /\ Began(j) /\ Moves(j)
    BY SpentBy, HandleBegan
<1>2. ~Drops(j) /\ ~Answers(j) /\ ~Breaks(j)
    BY DEF Drops, Answers, Breaks
<1>5. ~Sent(j)
    BY StepStays DEF SentAnswered, Stays
<1>3. CASE Goes(j)
    <2>1. lastReplied[ChatOf[j]] = IdOf[j] /\ UNCHANGED letter
        BY <1>3, <1>5, GoesCourse DEF TypeOK, Goes, tableVars
    <2>2. IdOf[j] # None /\ ChatOf[j] \in Chat
        BY JobShape, LettersAssumption DEF Ids
    <2> QED
        BY <2>1, <2>2 DEF Marked
<1>4. CASE DeadLetter(j)
    <2>1. AddDeadLetter(j)
        BY <1>4 DEF DeadLetter
    <2> QED
        BY <1>1, <2>1, Filed
<1>6. ~LetterAfterAnswer(j)
    BY <1>5, LeavesCourse DEF TypeOK
<1> QED
    BY <1>1, <1>2, <1>3, <1>4, <1>6 DEF Moves

\* A row that leaves the list unanswered was discarded, or a request has
\* begun its replay.
LEMMA LeavesList ==
    ASSUME TypeOK, Rows, [Next]_vars, NEW r \in Row, letter[r].status = "pending",
           letter'[r].status # "pending", letter[r].of \notin dropped'
    PROVE  \E q \in Request : /\ <<r, q>> \in Replay /\ pc[<<r, q>>] # "entry"
                              /\ UNCHANGED pc
                              /\ \A s \in Row : s # r => letter'[s] = letter[s]
<1>1. \A j \in Job : ~Handle(j)
    <2>1. ASSUME NEW j \in Job, Handle(j) PROVE letter'[r] = letter[r]
        <3>1. letter[r] # NoLetter
            BY DEF NoLetter
        <3>2. CASE Leaves(j)
            BY <2>1, <3>1, <3>2, Filed, HandleBegan DEF Leaves
        <3> QED
            BY <2>1, <3>2, HandleBegan DEF Moves, Leaves, Goes, Drops, Answers, DeadLetter,
               LetterAfterAnswer, Breaks, tableVars
    <2> QED
        BY <2>1
<1>2. \A d \in Row : ~Discard(d)
    <2>1. ASSUME NEW d \in Row, Discard(d) PROVE letter'[r] = letter[r]
        <3>1. d # r
            BY <2>1 DEF Discard
        <3> QED
            BY <2>1, <3>1 DEF Discard, TypeOK
    <2> QED
        BY <2>1
<1>3. PICK q \in Request : Resolve(q)
    BY <1>1, <1>2 DEF Next, Time, Begin, vars, tableVars
<1>4. q \in returned /\ request[q] \in Row
    BY <1>3 DEF Resolve, TypeOK
<1>5. PICK status \in {"failed", "replayed"} :
          letter' = [letter EXCEPT ![request[q]].status = status]
    BY <1>3 DEF Resolve
<1>6. \A s \in Row : s # request[q] => letter'[s] = letter[s]
    BY <1>4, <1>5 DEF TypeOK
<1>7. request[q] = r
    BY <1>6
<1> QED
    BY <1>3, <1>4, <1>6, <1>7, LettersAssumption DEF Rows, TypeOK, Resolve, Finish, sectionVars

\* Hope stays while the message is neither answered nor dropped: what carries
\* it hands it on to a row below, or to one it was handed on to before.
LEMMA HopeStays ==
    ASSUME TypeOK, Rows, SentAnswered, Marked, Tree, [Next]_vars,
           NEW i \in Ids, NEW S \in SUBSET Row, NEW m \in Message, Known(i), Spent(i),
           Source(i) = m, m \notin answered' \cup dropped', Below(S, i)'
    PROVE  Hope(S, m)'
<1>1. Stays /\ Below(S, i) /\ m \notin answered \cup dropped
    BY StepStays, BelowBefore DEF Stays
<1>2. PICK r \in S : /\ letter[r].of = m
                      /\ \/ letter[r].status = "pending"
                         \/ \E j \in Job : IdOf[j] = r /\ Active(j)
    BY <1>1 DEF Tree, Hope
<1>3. r \in Row /\ r \notin Message /\ Known(r) /\ Source(r) = m /\ letter'[r].of = m
    BY <1>1, <1>2, LettersAssumption DEF Known, Source, NoLetter, Stays
\* when the row is spent, another one carries it as well
<1>4. ASSUME Spent(r)
      PROVE  \E s \in S : /\ s # r /\ letter[s].of = m /\ letter'[s].of = m
                          /\ \/ letter[s].status = "pending"
                             \/ \E j \in Job : IdOf[j] = s /\ Active(j)
    <2>1. PICK D \in SUBSET Row : Below(D, r) /\ r \notin D
        BY <1>3 DEF Tree
    <2>2. Below(S \cap D, r)
        BY <1>1, <2>1, BelowLess
    <2>3. Hope(S \cap D, m)
        BY <1>1, <1>3, <1>4, <2>2 DEF Tree, Ids
    <2> QED
        BY <1>1, <2>1, <2>3, LettersAssumption DEF Hope, Stays, NoLetter
<1>5. CASE \E j \in Job : IdOf[j] = r /\ Active(j)
    <2>1. PICK j \in Job : IdOf[j] = r /\ Active(j)
        BY <1>5
    <2>2. CASE ~Past(j)'
        BY <1>1, <1>3, <2>1, <2>2 DEF Hope, Active, Stays
    <2>3. CASE Past(j)'
        <3>1. Handle(j) /\ About(j) = m /\ Course(j)
            BY <1>3, <2>1, <2>3, SpentBy, JobShape, HandleBegan DEF Active
        <3>2. CASE \E x \in Row : /\ letter'[x].id = r /\ letter'[x].of = m
                                  /\ letter'[x].status = "pending"
            BY <3>2 DEF Below, Hope
        <3>3. CASE UNCHANGED letter /\ Spent(r)
            <4>1. PICK s \in S : /\ s # r /\ letter'[s].of = m
                                 /\ \/ letter[s].status = "pending"
                                    \/ \E k \in Job : IdOf[k] = s /\ Active(k)
                BY <1>4, <3>3
            <4>2. \A k \in Job : IdOf[k] = s /\ Active(k) => Active(k)'
                BY <1>1, <2>1, <3>1, <4>1 DEF Active, Past, Stays, Course
            <4> QED
                BY <3>3, <4>1, <4>2 DEF Hope
        <3> QED
            BY <2>1, <2>3, <3>1, <3>2, <3>3, Fails DEF Active
    <2> QED
        BY <2>2, <2>3
<1>6. CASE letter[r].status = "pending" /\ letter'[r].status = "pending"
    BY <1>3, <1>6 DEF Hope
<1>7. CASE letter[r].status = "pending" /\ letter'[r].status # "pending"
    <2>1. PICK q \in Request : /\ <<r, q>> \in Replay /\ pc[<<r, q>>] # "entry"
                               /\ UNCHANGED pc
                               /\ \A s \in Row : s # r => letter'[s] = letter[s]
        BY <1>2, <1>3, <1>7, LeavesList
    <2>2. <<r, q>> \in Job /\ IdOf[<<r, q>>] = r
        BY <1>3, <2>1, ReplayShape
    <2>3. CASE ~Past(<<r, q>>)
        BY <1>3, <2>1, <2>2, <2>3 DEF Hope, Active, Began, Past
    <2>4. CASE Past(<<r, q>>)
        <3>1. PICK s \in S : /\ s # r /\ letter'[s].of = m
                             /\ \/ letter[s].status = "pending"
                                \/ \E k \in Job : IdOf[k] = s /\ Active(k)
            BY <1>4, <2>2, <2>4 DEF Spent
        <3>2. \A k \in Job : Active(k) => Active(k)'
            BY <1>1, <2>1 DEF Active, Past, Stays
        <3> QED
            BY <2>1, <3>1, <3>2 DEF Hope
    <2> QED
        BY <2>3, <2>4
<1> QED
    BY <1>2, <1>5, <1>6, <1>7

LEMMA TreeStep ==
    ASSUME TypeOK, Rows, SentAnswered, Marked, Tree, [Next]_vars
    PROVE  Tree'
<1>1. Stays
    BY StepStays
<1>2. ASSUME NEW i \in Ids, NEW S \in SUBSET Row, NEW m, Known(i)', Spent(i)', Source(i)' = m,
             m \notin answered' \cup dropped', Below(S, i)'
      PROVE  Hope(S, m)'
    <2>1. PICK j \in Job : IdOf[j] = i /\ Past(j)'
        BY <1>2 DEF Spent
    <2>2. Began(j)
        <3>1. CASE Past(j)
            BY <3>1 DEF Past, Began
        <3>2. CASE ~Past(j)
            BY <2>1, <3>2, SpentBy, HandleBegan
        <3> QED
            BY <3>1, <3>2
    <2>3. Known(i) /\ Source(i) = m /\ m \in Message /\ About(j) = m
        BY <1>1, <1>2, <2>1, <2>2, BeganKnown, KnownStays, JobShape
    <2>4. CASE Spent(i)
        BY <1>2, <2>3, <2>4, HopeStays
    <2>5. CASE ~Spent(i)
        <3>1. PICK x \in Row : /\ letter'[x].id = i /\ letter'[x].of = m
                               /\ letter'[x].status = "pending"
            BY <1>2, <2>1, <2>3, <2>5, Fails DEF Spent
        <3> QED
            BY <1>2, <3>1 DEF Below, Hope
    <2> QED
        BY <2>4, <2>5
<1> QED
    BY <1>2, AcyclicStep DEF Tree, Hope, Source
-----------------------------------------------------------------------------
(* The theorems.                                                            *)

LEMMA InitInv == ASSUME Init PROVE IInv
<1> USE LettersAssumption
<1>1. Section!TypeOK
    BY DEF Init, Section!Init, Section!TypeOK, Section!PC, Section!Locked, Section!Sending
<1>2. /\ \A j \in Job : pc[j] = "entry"
      /\ \A c \in Chat : lastReplied[c] = None
    BY JobShape DEF Init, Section!Init
<1>3. /\ \A r \in Row : letter[r] = NoLetter
      /\ \A q \in Request : request[q] = None
      /\ returned = {} /\ answered = {} /\ twice = {}
    BY DEF Init
<1>4. TypeOK
    BY <1>1, <1>3 DEF Init, TypeOK, NoLetter
<1>5. \A r \in Row, q \in Request : ~Begun(r, q)
    BY <1>2, <1>3, ReplayShape DEF Begun
<1>6. \A i : ~Spent(i)
    BY <1>2 DEF Spent, Past
<1>7. Rows /\ SentAnswered /\ Marked /\ TwiceOnlyByName
    BY <1>2, <1>3, <1>5 DEF Rows, Sent, SentAnswered, Marked, TwiceOnlyByName, NoLetter
<1>8. OneLife
    BY <1>3 DEF OneLife, Known, Source, Ids
<1>9. ASSUME NEW r \in Row PROVE Below({}, r)
    BY <1>3 DEF Below, NoLetter
<1>10. Tree
    <2>1. \A r \in Row : \E S \in SUBSET Row : Below(S, r) /\ r \notin S
        BY <1>9
    <2> QED
        BY <1>6, <2>1 DEF Tree
<1> QED
    BY <1>4, <1>7, <1>8, <1>10 DEF IInv

LEMMA NextInv == ASSUME IInv, [Next]_vars PROVE IInv'
BY StepTyped, SentStep, MarkedStep, LifeStep, TreeStep DEF IInv

LEMMA Invariance == Spec => []IInv
<1>1. Init => IInv
    BY InitInv
<1>2. IInv /\ [Next]_vars => IInv'
    BY NextInv
<1> QED
    BY <1>1, <1>2, PTL DEF Spec

\* The table, the requests and the reply section beneath them keep their types,
\* and a row is about the message the row it failed from is about
\* (draft_repo.py:45-82).
THEOREM TypeCorrectness == Spec => []TypeOK
<1>1. IInv => TypeOK
    BY DEF IInv
<1> QED
    BY <1>1, Invariance, PTL

\* A message is answered a second time only when two requests raced for one of its
\* rows or when it was given a row though it had been answered, however often
\* replays fail and fail again (runtime_llm_reply.py:228-279).
THEOREM AnsweredOnceButByName == Spec => []TwiceOnlyByName
<1>1. IInv => TwiceOnlyByName
    BY DEF IInv
<1> QED
    BY <1>1, Invariance, PTL

\* A failure of the LLM never loses a message while rows can be written: along the tree of its rows there
\* is a job under way or a row that waits (runtime_llm_reply.py:185-227).
THEOREM FailureNeverLoses == Spec => []LostOnlyByName
<1>1. ASSUME IInv PROVE LostOnlyByName
    <2>1. SUFFICES ASSUME NEW m \in Message \ (answered \cup dropped)
                   PROVE  \/ \E j \in Job : About(j) = m /\ UnderWay(j)
                          \/ \E r \in Row : letter[r].of = m /\ letter[r].status = "pending"
        BY DEF LostOnlyByName
    <2>2. m \in Job /\ IdOf[m] = m /\ About(m) = m /\ m \in Ids
        BY JobShape DEF Job, About, Ids
    <2>3. CASE ~Spent(m)
        BY <2>2, <2>3 DEF Spent, Past, UnderWay
    <2>4. CASE Spent(m)
        <3> DEFINE S == {r \in Row : letter[r].of = m}
        <3>1. Below(S, m)
            BY <1>1, LettersAssumption DEF IInv, TypeOK, Rows, Below
        <3>2. Hope(S, m)
            BY <1>1, <2>2, <2>4, <3>1 DEF IInv, Tree, Known, Source
        <3>3. PICK r \in S : \/ letter[r].status = "pending"
                             \/ \E j \in Job : IdOf[j] = r /\ Active(j)
            BY <3>2 DEF Hope
        <3>4. ASSUME NEW j \in Job, IdOf[j] = r, Active(j)
              PROVE  About(j) = m /\ UnderWay(j)
            <4>1. r \in Row /\ r \notin Message /\ letter[r].of = m
                BY LettersAssumption
            <4> QED
                BY <3>4, <4>1, JobShape DEF Source, Active, Began, Past, UnderWay
        <3> QED
            BY <3>3, <3>4
    <2> QED
        BY <2>3, <2>4
<1>2. IInv => LostOnlyByName
    BY <1>1
<1> QED
    BY <1>2, Invariance, PTL

\* Of two rows of a message that wait, a request replays one, or two raced for a
\* row of it (draft_repo.py:45-82, runtime_llm_reply.py:265-279).
THEOREM OneRowOnTheList == Spec => []OneRowWaits
<1>1. ASSUME IInv PROVE OneRowWaits
    <2>1. SUFFICES ASSUME NEW r \in Row, NEW s \in Row, r # s, letter[r].of = letter[s].of,
                          letter[r].status = "pending", letter[s].status = "pending",
                          \A q \in Request : request[q] \notin {r, s}
                   PROVE  Raced(letter[r].of)
        BY DEF OneRowWaits
    \* a row that waits with no request on it is not spent
    <2>2. ASSUME NEW t \in {r, s} PROVE Known(t) /\ Source(t) = letter[t].of /\ ~Spent(t)
        <3>1. t \in Row /\ t \notin Message /\ letter[t].status = "pending"
            BY <2>1, LettersAssumption
        <3>2. ASSUME NEW j \in Job, IdOf[j] = t, Past(j) PROVE FALSE
            <4>1. PICK q \in Request : j = <<t, q>> /\ <<t, q>> \in Replay
                BY <3>1, <3>2, JobShape
            <4>2. Begun(t, q) /\ request[q] # t
                BY <2>1, <3>2, <4>1 DEF Begun, Past
            <4> QED
                BY <1>1, <3>1, <4>2 DEF IInv, Rows
        <3> QED
            BY <3>1, <3>2 DEF Known, Source, Spent, NoLetter
    <2> QED
        BY <1>1, <2>1, <2>2 DEF IInv, OneLife, Ids
<1>2. IInv => OneRowWaits
    BY <1>1
<1> QED
    BY <1>2, Invariance, PTL
-----------------------------------------------------------------------------
(* The queue runs over the reply section: what the section keeps, it keeps   *)
(* for messages and replays alike.                                          *)

SectionProof == INSTANCE ReplyLockProof WITH
    Job <- Job, Chat <- Chat, ChatOf <- ChatOf, Id <- Message \cup Row,
    IdOf <- IdOf, Media <- {}, Followup <- {}, Hung <- {}

\* The jobs and chats are what the section asks for.
LEMMA SectionAssumptions ==
    /\ ChatOf \in [Job -> Chat] /\ IdOf \in [Job -> Message \cup Row]
    /\ None \notin Job \cup (Message \cup Row)
    /\ IsFiniteSet(Job)
<1>1. ChatOf \in [Job -> Chat] /\ IdOf \in [Job -> Message \cup Row]
    <2>1. DOMAIN ChatOf = Job /\ DOMAIN IdOf = Job
        BY DEF ChatOf, IdOf
    <2> QED
        BY JobShape DEF ChatOf, IdOf, Ids
<1>2. None \notin Job \cup (Message \cup Row)
    BY LettersAssumption DEF Job
<1>3. IsFiniteSet(Job)
    <2>1. IsFiniteSet(Row \X Request)
        BY LettersAssumption, FS_Product
    <2>2. IsFiniteSet(Replay)
        BY <2>1, LettersAssumption, FS_Subset
    <2> QED
        BY <2>2, LettersAssumption, FS_Union DEF Job
<1> QED
    BY <1>1, <1>2, <1>3

LEMMA HandleSection ==
    ASSUME NEW j \in Job, Handle(j)
    PROVE  Section!Next
<1>1. Section!Runs(j) \/ Section!Llm(j)
    BY DEF Handle, Goes, Drops, Answers, DeadLetter, LetterAfterAnswer, Breaks, Section!Runs,
           Section!Llm,
           Section!BeforeLock, Section!Contend, Section!Slot, Section!Gates, Section!SendReply,
           Section!Leave
<1> QED
    BY <1>1 DEF Section!Next

LEMMA SectionStep == ASSUME [Next]_vars PROVE [Section!Next]_sectionVars
<1>1. ASSUME NEW j \in Job, Handle(j) PROVE Section!Next
    BY <1>1, HandleSection
<1>2. ASSUME Time PROVE Section!Next
    BY <1>2 DEF Time, Section!Next, Section!Time
<1> QED
    BY <1>1, <1>2 DEF Next, Begin, Resolve, Finish, Discard, vars

\* Every step of a message, a replay or a request is a step of the reply section
\* or none to it: the replays of the console go through the whole of
\* _handle_message_impl as the messages of the poller do
\* (replay_dead_letter, runtime_llm_reply.py:236-279).
THEOREM RepliesThroughTheSection == Spec => Section!Spec
<1>1. Init => Section!Init
    BY DEF Init
<1>2. [Next]_vars => [Section!Next]_(Section!vars)
    BY SectionStep DEF sectionVars, Section!vars, Section!lockVars, Section!slotVars,
                       Section!replyVars, Section!coolVars, Section!markVars
<1> QED
    BY <1>1, <1>2, PTL DEF Spec, Section!Spec
\* The proofs of the section are about this one.
LEMMA SameSection ==
    /\ Section!Init => SectionProof!Init
    /\ [Section!Next]_sectionVars => [SectionProof!Next]_(SectionProof!vars)
<1> USE DEF Section!lockVars, SectionProof!lockVars, Section!slotVars, SectionProof!slotVars,
            Section!replyVars, SectionProof!replyVars, Section!coolVars, SectionProof!coolVars,
            Section!markVars, SectionProof!markVars
<1>1. Section!Init => SectionProof!Init
    BY DEF Section!Init, SectionProof!Init
<1>2. ASSUME NEW j \in Job, Section!BeforeLock(j) PROVE SectionProof!BeforeLock(j)
    BY <1>2 DEF Section!BeforeLock, SectionProof!BeforeLock, Section!Dismiss,
            SectionProof!Dismiss, Section!CannotTell, SectionProof!CannotTell,
            Section!Admit, SectionProof!Admit, Section!Enters, SectionProof!Enters,
            Section!Cools, SectionProof!Cools
<1>3. ASSUME NEW j \in Job, Section!Contend(j) PROVE SectionProof!Contend(j)
    BY <1>3 DEF Section!Contend, SectionProof!Contend, Section!Acquire, SectionProof!Acquire,
            Section!TakeOver, SectionProof!TakeOver, Section!PutOff, SectionProof!PutOff,
            Section!GiveUp, SectionProof!GiveUp, Section!Register, SectionProof!Register,
            Section!Held, SectionProof!Held, Section!Goto, SectionProof!Goto
<1>4. ASSUME NEW j \in Job, Section!RetryFires(j) PROVE SectionProof!RetryFires(j)
    BY <1>4 DEF Section!RetryFires, SectionProof!RetryFires, Section!Goto, SectionProof!Goto
<1>5. ASSUME NEW j \in Job, Section!Slot(j) PROVE SectionProof!Slot(j)
    BY <1>5 DEF Section!Slot, SectionProof!Slot, Section!ResetRetries, SectionProof!ResetRetries,
            Section!GetSlot, SectionProof!GetSlot, Section!SlotTimeout, SectionProof!SlotTimeout,
            Section!Goto, SectionProof!Goto
<1>6. ASSUME NEW j \in Job, Section!Gates(j) PROVE SectionProof!Gates(j)
    BY <1>6 DEF Section!Gates, SectionProof!Gates, Section!AlreadyAnswered,
            SectionProof!AlreadyAnswered, Section!Gate, SectionProof!Gate,
            Section!Raises, SectionProof!Raises, Section!AfterSend,
            SectionProof!AfterSend, Section!Pass, SectionProof!Pass, Section!Mark,
            SectionProof!Mark, Section!Answered, SectionProof!Answered, Section!Goto,
            SectionProof!Goto
<1>7. ASSUME NEW j \in Job, Section!Llm(j) PROVE SectionProof!Llm(j)
    BY <1>7 DEF Section!Llm, SectionProof!Llm, Section!LlmReturns, SectionProof!LlmReturns,
            Section!LlmKeepsQuiet, SectionProof!LlmKeepsQuiet, Section!AgentSends,
            SectionProof!AgentSends, Section!SelfReplied, SectionProof!SelfReplied,
            Section!Twins, SectionProof!Twins, Section!Mark, SectionProof!Mark,
            Section!Goto, SectionProof!Goto
<1>8. ASSUME NEW j \in Job, Section!SendReply(j) PROVE SectionProof!SendReply(j)
    BY <1>8 DEF Section!SendReply, SectionProof!SendReply, Section!Withhold,
            SectionProof!Withhold, Section!Veto, SectionProof!Veto,
            Section!SensitiveWord, SectionProof!SensitiveWord, Section!FallbackSent,
            SectionProof!FallbackSent, Section!Cleared, SectionProof!Cleared,
            Section!Sends, SectionProof!Sends, Section!SendFails,
            SectionProof!SendFails, Section!Record, SectionProof!Record,
            Section!RecordBreaks, SectionProof!RecordBreaks, Section!Writes,
            SectionProof!Writes, Section!BacksOff, SectionProof!BacksOff, Section!Twins,
            SectionProof!Twins, Section!AfterSend, SectionProof!AfterSend, Section!Mark,
            SectionProof!Mark, Section!Cools, SectionProof!Cools, Section!Goto,
            SectionProof!Goto
<1>9. ASSUME NEW j \in Job, Section!Leave(j) PROVE SectionProof!Leave(j)
    BY <1>9 DEF Section!Leave, SectionProof!Leave, Section!FreeSlot, SectionProof!FreeSlot,
            Section!Unlock, SectionProof!Unlock, Section!Goto, SectionProof!Goto
<1>10. Section!Time => SectionProof!Time
    BY DEF Section!Time, SectionProof!Time, Section!LockGrowsOld, SectionProof!LockGrowsOld,
           Section!CooldownEnds, SectionProof!CooldownEnds, Section!BackoffEnds,
           SectionProof!BackoffEnds
<1>11. Section!Next => SectionProof!Next
    BY <1>2, <1>3, <1>4, <1>5, <1>6, <1>7, <1>8, <1>9, <1>10
       DEF Section!Next, SectionProof!Next, Section!Runs, SectionProof!Runs
<1> QED
    BY <1>1, <1>11 DEF sectionVars, SectionProof!vars

\* Its invariants hold of messages and replays.
LEMMA SectionInvariant ==
    /\ Init => SectionProof!IInv /\ SectionProof!TInv
    /\ SectionProof!IInv /\ [Next]_vars => SectionProof!IInv'
    /\ SectionProof!IInv /\ SectionProof!TInv /\ [Next]_vars => SectionProof!TInv'
<1> USE LettersAssumption, SectionAssumptions DEF SectionProof!IsFiniteSet, IsFiniteSet
<1>1. Init => SectionProof!IInv
    BY SameSection, SectionProof!InitInvariant DEF Init
<1>2. Init => SectionProof!TInv
    BY SameSection, SectionProof!InitTests DEF Init
<1>3. ASSUME SectionProof!IInv, [Next]_vars PROVE SectionProof!IInv'
    <2>1. [SectionProof!Next]_(SectionProof!vars)
        BY <1>3, SectionStep, SameSection
    <2> QED
        BY <1>3, <2>1, SectionProof!StepInvariant
<1>4. ASSUME SectionProof!IInv, SectionProof!TInv, [Next]_vars PROVE SectionProof!TInv'
    <2>1. [SectionProof!Next]_(SectionProof!vars)
        BY <1>4, SectionStep, SameSection
    <2> QED
        BY <1>4, <2>1, SectionProof!TestsStep
<1> QED
    BY <1>1, <1>2, <1>3, <1>4

\* Without the watchdog no job loses its lock.
LEMMA NoneEvicted ==
    /\ Init => evicted = {}
    /\ evicted = {} /\ [Next]_vars => evicted' = {}
<1>1. ASSUME NEW j \in Job, Handle(j) PROVE evicted' = evicted
    BY <1>1 DEF Handle, Goes, Drops, Answers, DeadLetter, LetterAfterAnswer, Breaks, Section!lockVars,
        Section!Admit, Section!Acquire, Section!PutOff, Section!RetryFires, Section!ResetRetries,
        Section!GetSlot, Section!AlreadyAnswered, Section!Pass, Section!LlmReturns,
        Section!Cleared, Section!Sends, Section!FreeSlot, Section!Unlock, Section!Dismiss,
        Section!GiveUp, Section!SlotTimeout, Section!Gate, Section!LlmKeepsQuiet,
        Section!Withhold, Section!Veto, Section!Record, Section!Writes, Section!SelfReplied,
        Section!FallbackSent, Section!AgentSends, Section!SensitiveWord, Section!CannotTell,
        Section!Raises
<1> QED
    BY <1>1 DEF Init, Section!Init, Next, Time, Section!CooldownEnds, Section!lockVars, Begin,
                Resolve, Finish, Discard, vars, sectionVars

\* what the section keeps here
Kept == SectionProof!IInv /\ SectionProof!TInv /\ evicted = {}

LEMMA SectionKept == Spec => []Kept
<1>1. Init => Kept
    BY SectionInvariant, NoneEvicted DEF Kept
<1>2. Kept /\ [Next]_vars => Kept'
    BY SectionInvariant, NoneEvicted DEF Kept
<1> QED
    BY <1>1, <1>2, PTL DEF Spec

\* what the lock of a chat is for, with nothing that goes round it
OneJobInAChat ==
    \A j, k \in Job :
        j # k /\ ChatOf[j] = ChatOf[k] => ~(Section!InSection(j) /\ Section!InSection(k))

\* A message and the replays of its rows, or of any other row of its chat, are
\* never in the reply section together, as long as no lock outlives the watchdog
\* (_replying_lock of runtime_inbound.py; replay_dead_letter, runtime_llm_reply.py:236-279).
THEOREM ReplaysWaitTheirTurn == Spec => []OneJobInAChat
<1>1. ASSUME Kept PROVE OneJobInAChat
    BY <1>1 DEF Kept, SectionProof!IInv, SectionProof!SectionOwner, OneJobInAChat,
                Section!InSection, SectionProof!InSection, Section!Locked, SectionProof!Locked,
                Section!Sending, SectionProof!Sending
<1>2. Kept => OneJobInAChat
    BY <1>1
<1> QED
    BY <1>2, SectionKept, PTL

\* However replays are put off, given up, or broken off by an error, each slot is
\* free or held by one of them, and each lock is on its way to its release.
THEOREM ReplaysReturnTheirSlots == Spec => [](Section!SlotsConserved /\ Section!OwnerInside)
<1>1. ASSUME Kept PROVE Section!SlotsConserved
    <2>1. SectionProof!Cardinality(slotHeld) = Section!Cardinality(slotHeld)
        BY Zenon DEF SectionProof!Cardinality, Section!Cardinality
    <2>2. SectionProof!SlotsConserved
        BY <1>1 DEF Kept, SectionProof!IInv
    <2>3. permits + Section!Cardinality(slotHeld) = Slots
        BY <2>1, <2>2 DEF SectionProof!SlotsConserved
    <2>4. \A j \in slotHeld : Section!InSection(j) /\ pc[j] \notin {"held", "slot", "unlock"}
        BY <2>2 DEF SectionProof!SlotsConserved, SectionProof!InSection, Section!InSection,
                    SectionProof!Locked, Section!Locked, SectionProof!Sending, Section!Sending
    <2> QED
        BY <2>3, <2>4 DEF Section!SlotsConserved
<1>2. ASSUME Kept PROVE Section!OwnerInside
    BY <1>2 DEF Kept, SectionProof!IInv, SectionProof!OwnerInside, Section!OwnerInside,
                SectionProof!InSection, Section!InSection, SectionProof!Locked, Section!Locked,
                SectionProof!Sending, Section!Sending
<1>3. Kept => Section!SlotsConserved /\ Section!OwnerInside
    BY <1>1, <1>2
<1> QED
    BY <1>3, SectionKept, PTL

\* an answer, and what _send_reply sends
SendsAtADistance ==
    \A j \in Job :
        /\ Section!AgentSends(j) \/ Section!SensitiveWord(j) \/ Section!Sends(j)
              => j \notin told
        /\ Section!SensitiveWord(j) \/ Section!Sends(j) => ChatOf[j] \notin recent

\* No message and no replay is answered under an id that the store has a mark of,
\* and _send_reply sends nothing into a chat it has just sent to, as long as the
\* time of that is in the store (runtime_dispatch.py:403-502).
THEOREM ReplaysKeepTheirDistance == Spec => [][SendsAtADistance]_vars
<1> USE LettersAssumption, SectionAssumptions DEF SectionProof!IsFiniteSet, IsFiniteSet
<1>1. ASSUME Kept, NEW j \in Job PROVE ~SectionProof!Interfered(j)
    BY <1>1 DEF Kept, SectionProof!Interfered
<1>2. ASSUME Kept, NEW j \in Job, pc[j] \in {"llm", "check", "send"}
      PROVE  j \notin told
    BY <1>1, <1>2, SectionProof!NotTold DEF Kept
<1>3. ASSUME Kept, NEW j \in Job, pc[j] \in {"check", "send"}, ~SectionProof!Cools(j)
      PROVE  ChatOf[j] \notin recent
    BY <1>1, <1>3, SectionProof!NotRecent DEF Kept
<1>4. ASSUME Kept, NEW j \in Job, Section!SensitiveWord(j) \/ Section!Sends(j)
      PROVE  pc[j] \in {"check", "send"} /\ ~SectionProof!Cools(j)
    <2>1. CASE Section!SensitiveWord(j)
        BY <2>1 DEF Section!SensitiveWord, Section!Goto, Section!Cools, SectionProof!Cools
    <2>2. CASE Section!Sends(j)
        BY <1>1, <1>4, <2>2 DEF Section!Sends, Section!Goto, Kept, SectionProof!TInv,
           SectionProof!TestsHold
    <2> QED
        BY <1>4, <2>1, <2>2
<1>5. ASSUME Kept, NEW j \in Job,
             Section!AgentSends(j) \/ Section!SensitiveWord(j) \/ Section!Sends(j)
      PROVE  pc[j] \in {"llm", "check", "send"}
    BY <1>5 DEF Section!AgentSends, Section!SensitiveWord, Section!Sends, Section!Goto
<1>6. Kept => SendsAtADistance
    BY <1>2, <1>3, <1>4, <1>5 DEF SendsAtADistance
<1> QED
    BY <1>6, SectionKept, PTL
=============================================================================

------------------------------ MODULE ModelPool ------------------------------
(***************************************************************************)
(* LLMClient.chat (src/src/llm/client.py): the models of one provider in a  *)
(* pool that all threads share, each tried several times; then the models   *)
(* of two fallback providers, each tried once.                              *)
(*                                                                          *)
(* A model that answers 429 cools for a while and goes to the end of the    *)
(* pool.  The cooldowns have a lock.  The pool has none: a thread copies it *)
(* model by model while another takes one out and puts it back.             *)
(*                                                                          *)
(* The service may answer a call in any way.  A test of a cooldown finds it *)
(* running or run out, whichever, which also covers a later cooldown that   *)
(* replaces an earlier one and one of no length.                            *)
(* Left out: usage accounts, alerts, the parsing of answers, and the budget *)
(* of attempts, which is larger than the attempts of all models together.   *)
(***************************************************************************)
EXTENDS Naturals, FiniteSets, SequencesExt

CONSTANTS
    Threads,
    Primary,     \* model and model_pool of the configuration
    Fallback,    \* fallback_order
    Secondary,   \* secondary_fallback_order
    MaxRetries,
    Slots,       \* max_concurrency
    NoModel

Models == ToSet(Primary) \cup ToSet(Fallback) \cup ToSet(Secondary)

ASSUME ModelPoolAssumption ==
    /\ IsFiniteSet(Threads)
    /\ {Primary, Fallback, Secondary} \subseteq Seq(Models)
    /\ IsInjective(Primary) /\ Primary # <<>>
    /\ NoModel \notin Models
    /\ MaxRetries \in Nat \ {0} /\ Slots \in Nat \ {0}

VARIABLES
    pool,   \* model_pool
    cool,   \* models with an entry in _cooldowns
    chat    \* the chat() each thread is in

vars == <<pool, cool, chat>>

\* turns, raced and shifted are history: models that were called, or passed
\* because they were cooling; whether a rotation changed the pool while it was
\* copied, and between the index of a model and its pop.
Idle == [at |-> "idle", stream |-> FALSE, attempts |-> <<>>, next |-> 1,
         layer |-> "primary", tries |-> 0, index |-> 0,
         held |-> NoModel, tried |-> FALSE, limited |-> FALSE,
         outcome |-> "none", turns |-> {}, raced |-> FALSE, shifted |-> FALSE]

OrderOf(c) == CASE c.layer = "primary"   -> c.attempts
                [] c.layer = "fallback"  -> Fallback
                [] c.layer = "secondary" -> Secondary
Order(t) == OrderOf(chat[t])

At(t, step) == chat[t].at = step
Model(t) == Order(t)[chat[t].next]

\* _is_in_cooldown, when it says yes and when it says no.
Cooling(t) == Model(t) \in cool /\ UNCHANGED cool
Warm(t) == cool' = cool \ {Model(t)}

Calling == {t \in Threads : chat[t].at \in {"stream call", "call"}}

-----------------------------------------------------------------------------
Outcomes == {"none", "exhausted", "failed", "index error"}
Asking == {"stream wait", "stream call", "check", "wait", "call", "find", "pop", "append"}
Places == Asking \cup {"idle", "copy", "stream", "pick", "done"}
ChatStates == [at : Places, stream : BOOLEAN, attempts : Seq(ToSet(Primary)), next : Nat,
               layer : {"primary", "fallback", "secondary"}, tries : 0..MaxRetries,
               index : Nat, held : ToSet(Primary) \cup {NoModel}, tried : BOOLEAN,
               limited : BOOLEAN, outcome : Outcomes, turns : SUBSET Models, raced : BOOLEAN,
               shifted : BOOLEAN]

TypeOK ==
    /\ pool \in Seq(ToSet(Primary)) /\ Len(pool) <= Len(Primary)
    /\ cool \subseteq Models
    /\ chat \in [Threads -> ChatStates]
    /\ \A t \in Threads :
         LET c == chat[t]
         IN  /\ c.next \in 1..(Len(Order(t)) + 1)
             /\ c.at \in Asking => c.next \in DOMAIN Order(t)
             /\ c.at = "pop" => c.index # 0
             /\ c.held # NoModel <=> c.at = "append"
             /\ c.outcome # "none" <=> c.at = "done"
             /\ c.at = "idle" => c = Idle
    /\ Cardinality(Calling) <= Slots

Init ==
    /\ pool = Primary /\ cool = {}
    /\ chat = [t \in Threads |-> Idle]

-----------------------------------------------------------------------------
Begin(t) ==
    /\ At(t, "idle")
    /\ \E stream \in BOOLEAN :
         chat' = [chat EXCEPT ![t].at = "copy", ![t].stream = stream,
                              ![t].raced = \E u \in Threads : At(u, "append")]
    /\ UNCHANGED <<pool, cool>>

\* One step of the comprehension that makes attempts; index counts them.
Copy(t) ==
    /\ At(t, "copy")
    /\ \/ /\ chat[t].index < Len(pool)
          /\ chat' = [chat EXCEPT ![t].index = @ + 1,
                                  ![t].attempts = Append(@, pool[chat[t].index + 1])]
       \/ /\ chat[t].index >= Len(pool)
          /\ chat' = [chat EXCEPT ![t].index = 0, ![t].stream = FALSE,
                                  ![t].at = IF chat[t].stream THEN "stream" ELSE "pick"]
    /\ UNCHANGED <<pool, cool>>

-----------------------------------------------------------------------------
\* The stream, tried on the first model that is not cooling.

StreamPick(t) ==
    /\ At(t, "stream")
    /\ \/ /\ chat[t].next > Len(chat[t].attempts)
          /\ chat' = [chat EXCEPT ![t].at = "pick", ![t].next = 1]
          /\ UNCHANGED cool
       \/ /\ chat[t].next <= Len(chat[t].attempts) /\ Cooling(t)
          /\ chat' = [chat EXCEPT ![t].next = @ + 1]
       \/ /\ chat[t].next <= Len(chat[t].attempts) /\ Warm(t)
          /\ chat' = [chat EXCEPT ![t].at = "stream wait"]
    /\ UNCHANGED pool

\* The semaphore, which a thread waits for after it tested the cooldown.
GetPermit(t, from, to) ==
    /\ At(t, from) /\ Cardinality(Calling) < Slots
    /\ chat' = [chat EXCEPT ![t].at = to]
    /\ UNCHANGED <<pool, cool>>

StreamCalls(t) == GetPermit(t, "stream wait", "stream call")

\* A stream that is refused is asked for once more, without stream_options and
\* under a permit of its own; tries counts that.
StreamReturns(t) ==
    /\ At(t, "stream call")
    /\ \/ chat' = [chat EXCEPT ![t] = Idle]
       \/ /\ chat[t].tries = 0
          /\ chat' = [chat EXCEPT ![t].at = "stream wait", ![t].tries = 1]
       \/ chat' = [chat EXCEPT ![t].at = "pick", ![t].next = 1, ![t].tries = 0,
                               ![t].tried = TRUE]
    /\ UNCHANGED <<pool, cool>>

-----------------------------------------------------------------------------
\* The layers.

Raise(t, outcome) ==
    chat' = [chat EXCEPT ![t] =
        [Idle EXCEPT !.at = "done", !.outcome = outcome,
                     !.turns = chat[t].turns, !.raced = chat[t].raced,
                     !.shifted = chat[t].shifted]]

\* What the end of a layer leads to.
After == [primary |-> "fallback", fallback |-> "secondary", secondary |-> "none"]

LayerEnds(t) ==
    /\ At(t, "pick") /\ chat[t].next > Len(Order(t))
    /\ IF chat[t].layer = "secondary" \/ Fallback = <<>>
       THEN Raise(t, IF \/ chat[t].limited
                        \/ Fallback = <<>> /\ ~chat[t].tried
                     THEN "exhausted" ELSE "failed")
       ELSE chat' = [chat EXCEPT ![t].layer = After[chat[t].layer], ![t].next = 1,
                                   ![t].tried = FALSE]   \* not read any more
    /\ UNCHANGED <<pool, cool>>

\* mutant: a model that cools ends the layer
SkipRest(t) ==
    /\ At(t, "pick") /\ chat[t].next <= Len(Order(t)) /\ Cooling(t)
    /\ chat' = [chat EXCEPT ![t].next = Len(Order(t)) + 1, ![t].turns = @ \cup {Model(t)}]
    /\ UNCHANGED pool

SkipCooling(t) ==
    /\ At(t, "pick") /\ chat[t].next <= Len(Order(t)) /\ Cooling(t)
    /\ chat' = [chat EXCEPT ![t].next = @ + 1, ![t].turns = @ \cup {Model(t)}]
    /\ UNCHANGED pool

Pick(t) ==
    /\ At(t, "pick") /\ chat[t].next <= Len(Order(t)) /\ Warm(t)
    /\ chat' = [chat EXCEPT ![t].at = "check", ![t].tries = 1]
    /\ UNCHANGED pool

TakeTurn(t) == [chat EXCEPT ![t].turns = @ \cup {Model(t)}]

\* In the first layer the cooldown is tested again before each try.
CheckFindsCooling(t) ==
    /\ At(t, "check") /\ chat[t].layer = "primary" /\ Cooling(t)
    /\ chat' = [TakeTurn(t) EXCEPT ![t].at = "pick", ![t].next = @ + 1, ![t].tries = 0]
    /\ UNCHANGED pool

CheckPasses(t) ==
    /\ At(t, "check")
    /\ IF chat[t].layer = "primary" THEN Warm(t) ELSE UNCHANGED cool
    /\ chat' = [TakeTurn(t) EXCEPT ![t].at = "wait", ![t].tried = (chat[t].layer = "primary")]
    /\ UNCHANGED pool

Call(t) == GetPermit(t, "wait", "call")

Answers(t) ==
    /\ At(t, "call")
    /\ chat' = [chat EXCEPT ![t] = Idle]
    /\ UNCHANGED <<pool, cool>>

NextModel(t) == [chat EXCEPT ![t].at = "pick", ![t].next = @ + 1, ![t].tries = 0]

\* An error that is not worth another try; 401 and 403 are such errors.
Refuses(t) ==
    /\ At(t, "call") /\ chat' = NextModel(t)
    /\ UNCHANGED <<pool, cool>>

\* mutant: one try too many
FaltersOnceMore(t) ==
    /\ At(t, "call") /\ chat[t].layer = "primary" /\ chat[t].tries <= MaxRetries
    /\ chat' = [chat EXCEPT ![t].at = "check", ![t].tries = @ + 1]
    /\ UNCHANGED <<pool, cool>>

\* A timeout, a lost connection, a 5xx.
Falters(t) ==
    /\ At(t, "call")
    /\ \/ /\ chat[t].layer = "primary" /\ chat[t].tries < MaxRetries
          /\ chat' = [chat EXCEPT ![t].at = "check", ![t].tries = @ + 1]
          /\ UNCHANGED cool
       \/ /\ chat[t].layer = "primary" /\ chat[t].tries = MaxRetries
          /\ cool' = cool \cup {Model(t)} /\ chat' = NextModel(t)
       \/ /\ chat[t].layer # "primary"
          /\ chat' = NextModel(t) /\ UNCHANGED cool
    /\ UNCHANGED pool

Limits(t) ==
    /\ At(t, "call")
    /\ cool' = cool \cup {Model(t)}
    /\ chat' = IF chat[t].layer = "primary"
               THEN [chat EXCEPT ![t].at = "find", ![t].limited = TRUE]
               ELSE [NextModel(t) EXCEPT ![t].limited = TRUE]
    /\ UNCHANGED pool

-----------------------------------------------------------------------------
\* self.model_pool.append(self.model_pool.pop(idx)), in its three steps.

InPool(m) == m \in ToSet(pool)

Find(t) ==
    /\ At(t, "find")
    /\ \/ /\ InPool(Model(t))
          /\ chat' = [chat EXCEPT ![t].at = "pop",
                        ![t].index = CHOOSE k \in DOMAIN pool : pool[k] = Model(t)]
       \/ /\ ~InPool(Model(t)) /\ chat' = NextModel(t)
    /\ UNCHANGED <<pool, cool>>

\* Copies and rotations that another thread is in the middle of.
Disturbed(c) ==
    [c EXCEPT !.raced = @ \/ c.at = "copy", !.shifted = @ \/ c.at = "pop"]
Disturb(f, t) == [u \in Threads |-> IF u = t THEN f[u] ELSE Disturbed(f[u])]

Pop(t) ==
    /\ At(t, "pop")
    /\ \/ /\ chat[t].index <= Len(pool)
          /\ pool' = RemoveAt(pool, chat[t].index)
          /\ chat' = Disturb([chat EXCEPT ![t].at = "append", ![t].index = 0,
                                          ![t].shifted = FALSE,
                                          ![t].held = pool[chat[t].index]], t)
       \/ /\ chat[t].index > Len(pool)
          /\ Raise(t, "index error") /\ UNCHANGED pool
    /\ UNCHANGED cool

\* mutant: the model that answered 429, not the one taken out
PutBackOwn(t) ==
    /\ At(t, "append")
    /\ pool' = Append(pool, Model(t))
    /\ chat' = Disturb([NextModel(t) EXCEPT ![t].held = NoModel], t)
    /\ UNCHANGED cool

PutBack(t) ==
    /\ At(t, "append")
    /\ pool' = Append(pool, chat[t].held)
    /\ chat' = Disturb([NextModel(t) EXCEPT ![t].held = NoModel], t)
    /\ UNCHANGED cool

-----------------------------------------------------------------------------
Return(t) ==
    /\ At(t, "done") /\ chat' = [chat EXCEPT ![t] = Idle]
    /\ UNCHANGED <<pool, cool>>

Service(t) == Answers(t) \/ Refuses(t) \/ Falters(t) \/ Limits(t)
Step(t) ==
    \/ Copy(t) \/ StreamPick(t) \/ StreamCalls(t) \/ StreamReturns(t)
    \/ LayerEnds(t) \/ SkipCooling(t) \/ Pick(t)
    \/ CheckFindsCooling(t) \/ CheckPasses(t) \/ Call(t) \/ Service(t)
    \/ Find(t) \/ Pop(t) \/ PutBack(t) \/ Return(t)

Next == \E t \in Threads : Begin(t) \/ Step(t)

Spec == Init /\ [][Next]_vars

-----------------------------------------------------------------------------
\* Whatever rotations run into each other, no model is lost from the pool or
\* doubled: each is in it once, or in the hand of the one thread that puts it
\* back (client.py:757).
PoolKept ==
    \A m \in ToSet(Primary) :
        Cardinality({k \in DOMAIN pool : pool[k] = m})
          + Cardinality({t \in Threads : chat[t].held = m}) = 1

\* What a chat is configured to try; a second fallback provider counts only
\* behind a first one (client.py:658).
Configured ==
    ToSet(Primary) \cup ToSet(Fallback)
      \cup (IF Fallback = <<>> THEN {} ELSE ToSet(Secondary))

\* Two things end a chat in failure.  Every model it is configured to try was
\* called or was cooling when its turn came; a model is missed only when a
\* rotation changed the pool under its copy.  Or the pop of a rotation found
\* no model at its index, which the code does not catch (client.py:757-759):
\* then the models after it and both fallbacks never have their turn, and
\* another thread's rotation came between the index and the pop.  No error of
\* a model, a 401 or a 403 neither, does that.
AskedUnlessRaced ==
    \A t \in Threads :
        /\ chat[t].outcome \in {"exhausted", "failed"} /\ ~chat[t].raced =>
               Configured \subseteq chat[t].turns
        /\ chat[t].outcome = "index error" => chat[t].shifted
=============================================================================

-------------------------- MODULE SewSession_proofs --------------------------
(***************************************************************************)
(* The session store, for any number of threads, ids and calls, as long as  *)
(* no id is used again (session/create! of the server draws UUIDs): the      *)
(* steps of one session never overlap, an answered step is never lost, and   *)
(* the concurrent store implements the atomic one.                          *)
(*                                                                          *)
(* Everything rests on the lock: of the calls about a session object only   *)
(* the one that holds its lock is past the wait, and only such a call        *)
(* publishes or removes, so what it read is still current when it publishes. *)
(* With one object per id, the lock of the object guards the id.            *)
(***************************************************************************)
EXTENDS SewSession, TLAPS

\* No id is used again.
OneLife == MaxGenerations = 1

StepRecords == [event : Events, context : Objects]

Stored == [object : Objects \cup {NoObject}, world : Seq(StepRecords), stepCount : Nat]

CallStates ==
    {"idle", "step-waits", "step-locked", "step-read", "publish-done",
     "destroy-waits", "destroy-locked", "destroy-checked", "remove-done"}

\* Where a call holds the lock of its session object.
Holding ==
    {"step-locked", "step-read", "publish-done",
     "destroy-locked", "destroy-checked", "remove-done"}

Call == [pc : CallStates, object : Objects \cup {NoObject}, world : Seq(StepRecords)]

StoreTyped ==
    /\ sessions \in [Ids -> Stored]
    /\ created \in [Ids -> 0 .. 1]
    /\ lock \in [Objects -> Clients \cup {Free}]
    /\ call \in [Clients -> Call]
    /\ calls \in [Clients -> 0 .. MaxCalls]
    /\ answered \subseteq StepRecords

\* A session that is there is the one created under its id; one that is not
\* has left nothing.
StoredIsCreated ==
    \A id \in Ids : Active(id) => sessions[id].object = <<id, 1>> /\ created[id] = 1

\* A call in progress is a call of its client about a session that was created.
CallsNamed ==
    \A c \in Clients : call[c].pc # "idle" =>
        /\ call[c].object \in Objects
        /\ created[IdOf(c)] = 1
        /\ calls[c] >= 1

LockHeld ==
    \A c \in Clients : call[c].pc \in Holding => lock[call[c].object] = c

\* What a step read is what it replaces.
ReadIsCurrent ==
    \A c \in Clients : call[c].pc = "step-read" /\ Active(IdOf(c)) =>
        sessions[IdOf(c)].world = call[c].world

AnsweredWereCreated == \A s \in answered : created[s.context[1]] = 1

SessionInv ==
    /\ StoreTyped
    /\ StoredIsCreated
    /\ CallsNamed
    /\ LockHeld
    /\ ReadIsCurrent
    /\ AnsweredWereCreated
    /\ AnsweredStepsKept

-----------------------------------------------------------------------------
(* Objects and worlds. *)

LEMMA ObjectsOnce ==
    ASSUME OneLife, NEW o \in Objects
    PROVE  o[1] \in Ids /\ o = <<o[1], 1>>
<1>1. PICK id \in Ids, n \in 1 .. 1 : o = <<id, n>>
    BY DEF Objects, OneLife
<1>2. n = 1
    OBVIOUS
<1> QED
    BY <1>1, <1>2

LEMMA ObjectOfId ==
    ASSUME OneLife, NEW id \in Ids
    PROVE  <<id, 1>> \in Objects /\ <<id, 1>> # NoObject
BY DEF OneLife, Objects, NoObject

LEMMA ToSetAppend ==
    ASSUME NEW S, NEW w \in Seq(S), NEW x \in S
    PROVE  ToSet(Append(w, x)) = ToSet(w) \cup {x}
<1>1. /\ DOMAIN Append(w, x) = 1 .. (Len(w) + 1)
      /\ DOMAIN w = 1 .. Len(w)
      /\ Append(w, x)[Len(w) + 1] = x
      /\ \A i \in 1 .. Len(w) : Append(w, x)[i] = w[i]
      /\ Len(w) \in Nat
    OBVIOUS
<1>2. ToSet(Append(w, x)) \subseteq ToSet(w) \cup {x}
    BY <1>1 DEF ToSet
<1>3. ToSet(w) \subseteq ToSet(Append(w, x))
    BY <1>1 DEF ToSet
<1>4. x \in ToSet(Append(w, x))
    BY <1>1 DEF ToSet
<1> QED
    BY <1>2, <1>3, <1>4

LEMMA GoneTyped == Gone \in Stored
BY DEF Gone, Stored

LEMMA IdleTyped == Idle \in Call
BY DEF Idle, Call, CallStates

LEMMA InitSession == OneLife /\ SessionInit => SessionInv
<1> SUFFICES ASSUME OneLife, SessionInit
             PROVE  SessionInv
    OBVIOUS
<1>1. StoreTyped
    BY GoneTyped, IdleTyped, SessionAssumption DEF SessionInit, StoreTyped
<1>2. \A c \in Clients : call[c].pc = "idle"
    BY DEF SessionInit, Idle
<1>3. StoredIsCreated
    BY DEF SessionInit, StoredIsCreated, Active
<1>4. AnsweredWereCreated /\ AnsweredStepsKept
    BY DEF SessionInit, AnsweredWereCreated, AnsweredStepsKept
<1> QED
    BY <1>1, <1>2, <1>3, <1>4 DEF SessionInv, CallsNamed, LockHeld, ReadIsCurrent, Holding

-----------------------------------------------------------------------------
(* The calls keep the invariant. *)

LEMMA CreateKeeps ==
    ASSUME OneLife, SessionInv, NEW c \in Clients, NEW id \in Ids, CreateSession(c, id)
    PROVE  SessionInv'
<1> DEFINE new == [object |-> <<id, 1>>, world |-> <<>>, stepCount |-> 0]
<1>1. StoreTyped
    BY DEF SessionInv
<1>2. created[id] = 0 /\ ~Active(id)
    BY <1>1 DEF CreateSession, OneLife, StoreTyped
<1>3. /\ sessions' = [sessions EXCEPT ![id] = new]
      /\ created' = [created EXCEPT ![id] = 1]
      /\ calls' = [calls EXCEPT ![c] = @ + 1]
      /\ UNCHANGED <<lock, call, answered>>
    BY <1>1, <1>2 DEF CreateSession, StoreTyped
<1>4. new \in Stored
    BY ObjectOfId DEF Stored
<1>5. calls[c] + 1 \in 0 .. MaxCalls
    BY <1>1, SessionAssumption DEF CreateSession, CanCall, StoreTyped
<1>6. StoreTyped'
    <2> HIDE DEF new
    <2> QED
        BY <1>1, <1>3, <1>4, <1>5 DEF StoreTyped
<1>7. sessions'[id] = new /\ created'[id] = 1
    BY <1>1, <1>3 DEF StoreTyped
<1>8. \A o \in Ids \ {id} : sessions'[o] = sessions[o] /\ created'[o] = created[o]
    BY <1>1, <1>3 DEF StoreTyped
<1>9. StoredIsCreated'
    BY <1>7, <1>8 DEF SessionInv, StoredIsCreated, Active
<1>10. \A d \in Clients : call[d].pc # "idle" =>
           IdOf(d) \in Ids /\ IdOf(d) # id /\ calls'[d] >= calls[d] /\ calls[d] \in Nat
    BY <1>1, <1>2, <1>3, ObjectsOnce DEF SessionInv, CallsNamed, StoreTyped, IdOf
<1>11. CallsNamed'
    BY <1>1, <1>3, <1>6, <1>8, <1>10 DEF SessionInv, CallsNamed, StoreTyped, IdOf
<1>12. LockHeld'
    BY <1>3 DEF SessionInv, LockHeld
<1>13. ReadIsCurrent'
    BY <1>3, <1>8, <1>10 DEF SessionInv, ReadIsCurrent, Active, IdOf
<1>14. ASSUME NEW s \in answered
       PROVE  s.context[1] \in Ids /\ s.context[1] # id
    BY <1>1, <1>2, ObjectsOnce DEF SessionInv, AnsweredWereCreated, StoreTyped, StepRecords
<1>15. AnsweredWereCreated' /\ AnsweredStepsKept'
    BY <1>3, <1>8, <1>14 DEF SessionInv, AnsweredWereCreated, AnsweredStepsKept
<1> QED
    BY <1>6, <1>9, <1>11, <1>12, <1>13, <1>15 DEF SessionInv

\* A step of one call that stores nothing: its client goes on with the call new,
\* and no other client loses a lock.
LEMMA LocalKeeps ==
    ASSUME OneLife, SessionInv, NEW c \in Clients, NEW new \in Call,
           UNCHANGED <<sessions, created, calls, answered>>,
           call' = [call EXCEPT ![c] = new],
           new.pc # "idle" => call[c].pc # "idle" /\ new.object = call[c].object,
           new.pc = "step-read" /\ Active(new.object[1])
               => sessions[new.object[1]].world = new.world,
           lock' \in [Objects -> Clients \cup {Free}],
           new.pc \in Holding => lock'[new.object] = c,
           \A o \in Objects : \A d \in Clients \ {c} : lock[o] = d => lock'[o] = d
    PROVE  SessionInv'
<1>1. StoreTyped
    BY DEF SessionInv
<1>2. StoreTyped'
    BY <1>1 DEF StoreTyped
<1>3. StoredIsCreated' /\ AnsweredWereCreated' /\ AnsweredStepsKept'
    BY DEF SessionInv, StoredIsCreated, AnsweredWereCreated, AnsweredStepsKept, Active
<1>4. call'[c] = new /\ \A d \in Clients \ {c} : call'[d] = call[d]
    BY <1>1 DEF StoreTyped
<1>5. CallsNamed'
    BY <1>4 DEF SessionInv, CallsNamed, IdOf
<1>6. LockHeld'
    <2> SUFFICES ASSUME NEW d \in Clients, call'[d].pc \in Holding
                 PROVE  lock'[call'[d].object] = d
        BY DEF LockHeld
    <2>1. CASE d = c
        BY <1>4, <2>1
    <2>2. CASE d # c
        <3>1. call[d].object \in Objects /\ lock[call[d].object] = d
            BY <1>4, <2>2 DEF SessionInv, CallsNamed, LockHeld, Holding
        <3> QED
            BY <1>4, <2>2, <3>1
    <2> QED
        BY <2>1, <2>2
<1>7. ReadIsCurrent'
    BY <1>4 DEF SessionInv, ReadIsCurrent, IdOf, Active
<1> QED
    BY <1>2, <1>3, <1>5, <1>6, <1>7 DEF SessionInv

LEMMA BeginKeeps ==
    ASSUME OneLife, SessionInv, NEW c \in Clients, NEW id \in Ids,
           NEW pc \in {"step-waits", "destroy-waits"}, Begin(c, id, pc)
    PROVE  SessionInv'
<1> DEFINE new == [pc |-> pc, object |-> sessions[id].object, world |-> <<>>]
<1>1. StoreTyped
    BY DEF SessionInv
<1>2. /\ call' = [call EXCEPT ![c] = new]
      /\ calls' = [calls EXCEPT ![c] = @ + 1]
      /\ UNCHANGED <<sessions, created, lock, answered>>
    BY DEF Begin
<1>3. sessions[id].object = <<id, 1>> /\ created[id] = 1
    BY DEF Begin, SessionInv, StoredIsCreated
<1>4. calls[c] + 1 \in 1 .. MaxCalls
    BY <1>1, SessionAssumption DEF Begin, CanCall, StoreTyped
<1>5. new \in Call
    BY <1>3, ObjectOfId DEF Call, CallStates
<1>6. StoreTyped'
    <2> HIDE DEF new
    <2> QED
        BY <1>1, <1>2, <1>4, <1>5 DEF StoreTyped
<1>7. /\ call'[c].pc = pc /\ call'[c].object = <<id, 1>>
      /\ calls'[c] >= 1
      /\ \A d \in Clients \ {c} : call'[d] = call[d] /\ calls'[d] = calls[d]
    BY <1>1, <1>2, <1>3, <1>4 DEF StoreTyped
<1>8. StoredIsCreated' /\ AnsweredWereCreated' /\ AnsweredStepsKept'
    BY <1>2 DEF SessionInv, StoredIsCreated, AnsweredWereCreated, AnsweredStepsKept, Active
<1>9. CallsNamed'
    BY <1>2, <1>3, <1>7, ObjectOfId DEF SessionInv, CallsNamed, IdOf
<1>10. LockHeld' /\ ReadIsCurrent'
    BY <1>2, <1>7 DEF SessionInv, LockHeld, ReadIsCurrent, Holding, IdOf, Active
<1> QED
    BY <1>6, <1>8, <1>9, <1>10 DEF SessionInv

LEMMA AcquireKeeps ==
    ASSUME OneLife, SessionInv, NEW c \in Clients,
           AcquireForStep(c) \/ AcquireForDestroy(c)
    PROVE  SessionInv'
<1>1. PICK from \in {"step-waits", "destroy-waits"},
           to \in {"step-locked", "destroy-locked"} : Acquire(c, from, to)
    BY DEF AcquireForStep, AcquireForDestroy
<1> DEFINE new == [call[c] EXCEPT !.pc = to]
<1>2. StoreTyped /\ call[c] \in Call /\ call[c].object \in Objects
    BY <1>1 DEF SessionInv, StoreTyped, CallsNamed, Acquire
<1>3. /\ new \in Call /\ new.pc = to /\ new.object = call[c].object
    BY <1>2 DEF Call, CallStates
<1>4. /\ call' = [call EXCEPT ![c] = new]
      /\ lock' = [lock EXCEPT ![call[c].object] = c]
      /\ lock[call[c].object] = Free /\ Free \notin Clients
      /\ call[c].pc # "idle"
      /\ UNCHANGED <<sessions, created, calls, answered>>
    BY <1>1, <1>2, SessionAssumption DEF Acquire, Move, Free, StoreTyped
<1>5. /\ lock' \in [Objects -> Clients \cup {Free}]
      /\ lock'[new.object] = c
      /\ \A o \in Objects : \A d \in Clients \ {c} : lock[o] = d => lock'[o] = d
    BY <1>2, <1>3, <1>4 DEF StoreTyped
<1> HIDE DEF new
<1> QED
    BY <1>3, <1>4, <1>5, LocalKeeps

\* A call that ends lets go of its own lock and of no other.
LEMMA UnlockKeeps ==
    ASSUME OneLife, SessionInv, NEW c \in Clients, call[c].pc \in Holding,
           Unlock(c), UNCHANGED <<sessions, created, calls, answered>>
    PROVE  SessionInv'
<1>1. StoreTyped /\ call[c].object \in Objects /\ lock[call[c].object] = c
    BY DEF SessionInv, CallsNamed, LockHeld, Holding
<1>2. /\ call' = [call EXCEPT ![c] = Idle]
      /\ lock' = [lock EXCEPT ![call[c].object] = Free]
    BY DEF Unlock
<1>3. /\ lock' \in [Objects -> Clients \cup {Free}]
      /\ \A o \in Objects : \A d \in Clients \ {c} : lock[o] = d => lock'[o] = d
    BY <1>1, <1>2 DEF StoreTyped
<1>4. Idle.pc = "idle"
    BY DEF Idle
<1> QED
    BY <1>2, <1>3, <1>4, IdleTyped, LocalKeeps DEF Holding

\* A call that keeps its lock and goes on.
LEMMA MoveKeeps ==
    ASSUME OneLife, SessionInv, NEW c \in Clients, NEW new \in Call,
           call[c].pc \in Holding, new.pc \in Holding, new.object = call[c].object,
           new.pc = "step-read" /\ Active(IdOf(c)) => sessions[IdOf(c)].world = new.world,
           call' = [call EXCEPT ![c] = new],
           UNCHANGED <<sessions, created, lock, calls, answered>>
    PROVE  SessionInv'
<1>1. lock \in [Objects -> Clients \cup {Free}] /\ lock[call[c].object] = c
    BY DEF SessionInv, StoreTyped, LockHeld
<1>2. call[c].pc # "idle"
    BY DEF Holding
<1> QED
    BY <1>1, <1>2, LocalKeeps DEF IdOf

LEMMA RereadKeeps ==
    ASSUME OneLife, SessionInv, NEW c \in Clients, Reread(c)
    PROVE  SessionInv'
<1>1. /\ call[c].pc = "step-locked" /\ call[c].pc \in Holding
      /\ UNCHANGED <<sessions, created, calls, answered>>
    BY DEF Reread, Holding
<1>2. CASE ~Active(IdOf(c))
    BY <1>1, <1>2, UnlockKeeps DEF Reread
<1>3. CASE Active(IdOf(c))
    <2> DEFINE new == [call[c] EXCEPT !.pc = "step-read", !.world = sessions[IdOf(c)].world]
    <2>1. StoreTyped /\ call[c] \in Call /\ call[c].object \in Objects
        BY <1>1 DEF SessionInv, StoreTyped, CallsNamed
    <2>2. sessions[IdOf(c)] \in Stored
        BY <2>1, ObjectsOnce DEF StoreTyped, IdOf
    <2>3. /\ new \in Call /\ new.pc = "step-read" /\ new.object = call[c].object
          /\ new.world = sessions[IdOf(c)].world
        BY <2>1, <2>2 DEF Call, CallStates, Stored
    <2>4. call' = [call EXCEPT ![c] = new] /\ UNCHANGED lock
        BY <1>3 DEF Reread
    <2> HIDE DEF new
    <2>5. new.pc \in Holding
        BY <2>3 DEF Holding
    <2> QED
        BY <1>1, <2>3, <2>4, <2>5, MoveKeeps
<1> QED
    BY <1>2, <1>3

LEMMA CheckKeeps ==
    ASSUME OneLife, SessionInv, NEW c \in Clients, CheckExists(c)
    PROVE  SessionInv'
<1>1. /\ call[c].pc \in Holding
      /\ UNCHANGED <<sessions, created, calls, answered>>
    BY DEF CheckExists, Holding
<1>2. CASE ~Active(IdOf(c))
    BY <1>1, <1>2, UnlockKeeps DEF CheckExists
<1>3. CASE Active(IdOf(c))
    <2> DEFINE new == [call[c] EXCEPT !.pc = "destroy-checked"]
    <2>1. call[c] \in Call
        BY DEF SessionInv, StoreTyped
    <2>2. new \in Call /\ new.pc = "destroy-checked" /\ new.object = call[c].object
        BY <2>1 DEF Call, CallStates
    <2>3. call' = [call EXCEPT ![c] = new] /\ UNCHANGED lock
        BY <1>3 DEF CheckExists, Move
    <2> HIDE DEF new
    <2>4. new.pc \in Holding
        BY <2>2 DEF Holding
    <2> QED
        BY <1>1, <2>2, <2>3, <2>4, MoveKeeps
<1> QED
    BY <1>2, <1>3

LEMMA EndKeeps ==
    ASSUME OneLife, SessionInv, NEW c \in Clients, StepThrows(c) \/ Finish(c)
    PROVE  SessionInv'
<1>1. call[c].pc \in Holding /\ Unlock(c) /\ UNCHANGED <<sessions, created, calls, answered>>
    BY DEF StepThrows, Finish, Holding
<1> QED
    BY <1>1, UnlockKeeps

\* Two calls past the wait for the lock are about different ids.
LEMMA HoldersApart ==
    ASSUME OneLife, SessionInv, NEW c \in Clients, NEW d \in Clients, c # d,
           call[c].pc \in Holding, call[d].pc \in Holding
    PROVE  IdOf(c) # IdOf(d)
<1>1. /\ call[c].object \in Objects /\ lock[call[c].object] = c
      /\ call[d].object \in Objects /\ lock[call[d].object] = d
    BY DEF SessionInv, CallsNamed, LockHeld, Holding
<1>2. call[c].object # call[d].object
    BY <1>1
<1> QED
    BY <1>1, <1>2, ObjectsOnce DEF IdOf

\* The step a call publishes is a step of its own session.
PublishedBy(c) == [event |-> Event(c), context |-> call[c].object]

LEMMA PublishedTyped ==
    ASSUME OneLife, SessionInv, NEW c \in Clients, call[c].pc = "step-read"
    PROVE  PublishedBy(c) \in StepRecords
<1>1. call[c].object \in Objects /\ calls[c] >= 1 /\ calls[c] \in 0 .. MaxCalls
    BY DEF SessionInv, CallsNamed, StoreTyped
<1>2. Event(c) \in Events
    BY <1>1, SessionAssumption DEF Event, Events
<1> QED
    BY <1>1, <1>2 DEF PublishedBy, StepRecords

\* What a publication does to the session it is about, when that is there.
LEMMA PublishStores ==
    ASSUME OneLife, SessionInv, NEW c \in Clients, Publish(c), Active(IdOf(c))
    PROVE  LET id  == IdOf(c)
               new == [ object    |-> sessions[id].object,
                        world     |-> Append(sessions[id].world, PublishedBy(c)),
                        stepCount |-> sessions[id].stepCount + 1 ]
           IN  /\ id \in Ids
               /\ sessions[id].object = call[c].object
               /\ new \in Stored
               /\ sessions' = [sessions EXCEPT ![id] = new]
<1> DEFINE id == IdOf(c)
           new == [ object    |-> sessions[id].object,
                    world     |-> Append(sessions[id].world, PublishedBy(c)),
                    stepCount |-> sessions[id].stepCount + 1 ]
<1>1. call[c].pc = "step-read" /\ call[c].object \in Objects
    BY DEF Publish, SessionInv, CallsNamed
<1>2. id \in Ids /\ call[c].object = <<id, 1>>
    BY <1>1, ObjectsOnce DEF IdOf
<1>3. sessions[id].object = <<id, 1>>
    BY <1>2 DEF SessionInv, StoredIsCreated
<1>4. sessions[id].world = call[c].world
    BY <1>1 DEF SessionInv, ReadIsCurrent
<1>5. sessions \in [Ids -> Stored] /\ sessions[id] \in Stored
    BY <1>2 DEF SessionInv, StoreTyped
<1>6. PublishedBy(c) \in StepRecords
    BY <1>1, PublishedTyped
<1>7. new \in Stored
    BY <1>5, <1>6 DEF Stored
<1>8. sessions' = [sessions EXCEPT ![id] =
                       [ object    |-> @.object,
                         world     |-> Append(call[c].world, PublishedBy(c)),
                         stepCount |-> @.stepCount + 1 ]]
    BY DEF Publish, PublishedBy
<1>9. sessions' = [sessions EXCEPT ![id] = new]
    BY <1>2, <1>4, <1>5, <1>8
<1> QED
    BY <1>2, <1>3, <1>7, <1>9

LEMMA PublishKeeps ==
    ASSUME OneLife, SessionInv, NEW c \in Clients, Publish(c)
    PROVE  SessionInv'
<1> DEFINE id   == IdOf(c)
           step == PublishedBy(c)
<1>1. /\ call[c].pc = "step-read" /\ call[c].object \in Objects
      /\ call[c] \in Call /\ call[c].pc \in Holding
    BY DEF Publish, SessionInv, CallsNamed, StoreTyped, Holding
<1>2. /\ id \in Ids /\ call[c].object = <<id, 1>> /\ created[id] = 1
      /\ step \in StepRecords /\ step.context = <<id, 1>>
    BY <1>1, ObjectsOnce, PublishedTyped DEF IdOf, PublishedBy, SessionInv, CallsNamed
<1>3. /\ call' = [call EXCEPT ![c].pc = "publish-done"]
      /\ answered' = answered \cup {step}
      /\ UNCHANGED <<created, lock, calls>>
    BY DEF Publish, Move, PublishedBy
<1>4. /\ sessions' \in [Ids -> Stored]
      /\ \A o \in Ids \ {id} : sessions'[o] = sessions[o]
      /\ sessions'[id].object = sessions[id].object
      /\ ~Active(id) => sessions' = sessions
      /\ Active(id) => ToSet(sessions'[id].world) = ToSet(sessions[id].world) \cup {step}
    <2>1. CASE ~Active(id)
        BY <1>2, <2>1 DEF Publish, SessionInv, StoreTyped
    <2>2. CASE Active(id)
        <3> DEFINE new == [ object    |-> sessions[id].object,
                            world     |-> Append(sessions[id].world, step),
                            stepCount |-> sessions[id].stepCount + 1 ]
        <3>1. new \in Stored /\ sessions' = [sessions EXCEPT ![id] = new]
            BY <2>2, PublishStores
        <3>2. sessions \in [Ids -> Stored] /\ sessions[id].world \in Seq(StepRecords)
            BY <1>2 DEF SessionInv, StoreTyped, Stored
        <3>3. ToSet(new.world) = ToSet(sessions[id].world) \cup {step}
            BY <1>2, <3>2, ToSetAppend
        <3>4. new.object = sessions[id].object
            OBVIOUS
        <3> HIDE DEF new, id, step
        <3> QED
            BY <1>2, <2>2, <3>1, <3>2, <3>3, <3>4
    <2> QED
        BY <2>1, <2>2
<1> HIDE DEF id, step
<1>5. [call[c] EXCEPT !.pc = "publish-done"] \in Call
    BY <1>1 DEF Call, CallStates
<1>6. StoreTyped'
    BY <1>2, <1>3, <1>4, <1>5 DEF SessionInv, StoreTyped
<1>7. /\ call'[c].pc = "publish-done" /\ call'[c].object = call[c].object
      /\ \A d \in Clients \ {c} : call'[d] = call[d]
    BY <1>1, <1>3 DEF SessionInv, StoreTyped, Call
<1>8. StoredIsCreated'
    <2> SUFFICES ASSUME NEW o \in Ids, Active(o)'
                 PROVE  sessions'[o].object = <<o, 1>> /\ created'[o] = 1
        BY DEF StoredIsCreated
    <2>1. Active(o)
        BY <1>4 DEF Active
    <2> QED
        BY <1>3, <1>4, <2>1 DEF SessionInv, StoredIsCreated
<1>9. CallsNamed' /\ LockHeld'
    BY <1>1, <1>3, <1>7 DEF SessionInv, CallsNamed, LockHeld, IdOf, Holding
<1>10. ReadIsCurrent'
    <2> SUFFICES ASSUME NEW d \in Clients, call'[d].pc = "step-read", Active(IdOf(d))'
                 PROVE  (sessions[IdOf(d)].world = call[d].world)'
        BY DEF ReadIsCurrent
    <2>1. d # c /\ call'[d] = call[d]
        BY <1>7
    <2>2. call[d].pc = "step-read" /\ call[d].object \in Objects /\ IdOf(d)' = IdOf(d)
        BY <2>1 DEF SessionInv, CallsNamed, IdOf
    <2>3. IdOf(d) # id /\ IdOf(d) \in Ids
        BY <1>1, <2>1, <2>2, HoldersApart, ObjectsOnce DEF Holding, IdOf, id
    <2>4. sessions'[IdOf(d)] = sessions[IdOf(d)]
        BY <1>4, <2>3
    <2> QED
        BY <2>1, <2>2, <2>4 DEF SessionInv, ReadIsCurrent, Active
<1>11. AnsweredWereCreated'
    BY <1>2, <1>3 DEF SessionInv, AnsweredWereCreated
<1>12. AnsweredStepsKept'
    <2> SUFFICES ASSUME NEW s \in answered \cup {step},
                        sessions'[s.context[1]].object = s.context
                 PROVE  s \in ToSet(sessions'[s.context[1]].world)
        BY <1>3 DEF AnsweredStepsKept
    <2>1. s.context[1] \in Ids /\ s.context # NoObject /\ s.context \in Objects
        BY <1>2, ObjectsOnce, ObjectOfId DEF SessionInv, StoreTyped, StepRecords
    <2>2. CASE s.context[1] # id
        <3>1. s \in answered /\ sessions'[s.context[1]] = sessions[s.context[1]]
            BY <1>2, <1>4, <2>1, <2>2
        <3> QED
            BY <3>1 DEF SessionInv, AnsweredStepsKept
    <2>3. CASE s.context[1] = id
        <3>1. Active(id)
            <4>1. sessions[id].object # NoObject
                BY <1>4, <2>1, <2>3
            <4> QED
                BY <4>1 DEF Active, Gone
        <3>2. s \in answered => s \in ToSet(sessions[id].world)
            BY <1>4, <2>3 DEF SessionInv, AnsweredStepsKept
        <3> QED
            BY <1>4, <2>3, <3>1, <3>2
    <2> QED
        BY <2>2, <2>3
<1> QED
    BY <1>6, <1>8, <1>9, <1>10, <1>11, <1>12 DEF SessionInv

LEMMA RemoveKeeps ==
    ASSUME OneLife, SessionInv, NEW c \in Clients, RemoveSession(c)
    PROVE  SessionInv'
<1> DEFINE id == IdOf(c)
<1>1. /\ call[c].object \in Objects /\ call[c] \in Call /\ call[c].pc \in Holding
    BY DEF RemoveSession, SessionInv, CallsNamed, StoreTyped, Holding
<1>2. id \in Ids
    BY <1>1, ObjectsOnce DEF IdOf
<1>3. /\ call' = [call EXCEPT ![c].pc = "remove-done"]
      /\ sessions' = [sessions EXCEPT ![id] = Gone]
      /\ UNCHANGED <<created, lock, calls, answered>>
    BY DEF RemoveSession, Move
<1>4. [call[c] EXCEPT !.pc = "remove-done"] \in Call
    BY <1>1 DEF Call, CallStates
<1>5. /\ sessions'[id] = Gone
      /\ \A o \in Ids \ {id} : sessions'[o] = sessions[o]
    BY <1>2, <1>3 DEF SessionInv, StoreTyped
<1>6. StoreTyped'
    BY <1>3, <1>4, GoneTyped DEF SessionInv, StoreTyped
<1>7. /\ call'[c].pc = "remove-done" /\ call'[c].object = call[c].object
      /\ \A d \in Clients \ {c} : call'[d] = call[d]
    BY <1>1, <1>3 DEF SessionInv, StoreTyped, Call
<1>8. StoredIsCreated'
    BY <1>3, <1>5 DEF SessionInv, StoredIsCreated, Active
<1>9. CallsNamed' /\ LockHeld'
    BY <1>1, <1>3, <1>7 DEF SessionInv, CallsNamed, LockHeld, IdOf, Holding
<1>10. ReadIsCurrent'
    <2> SUFFICES ASSUME NEW d \in Clients, call'[d].pc = "step-read", Active(IdOf(d))'
                 PROVE  (sessions[IdOf(d)].world = call[d].world)'
        BY DEF ReadIsCurrent
    <2>1. d # c /\ call'[d] = call[d]
        BY <1>7
    <2>2. call[d].pc = "step-read" /\ call[d].object \in Objects /\ IdOf(d)' = IdOf(d)
        BY <2>1 DEF SessionInv, CallsNamed, IdOf
    <2>3. IdOf(d) # id /\ IdOf(d) \in Ids
        BY <1>1, <2>1, <2>2, HoldersApart, ObjectsOnce DEF Holding, IdOf
    <2>4. sessions'[IdOf(d)] = sessions[IdOf(d)]
        BY <1>5, <2>3
    <2> QED
        BY <2>1, <2>2, <2>4 DEF SessionInv, ReadIsCurrent, Active
<1>11. AnsweredWereCreated'
    BY <1>3 DEF SessionInv, AnsweredWereCreated
<1>12. AnsweredStepsKept'
    <2> SUFFICES ASSUME NEW s \in answered,
                        sessions'[s.context[1]].object = s.context
                 PROVE  s \in ToSet(sessions'[s.context[1]].world)
        BY <1>3 DEF AnsweredStepsKept
    <2>1. s.context[1] \in Ids /\ s.context # NoObject
        BY ObjectsOnce, ObjectOfId DEF SessionInv, StoreTyped, StepRecords
    <2>2. s.context[1] # id
        BY <1>5, <2>1 DEF Gone
    <2> QED
        BY <1>5, <2>1, <2>2 DEF SessionInv, AnsweredStepsKept
<1> QED
    BY <1>6, <1>8, <1>9, <1>10, <1>11, <1>12 DEF SessionInv

LEMMA NextSession == OneLife /\ SessionInv /\ [SessionNext]_sessionVars => SessionInv'
<1> SUFFICES ASSUME OneLife, SessionInv, [SessionNext]_sessionVars
             PROVE  SessionInv'
    OBVIOUS
<1>1. CASE UNCHANGED sessionVars
    BY <1>1 DEF sessionVars, SessionInv, StoreTyped, StoredIsCreated, CallsNamed, LockHeld,
                ReadIsCurrent, AnsweredWereCreated, AnsweredStepsKept, Active, IdOf
<1>2. ASSUME NEW c \in Clients, NEW id \in Ids,
             CreateSession(c, id) \/ BeginStep(c, id) \/ BeginDestroy(c, id)
      PROVE  SessionInv'
    BY <1>2, CreateKeeps, BeginKeeps DEF BeginStep, BeginDestroy
<1>3. ASSUME NEW c \in Clients, Proceed(c)
      PROVE  SessionInv'
    BY <1>3, AcquireKeeps, RereadKeeps, PublishKeeps, CheckKeeps, RemoveKeeps, EndKeeps
    DEF Proceed
<1> QED
    BY <1>1, <1>2, <1>3 DEF SessionNext

LEMMA SessionInvariant ==
    ASSUME OneLife
    PROVE  SessionSpec => []SessionInv
<1>1. SessionInit => SessionInv
    BY InitSession
<1>2. SessionInv /\ [SessionNext]_sessionVars => SessionInv'
    BY NextSession
<1> QED
    BY <1>1, <1>2, PTL DEF SessionSpec

\* While no id is used again, a step that was answered is in its session's world
\* for as long as the session lives, whatever the other threads do.
THEOREM AnsweredStepsAlwaysKept ==
    ASSUME OneLife
    PROVE  SessionSpec => []AnsweredStepsKept
<1>1. SessionInv => AnsweredStepsKept
    BY DEF SessionInv
<1> QED
    BY <1>1, SessionInvariant, PTL

\* While no id is used again, no two threads are between reading a session's
\* world and publishing the next one.
THEOREM StepsAlwaysSerialised ==
    ASSUME OneLife
    PROVE  SessionSpec => []StepsSerialised
<1>1. SessionInv => StepsSerialised
    BY HoldersApart DEF StepsSerialised, Holding
<1> QED
    BY <1>1, SessionInvariant, PTL

-----------------------------------------------------------------------------
(* The concurrent store implements the atomic one. *)

LEMMA InitImplements == SessionInit => Atomic!StoreInit
BY DEF SessionInit, Atomic!StoreInit, Active, Gone, NoObject

\* What the atomic store sees of the sessions.
LiveIds == {id \in Ids : Active(id)}
ObjectOf == [id \in Ids |-> sessions[id].object]
WorldOf == [id \in Ids |-> sessions[id].world]
CountOf == [id \in Ids |-> sessions[id].stepCount]

\* What it sees of a step that stores new under id.
LEMMA StoredAt ==
    ASSUME SessionInv, NEW id \in Ids, NEW new \in Stored,
           sessions' = [sessions EXCEPT ![id] = new]
    PROVE  /\ LiveIds' = IF new # Gone THEN LiveIds \cup {id} ELSE LiveIds \ {id}
           /\ ObjectOf' = [ObjectOf EXCEPT ![id] = new.object]
           /\ WorldOf' = [WorldOf EXCEPT ![id] = new.world]
           /\ CountOf' = [CountOf EXCEPT ![id] = new.stepCount]
<1>1. /\ sessions'[id] = new
      /\ \A i \in Ids \ {id} : sessions'[i] = sessions[i]
    BY DEF SessionInv, StoreTyped
<1>2. \A i \in Ids : Active(i)' <=> IF i = id THEN new # Gone ELSE Active(i)
    BY <1>1 DEF Active
<1>3. LiveIds' = IF new # Gone THEN LiveIds \cup {id} ELSE LiveIds \ {id}
    BY <1>2 DEF LiveIds
<1>4. ObjectOf' = [ObjectOf EXCEPT ![id] = new.object]
    <2>1. \A i \in Ids : ObjectOf'[i] = IF i = id THEN new.object ELSE ObjectOf[i]
        BY <1>1 DEF ObjectOf
    <2>2. ObjectOf' = [i \in Ids |-> ObjectOf'[i]] /\ ObjectOf = [i \in Ids |-> ObjectOf[i]]
        BY DEF ObjectOf
    <2> QED
        BY <2>1, <2>2
<1>5. WorldOf' = [WorldOf EXCEPT ![id] = new.world]
    <2>1. \A i \in Ids : WorldOf'[i] = IF i = id THEN new.world ELSE WorldOf[i]
        BY <1>1 DEF WorldOf
    <2>2. WorldOf' = [i \in Ids |-> WorldOf'[i]] /\ WorldOf = [i \in Ids |-> WorldOf[i]]
        BY DEF WorldOf
    <2> QED
        BY <2>1, <2>2
<1>6. CountOf' = [CountOf EXCEPT ![id] = new.stepCount]
    <2>1. \A i \in Ids : CountOf'[i] = IF i = id THEN new.stepCount ELSE CountOf[i]
        BY <1>1 DEF CountOf
    <2>2. CountOf' = [i \in Ids |-> CountOf'[i]] /\ CountOf = [i \in Ids |-> CountOf[i]]
        BY DEF CountOf
    <2> QED
        BY <2>1, <2>2
<1> QED
    BY <1>3, <1>4, <1>5, <1>6

\* The operations of the atomic store under the refinement mapping.
LEMMA Mapped ==
    ASSUME NEW id, NEW c, NEW e
    PROVE  /\ Atomic!CreateSession(id, c) <=>
                  /\ id \notin LiveIds
                  /\ LiveIds' = LiveIds \cup {id}
                  /\ ObjectOf' = [ObjectOf EXCEPT ![id] = c]
                  /\ WorldOf' = [WorldOf EXCEPT ![id] = <<>>]
                  /\ CountOf' = [CountOf EXCEPT ![id] = 0]
           /\ Atomic!StepSession(id, e) <=>
                  /\ id \in LiveIds
                  /\ WorldOf' = [WorldOf EXCEPT ![id] =
                                     Append(@, [event |-> e, context |-> ObjectOf[id]])]
                  /\ CountOf' = [CountOf EXCEPT ![id] = @ + 1]
                  /\ UNCHANGED <<LiveIds, ObjectOf>>
           /\ Atomic!DestroySession(id) <=>
                  /\ id \in LiveIds
                  /\ LiveIds' = LiveIds \ {id}
                  /\ ObjectOf' = [ObjectOf EXCEPT ![id] = NoObject]
                  /\ WorldOf' = [WorldOf EXCEPT ![id] = <<>>]
                  /\ CountOf' = [CountOf EXCEPT ![id] = 0]
BY DEF Atomic!CreateSession, Atomic!StepSession, Atomic!DestroySession,
       LiveIds, ObjectOf, WorldOf, CountOf

LEMMA QuietImplements ==
    ASSUME UNCHANGED sessions
    PROVE  UNCHANGED Atomic!storeVars
BY DEF Atomic!storeVars, Active

LEMMA CreateImplements ==
    ASSUME OneLife, SessionInv, NEW c \in Clients, NEW id \in Ids, CreateSession(c, id)
    PROVE  Atomic!StoreNext
<1> DEFINE new == [object |-> <<id, 1>>, world |-> <<>>, stepCount |-> 0]
<1>1. ~Active(id) /\ created[id] = 0
    BY DEF CreateSession, SessionInv, StoreTyped, OneLife
<1>2. sessions' = [sessions EXCEPT ![id] = new]
    BY <1>1 DEF CreateSession
<1>3. <<id, 1>> \in Objects /\ <<id, 1>> # NoObject
    BY ObjectOfId
<1>4. new \in Stored /\ new # Gone
    BY <1>3 DEF Stored, Gone
<1>5. new.object = <<id, 1>> /\ new.world = <<>> /\ new.stepCount = 0
    OBVIOUS
<1> HIDE DEF new
<1>6. id \notin LiveIds
    BY <1>1 DEF LiveIds
<1>7. /\ LiveIds' = LiveIds \cup {id}
      /\ ObjectOf' = [ObjectOf EXCEPT ![id] = <<id, 1>>]
      /\ WorldOf' = [WorldOf EXCEPT ![id] = <<>>]
      /\ CountOf' = [CountOf EXCEPT ![id] = 0]
    <2>1. /\ LiveIds' = LiveIds \cup {id}
          /\ ObjectOf' = [ObjectOf EXCEPT ![id] = new.object]
          /\ WorldOf' = [WorldOf EXCEPT ![id] = new.world]
          /\ CountOf' = [CountOf EXCEPT ![id] = new.stepCount]
        BY <1>2, <1>4, StoredAt
    <2> QED
        BY <1>5, <2>1
<1>8. PICK o \in Objects : o = <<id, 1>>
    BY <1>3
<1>9. Atomic!CreateSession(id, o)
    BY <1>6, <1>7, <1>8, Mapped
<1> QED
    BY <1>9 DEF Atomic!StoreNext

LEMMA PublishImplements ==
    ASSUME OneLife, SessionInv, NEW c \in Clients, Publish(c), Active(IdOf(c))
    PROVE  Atomic!StoreNext
<1> DEFINE id  == IdOf(c)
           new == [ object    |-> sessions[id].object,
                    world     |-> Append(sessions[id].world, PublishedBy(c)),
                    stepCount |-> sessions[id].stepCount + 1 ]
<1>1. /\ id \in Ids /\ sessions[id].object = call[c].object
      /\ new \in Stored /\ sessions' = [sessions EXCEPT ![id] = new]
    BY PublishStores
<1>2. new # Gone
    <2>1. new.stepCount # 0
        BY <1>1 DEF SessionInv, StoreTyped, Stored
    <2> QED
        BY <2>1 DEF Gone
<1>3. Event(c) \in Events
    <2>1. PublishedBy(c) \in StepRecords
        BY PublishedTyped DEF Publish
    <2> QED
        BY <2>1 DEF PublishedBy, StepRecords
<1>4. /\ new.object = sessions[id].object
      /\ new.world = Append(sessions[id].world,
                            [event |-> Event(c), context |-> sessions[id].object])
      /\ new.stepCount = sessions[id].stepCount + 1
    BY <1>1 DEF PublishedBy
<1>5. /\ id \in LiveIds
      /\ ObjectOf[id] = sessions[id].object
      /\ WorldOf[id] = sessions[id].world
      /\ CountOf[id] = sessions[id].stepCount
    BY <1>1 DEF LiveIds, ObjectOf, WorldOf, CountOf
<1> HIDE DEF new
<1>6. PICK i \in Ids, e \in Events : i = id /\ e = Event(c)
    BY <1>1, <1>3
<1> HIDE DEF id
<1>7. LiveIds' = LiveIds /\ ObjectOf' = ObjectOf
    <2>1. LiveIds' = LiveIds \cup {id} /\ ObjectOf' = [ObjectOf EXCEPT ![id] = new.object]
        BY <1>1, <1>2, StoredAt
    <2> QED
        BY <1>4, <1>5, <2>1 DEF ObjectOf
<1>8. /\ WorldOf' = [WorldOf EXCEPT ![id] = new.world]
      /\ CountOf' = [CountOf EXCEPT ![id] = new.stepCount]
    BY <1>1, StoredAt
<1>9. Atomic!StepSession(i, e)
    BY <1>4, <1>5, <1>6, <1>7, <1>8, Mapped
<1> QED
    BY <1>9 DEF Atomic!StoreNext

LEMMA RemoveImplements ==
    ASSUME OneLife, SessionInv, NEW c \in Clients, RemoveSession(c), Active(IdOf(c))
    PROVE  Atomic!StoreNext
<1> DEFINE id == IdOf(c)
<1>1. id \in Ids
    BY ObjectsOnce DEF RemoveSession, SessionInv, CallsNamed, IdOf
<1>2. sessions' = [sessions EXCEPT ![id] = Gone]
    BY DEF RemoveSession
<1>3. Gone.object = NoObject /\ Gone.world = <<>> /\ Gone.stepCount = 0
    BY DEF Gone
<1>4. id \in LiveIds
    BY <1>1 DEF LiveIds
<1>5. PICK i \in Ids : i = id
    BY <1>1
<1> HIDE DEF id
<1>6. Atomic!DestroySession(i)
    BY <1>2, <1>3, <1>4, <1>5, GoneTyped, StoredAt, Mapped
<1> QED
    BY <1>6 DEF Atomic!StoreNext

LEMMA StepImplements ==
    ASSUME OneLife, SessionInv, [SessionNext]_sessionVars
    PROVE  [Atomic!StoreNext]_(Atomic!storeVars)
<1>1. CASE UNCHANGED sessions
    BY <1>1, QuietImplements
<1>2. ASSUME NEW c \in Clients, NEW id \in Ids,
             CreateSession(c, id) \/ BeginStep(c, id) \/ BeginDestroy(c, id)
      PROVE  Atomic!StoreNext \/ UNCHANGED sessions
    BY <1>2, CreateImplements DEF BeginStep, BeginDestroy, Begin
<1>3. ASSUME NEW c \in Clients, Publish(c)
      PROVE  Atomic!StoreNext \/ UNCHANGED sessions
    BY <1>3, PublishImplements DEF Publish
<1>4. ASSUME NEW c \in Clients, RemoveSession(c)
      PROVE  Atomic!StoreNext \/ UNCHANGED sessions
    <2>1. IdOf(c) \in Ids
        BY <1>4, ObjectsOnce DEF RemoveSession, SessionInv, CallsNamed, IdOf
    <2>2. CASE ~Active(IdOf(c))
        BY <1>4, <2>1, <2>2 DEF RemoveSession, Active, SessionInv, StoreTyped
    <2> QED
        BY <1>4, <2>2, RemoveImplements
<1>5. ASSUME NEW c \in Clients, Proceed(c)
      PROVE  Atomic!StoreNext \/ UNCHANGED sessions
    BY <1>3, <1>4, <1>5 DEF Proceed, AcquireForStep, AcquireForDestroy, Acquire, Reread,
                            StepThrows, CheckExists, Finish
<1> QED
    BY <1>1, <1>2, <1>5 DEF SessionNext, sessionVars

\* While no id is used again, every call of the session store takes effect at one
\* instant: the threads and their locks implement the atomic store.
THEOREM StoreIsAtomic ==
    ASSUME OneLife
    PROVE  SessionSpec => AtomicSessions
<1>1. SessionInit => Atomic!StoreInit
    BY InitImplements
<1>2. SessionInv /\ [SessionNext]_sessionVars => [Atomic!StoreNext]_(Atomic!storeVars)
    BY StepImplements
<1> QED
    BY <1>1, <1>2, SessionInvariant, PTL
    DEF SessionSpec, AtomicSessions, Atomic!StoreSpec

=============================================================================

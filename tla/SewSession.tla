------------------------------ MODULE SewSession ------------------------------
(***************************************************************************)
(* The session store of the simulation server (server/session.clj) as its   *)
(* threads run it: one atom holding every session, a lock per session       *)
(* object, and calls that read the atom, wait for the lock of the session   *)
(* they saw, read the atom again and publish with swap!.  A world is the    *)
(* sequence of steps that led to it.                                        *)
(***************************************************************************)
EXTENDS Sequences, Naturals, FiniteSets, SequencesExt

CONSTANTS
    Clients,          \* server threads
    Ids,              \* session ids
    MaxCalls,         \* bound: calls per client
    MaxGenerations    \* bound: how often an id may be created; 1 when ids are
                      \* UUIDs, more when a caller uses an id again

ASSUME SessionAssumption ==
    /\ MaxCalls \in Nat
    /\ MaxGenerations \in Nat \ {0}
    /\ <<>> \notin Clients

VARIABLES
    sessions,    \* the atom: what is stored under each id
    created,     \* how many session objects have been created under each id
    lock,        \* the thread holding the lock of each session object
    call,        \* per client, the call it is in
    calls,       \* per client, how many calls it has started
    answered     \* the steps answered with {:ok true}

sessionVars == <<sessions, created, lock, call, calls, answered>>

\* A session object is identified by its id and how many came before it; its
\* lock and its context are created with it.
Objects == Ids \X (1 .. MaxGenerations)

\* Every call submits an event of its own.
Events == Clients \X (1 .. MaxCalls)

NoObject == <<>>

Free == <<>>

Gone == [object |-> NoObject, world |-> <<>>, stepCount |-> 0]

Idle == [pc |-> "idle", object |-> NoObject, world |-> <<>>]

Active(id) == sessions[id] # Gone

SessionInit ==
    /\ sessions = [id \in Ids |-> Gone]
    /\ created = [id \in Ids |-> 0]
    /\ lock = [o \in Objects |-> Free]
    /\ call = [c \in Clients |-> Idle]
    /\ calls = [c \in Clients |-> 0]
    /\ answered = {}

Event(c) == <<c, calls[c]>>

CanCall(c) == call[c] = Idle /\ calls[c] < MaxCalls

Move(c, pc) == call' = [call EXCEPT ![c].pc = pc]

\* with-lock lets go of the lock whatever the call did.
Unlock(c) ==
    /\ lock' = [lock EXCEPT ![call[c].object] = Free]
    /\ call' = [call EXCEPT ![c] = Idle]

\* create-session!: one swap-vals! inserts the new session unless the id is
\* taken.  The call that finds it taken is refused and changes nothing.
CreateSession(c, id) ==
    LET object == <<id, created[id] + 1>>
    IN  /\ CanCall(c)
        /\ created[id] < MaxGenerations
        /\ ~Active(id)
        /\ sessions' = [sessions EXCEPT ![id] =
                            [object |-> object, world |-> <<>>, stepCount |-> 0]]
        /\ created' = [created EXCEPT ![id] = @ + 1]
        /\ calls' = [calls EXCEPT ![c] = @ + 1]
        /\ UNCHANGED <<lock, call, answered>>

\* The first read of step-session! and destroy-session!.
Begin(c, id, pc) ==
    /\ CanCall(c)
    /\ Active(id)
    /\ call' = [call EXCEPT ![c] =
                    [pc |-> pc, object |-> sessions[id].object, world |-> <<>>]]
    /\ calls' = [calls EXCEPT ![c] = @ + 1]
    /\ UNCHANGED <<sessions, created, lock, answered>>

BeginStep(c, id) == Begin(c, id, "step-waits")

BeginDestroy(c, id) == Begin(c, id, "destroy-waits")

AcquireIgnoringHolder(c, from, to) ==      \* mutant: the lock is not waited for
    /\ call[c].pc = from
    /\ lock' = [lock EXCEPT ![call[c].object] = c]
    /\ Move(c, to)
    /\ UNCHANGED <<sessions, created, calls, answered>>

Acquire(c, from, to) ==
    /\ call[c].pc = from
    /\ lock[call[c].object] = Free
    /\ lock' = [lock EXCEPT ![call[c].object] = c]
    /\ Move(c, to)
    /\ UNCHANGED <<sessions, created, calls, answered>>

AcquireForStep(c) == Acquire(c, "step-waits", "step-locked")

AcquireForDestroy(c) == Acquire(c, "destroy-waits", "destroy-locked")

\* The id the call is about.
IdOf(c) == call[c].object[1]

\* The second read, under the lock: a session no longer there ends the call.
Reread(c) ==
    /\ call[c].pc = "step-locked"
    /\ IF Active(IdOf(c))
       THEN /\ call' = [call EXCEPT ![c].pc = "step-read",
                                    ![c].world = sessions[IdOf(c)].world]
            /\ UNCHANGED lock
       ELSE Unlock(c)
    /\ UNCHANGED <<sessions, created, calls, answered>>

\* process-step runs on the world just read and the context of the session first
\* seen; swap! publishes its world if the id is still there.
Publish(c) ==
    LET id   == IdOf(c)
        step == [event |-> Event(c), context |-> call[c].object]
    IN  /\ call[c].pc = "step-read"
        /\ sessions' = IF Active(id)
                       THEN [sessions EXCEPT ![id] =
                                [ object    |-> @.object,
                                  world     |-> Append(call[c].world, step),
                                  stepCount |-> @.stepCount + 1 ]]
                       ELSE sessions
        /\ answered' = answered \cup {step}
        /\ Move(c, "publish-done")
        /\ UNCHANGED <<created, lock, calls>>

\* process-step throws: nothing is published and no answer given.
StepThrows(c) ==
    /\ call[c].pc = "step-read"
    /\ Unlock(c)
    /\ UNCHANGED <<sessions, created, calls, answered>>

\* destroy-session! checks under the lock that the session is there, then removes it.
CheckExists(c) ==
    /\ call[c].pc = "destroy-locked"
    /\ IF Active(IdOf(c))
       THEN Move(c, "destroy-checked") /\ UNCHANGED lock
       ELSE Unlock(c)
    /\ UNCHANGED <<sessions, created, calls, answered>>

RemoveSession(c) ==
    /\ call[c].pc = "destroy-checked"
    /\ sessions' = [sessions EXCEPT ![IdOf(c)] = Gone]
    /\ Move(c, "remove-done")
    /\ UNCHANGED <<created, lock, calls, answered>>

FinishKeepingLock(c) ==                    \* mutant: the lock is kept after a destroy
    /\ call[c].pc \in {"publish-done", "remove-done"}
    /\ call' = [call EXCEPT ![c] = Idle]
    /\ lock' = IF call[c].pc = "publish-done"
               THEN [lock EXCEPT ![call[c].object] = Free]
               ELSE lock
    /\ UNCHANGED <<sessions, created, calls, answered>>

Finish(c) ==
    /\ call[c].pc \in {"publish-done", "remove-done"}
    /\ Unlock(c)
    /\ UNCHANGED <<sessions, created, calls, answered>>

\* What a call in progress does next.
Proceed(c) ==
    \/ AcquireForStep(c)
    \/ AcquireForDestroy(c)
    \/ Reread(c)
    \/ Publish(c)
    \/ StepThrows(c)
    \/ CheckExists(c)
    \/ RemoveSession(c)
    \/ Finish(c)

SessionNext ==
    \E c \in Clients :
        \/ \E id \in Ids : CreateSession(c, id) \/ BeginStep(c, id) \/ BeginDestroy(c, id)
        \/ Proceed(c)

SessionSpec == SessionInit /\ [][SessionNext]_sessionVars

\* Threads are scheduled.  The lock is not a fair one: a waiting thread is sure to
\* get it only because the calls that compete with it are finitely many.
FairSessionSpec == SessionSpec /\ \A c \in Clients : WF_sessionVars(Proceed(c))

-----------------------------------------------------------------------------
\* A step answered with {:ok true} is part of its session's world for as long as
\* the session lives: no concurrent call overwrites it.
AnsweredStepsKept ==
    \A s \in answered :
        LET current == sessions[s.context[1]]
        IN  current.object = s.context => s \in ToSet(current.world)

\* The steps of one session never overlap: of the calls between reading a world
\* and publishing its successor, no two are about the same id.
StepsSerialised ==
    \A c, d \in Clients :
        c # d /\ call[c].pc = "step-read" /\ call[d].pc = "step-read"
            => IdOf(c) # IdOf(d)

\* The concurrent store implements the atomic one; the session objects are the
\* contexts.
Atomic == INSTANCE SessionStore WITH
    Contexts <- Objects, NoContext <- NoObject,
    live <- {id \in Ids : Active(id)},
    context <- [id \in Ids |-> sessions[id].object],
    history <- [id \in Ids |-> sessions[id].world],
    steps <- [id \in Ids |-> sessions[id].stepCount]

AtomicSessions == Atomic!StoreSpec

\* Every call returns: the lock a call waits for is always let go of.
CallsReturn == \A c \in Clients : (call[c] # Idle) ~> (call[c] = Idle)

=============================================================================

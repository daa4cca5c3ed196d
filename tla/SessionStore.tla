----------------------------- MODULE SessionStore -----------------------------
(***************************************************************************)
(* What the session store of the simulation server promises its clients     *)
(* (the docstrings of server/session.clj): every call takes effect at one   *)
(* instant, and a session's world is the result of its accepted steps, one  *)
(* after another, each run with the context the session was created with.   *)
(***************************************************************************)
EXTENDS Sequences, Naturals

CONSTANTS
    Ids,         \* session ids
    Events,      \* the events clients submit
    Contexts,    \* execution contexts
    NoContext    \* the context of an id without a session

VARIABLES
    live,        \* the ids of active sessions
    context,     \* the context of each active session
    history,     \* the steps its world is made of, each with its context
    steps        \* its step counter

storeVars == <<live, context, history, steps>>

StoreInit ==
    /\ live = {}
    /\ context = [id \in Ids |-> NoContext]
    /\ history = [id \in Ids |-> <<>>]
    /\ steps = [id \in Ids |-> 0]

CreateSession(id, c) ==
    /\ id \notin live
    /\ live' = live \cup {id}
    /\ context' = [context EXCEPT ![id] = c]
    /\ history' = [history EXCEPT ![id] = <<>>]
    /\ steps' = [steps EXCEPT ![id] = 0]

StepSession(id, e) ==
    /\ id \in live
    /\ history' = [history EXCEPT ![id] = Append(@, [event |-> e, context |-> context[id]])]
    /\ steps' = [steps EXCEPT ![id] = @ + 1]
    /\ UNCHANGED <<live, context>>

\* A session that is gone leaves nothing behind.
DestroySession(id) ==
    /\ id \in live
    /\ live' = live \ {id}
    /\ context' = [context EXCEPT ![id] = NoContext]
    /\ history' = [history EXCEPT ![id] = <<>>]
    /\ steps' = [steps EXCEPT ![id] = 0]

StoreNext ==
    \E id \in Ids :
        \/ \E c \in Contexts : CreateSession(id, c)
        \/ \E e \in Events : StepSession(id, e)
        \/ DestroySession(id)

StoreSpec == StoreInit /\ [][StoreNext]_storeVars

=============================================================================

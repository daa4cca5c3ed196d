------------------------------- MODULE LiveSew -------------------------------
(***************************************************************************)
(* The live runner against the simulation server: its events are executed   *)
(* by the kernel on the contract's world, and answered with the snapshot of *)
(* the world they leave.  The server may restart, forgetting its sessions,  *)
(* and a call may fail before or after the server has carried it out.       *)
(***************************************************************************)
EXTENDS SewDispatch, LiveProperties

CONSTANTS
    Faults(_)        \* bound: the kinds of fault explored in a plan's runs, at most
                     \* one per run

ASSUME FaultsAssumption ==
    \A p \in Plans : Faults(p) \subseteq {"start", "step", "close", "restart"}

VARIABLES
    hosted,          \* the server holds the run's session
    fault            \* the fault that has happened, or none

liveVars == <<vars, runVars, hosted, fault>>

\* world-snapshot, the part of it the agents read.
Snapshot ==
    [ known |-> TRUE,
      live |-> [w \in Workflows |-> transfers[w].state],
      pendingCount |-> Cardinality({w \in Workflows : pendingSettlements[w].exists}),
      amounts |-> [w \in Workflows |-> transfers[w].afa] ]

Caller == plan.agents[turn].addr

\* dispatch-action on the event in flight.
PerformCall == Perform(Caller, call, NoAddr)

-----------------------------------------------------------------------------
LiveInit ==
    /\ RunInit
    /\ WorldInit
    /\ ctx = plan.params
    /\ time = StartTime
    /\ hosted = FALSE
    /\ fault = "none"

World == UNCHANGED vars

Quietly == World /\ UNCHANGED <<hosted, fault>>

Open == Started /\ World /\ hosted' = TRUE /\ UNCHANGED fault

\* What the client does between two events, out of the server's sight.
Local == (NextTick \/ Complete \/ Decline) /\ Quietly

\* The event reaches the server, whose clock advances to its time before the
\* action is looked at.
Deliver ==
    /\ Send
    /\ AdvanceTo(IF hosted THEN Greatest(time, blockTime) ELSE time)
    /\ UNCHANGED <<hosted, fault>>

\* The action is carried out and its world passes the checks.
Accept ==
    /\ hosted
    /\ pc = "sent"
    /\ PerformCall
    /\ Committed
    /\ Receive(Answer("ok", NextId, Snapshot'))
    /\ UNCHANGED <<hosted, fault>>

\* The contract refuses the action.
Reject ==
    /\ hosted
    /\ pc = "sent"
    /\ ~ENABLED PerformCall
    /\ Receive(Answer("rejected", NoWf, Snapshot))
    /\ Quietly

\* The contract would carry it out, but its world does not pass the checks.
Violate ==
    /\ hosted
    /\ pc = "sent"
    /\ ENABLED PerformCall
    /\ ~ENABLED (PerformCall /\ Committed)
    /\ Receive(Answer("invariant_violated", NoWf, Snapshot))
    /\ Quietly

\* The server does not know the session.
Unknown == ~hosted /\ Receive(NoAnswer) /\ Quietly

Close == Closed /\ World /\ hosted' = FALSE /\ UNCHANGED fault

\* Faults.  A call that fails may have been carried out, and the answer lost; a
\* call that fails because the server restarts finds the session gone.
Happens(kind) == kind \in Faults(plan) /\ fault = "none" /\ fault' = kind

StartLost == Happens("start") /\ StartFailed /\ World /\ hosted' \in BOOLEAN

StepLost ==
    /\ Happens("step")
    /\ StepFailed
    /\ \/ World /\ hosted' \in {hosted, FALSE}
       \/ hosted /\ PerformCall /\ Committed /\ UNCHANGED hosted

CloseLost == Happens("close") /\ CloseFailed /\ World /\ hosted' \in {hosted, FALSE}

Restart ==
    /\ Happens("restart")
    /\ hosted /\ pc = "deciding"
    /\ hosted' = FALSE
    /\ World
    /\ UNCHANGED runVars

Step == Open \/ Local \/ Deliver \/ Accept \/ Reject \/ Violate \/ Unknown \/ Close

LiveNext == Step \/ StartLost \/ StepLost \/ CloseLost \/ Restart

LiveSpec == LiveInit /\ [][LiveNext]_liveVars

\* The runner is one thread that is never blocked for ever: an event that is not
\* answered fails.
LiveFairSpec == LiveSpec /\ WF_liveVars(Step)

-----------------------------------------------------------------------------
(* The driver's picture of the server. *)

Existing == {w \in Workflows : Exists(w)}

Volumes == [w \in Workflows |-> transfers[w].afa + transfers[w].fee]

Raisings == {w \in Workflows : disputeTimestamps[w] > 0}

Decisions == {d \in Workflows \X Levels : previousDecisions[d[1]][d[2]] # NoDecision}

DecisionsOf(a) == {d \in Decisions : previousDecisions[d[1]][d[2]].resolver = a}

\* What the world shows of the calls carried out so far.
Shown ==
    [ escrows |-> NextId, volume |-> SumFunctionOnSet(Volumes, Existing),
      disputes |-> Cardinality(Raisings), resolutions |-> Cardinality(Decisions) ]

Counted == [ escrows |-> metrics.escrows, volume |-> metrics.volume,
             disputes |-> metrics.disputes, resolutions |-> metrics.resolutions ]

\* The runner's counters, which it keeps from the answers alone, are what the
\* server's world shows: the escrows created and their volume, the disputes
\* raised, the decisions made in any round.  Only a call whose answer is lost can
\* part them, and then by that one call.
CountersMatchWorld ==
    IF fault = "step"
    THEN \/ Counted = Shown
         \/ Cardinality({f \in DOMAIN Counted \ {"volume"} : Shown[f] = Counted[f] + 1}) = 1
    ELSE Counted = Shown

\* Nobody decides on a stale view: between two events of a session that still
\* exists the view is that of the server's world.
ViewCurrent ==
    pc = "deciding" /\ hosted /\ view.known => view = Snapshot

\* The kinds that count the decisions they have made, and the plans in which none of
\* them shares its address with another agent, as in all the scenarios.
DecisionCounters == {"ColludingResolver", "CapacityLimited"}

DecidesAlone(p) ==
    \A i, j \in 1 .. Len(p.agents) :
        /\ p.agents[i].kind \in DecisionCounters
        /\ p.agents[j].addr = p.agents[i].addr
        => i = j

\* What an agent knows only from the answers to its own events is true of the
\* world: the escrow it takes for its own it created, however creations interleave,
\* and a resolver that counts its resolutions counts exactly the decisions recorded
\* as made from its address, within its capacity if it has one; and none exceeds the
\* tries it gives itself.
AgentsInformed ==
    /\ \A i \in DOMAIN memory :
        LET ag == plan.agents[i]
        IN  /\ \A w \in Workflows :
                   w = memory[i].own \/ w \in memory[i].slots => transfers[w].from = ag.addr
            /\ ag.kind \in DecisionCounters /\ fault # "step" =>
                   /\ memory[i].count = Cardinality(DecisionsOf(ag.addr))
                   /\ ag.kind = "CapacityLimited" => memory[i].count <= ag.bound
    /\ BudgetsKept

\* Nothing the agents do breaks the contract: the checks halt a session only over
\* a deferred decision or an escrow that fell due and that nobody settled in time.
HaltedOverDueEscrow ==
    outcome = "halted" =>
        \E w \in Workflows : PendingExecutable(w) \/ AutoReleaseDue(w) \/ AutoCancelDue(w)

\* No run leaves its session behind, whatever ended it, unless the very call
\* that opens or destroys the session failed.
SessionsReturned == pc = "done" /\ hosted => fault \in {"start", "close"}

\* Every run comes to an end and stays there, with its session returned and a result
\* that tells the truth.
RunsEnd == <>[](pc = "done" /\ SessionsReturned /\ ResultHonest)

=============================================================================

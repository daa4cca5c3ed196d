---------------------------- MODULE PlannerReplay ----------------------------
(***************************************************************************)
(* A generated scenario replayed by the kernel (contract_model/replay.clj,   *)
(* replay-with-protocol): the events are executed one after the other, a     *)
(* rejected event is passed over, a violated check halts the replay, and a   *)
(* replay that leaves a dispute open fails.                                  *)
(***************************************************************************)
EXTENDS SewDispatch, Planner

VARIABLES
    results,         \* the result of every event replayed so far
    taken,           \* the clock stands at the next event, which is not answered yet
    verdict          \* none while replaying, then pass or fail

replayVars == <<vars, planVars, results, taken, verdict>>

Position == Len(results) + 1

Current == events[Position]

Sender(e) == IF e.agent = ResolverProcess THEN cast.resolver
             ELSE cast.agents[e.agent].addr

PerformCurrent == Perform(Sender(Current), Current.call, cast.resolver)

ReplayInit ==
    /\ PlannerInit
    /\ WorldInit
    /\ ctx = cast.params
    /\ time = BlockTime
    /\ results = <<>>
    /\ taken = FALSE
    /\ verdict = "none"

Planning == PlannerNext /\ UNCHANGED <<vars, results, taken, verdict>>

Replaying == events # <<>> /\ verdict = "none"

Take ==
    /\ Replaying
    /\ ~taken
    /\ Position <= Len(events)
    /\ AdvanceTo(Current.at)
    /\ taken' = TRUE
    /\ UNCHANGED <<planVars, results, verdict>>

Answered(result) ==
    /\ results' = Append(results, result)
    /\ taken' = FALSE
    /\ UNCHANGED planVars

Accepted ==
    /\ Replaying /\ taken
    /\ PerformCurrent
    /\ Committed
    /\ Answered("ok")
    /\ UNCHANGED verdict

Refused ==
    /\ Replaying /\ taken
    /\ ~ENABLED PerformCurrent
    /\ Answered("rejected")
    /\ UNCHANGED <<vars, verdict>>

\* The check that fails halts the replay.
Halted ==
    /\ Replaying /\ taken
    /\ ENABLED PerformCurrent
    /\ ~ENABLED (PerformCurrent /\ Committed)
    /\ Answered("invariant_violated")
    /\ verdict' = "fail"
    /\ UNCHANGED vars

OpenDisputes == {w \in Workflows : transfers[w].state = "disputed"}

Finish ==
    /\ Replaying
    /\ ~taken
    /\ Position > Len(events)
    /\ verdict' = IF OpenDisputes = {} THEN "pass" ELSE "fail"
    /\ UNCHANGED <<vars, planVars, results, taken>>

ReplayNext == Planning \/ Take \/ Accepted \/ Refused \/ Halted \/ Finish

ReplaySpec == ReplayInit /\ [][ReplayNext]_replayVars

-----------------------------------------------------------------------------
Strategy(e) == IF e.agent = ResolverProcess THEN "HonestResolver"
               ELSE cast.agents[e.agent].strategy

\* The counter predicts the id every escrow is given when the scenario is replayed:
\* what a buyer does later names the escrow that buyer created.
IdsAsPredicted ==
    \A w \in Workflows : \A n \in DOMAIN events :
        LET e == events[n]
        IN  Exists(w) /\ Sender(e) = transfers[w].from => e.call.wf \in {w, NoWf}

\* The senders tell the escrows of a simulation apart: no buyer shares its address
\* with the resolver or with another agent.
SendersApart(c) ==
    \A i \in DOMAIN c.agents : Creates(c.agents[i]) =>
        /\ c.agents[i].addr # c.resolver
        /\ \A j \in DOMAIN c.agents : c.agents[j].addr = c.agents[i].addr => j = i

\* Every dispute that can be answered before the end is answered once, its delay
\* later and at the latest at the resolver's next look, however many disputes
\* wait before it.
DisputesAnswered ==
    events # <<>> /\ cast.resolving /\ cast.until <= SafetyExit =>
        \A n \in DOMAIN raw :
            LET d    == raw[n]
                late == d.at + Max({cast.resolutionDelay, 1})
            IN  d.call.action = "raise_dispute" /\ late < cast.until =>
                    \E k \in DOMAIN raw :
                        /\ k > n
                        /\ raw[k].agent = ResolverProcess /\ raw[k].call.wf = d.call.wf
                        /\ raw[k].at \in d.at + cast.resolutionDelay .. late
                        /\ \A j \in DOMAIN raw \ {k} : raw[j].agent = ResolverProcess
                                                         => raw[j].call.wf # d.call.wf

NoTimers == cast.params.autoReleaseDelay + cast.params.autoCancelDelay = 0

\* Without automatic times, a scenario's legitimate events are all accepted on
\* replay, except that a griefer's cancellation of its dispute finds an answered
\* dispute settled.  In particular no escrow's check stops another's plan.  A
\* resolver that was not asked is never let in, whatever it guesses and whenever it
\* comes.
PlansCarriedOut ==
    \A n \in DOMAIN events :
        LET e == events[n]
        IN  IF Strategy(e) = "AttackingResolver"
            THEN n \in DOMAIN results => results[n] # "ok"
            ELSE \/ verdict = "none" \/ ~NoTimers
                 \/ n \in DOMAIN results /\ results[n] = "ok"
                 \/ e.call.action = "auto_cancel_disputed" /\ cast.resolving

=============================================================================

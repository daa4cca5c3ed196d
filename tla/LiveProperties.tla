---------------------------- MODULE LiveProperties ----------------------------
(***************************************************************************)
(* What the live runner keeps to against any server.                        *)
(***************************************************************************)
EXTENDS LiveRunner, FiniteSets

RunTypeOK ==
    /\ plan \in Plans
    /\ pc \in {"starting", "deciding", "sent", "closing", "done"}
    /\ tick \in 0 .. plan.maxTicks
    /\ turn \in 1 .. Len(plan.agents) + 1
    /\ seq \in 0 .. plan.maxSteps
    /\ view \in View
    /\ memory \in [1 .. Len(plan.agents) -> Memory]
    /\ outcome \in {"running", "pass", "halted", "raised"}

\* The answered events of an agent.
Calls(i, action) ==
    {n \in DOMAIN trace : trace[n].agent = i /\ trace[n].action = action
                          /\ trace[n].result # "none"}

\* An agent that gives itself a number of tries does not exceed it, although it
\* learns of its tries only from the answers, refusals among them.
BudgetsKept ==
    \A i \in DOMAIN memory :
        LET ag == plan.agents[i]
        IN  /\ ag.kind = "EscalatingBuyer" =>
                   Cardinality(Calls(i, "escalate_dispute")) <= ag.bound
            /\ ag.kind = "AttackingBuyer" => Cardinality(Calls(i, "release")) <= 3

\* The result tells the truth about the run: pass means that no answer reported a
\* violation, halted that exactly one did, the last; every event sent is in the
\* trace, and is counted as a revert or was accepted.
ResultHonest ==
    /\ outcome = "pass" => metrics.violations = 0
    /\ outcome = "halted" => /\ metrics.violations = 1
                             /\ trace[Len(trace)].result = "invariant_violated"
    /\ Len(trace) = seq
    /\ metrics.reverts = Cardinality({n \in DOMAIN trace : trace[n].result # "ok"})

=============================================================================

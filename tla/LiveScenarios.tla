---------------------------- MODULE LiveScenarios ----------------------------
(***************************************************************************)
(* The scenarios of the live driver (python/eth_failure_modes.py and        *)
(* eth_failure_modes_2.py), each as the plan of a run; what they assert of    *)
(* its result; and what docstrings and assertions say of runs that the runs  *)
(* do not show.  A tick is the runner's 60 seconds and the unit of time here. *)
(***************************************************************************)
EXTENDS LiveSew

\* 2592000 seconds.
Month == 43200

NoLevels == [l \in Levels |-> NoAddr]

DefaultParams ==
    [ feeBps |-> 50, resolver |-> NoAddr, module |-> NoAddr,
      appealWindow |-> 0, challengeWindow |-> 0, maxDispute |-> Month,
      autoReleaseDelay |-> 0, autoCancelDelay |-> 0,
      resolverBondBps |-> 1000, reversalSlashBps |-> 0,
      appealBondBps |-> 0, appealBondAmount |-> 0, appealBondFeeBps |-> 0,
      challengeBondBps |-> 0, bountyBps |-> 0,
      kleros |-> FALSE, levels |-> NoLevels, fotBps |-> [t \in Tokens |-> 0] ]

\* Parameter sets with an escalation map; the appeal window is one tick.
Ladder(proxy, l0, l1, l2) ==
    [DefaultParams EXCEPT !.feeBps = 150, !.module = proxy, !.appealWindow = 1,
                          !.kleros = TRUE,
                          !.levels = [l \in Levels |-> <<l0, l1, l2>>[l + 1]]]

FloodParams == [DefaultParams EXCEPT !.feeBps = 150, !.maxDispute = 5]

KlerosParams == Ladder("0xkleros-proxy", "0xl0", "0xl1", "0xl2")

AmplificationParams == Ladder("0xkleros-proxy", "0xl0", "0xl1", NoAddr)

CartelParams == Ladder("0xmulti", "0xcl0", "0xcl1", NoAddr)

MisresolutionParams == CartelParams

StrikeParams == [DefaultParams EXCEPT !.feeBps = 100, !.resolver = "0xresolver"]

DrainParams == [DefaultParams EXCEPT !.feeBps = 100, !.resolver = "0xcaplimited"]

-----------------------------------------------------------------------------
(* Agents, with the arguments the scenarios give them. *)

Plain(kind, addr) ==
    [ kind |-> kind, addr |-> addr, to |-> "0xseller", amount |-> 0, bound |-> 0,
      favour |-> TRUE, feeBps |-> 0, next |-> NoAddr ]

Buyer(kind, addr, amount) == [Plain(kind, addr) EXCEPT !.amount = amount]

Bounded(kind, addr, n) == [Plain(kind, addr) EXCEPT !.bound = n]

Flood(n) == [Buyer("DisputeFlood", "0xattacker", 100) EXCEPT !.bound = n]

Escalating(n) == [Buyer("EscalatingBuyer", "0xbuyer", 5000) EXCEPT !.bound = n]

Colluding(addr, favour) == [Plain("ColludingResolver", addr) EXCEPT !.favour = favour]

Keeper == Plain("AutomateTimedActions", "0xkeeper")

\* run_scenario: one run with the default clock.
RunScenario(name, agents, params, steps, ticks) ==
    [ name |-> name, agents |-> agents, params |-> params, maxSteps |-> steps,
      maxTicks |-> ticks, timeStep |-> 1 ]

S24 == RunScenario("S24", <<Flood(6), Bounded("ThrottledResolver", "0xresolver", 2)>>,
                   FloodParams, 60, 20)

S25 == RunScenario("S25",
           << Buyer("GriefingBuyer", "0xbuyer", 500), Plain("HonestResolver", "0xl0"),
              Plain("AppealWindowRacer", "0xracer") >>,
           KlerosParams, 40, 15)

S27 == RunScenario("S27",
           << Buyer("GriefingBuyer", "0xbuyer", 500), Plain("HonestResolver", "0xl0"),
              Plain("HonestResolver", "0xl1"), Plain("HonestResolver", "0xl2"),
              Plain("EscalationLoop", "0xloopattacker") >>,
           KlerosParams, 60, 20)

S28a == RunScenario("S28a", <<Buyer("CancelThenDispute", "0xbuyer", 200)>>,
                    DefaultParams, 20, 10)

S28b == RunScenario("S28b", <<Buyer("DisputeThenCancel", "0xbuyer", 200)>>,
                    DefaultParams, 20, 10)

S29 == RunScenario("S29",
           << Escalating(1), Colluding("0xcl0", TRUE), Colluding("0xcl1", TRUE), Keeper >>,
           CartelParams, 80, 40)

S30 == RunScenario("S30",
           << Buyer("GriefingBuyer", "0xbuyer", 100),
              [Bounded("ProfitThreshold", "0xresolver", 5) EXCEPT !.feeBps = 100] >>,
           StrikeParams, 20, 10)

S31 == RunScenario("S31",
           << Escalating(1), Plain("HonestResolver", "0xl0"),
              Plain("HonestResolver", "0xl1"), Keeper >>,
           AmplificationParams, 80, 40)

S32 == RunScenario("S32",
           << Escalating(1), Colluding("0xcl0", TRUE), Colluding("0xcl1", FALSE), Keeper >>,
           MisresolutionParams, 80, 40)

S33 == RunScenario("S33",
           [i \in 1 .. 5 |->
               IF i = 5 THEN Bounded("CapacityLimited", "0xcaplimited", 2)
               ELSE Buyer("GriefingBuyer",
                          <<"0xbuyer1", "0xbuyer2", "0xbuyer3", "0xbuyer4">>[i], 500)],
           DrainParams, 60, 30)

S34 == RunScenario("S34",
           << Plain("ForkingStrategist", "0xattacker"),
              [Buyer("HonestBuyer", "0xseller", 1000) EXCEPT !.to = "0xattacker"] >>,
           DefaultParams, 10, 5)

Repository == {S24, S25, S27, S28a, S28b, S29, S30, S31, S32, S33, S34}

-----------------------------------------------------------------------------
(* What the scenarios assert.  A run is judged by its result, when it has one. *)

Completed == pc = "done" /\ fault = "none"

\* assert_scenario
ScenarioOk == outcome # "halted" /\ metrics.violations = 0

\* assert_scenario_with_attack_metric
AttacksAtLeast(n) == ScenarioOk /\ metrics.attempts >= n

StillDisputed == Cardinality({w \in Workflows : view.live[w] = "disputed"})

\* What the scripts assert of the result of every scenario, but for a second round of
\* decisions (below): no invariant is violated, attacks are attempted where attacks
\* are the point, the first round of the cartels is decided, the strike resolves
\* nothing and refuses something, and the arbitrator stops at its capacity with two
\* disputes left.
ScriptAssertions ==
    Completed /\ plan \in Repository =>
        /\ ScenarioOk
        /\ plan.name \in {"S24", "S25"} => AttacksAtLeast(1)
        /\ plan.name \in {"S29", "S32"} => memory[2].count >= 1
        /\ plan.name = "S30" => metrics.resolutions = 0 /\ memory[2].count >= 1
        /\ plan.name = "S33" =>
               metrics.disputes = 4 /\ memory[5].count = 2 /\ StillDisputed >= 2

-----------------------------------------------------------------------------
(* What docstrings and assertions say and the runs do not show, each refuted on  *)
(* the plan it speaks of (README.md, section 5).                             *)

\* The other assertions of S29, S31 and S32: the buyer's appeal gets a second decision,
\* in S32 the refund (eth_failure_modes_2.py:152, 263, 323 and 324).
SecondRoundDecides ==
    Completed =>
        /\ plan.name \in {"S29", "S32"} => memory[3].count >= 1
        /\ plan.name = "S31" => metrics.resolutions >= 2
        /\ plan.name = "S32" => view.live[0] = "refunded"

\* The keeper calls for every active escrow every tick (live_agents.py:673): when its
\* turn is over no decision is left that fell due.
KeeperTendsAll ==
    trace # <<>> /\ plan.agents[trace[Len(trace)].agent] = Keeper /\ pc # "sent" =>
        \A w \in Workflows : ~PendingExecutable(w)

\* In scenario S24 every action is valid and nothing reverts
\* (eth_failure_modes.py:170).
FloodNeverReverts ==
    Completed /\ plan.name = "S24" => metrics.reverts = 0

\* The flood raises a dispute on each of its escrows (live_agents.py:318).
FloodDisputesEach ==
    Completed /\ plan.name = "S24" => metrics.disputes = metrics.escrows

\* In scenario S34 the attacker tries to cancel (eth_failure_modes_2.py:407).
ForkerTries ==
    Completed /\ plan.name = "S34" => Calls(1, "sender_cancel") # {}

\* An honest resolver resolves every disputed escrow it sees (live_agents.py:133).
ResolverSeesAll ==
    Completed /\ plan.name = "two disputes" =>
        \A w \in Workflows :
            transfers[w].state = "disputed" => previousDecisions[w][0] # NoDecision

\* A run whose session is lost does not pass (live_runner.py:49).
PassMeansServed == outcome = "pass" => fault # "restart"

=============================================================================

--------------------------- MODULE PlannerScenarios ---------------------------
(***************************************************************************)
(* The simulations the generator's factories build (build_honest_trade,      *)
(* build_dispute_scenario and build_griefing_scenario of simulation.py).     *)
(***************************************************************************)
EXTENDS PlannerReplay

\* The protocol parameters of a scenario, with the dispute limit given.
RunParams(maxDispute) ==
    [ feeBps |-> 50, resolver |-> NoAddr, module |-> NoAddr,
      appealWindow |-> 0, challengeWindow |-> 0, maxDispute |-> maxDispute,
      autoReleaseDelay |-> 0, autoCancelDelay |-> 0,
      resolverBondBps |-> 1000, reversalSlashBps |-> 0,
      appealBondBps |-> 0, appealBondAmount |-> 0, appealBondFeeBps |-> 0,
      challengeBondBps |-> 0, bountyBps |-> 0, kleros |-> FALSE,
      levels |-> [l \in Levels |-> NoAddr], fotBps |-> [t \in Tokens |-> 0] ]

\* An entry of agent_defs; delay is the strategy's own.
Acting(strategy, addr, delay) ==
    [strategy |-> strategy, addr |-> addr, to |-> "0xseller", amount |-> 1000, delay |-> delay]

Simulation(agents, resolving, resolutionDelay, until, params) ==
    [ agents |-> agents, resolver |-> "0xresolver", resolving |-> resolving,
      resolutionDelay |-> resolutionDelay, until |-> until, params |-> params,
      maxDispute |-> params.maxDispute ]

HonestTrade(delay) ==
    Simulation(<<Acting("HonestBuyer", "0xa", delay)>>, TRUE, 10, delay + 100, RunParams(500))

DisputeScenario ==
    Simulation(<<Acting("AttackingBuyer", "0xa", 1), Acting("HonestBuyer", "0xb", 50)>>,
               TRUE, 10, 200, RunParams(500))

GriefingScenario(maxDispute) ==
    Simulation(<<Acting("GriefingBuyer", "0xa", 0)>>, FALSE, 10, maxDispute + 100,
               RunParams(maxDispute))

Built == {HonestTrade(50), DisputeScenario, GriefingScenario(500)}

=============================================================================

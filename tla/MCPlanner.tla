------------------------------ MODULE MCPlanner ------------------------------
(***************************************************************************)
(* The three scenarios simulation.py builds, and every cast of three of the  *)
(* strategies with small delays, with and without a resolver.                *)
(***************************************************************************)
EXTENDS PlannerScenarios

MCAddr == {"0xa", "0xb", "0xc", "0xseller", "0xresolver"}

Short == RunParams(4)

Timed == [Short EXCEPT !.autoReleaseDelay = 2]

MCContexts == {RunParams(500), Short, Timed}

Strategies(addr) ==
    {Acting("HonestBuyer", addr, 2), Acting("AttackingBuyer", addr, 1),
     Acting("AttackingBuyer", addr, 2), Acting("AttackingResolver", addr, 0),
     Acting("GriefingBuyer", addr, 0), Acting("OpportunisticBuyer", addr, 3)}

Mixed ==
    {Simulation(<<x, y, z>>, r[1], r[2], 12, Short) :
        x \in Strategies("0xa"), y \in Strategies("0xb"), z \in Strategies("0xc"),
        r \in {<<FALSE, 3>>, <<TRUE, 0>>, <<TRUE, 3>>}}

\* The resolver's loop outlasts its safety exit.
Long == {Simulation(<<Acting("AttackingBuyer", "0xa", 1)>>, TRUE, 3, 605, Short)}

\* Two buyers whose escrows fall due by themselves before they release them.
Together ==
    {Simulation(<<Acting("HonestBuyer", "0xa", 3), Acting("HonestBuyer", "0xb", d)>>,
                TRUE, 3, 12, Timed) : d \in 1 .. 3}

MCCasts == Built \cup Mixed \cup Long \cup Together

\* In all of them the senders are apart.
ASSUME MCCastsAssumption == \A c \in MCCasts : SendersApart(c)

=============================================================================

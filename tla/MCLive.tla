-------------------------------- MODULE MCLive --------------------------------
(***************************************************************************)
(* The scenarios of the repository; mixed plans: every choice of a buyer, a  *)
(* resolver and a third agent, under four parameter sets; and short plans    *)
(* with one fault anywhere.                                                 *)
(***************************************************************************)
EXTENDS LiveScenarios

MCAddr == { "0xbuyer", "0xbuyer1", "0xbuyer2", "0xbuyer3", "0xbuyer4", "0xseller",
            "0xattacker", "0xracer", "0xloopattacker", "0xkeeper", "0xresolver",
            "0xcaplimited", "0xl0", "0xl1", "0xl2", "0xcl0", "0xcl1",
            "0xkleros-proxy", "0xmulti" }

Buyers == { Buyer("HonestBuyer", "0xbuyer", 500), Buyer("GriefingBuyer", "0xbuyer", 500),
            Buyer("AttackingBuyer", "0xattacker", 500), Escalating(2), Flood(2),
            Buyer("CancelThenDispute", "0xbuyer", 200),
            Buyer("DisputeThenCancel", "0xbuyer", 200) }

Resolvers == { Plain("HonestResolver", "0xl0"), Bounded("ThrottledResolver", "0xl0", 1),
               Plain("MaliciousResolver", "0xl1"), Colluding("0xl0", FALSE),
               Bounded("CapacityLimited", "0xl0", 1) }

Others == { Plain("TimedAutomator", "0xkeeper"), Keeper, Plain("AppealWindowRacer", "0xracer"),
            Plain("EscalationLoop", "0xbuyer"),
            [Bounded("GovernanceRotation", "0xkeeper", 2) EXCEPT !.next = "0xl1"],
            [Bounded("ProfitThreshold", "0xl2", 5) EXCEPT !.feeBps = 100],
            Buyer("GriefingBuyer", "0xbuyer1", 300) }

\* With a module and an appeal window of one and two ticks; with a resolver of
\* the escrow and a pending time; with a short limit on disputes.
MixedParams == { AmplificationParams, [AmplificationParams EXCEPT !.appealWindow = 2],
                 [StrikeParams EXCEPT !.resolver = "0xl0", !.appealWindow = 2,
                                      !.autoReleaseDelay = 4],
                 [FloodParams EXCEPT !.maxDispute = 3, !.resolver = "0xl0"] }

Mixed == {RunScenario("mixed", <<b, r, o>>, p, 12, 6) :
              b \in Buyers, r \in Resolvers, o \in Others, p \in MixedParams}

\* Plans with faults: few agents, few events, every fault anywhere.
Fragile == {RunScenario("fragile", <<b, r>>, p, 8, 5) :
                b \in Buyers, r \in Resolvers, p \in MixedParams}

MCPlans == Repository \cup Mixed \cup Fragile

MCFaults(p) == IF p.name = "fragile" THEN {"start", "step", "close", "restart"} ELSE {}

MCContexts == {p.params : p \in MCPlans}

\* In none of them does a resolver that counts its decisions share its address.
ASSUME MCPlansAssumption == \A p \in MCPlans : DecidesAlone(p)

\* The plans of single claims.
OnlyS24 == {S24}
AppealScripts == {S29, S31, S32}
OnlyS34 == {S34}
OnlyS28 == {S28a, S28b}

TwoDisputes ==
    { RunScenario("two disputes",
                  << Buyer("GriefingBuyer", "0xbuyer1", 500),
                     Buyer("GriefingBuyer", "0xbuyer2", 500),
                     Plain("HonestResolver", "0xl0") >>, KlerosParams, 20, 10) }

\* The first of two disputes is appealed to a resolver who does not act.
AppealedFirst ==
    { RunScenario("appealed first",
                  << Escalating(1), Buyer("GriefingBuyer", "0xbuyer1", 500),
                     Colluding("0xl0", FALSE), Keeper >>,
                  [AmplificationParams EXCEPT !.appealWindow = 2], 30, 12) }

=============================================================================

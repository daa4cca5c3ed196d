------------------------------- MODULE MCProber -------------------------------
(***************************************************************************)
(* Small invocations of the prober: one long session, sessions with seeds    *)
(* and every fault, and sweeps over the mutants of a trace.                  *)
(***************************************************************************)
EXTENDS ProberProperties

\* A trace as the repository's scenarios have them, with shorter times.
Base == << Event("buyer", "create_escrow", "", "wf0", 1000),
           Event("buyer", "raise_dispute", "wf0", "", 1020),
           Event("resolver", "execute_resolution", "wf0", "", 1030) >>

\* A trace that leaves a slash to appeal, execute or judge.
Slashed == << Event("buyer", "create_escrow", "", "wf0", 1000),
              Event("buyer", "raise_dispute", "wf0", "", 1000),
              Event("governance", "propose_fraud_slash", "wf0", "", 1000) >>

\* A trace in which only the second escrow has a name.
Unnamed == << Event("buyer", "create_escrow", "", "", 1000),
              Event("buyer", "create_escrow", "", "wf1", 1000),
              Event("buyer", "raise_dispute", "wf1", "", 1010) >>

Invocation(jobs, attempts, target, buildTarget, faults) ==
    [ jobs |-> jobs, maxMutants |-> 2, maxAttempts |-> attempts, target |-> target,
      weight |-> 15, buildTarget |-> buildTarget, threshold |-> 1, faults |-> faults ]

Long == { Invocation(<<Plain(<<>>, 0)>>, 4, 300, n, {}) : n \in {1, 2} }

Seeded == { Invocation(<<Plain(t, n)>>, 2, 130, 1, {"call", "restart"}) :
                t \in {<<>>, Base, Unnamed}, n \in {2, 3} }

Contested == { Invocation(<<Plain(Slashed, 3)>>, 2, 200, 1, {}) }

Fragile == { Invocation(<<Plain(Base, 3)>>, 1, 130, 1, {fault}) : fault \in {"start", "close"} }

\* One sweep asks for more than any score reaches: it is ranked by failures alone.
Sweeps == { Invocation(SweepJobs(Base, 3, "raise_dispute", 2), 1, 100, 1, {"call"}),
            [Invocation(SweepJobs(Base, 3, "execute_resolution", 2), 1, 100, 1, {"call"})
                EXCEPT !.threshold = 2] }
          \cup { Invocation(PortfolioJobs(<<Base, Unnamed>>, 1, <<"create_escrow", "release">>, 2),
                            1, 100, 1, {}) }

MCInvocations == Long \cup Seeded \cup Contested \cup Fragile \cup Sweeps

\* A loss, and a profit that is a success where the threshold is 1.
MCScores == {-1, 1}

\* A session long enough to be rejected twice in a dispute.
Hammering == { Invocation(<<Plain(<<>>, 0)>>, 5, 400, 1, {}) }

=============================================================================

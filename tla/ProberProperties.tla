--------------------------- MODULE ProberProperties ---------------------------
(***************************************************************************)
(* What the adversarial prober keeps to, whatever the server answers.       *)
(***************************************************************************)
EXTENDS Prober

Violated == tally.attempts - tally.ok - tally.rejected

\* Effective-step budgeting: every attempt is accounted for once, no run exceeds its
\* attempts, only a violated invariant or a spent budget ends one, and where failed
\* probes alone cannot reach the target a run that stops early has succeeded in
\* something (README.md:193).
BudgetKept ==
    /\ tally.attempts <= args.maxAttempts
    /\ tally.effective = 100 * tally.ok + args.weight * tally.rejected
    /\ Violated \in {0, 1}
    /\ Violated = 1 => pc \in {"closing", "done", "starting"}
    /\ pc = "closing" /\ ~raised /\ Violated = 0 /\ tally.attempts < args.maxAttempts =>
           /\ tally.effective >= args.target
           /\ args.maxAttempts * args.weight < args.target => tally.ok > 0

\* The prober's picture of its session: the escrows it aims at exist, none is there
\* twice, and without a seed they are all of them and no probe is refused for coming
\* from the past.
ActiveIdsExist ==
    server.hosted /\ pc \in {"replaying", "probing", "sent"} =>
        /\ Range(active) \subseteq Ids(server)
        /\ Cardinality(Range(active)) = Len(active)
        /\ Seed = <<>> => /\ Range(active) = Ids(server)
                          /\ pc # "replaying" => server.clock <= ProbeTime

\* What the summary of a session reports: the budget, and an attack that counts as
\* successful if and only if the best score reached the threshold, from the first
\* probe on that did.
SummaryTrue ==
    /\ BudgetKept
    /\ tally.success # NoId <=> tally.best # NoScore /\ tally.best >= args.threshold
    /\ tally.success < seq \/ pc = "closing" \/ tally.success = NoId

\* Every mutant a sweep announces is the one its session runs, and a sweep that no
\* exception ended ran them all (run_mutant_sweep).
SweepsAnnounced ==
    /\ \A k \in DOMAIN results :
           LET j == args.jobs[k]
           IN  (\E m \in Range(Catalogue(j.trace, j.mutation, args.maxMutants)) : m.id = j.mutant)
               => results[k].mutant = j.mutant
    /\ pc = "done" /\ ~raised => Len(results) = Len(args.jobs)

\* The ranking holds every session's result once, puts those that succeeded before all
\* that did not, and orders these by the best scores they had, profits or losses.
RankedBestFirst ==
    LET board == Leaderboard
    IN  /\ \A r \in Range(results) :
               Cardinality({n \in DOMAIN board : board[n] = r})
                   = Cardinality({n \in DOMAIN results : results[n] = r})
        /\ \A i, j \in DOMAIN board : i < j =>
               /\ board[j].success => board[i].success
               /\ /\ board[i].success = board[j].success
                  /\ board[i].best # NoScore /\ board[j].best # NoScore
                  => board[i].best >= board[j].best

\* What a sweep reports: the mutants it announced, ranked.
SweepsRanked == SweepsAnnounced /\ RankedBestFirst

\* No session outlives its run, but for calls that open or destroy one and fail.
ProbesReturnSessions ==
    pc = "done" /\ server.hosted => args.faults \cap {"start", "close"} # {}

\* Every invocation comes to an end, with its sessions returned.
ProbingEnds == <>[](pc = "done" /\ ProbesReturnSessions)

-----------------------------------------------------------------------------
(* What a comment says of the prober and its runs do not show. *)

\* "Short cooldown to avoid repeatedly hammering same failing tuple"
\* (adversarial_agent.py:545): the guided lane sends no tuple that is suspended.
CooldownForAll ==
    pc = "sent" /\ probe.lane = "guided" => seq >= bans.until[Tuple]

=============================================================================

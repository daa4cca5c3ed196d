------------------------------ MODULE SewClaims ------------------------------
(***************************************************************************)
(* What comments, docstrings and tests of the repository say of the program *)
(* and the code does not do.  Every property here is refuted in one of the  *)
(* contexts of MCClaims, by the calls that lead to the disagreement;         *)
(* README.md, section 5, says which and cites the line.  The claims about    *)
(* the kernel's predicates (SolvencyHolds, ConservationOfFunds,               *)
(* SlashStatusConsistent, AppealBondCustodyConsistent)                       *)
(* are the predicates themselves, in SewChecks.                             *)
(***************************************************************************)
EXTENDS SewKernel

\* withdraw-escrow: the id is turned into a string before the claim is looked up,
\* while settlements record claims under the integer id.
WithdrawEscrow(w, a) ==
    /\ Terminal(w)
    /\ claimable[StrKey(w)][a] > 0
    /\ claimable' = [claimable EXCEPT ![StrKey(w)][a] = 0]
    /\ UNCHANGED <<ctx, clockVars, escrowVars, roundVars, totalHeld, totalFees,
                   totalReleased, totalRefunded, bondVars, stakeVars, slashVars>>

WithdrawNext == Next \/ \E w \in Workflows, a \in Addr : WithdrawEscrow(w, a)

\* Everybody who has something to claim keeps calling withdraw-escrow.
WithdrawSpec ==
    /\ Init
    /\ [][WithdrawNext]_vars
    /\ \A w \in Workflows, a \in Addr : WF_vars(WithdrawEscrow(w, a))

\* Entitlements are delivered by withdraw-escrow.
ClaimsDelivered ==
    \A w \in Workflows, a \in Addr :
        (Terminal(w) /\ claimable[IntKey(w)][a] > 0) ~> (claimable[IntKey(w)][a] = 0)

\* A slash never puts more into the reserves and the bounties than was taken from
\* the resolver's stake, nor does a forfeited bond.
SlashNeverMints ==
    ReservesTotal + SumFunction(bounties) <= SumFunction(slashTotal) + forfeited

\* Nothing taken from a resolver's stake disappears.
SlashNeverVanishes ==
    ReservesTotal + SumFunction(bounties) >= SumFunction(slashTotal) + forfeited

\* The contract model has no way to withdraw fees: they never decrease.
FeesNeverDecrease == [][FeesMonotone]_vars

\* Nobody withdraws stake while being the current authority over a dispute.
AuthorityKeepsStake ==
    [][\A r \in Addr :
           stakes'[r] < stakes[r] /\ slashTotal'[r] = slashTotal[r] =>
               ~\E w \in Workflows : transfers[w].state = "disputed" /\ Authorized(w, r)]_vars

\* An escrow is released automatically or cancelled automatically, not both.
AutoTimesExclusive ==
    \A w \in Workflows : transfers[w].autoRelease = 0 \/ transfers[w].autoCancel = 0

\* A dispute is not raised and escalated in the same block.
RaiseAndEscalateApart ==
    [][\A w \in Workflows :
           disputeLevels'[w] > disputeLevels[w] => disputeTimestamps[w] < time]_vars

=============================================================================

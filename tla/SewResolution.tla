---------------------------- MODULE SewResolution ----------------------------
(***************************************************************************)
(* Dispute resolution (resolution.clj): a resolver's decision, the window   *)
(* in which it may be appealed or challenged into the next round, the       *)
(* automated slash of a resolver whose decision a later round reverses, the *)
(* deferred settlement, and governance's rotation of a resolver.            *)
(***************************************************************************)
EXTENDS SewLifecycle

CONSTANTS
    EvidenceCases,   \* bound: disputes in which new evidence may turn up
    MaxRotations     \* bound: rotations per dispute

ASSUME EvidenceAssumption == EvidenceCases \subseteq Workflows
ASSUME RotationsAssumption == MaxRotations \in Nat

\* The decision a new decision of the current round overturns: one of the round
\* below that pointed the other way.
Reverses(w, isRelease) ==
    /\ disputeLevels[w] > 0
    /\ LET below == previousDecisions[w][disputeLevels[w] - 1]
       IN  below # NoDecision /\ below.isRelease # isRelease

\* handle-reversal-slashing.  On the same evidence the reversed resolver is
\* slashed at once and the slash filed as executed; on new evidence a slash is
\* filed that the resolver may appeal.
HandleReversalSlashing(w, isRelease) ==
    LET round  == disputeLevels[w] - 1
        loser  == previousDecisions[w][round].resolver
        amount == ComputeFee(transfers[w].afa, ctx.reversalSlashBps)
        slash  == [ resolver |-> loser, amount |-> amount, reason |-> "reversal",
                    status |-> "executed", proposedAt |-> time, deadline |-> 0,
                    bondHeld |-> 0 ]
        id     == <<"reversal", w>>
    IN  CASE Reverses(w, isRelease) /\ evidenceUpdated[w] ->
                 /\ fraudSlashes' = [fraudSlashes EXCEPT ![id] =
                        [slash EXCEPT !.status = "pending",
                                      !.deadline = time + ctx.appealWindow]]
                 /\ UNCHANGED stakeVars
          [] Reverses(w, isRelease) /\ ~evidenceUpdated[w] /\ amount > 0 ->
                 /\ fraudSlashes' = [fraudSlashes EXCEPT ![id] = slash]
                 /\ SlashStake(loser, amount, challengers[w][round], ctx.bountyBps)
          [] OTHER -> UNCHANGED <<fraudSlashes, stakeVars>>

Decidable(w, caller) ==
    /\ Authorized(w, caller)
    /\ transfers[w].state = "disputed"
    /\ ~pendingSettlements[w].exists

\* execute-resolution: the decision is recorded for its round and, in the final
\* round or without a window, settled at once; otherwise settlement is deferred.
ExecuteResolution(w, caller, isRelease) ==
    /\ ~paused
    /\ Decidable(w, caller)
    /\ HandleReversalSlashing(w, isRelease)
    /\ previousDecisions' = [previousDecisions EXCEPT ![w][disputeLevels[w]] =
                                 [resolver |-> caller, isRelease |-> isRelease]]
    /\ IF FinalRound(w) \/ DecisionWindow(ctx) = 0
       THEN Finalize(w, transfers[w], OutcomeOf(isRelease))
       ELSE /\ pendingSettlements' = [pendingSettlements EXCEPT ![w] =
                   [ exists |-> TRUE, isRelease |-> isRelease,
                     deadline |-> time + DecisionWindow(ctx) ]]
            /\ UNCHANGED <<transfers, ledgerVars>>
    /\ UNCHANGED <<ctx, clockVars, customResolver, rotations, disputeTimestamps,
                   disputeLevels, challengers, lastEscalation, bondVars, custody,
                   forfeited, frozenUntil, unavailable, evidenceUpdated>>

\* The deferred decision is carried out.
SettlePending(w) ==
    /\ PendingExecutable(w)
    /\ Finalize(w, transfers[w], OutcomeOf(pendingSettlements[w].isRelease))
    /\ SettledFromPending

ExecutePendingSettlement(w) == ~paused /\ SettlePending(w)

\* automate-timed-actions: the keeper's one call, in order of priority.  It is
\* not stopped by a pause.
AutomateTimedActions(w) ==
    \/ SettlePending(w)
    \/ /\ ~PendingExecutable(w)
       /\ AutoReleaseDue(w)
       /\ Finalize(w, transfers[w], "released")
       /\ SettledFromPending
    \/ /\ ~PendingExecutable(w)
       /\ ~AutoReleaseDue(w)
       /\ AutoCancelDue(w)
       /\ Finalize(w, transfers[w], "refunded")
       /\ SettledFromPending

AppealableUndecided(w) ==                  \* mutant: a round may be skipped
    /\ transfers[w].state = "disputed"
    /\ ~FinalRound(w)
    /\ ctx.kleros
    /\ ctx.levels[disputeLevels[w] + 1] # NoAddr

\* A decision open to appeal: deferred, its window still open, a round left
\* above it and a resolver configured there.
Appealable(w) ==
    /\ transfers[w].state = "disputed"
    /\ ~FinalRound(w)
    /\ pendingSettlements[w].exists
    /\ time < pendingSettlements[w].deadline
    /\ ctx.kleros
    /\ ctx.levels[disputeLevels[w] + 1] # NoAddr

CancelPendingForgotten(w) == UNCHANGED pendingSettlements     \* mutant

\* cancel-pending-on-escalation
CancelPending(w) ==
    pendingSettlements' = [pendingSettlements EXCEPT ![w] = NoSettlement]

\* What an appeal and a challenge have in common: the bond is taken, the
\* deferred decision cancelled and the dispute moved up one round.
MoveUp(w, caller, bond) ==
    LET next == disputeLevels[w] + 1
    IN  /\ PostBond(w, caller, bond)
        /\ CancelPending(w)
        /\ disputeLevels' = [disputeLevels EXCEPT ![w] = next]
        /\ transfers' = [transfers EXCEPT ![w].resolver = ctx.levels[next]]
        /\ lastEscalation' = [lastEscalation EXCEPT ![w] = time]
        /\ UNCHANGED <<ctx, clockVars, customResolver, rotations,
                       disputeTimestamps, previousDecisions, stakeVars, slashVars>>

\* escalate-dispute: an appeal by a party of the escrow.
EscalateDispute(w, caller) ==
    /\ ~paused
    /\ Appealable(w)
    /\ IsParty(w, caller)
    /\ MoveUp(w, caller, AppealBond(transfers[w].afa, ctx))
    /\ UNCHANGED challengers

\* challenge-resolution: the same move by anybody, who is remembered as the
\* challenger of the round left behind.  It is not stopped by a pause.
ChallengeResolution(w, caller) ==
    /\ Appealable(w)
    /\ MoveUp(w, caller, ChallengeBond(transfers[w].afa, ctx))
    /\ challengers' = [challengers EXCEPT ![w][disputeLevels[w]] = caller]

\* rotate-dispute-resolver, refused while a decision is pending.
RotateDisputeResolver(w, r) ==
    /\ transfers[w].state = "disputed"
    /\ ~pendingSettlements[w].exists
    /\ rotations[w] < MaxRotations
    /\ transfers' = [transfers EXCEPT ![w].resolver = r]
    /\ rotations' = [rotations EXCEPT ![w] = @ + 1]
    /\ UNCHANGED <<ctx, clockVars, customResolver, roundVars, ledgerVars, bondVars,
                   stakeVars, slashVars>>

\* New evidence is noted on a dispute.  No dispatched action does this: the code
\* reads the flag and leaves setting it to its environment.
UpdateEvidence(w) ==
    /\ w \in EvidenceCases
    /\ transfers[w].state = "disputed"
    /\ ~evidenceUpdated[w]
    /\ evidenceUpdated' = [evidenceUpdated EXCEPT ![w] = TRUE]
    /\ UNCHANGED <<ctx, clockVars, escrowVars, roundVars, ledgerVars, bondVars,
                   stakeVars, fraudSlashes, custody, forfeited, frozenUntil,
                   unavailable>>

=============================================================================

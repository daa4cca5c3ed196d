----------------------------- MODULE SewProtocol -----------------------------
(***************************************************************************)
(* The contract model as a whole: every action of the dispatcher (sew.clj)  *)
(* over one world, and the passage of time.  An event carries its own time; *)
(* advancing the clock is a step of its own here, so an event later than    *)
(* the clock is the clock's step followed by the action's.                  *)
(***************************************************************************)
EXTENDS SewResolution, SewSlashing

CONSTANTS
    Horizon,         \* bound: the last time at which users act; keepers go on
    PauseValues,     \* bound: the set_paused calls explored
    FeeTokens,       \* bound: the tokens whose fees are withdrawn
    Replacements     \* bound: the resolvers governance rotates in

ASSUME ProtocolAssumption ==
    /\ Horizon \in Nat
    /\ PauseValues \subseteq BOOLEAN
    /\ FeeTokens \subseteq Tokens
    /\ Replacements \subseteq Addr

\* Time passes only forward (process-step refuses an earlier event).
Tick ==
    /\ time < MaxTime
    /\ time' = time + 1
    /\ UNCHANGED <<ctx, paused, escrowVars, roundVars, ledgerVars, bondVars,
                   stakeVars, slashVars>>

SetPaused(p) ==
    /\ paused # p
    /\ paused' = p
    /\ UNCHANGED <<ctx, time, escrowVars, roundVars, ledgerVars, bondVars, stakeVars,
                   slashVars>>

\* withdraw-fees: the whole balance of a token's fees, if there is any.
WithdrawFees(t) ==
    /\ totalFees[t] # 0
    /\ totalFees' = [totalFees EXCEPT ![t] = 0]
    /\ UNCHANGED <<ctx, clockVars, escrowVars, roundVars, totalHeld, totalReleased,
                   totalRefunded, claimable, bondVars, stakeVars, slashVars>>

PartyAction(w, a) ==
    \/ RaiseDispute(w, a)
    \/ Release(w, a)
    \/ SenderCancel(w, a)
    \/ RecipientCancel(w, a)
    \/ EscalateDispute(w, a)
    \/ ChallengeResolution(w, a)

ResolverAction(w, a) == \E isRelease \in BOOLEAN : ExecuteResolution(w, a, isRelease)

StakeAction(r) ==
    \E amount \in StakeAmounts : RegisterStake(r, amount) \/ WithdrawStake(r, amount)

SlashAction(s) ==
    \/ \E a \in Addr : AppealSlash(s, a)
    \/ \E upheld \in BOOLEAN : ResolveAppeal(s, upheld)
    \/ ExecuteFraudSlash(s)

GovernanceAction ==
    \/ \E w \in Workflows, r \in Replacements : RotateDisputeResolver(w, r)
    \/ \E w \in Workflows, r \in Stakers, n \in SlashAmounts : ProposeFraudSlash(w, r, n)
    \/ \E p \in PauseValues : SetPaused(p)
    \/ \E t \in FeeTokens : WithdrawFees(t)

KeeperAction(w) ==
    \/ AutomateTimedActions(w)
    \/ AutoCancelDisputed(w)
    \/ ExecutePendingSettlement(w)

UserAction ==
    \/ \E o \in Orders : CreateEscrow(o)
    \/ \E w \in Workflows, a \in Addr : PartyAction(w, a) \/ ResolverAction(w, a)
    \/ \E w \in Workflows : UpdateEvidence(w)
    \/ \E r \in Stakers : StakeAction(r)
    \/ \E s \in SlashIds : SlashAction(s)
    \/ GovernanceAction

Init == WorldInit

Next ==
    \/ Tick
    \/ time <= Horizon /\ UserAction
    \/ \E w \in Workflows : KeeperAction(w)

Spec == Init /\ [][Next]_vars

\* Keepers keep calling the timed entry points, and the clock does not stop.
FairSpec ==
    /\ Spec
    /\ WF_vars(Tick)
    /\ \A w \in Workflows :
           WF_vars(AutomateTimedActions(w)) /\ WF_vars(AutoCancelDisputed(w))

=============================================================================

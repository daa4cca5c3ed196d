------------------------------ MODULE SewChecks ------------------------------
(***************************************************************************)
(* The predicates the simulation kernel itself evaluates after every action *)
(* (invariants.clj): check-all on the world an action produced and           *)
(* check-transition on the step.  Left out are the predicates over the       *)
(* senior and resolver bonds, which no other action reads, and those that    *)
(* compare with keys no dispatched action writes (bond-slashed,              *)
(* resolver-epoch-slashed), which are therefore always true.                *)
(***************************************************************************)
EXTENDS SewLedger

\* check-all, the accounting of a token.

SolvencyHolds == \A t \in Tokens : totalHeld[t] = EscrowedLive(t) + BondsHeld(t)

FeesNonNegative == \A t \in Tokens : totalFees[t] >= 0

HeldNonNegative == \A t \in Tokens : totalHeld[t] >= 0

ConservationOfFunds ==
    \A t \in Tokens :
        totalHeld[t] + totalReleased[t] + totalRefunded[t]
            = EscrowedEver(t) + totalBondsPosted[t]

FeeCapHolds == \A w \in Workflows : BondsOf(w) <= transfers[w].afa

\* A resolver with a stake posts no more in bonds on running disputes than it
\* has staked.
BondLiquidityHolds ==
    \A r \in staked :
        SumFunctionOnSet([w \in Workflows |-> bondBalances[w][r]],
                         {w \in Workflows : transfers[w].state = "disputed"}) <= stakes[r]

\* check-all, the state of an escrow.

ValidStatusCombination(et) ==
    CASE et.state = "pending" ->
             {et.senderStatus, et.recipientStatus} \subseteq {"none", "agree-to-cancel"}
      [] et.state = "disputed" ->
             {et.senderStatus, et.recipientStatus} = {"none", "raise-dispute"}
      [] OTHER -> TRUE

AllStatusCombinationsValid == \A w \in Workflows : ValidStatusCombination(transfers[w])

PendingSettlementConsistency ==
    \A w \in Workflows : pendingSettlements[w].exists => transfers[w].state = "disputed"

DisputeTimestampConsistency ==
    \A w \in Workflows : transfers[w].state = "disputed" => disputeTimestamps[w] > 0

DisputeLevelBounded == \A w \in Workflows : disputeLevels[w] \in 0 .. MaxDisputeLevel

DisputeResolutionPathExists ==
    \A w \in Workflows : transfers[w].state = "disputed" =>
        \/ transfers[w].resolver # NoAddr
        \/ ctx.module # NoAddr
        \/ ctx.maxDispute > 0
        \/ pendingSettlements[w].exists

\* No timed action is due on any escrow.
NoStaleAutomatableEscrows ==
    \A w \in Workflows : ~(AutoReleaseDue(w) \/ AutoCancelDue(w) \/ PendingExecutable(w))

\* check-all, the slashes.

SlashStatusConsistent ==
    \A s \in SlashIds :
        LET slash == fraudSlashes[s]
        IN  /\ slash.status \in {"pending", "executed", "reversed"} => slash.proposedAt > 0
            /\ slash.status = "pending" => slash.deadline > slash.proposedAt

AppealBondCustodyConsistent ==
    \A s \in SlashIds : fraudSlashes[s].status # "none" =>
        IF fraudSlashes[s].bondHeld > 0
        THEN fraudSlashes[s].status = "appealed" /\ custody[s].held
        ELSE ~custody[s].held

NoAutoFraudExecute ==
    \A s \in SlashIds :
        fraudSlashes[s].status = "executed" /\ fraudSlashes[s].reason = "fraud"
            => fraudSlashes[s].deadline > 0

ResolverNotFrozenOnAssign ==
    \A w \in Workflows :
        transfers[w].state = "disputed" /\ transfers[w].resolver # NoAddr
            => frozenUntil[transfers[w].resolver] <= time

ReversalSlashDisabled ==
    \A s \in SlashIds : fraudSlashes[s].reason = "reversal" => fraudSlashes[s].amount = 0

\* The predicates of check-all on the ledger: five of those evaluated on a world.
LedgerChecks ==
    /\ SolvencyHolds
    /\ FeesNonNegative
    /\ HeldNonNegative
    /\ ConservationOfFunds
    /\ FeeCapHolds

DisputeChecks ==
    /\ AllStatusCombinationsValid
    /\ PendingSettlementConsistency
    /\ DisputeTimestampConsistency
    /\ DisputeLevelBounded
    /\ DisputeResolutionPathExists

SlashChecks ==
    /\ SlashStatusConsistent
    /\ AppealBondCustodyConsistent
    /\ NoAutoFraudExecute
    /\ ReversalSlashDisabled
    /\ ResolverNotFrozenOnAssign
    /\ BondLiquidityHolds

CheckAll ==
    /\ LedgerChecks
    /\ DisputeChecks
    /\ SlashChecks
    /\ NoStaleAutomatableEscrows

-----------------------------------------------------------------------------
(* check-transition *)

TerminalStatesUnchanged ==
    \A w \in Workflows : Terminal(w) => transfers'[w].state = transfers[w].state

FinalizationAccountingCorrect ==
    \A w \in Workflows : Live(w) /\ Terminal(w)' =>
        LET t == transfers'[w].token
        IN  totalHeld'[t] = totalHeld[t] - transfers'[w].afa

EscalationLevelMonotonic ==
    \A w \in Workflows : disputeLevels'[w] - disputeLevels[w] \in {0, 1}

NoWithdrawalDuringDispute ==
    \A r \in Addr :
        (stakes[r] - stakes'[r]) - (slashTotal'[r] - slashTotal[r]) > 0
            => ~\E w \in Workflows : /\ transfers[w].state = "disputed"
                                     /\ transfers[w].resolver = r

TimeLockIntegrity ==
    \A w \in Workflows : disputeLevels'[w] > disputeLevels[w] => lastEscalation[w] # time'

TokenTaxReconciliation ==
    \A t \in Tokens :
        (totalHeld[t] - totalHeld'[t]) - (totalReleased'[t] - totalReleased[t])
            - (totalRefunded'[t] - totalRefunded[t]) <= 0

FeesMonotone == \A t \in Tokens : totalFees'[t] >= totalFees[t]

CheckTransition ==
    /\ TerminalStatesUnchanged
    /\ FinalizationAccountingCorrect
    /\ EscalationLevelMonotonic
    /\ NoWithdrawalDuringDispute
    /\ TimeLockIntegrity
    /\ TokenTaxReconciliation
    /\ FeesMonotone

\* The four of the seven parts of check-transition that the contract keeps by itself,
\* whichever actions are called in whichever order.
StepChecks ==
    [][/\ TerminalStatesUnchanged
       /\ FinalizationAccountingCorrect
       /\ EscalationLevelMonotonic
       /\ TokenTaxReconciliation]_vars

=============================================================================

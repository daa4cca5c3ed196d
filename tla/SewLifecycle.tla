---------------------------- MODULE SewLifecycle ----------------------------
(***************************************************************************)
(* The escrow lifecycle (lifecycle.clj, state_machine.clj) as sew.clj       *)
(* dispatches it: creation, dispute, release, mutual cancellation, and the *)
(* keeper's timed settlement of disputes nobody decided.  A call whose      *)
(* guard fails leaves the world as it was, so it is no step here.           *)
(***************************************************************************)
EXTENDS SewWorld

CONSTANTS
    Orders,          \* bound: the create_escrow calls explored
    MaxSafeAmount    \* amounts above this are refused (Long overflow guard)

Order == [from : Addr, to : Addr, token : Tokens, amount : Nat, custom : OptAddr]

ASSUME OrdersAssumption == Orders \subseteq Order
ASSUME MaxSafeAmountAssumption == MaxSafeAmount \in Nat

\* can-handle-escrow?, with the default capacity multiplier of 1: the check is
\* made only of a resolver who has registered a stake.
Bonded(resolver, afa) ==
    resolver # NoAddr /\ ctx.resolverBondBps > 0 /\ stakes[resolver] > 0
        => stakes[resolver] >= afa

DelayedTime(delay) == IF delay > 0 THEN time + delay ELSE 0

\* create-escrow.  Calls carry no auto times of their own, so both defaults of
\* the snapshot apply.
CreateEscrow(o) ==
    \E w \in Workflows :
        LET fee      == ComputeFee(o.amount, ctx.feeBps)
            afa      == o.amount - fee
            resolver == IF o.custom # NoAddr THEN o.custom ELSE ctx.resolver
        IN  /\ ~paused
            /\ IsNextId(w)
            /\ o.amount > 0
            /\ o.amount <= MaxSafeAmount
            /\ Bonded(resolver, afa)
            /\ transfers' = [transfers EXCEPT ![w] =
                   [ state |-> "pending", from |-> o.from, to |-> o.to,
                     token |-> o.token, afa |-> afa, fee |-> fee,
                     resolver |-> resolver,
                     autoRelease |-> DelayedTime(ctx.autoReleaseDelay),
                     autoCancel |-> DelayedTime(ctx.autoCancelDelay),
                     senderStatus |-> "none", recipientStatus |-> "none" ]]
            /\ customResolver' = [customResolver EXCEPT ![w] = o.custom]
            /\ totalHeld' = [totalHeld EXCEPT ![o.token] = @ + afa]
            /\ totalFees' = [totalFees EXCEPT ![o.token] = @ + fee]
            /\ UNCHANGED <<ctx, clockVars, rotations, roundVars, totalReleased,
                           totalRefunded, claimable, bondVars, stakeVars, slashVars>>

RaisedKeepingConsent(et, caller) ==        \* mutant: the other status is kept
    IF caller = et.from
    THEN [et EXCEPT !.state = "disputed", !.senderStatus = "raise-dispute"]
    ELSE [et EXCEPT !.state = "disputed", !.recipientStatus = "raise-dispute"]

Raised(et, caller) ==
    IF caller = et.from
    THEN [et EXCEPT !.state = "disputed", !.senderStatus = "raise-dispute",
                    !.recipientStatus = "none"]
    ELSE [et EXCEPT !.state = "disputed", !.recipientStatus = "raise-dispute",
                    !.senderStatus = "none"]

\* raise-dispute: the caller's flag is raised, the other party's agreement to
\* cancel is dropped, and the dispute clock starts.
RaiseDispute(w, caller) ==
    /\ ~paused
    /\ transfers[w].state = "pending"
    /\ IsParty(w, caller)
    /\ transfers' = [transfers EXCEPT ![w] = Raised(@, caller)]
    /\ disputeTimestamps' = [disputeTimestamps EXCEPT ![w] = time]
    /\ UNCHANGED <<ctx, clockVars, customResolver, rotations, pendingSettlements,
                   disputeLevels, previousDecisions, challengers, lastEscalation,
                   ledgerVars, bondVars, stakeVars, slashVars>>

\* What a settlement of a pending escrow leaves alone.
SettledFromPending ==
    UNCHANGED <<ctx, clockVars, customResolver, rotations, disputeTimestamps,
                disputeLevels, previousDecisions, challengers, lastEscalation,
                bondVars, stakeVars, slashVars>>

ReleaseWhilePaused(w, caller) ==           \* mutant
    /\ transfers[w].state = "pending"
    /\ caller = transfers[w].from
    /\ Finalize(w, transfers[w], "released")
    /\ SettledFromPending

ReleaseInAnyState(w, caller) ==            \* mutant
    /\ ~paused
    /\ Exists(w)
    /\ caller = transfers[w].from
    /\ Finalize(w, transfers[w], "released")
    /\ SettledFromPending

\* release, under the sender-only strategy of the dispatcher.
Release(w, caller) ==
    /\ ~paused
    /\ transfers[w].state = "pending"
    /\ caller = transfers[w].from
    /\ Finalize(w, transfers[w], "released")
    /\ SettledFromPending

CancelAlone(w, agreed) ==                  \* mutant: one agreement is enough
    /\ Finalize(w, agreed, "refunded")
    /\ SettledFromPending

\* The mutual-consent cancellation: record one party's agreement and refund
\* once both have agreed.
AgreeToCancel(w, agreed) ==
    IF agreed.senderStatus = "agree-to-cancel" /\ agreed.recipientStatus = "agree-to-cancel"
    THEN /\ Finalize(w, agreed, "refunded")
         /\ SettledFromPending
    ELSE /\ transfers' = [transfers EXCEPT ![w] = agreed]
         /\ UNCHANGED <<ctx, clockVars, customResolver, rotations, roundVars,
                        ledgerVars, bondVars, stakeVars, slashVars>>

SenderCancel(w, caller) ==
    /\ ~paused
    /\ transfers[w].state = "pending"
    /\ caller = transfers[w].from
    /\ AgreeToCancel(w, [transfers[w] EXCEPT !.senderStatus = "agree-to-cancel"])

RecipientCancel(w, caller) ==
    /\ ~paused
    /\ transfers[w].state = "pending"
    /\ caller = transfers[w].to
    /\ AgreeToCancel(w, [transfers[w] EXCEPT !.recipientStatus = "agree-to-cancel"])

\* auto-cancel-disputed-escrow: the resolver is slashed for the timeout (which
\* distributes what was taken), the escrowed amount is distributed once more,
\* and the sender is refunded.
AutoCancelDisputed(w) ==
    LET et == transfers[w]
        r  == et.resolver
    IN  /\ DisputeTimeoutExceeded(w)
        /\ IF r # NoAddr
           THEN /\ TakeStake(r, et.afa)
                /\ distribution' = Credit(Credit(distribution, Slashable(r, et.afa), 0),
                                          et.afa, 0)
           ELSE /\ distribution' = Credit(distribution, et.afa, 0)
                /\ UNCHANGED <<stakes, staked, slashTotal>>
        /\ Finalize(w, et, "refunded")
        /\ disputeTimestamps' = [disputeTimestamps EXCEPT ![w] = 0]
        /\ UNCHANGED <<ctx, clockVars, customResolver, rotations, disputeLevels,
                       previousDecisions, challengers, lastEscalation, bondVars,
                       bounties, slashVars>>

=============================================================================

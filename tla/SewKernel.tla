------------------------------ MODULE SewKernel ------------------------------
(***************************************************************************)
(* The simulation kernel (contract_model/replay.clj, process-step) around   *)
(* the contract model: the clock advances to the event's time, the action   *)
(* is dispatched, and its world is kept only if it passes check-all and     *)
(* check-transition; otherwise the world stays as the clock's advance left  *)
(* it.  A reverted action is therefore no step.  This is the kernel of a     *)
(* session, which goes on after a reverted action; a replay halts there.    *)
(***************************************************************************)
EXTENDS SewChecks

\* The world an accepted action leaves behind passes every check.
Committed == CheckAll' /\ CheckTransition

KernelKeeper(w) == AutomateTimedActions(w) /\ Committed

KernelTimeout(w) == AutoCancelDisputed(w) /\ Committed

Dispatch ==
    \/ time <= Horizon /\ UserAction
    \/ \E w \in Workflows : KeeperAction(w)

KernelNext == Tick \/ (Dispatch /\ Committed)

KernelSpec == Init /\ [][KernelNext]_vars

\* The same fairness as the contract's: keepers keep calling, time goes on.
KernelFairSpec ==
    /\ KernelSpec
    /\ WF_vars(Tick)
    /\ \A w \in Workflows : WF_vars(KernelKeeper(w)) /\ WF_vars(KernelTimeout(w))

-----------------------------------------------------------------------------
\* A dispute comes to an end: by a decision carried out once its window has
\* closed, or by the timeout.
DisputesEnd ==
    \A w \in Workflows :
        (ctx.maxDispute > 0 /\ transfers[w].state = "disputed") ~> Terminal(w)

\* A decision that was deferred is carried out or appealed.
DeferredDecisionsEnd ==
    \A w \in Workflows : pendingSettlements[w].exists ~> ~pendingSettlements[w].exists

\* A pending escrow with an automatic settlement time is settled or disputed.
TimedEscrowsEnd ==
    \A w \in Workflows :
        (transfers[w].state = "pending" /\ transfers[w].autoRelease + transfers[w].autoCancel > 0)
            ~> transfers[w].state # "pending"

=============================================================================

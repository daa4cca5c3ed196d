----------------------------- MODULE SewDispatch -----------------------------
(***************************************************************************)
(* The kernel as the clients of the simulation see it: an event names an     *)
(* action and its arguments, and the dispatcher (sew.clj, dispatch-action)   *)
(* carries it out for the caller.  Only the actions the Python clients send  *)
(* are here.                                                                *)
(***************************************************************************)
EXTENDS SewKernel

\* What automate_timed_actions does, which is accepted when nothing is due too.
Automate(w) ==
    /\ Exists(w)
    /\ \/ AutomateTimedActions(w)
       \/ /\ ~PendingExecutable(w) /\ ~AutoReleaseDue(w) /\ ~AutoCancelDue(w)
          /\ UNCHANGED vars

\* An event whose escrow is w.
PerformOn(w, caller, e) ==
    \/ e.action = "release" /\ Release(w, caller)
    \/ e.action = "raise_dispute" /\ RaiseDispute(w, caller)
    \/ e.action = "sender_cancel" /\ SenderCancel(w, caller)
    \/ e.action = "execute_resolution" /\ ExecuteResolution(w, caller, e.isRelease)
    \/ e.action = "escalate_dispute" /\ EscalateDispute(w, caller)
    \/ e.action = "automate_timed_actions" /\ Automate(w)
    \/ e.action = "auto_cancel_disputed" /\ AutoCancelDisputed(w)
    \/ e.action = "rotate_dispute_resolver" /\ RotateDisputeResolver(w, e.to)

\* dispatch-action; custom is the resolver a creation asks for.
Perform(caller, e, custom) ==
    \/ /\ e.action = "create_escrow"
       /\ CreateEscrow([ from |-> caller, to |-> e.to, token |-> CHOOSE t \in Tokens : TRUE,
                         amount |-> e.amount, custom |-> custom ])
    \/ /\ e.wf \in Workflows
       /\ PerformOn(e.wf, caller, e)

\* The id of the escrow the next creation makes.
NextId == Cardinality({w \in Workflows : Exists(w)})

\* The clock takes the time of an event before the action is looked at.
AdvanceTo(t) ==
    /\ time' = t
    /\ UNCHANGED <<ctx, paused, escrowVars, roundVars, ledgerVars, bondVars, stakeVars,
                   slashVars>>

=============================================================================

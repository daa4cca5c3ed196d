----------------------------- MODULE TraceMutants -----------------------------
(***************************************************************************)
(* The mutants of a seed trace that the adversarial prober runs              *)
(* (python/adversarial_agent.py, _build_trace_mutants): one event of the     *)
(* trace replaced by a variation on its action.  Nothing here has state.     *)
(***************************************************************************)
EXTENDS Integers, Sequences, FiniteSets, FiniteSetsExt

\* No escrow, and no mutant.
NoId == -1

NoMutant == [index |-> 0, tag |-> "none"]

\* The events of a trace: only what creates an escrow gives it a name (save-id-as).
TraceEvent ==
    {e \in [ agent : STRING, action : STRING, target : STRING, alias : STRING,
             variant : STRING, time : Nat ] :
        e.alias # "" => e.action = "create_escrow"}

\* An event of a trace; target and alias are names of escrows, or "".
Event(agent, action, target, alias, time) ==
    [ agent |-> agent, action |-> action, target |-> target, alias |-> alias,
      variant |-> "base", time |-> time ]

\* The variations on an action, as the catalogue lists them: a tag and the action
\* that replaces the event's.
Variation(tag, action) == [tag |-> tag, action |-> action]

Variations(action) ==
    CASE action = "execute_resolution" ->
             << Variation("resolution-release", "execute_resolution"),
                Variation("resolution-refund", "execute_resolution"),
                Variation("slash-after-resolution", "propose_fraud_slash") >>
      [] action = "execute_pending_settlement" ->
             << Variation("keep-settlement", "execute_pending_settlement"),
                Variation("slash-instead-of-settlement", "propose_fraud_slash") >>
      [] action = "propose_fraud_slash" ->
             << Variation("execute-slash", "execute_fraud_slash"),
                Variation("resolve-appeal-deny", "resolve_appeal"),
                Variation("resolve-appeal-uphold", "resolve_appeal") >>
      [] action = "raise_dispute" ->
             << Variation("resolver-self-dispute", "raise_dispute"),
                Variation("force-release-after-dispute", "execute_resolution"),
                Variation("force-refund-after-dispute", "execute_resolution") >>
      [] action = "create_escrow" ->
             << Variation("micro-escrow", "create_escrow"),
                Variation("jumbo-escrow", "create_escrow"),
                Variation("self-recipient-escrow", "create_escrow") >>
      [] OTHER -> <<>>

\* A trace with its i-th event varied: agent, time, target and alias stay.
Varied(trace, i, v) ==
    [trace EXCEPT ![i].action = v.action, ![i].variant = v.tag]

\* The elements of a finite set in the order R, a set of pairs.
InOrder(D, R) ==
    [n \in 1 .. Cardinality(D) |->
        CHOOSE x \in D : Cardinality({y \in D : <<y, x>> \in R}) = n - 1]

Mutant(trace, i, v) ==
    [id |-> [index |-> i, tag |-> v.tag], events |-> Varied(trace, i, v)]

\* Where an action is varied: an event of the trace, and which variation of it.
Sites(trace, action) ==
    {i \in DOMAIN trace : trace[i].action = action} \X (DOMAIN Variations(action))

Earlier(D) == {p \in D \X D : \/ p[1][1] < p[2][1]
                              \/ p[1][1] = p[2][1] /\ p[1][2] < p[2][2]}

\* The first max mutants, in the order of the trace; one if max is not positive.
Catalogue(trace, action, max) ==
    LET sites == Sites(trace, action)
        order == InOrder(sites, Earlier(sites))
    IN  [n \in 1 .. Min({IF max < 1 THEN 1 ELSE max, Cardinality(sites)}) |->
            Mutant(trace, order[n][1], Variations(action)[order[n][2]])]

=============================================================================

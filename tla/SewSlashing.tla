----------------------------- MODULE SewSlashing -----------------------------
(***************************************************************************)
(* Resolver stakes and governance's fraud slashes (registry.clj, the second *)
(* half of resolution.clj, and the guards sew.clj adds when it dispatches   *)
(* them): stake in and out, propose, appeal, rule, execute.                 *)
(***************************************************************************)
EXTENDS SewWorld

CONSTANTS
    Stakers,         \* bound: the addresses that stake in the runs
    StakeAmounts,    \* bound: amounts staked or withdrawn in one call
    MaxStake,        \* bound: no address stakes beyond this
    SlashAmounts,    \* bound: amounts governance proposes to slash
    MaxAppealBonds,  \* bound: slash-appeal bonds per resolver and workflow
    FreezeDuration   \* 259200 seconds in the code

ASSUME SlashingAssumption ==
    /\ Stakers \subseteq Addr
    /\ StakeAmounts \subseteq Nat \ {0}
    /\ SlashAmounts \subseteq Nat
    /\ MaxStake \in Nat
    /\ MaxAppealBonds \in Nat
    /\ FreezeDuration \in Nat

RegisterStake(r, amount) ==
    /\ stakes[r] + amount <= MaxStake
    /\ stakes' = [stakes EXCEPT ![r] = @ + amount]
    /\ staked' = staked \cup {r}
    /\ UNCHANGED <<ctx, clockVars, escrowVars, roundVars, ledgerVars, bondVars,
                   slashTotal, distribution, bounties, slashVars>>

\* A dispute names the resolver on the escrow; a custom resolver or a module
\* with authority over the dispute is not looked at.
HasActiveDispute(r) ==
    \E w \in Workflows : transfers[w].state = "disputed" /\ transfers[w].resolver = r

UncontestedSlashes(r) ==                   \* mutant: slashes under appeal are forgotten
    {s \in SlashIds : fraudSlashes[s].resolver = r /\ fraudSlashes[s].status = "pending"}

UnsettledSlashes(r) ==
    {s \in SlashIds : /\ fraudSlashes[s].resolver = r
                      /\ fraudSlashes[s].status \in {"pending", "appealed"}}

UnsettledAmount(r) ==
    SumFunctionOnSet([s \in SlashIds |-> fraudSlashes[s].amount], UnsettledSlashes(r))

WithdrawStake(r, amount) ==
    /\ amount > 0
    /\ ~HasActiveDispute(r)
    /\ UnsettledAmount(r) <= stakes[r] - amount
    /\ frozenUntil[r] <= time
    /\ amount <= stakes[r]
    /\ stakes' = [stakes EXCEPT ![r] = @ - amount]
    /\ UNCHANGED <<ctx, clockVars, escrowVars, roundVars, ledgerVars, bondVars,
                   staked, slashTotal, distribution, bounties, slashVars>>

\* propose-fraud-slash: files a slash over whatever was filed for the escrow.
\* The snapshot's appeal window is never nil, so the three-day fallback of the
\* code does not apply.
ProposeFraudSlash(w, r, amount) ==
    /\ Exists(w)
    /\ fraudSlashes' = [fraudSlashes EXCEPT ![<<"fraud", w>>] =
           [ resolver |-> r, amount |-> amount, reason |-> "fraud",
             status |-> "pending", proposedAt |-> time,
             deadline |-> time + ctx.appealWindow, bondHeld |-> 0 ]]
    /\ UNCHANGED <<ctx, clockVars, escrowVars, roundVars, ledgerVars, bondVars,
                   stakeVars, custody, forfeited, frozenUntil, unavailable,
                   evidenceUpdated>>

\* appeal-slash: the resolver contests the slash and its bond, when the snapshot
\* asks for one, is taken into custody.
AppealSlash(s, caller) ==
    LET bond == ctx.appealBondAmount
    IN  /\ fraudSlashes[s].status = "pending"
        /\ time <= fraudSlashes[s].deadline
        /\ caller = fraudSlashes[s].resolver
        /\ forfeited + claimable[IntKey(s[2])][caller] + bond <= MaxAppealBonds
        /\ fraudSlashes' = [fraudSlashes EXCEPT
               ![s].status = "appealed",
               ![s].bondHeld = IF bond > 0 THEN bond ELSE @]
        /\ custody' = IF bond > 0
                      THEN [custody EXCEPT ![s] =
                                [held |-> TRUE, resolver |-> caller, amount |-> bond]]
                      ELSE custody
        /\ UNCHANGED <<ctx, clockVars, escrowVars, roundVars, ledgerVars, bondVars,
                       stakeVars, forfeited, frozenUntil, unavailable, evidenceUpdated>>

RuledKeepingBond(slash, upheld) ==         \* mutant: the bond stays on the slash
    [slash EXCEPT !.status = IF upheld THEN "reversed" ELSE "pending"]

\* What a ruling makes of a slash.
Ruled(slash, upheld) ==
    [slash EXCEPT !.status = IF upheld THEN "reversed" ELSE "pending", !.bondHeld = 0]

\* resolve-appeal: an upheld appeal reverses the slash and returns the bond to
\* the resolver; a rejected one forfeits the bond to insurance and makes the
\* slash pending again, under the deadline it already had.
ResolveAppeal(s, upheld) ==
    LET slash == fraudSlashes[s]
        bond  == slash.bondHeld
        who   == IF custody[s].held THEN custody[s].resolver ELSE slash.resolver
    IN  /\ slash.status = "appealed"
        /\ fraudSlashes' = [fraudSlashes EXCEPT ![s] = Ruled(slash, upheld)]
        /\ custody' = [custody EXCEPT ![s] = NoCustody]
        /\ IF upheld
           THEN /\ claimable' = [claimable EXCEPT ![IntKey(s[2])][who] = @ + bond]
                /\ UNCHANGED <<distribution, forfeited>>
           ELSE /\ distribution' = [distribution EXCEPT !.insurance = @ + bond]
                /\ forfeited' = forfeited + bond
                /\ UNCHANGED claimable
        /\ UNCHANGED <<ctx, clockVars, escrowVars, roundVars, totalHeld, totalFees,
                       totalReleased, totalRefunded, bondVars, stakes, staked,
                       slashTotal, bounties, frozenUntil, unavailable,
                       evidenceUpdated>>

CollectableEarly(slash) == slash.status = "pending"     \* mutant: no waiting

\* A pending slash whose appeal deadline has been reached.
Collectable(slash) == slash.status = "pending" /\ time >= slash.deadline

FreezeForgotten(r) ==                      \* mutant: marked unavailable only
    /\ unavailable' = unavailable \cup {r}
    /\ UNCHANGED frozenUntil

\* freeze-resolver
Freeze(r) ==
    /\ frozenUntil' = [frozenUntil EXCEPT ![r] = time + FreezeDuration]
    /\ unavailable' = unavailable \cup {r}

\* execute-fraud-slash: anyone may collect the slash; the resolver is frozen.
ExecuteFraudSlash(s) ==
    LET slash == fraudSlashes[s]
        r     == slash.resolver
    IN  /\ Collectable(slash)
        /\ fraudSlashes' = [fraudSlashes EXCEPT ![s].status = "executed"]
        /\ SlashStake(r, slash.amount, NoAddr, 0)
        /\ Freeze(r)
        /\ UNCHANGED <<ctx, clockVars, escrowVars, roundVars, ledgerVars, bondVars,
                       custody, forfeited, evidenceUpdated>>

=============================================================================

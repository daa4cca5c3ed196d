---------------------------- MODULE SewProperties ----------------------------
(***************************************************************************)
(* What makes the contract model correct: a type invariant, the invariants  *)
(* of one escrow's dispute, of the ledger and of the slashes, the steps no   *)
(* action may take, and what keepers bring about.                           *)
(***************************************************************************)
EXTENDS SewProtocol

Terminal(w) == transfers[w].state \in TerminalStates

Live(w) == transfers[w].state \in LiveStates

Decided(w, l) == previousDecisions[w][l] # NoDecision

\* The statuses of a settled escrow are frozen as they were, so they tell
\* whether it was ever in dispute.
WasDisputed(w) ==
    "raise-dispute" \in {transfers[w].senderStatus, transfers[w].recipientStatus}

Reserves == [insurance : Int, protocol : Int, retained : Nat]

\* Every variable has its type.  total-held is an integer and no more: that
\* sub-held never takes it below zero is a theorem about sums, not a type.
TypeOK ==
    /\ ctx \in Context
    /\ time \in Nat
    /\ paused \in BOOLEAN
    /\ transfers \in [Workflows -> Transfer]
    /\ customResolver \in [Workflows -> OptAddr]
    /\ pendingSettlements \in [Workflows -> Settlement]
    /\ disputeTimestamps \in [Workflows -> Nat]
    /\ disputeLevels \in [Workflows -> Levels]
    /\ previousDecisions \in [Workflows -> [Levels -> Decision]]
    /\ challengers \in [Workflows -> [Levels -> OptAddr]]
    /\ lastEscalation \in [Workflows -> Nat]
    /\ rotations \in [Workflows -> Nat]
    /\ totalHeld \in [Tokens -> Int]
    /\ totalFees \in [Tokens -> Nat]
    /\ totalReleased \in [Tokens -> Nat]
    /\ totalRefunded \in [Tokens -> Nat]
    /\ claimable \in [ClaimKeys -> [Addr -> Nat]]
    /\ bondBalances \in [Workflows -> [Addr -> Nat]]
    /\ bondFees \in [Tokens -> Nat]
    /\ totalBondsPosted \in [Tokens -> Nat]
    /\ stakes \in [Addr -> Nat]
    /\ staked \subseteq Addr
    /\ slashTotal \in [Addr -> Nat]
    /\ distribution \in Reserves
    /\ bounties \in [Addr -> Nat]
    /\ fraudSlashes \in [SlashIds -> Slash]
    /\ custody \in [SlashIds -> Custody]
    /\ forfeited \in Nat
    /\ frozenUntil \in [Addr -> Nat]
    /\ unavailable \subseteq Addr
    /\ evidenceUpdated \in [Workflows -> BOOLEAN]

-----------------------------------------------------------------------------
(* One dispute. *)

DeferredIsCurrent(w) ==
    pendingSettlements[w].exists =>
        /\ transfers[w].state = "disputed"
        /\ ~FinalRound(w)
        /\ Decided(w, disputeLevels[w])
        /\ pendingSettlements[w].isRelease = previousDecisions[w][disputeLevels[w]].isRelease
        /\ pendingSettlements[w].deadline <= time + DecisionWindow(ctx)

\* A deferred settlement belongs to a running dispute, below the final round,
\* and carries out exactly what the resolver of the current round decided; its
\* deadline is no further away than the window (execute-resolution defers,
\* every move up or settlement drops what was deferred).
DeferredIsCurrentDecision == \A w \in Workflows : DeferredIsCurrent(w)

RoundsInOrder(w) ==
    \A l \in Levels :
        /\ l < disputeLevels[w] => Decided(w, l)
        /\ l > disputeLevels[w] => ~Decided(w, l)
        /\ Decided(w, l) /\ l = disputeLevels[w] =>
               \/ pendingSettlements[w].exists
               \/ Terminal(w)

\* Rounds are decided in order and at most once each: every round below the
\* current one was decided before it was appealed, none above it is, and the
\* current one only when its decision is deferred or carried out.
RoundsDecidedInOrder == \A w \in Workflows : RoundsInOrder(w)

OutcomeFollows(w) ==
    Terminal(w) /\ WasDisputed(w) =>
        transfers[w].state =
            IF Decided(w, disputeLevels[w])
            THEN OutcomeOf(previousDecisions[w][disputeLevels[w]].isRelease)
            ELSE "refunded"

\* A dispute that has been settled was settled the way its last round decided;
\* if that round never decided, by the timeout, in the sender's favour.
OutcomeFollowsLastRound == \A w \in Workflows : OutcomeFollows(w)

RecordsConsistent(w) ==
    /\ transfers[w].state = "disputed" =>
           /\ disputeTimestamps[w] \in 1 .. time
           /\ {transfers[w].senderStatus, transfers[w].recipientStatus}
                  = {"raise-dispute", "none"}
    /\ ~WasDisputed(w) =>
           /\ transfers[w].state # "disputed"
           /\ disputeTimestamps[w] = 0
           /\ disputeLevels[w] = 0
           /\ \A l \in Levels : ~Decided(w, l)
           /\ \A a \in Addr : bondBalances[w][a] = 0
    /\ \A l \in Levels : l >= disputeLevels[w] => challengers[w][l] = NoAddr

\* An escrow and its dispute agree about how far things have gone: exactly one
\* party has raised a running dispute and its clock has started; before a
\* dispute there is no round, no decision, no bond and no clock; a challenger is
\* remembered only for a round that has been left.
DisputeRecordsConsistent == \A w \in Workflows : RecordsConsistent(w)

CustomDecidesAlone(w) ==
    \A l \in Levels : Decided(w, l) /\ customResolver[w] # NoAddr =>
        previousDecisions[w][l].resolver = customResolver[w]

\* A custom resolver's authority is exclusive: no round of its escrow, appealed
\* or not, was decided by anybody else.
CustomResolverDecidesAlone == \A w \in Workflows : CustomDecidesAlone(w)

\* A decision, once taken, is never taken again or altered: not by a second
\* call, an appeal, a rotation of the resolver or the settlement.
DecisionsStand ==
    [][\A w \in Workflows : \A l \in Levels :
           Decided(w, l) => previousDecisions'[w][l] = previousDecisions[w][l]]_vars

\* Settled escrows are settled for good: their transfer, the decisions and the
\* round they ended in, and what they pay are never touched again.
SettledForGood ==
    [][\A w \in Workflows : Terminal(w) =>
           /\ transfers'[w] = transfers[w]
           /\ ~pendingSettlements'[w].exists
           /\ disputeLevels'[w] = disputeLevels[w]
           /\ bondBalances'[w] = bondBalances[w]]_vars

\* A dispute is settled only when the rules let it be: a deferred decision when
\* its window has closed and the way it went; otherwise by the final round, by a
\* decision without a window, or by the timeout.
NoEarlySettlement ==
    [][\A w \in Workflows : transfers[w].state = "disputed" /\ Terminal(w)' =>
           \/ /\ pendingSettlements[w].exists
              /\ time >= pendingSettlements[w].deadline
              /\ transfers'[w].state = OutcomeOf(pendingSettlements[w].isRelease)
           \/ /\ ~pendingSettlements[w].exists
              /\ ~Decided(w, disputeLevels[w])
              /\ \/ /\ Decided(w, disputeLevels[w])'
                    /\ FinalRound(w) \/ DecisionWindow(ctx) = 0
                 \/ /\ ~Decided(w, disputeLevels[w])'
                    /\ time >= disputeTimestamps[w] + ctx.maxDispute]_vars

\* While the protocol is paused nothing new begins: no escrow, no dispute and no
\* decision; and what ends is what a keeper finds due.
PauseFreezes ==
    [][paused /\ paused' =>
           \A w \in Workflows :
               /\ Exists(w)' => Exists(w)
               /\ transfers'[w].state = "disputed" => transfers[w].state = "disputed"
               /\ previousDecisions'[w] = previousDecisions[w]
               /\ Live(w) /\ Terminal(w)' =>
                      \/ AutoReleaseDue(w)
                      \/ AutoCancelDue(w)
                      \/ PendingExecutable(w)
                      \/ DisputeTimeoutExceeded(w)]_vars

-----------------------------------------------------------------------------
(* What the parties are promised. *)

\* The parties who agree to call an escrow off.
Agreed(w) ==
    {p \in {"sender", "recipient"} :
        \/ p = "sender" /\ transfers[w].senderStatus = "agree-to-cancel"
        \/ p = "recipient" /\ transfers[w].recipientStatus = "agree-to-cancel"}

\* How an escrow may end if nobody does anything.
Expiry(w) ==
    {outcome \in {"released", "refunded"} :
        \/ outcome = "released" /\ transfers[w].autoRelease > 0
        \/ outcome = "refunded" /\ transfers[w].autoCancel > 0}

Verdict(w) ==
    IF Decided(w, disputeLevels[w])
    THEN OutcomeOf(previousDecisions[w][disputeLevels[w]].isRelease)
    ELSE "open"

Promise == INSTANCE Agreement WITH
    Escrows    <- Workflows,
    LastRound  <- MaxDisputeLevel,
    status     <- [w \in Workflows |-> transfers[w].state],
    agreed     <- [w \in Workflows |-> Agreed(w)],
    expiry     <- [w \in Workflows |-> Expiry(w)],
    round      <- disputeLevels,
    verdict    <- [w \in Workflows |-> Verdict(w)],
    appealable <- DecisionWindow(ctx) > 0

\* Whatever parties, resolvers, challengers, governance and keepers do in any
\* order, each escrow goes the way its parties were promised: no refund of an
\* undisputed escrow without both, no settlement against or before the last
\* verdict, no second one, and none of it by what happens to another escrow.
ImplementsAgreement == Promise!AgreementSpec

-----------------------------------------------------------------------------
(* Stakes and slashes. *)

\* A bond held for a slash appeal belongs to an appeal that is still open, and
\* custody holds that amount for the resolver who posted it: the ruling returns
\* or forfeits it exactly once.
BondsBackOpenAppeals ==
    \A s \in SlashIds : fraudSlashes[s].bondHeld > 0 =>
        /\ fraudSlashes[s].status = "appealed"
        /\ custody[s] = [held |-> TRUE, resolver |-> fraudSlashes[s].resolver,
                         amount |-> fraudSlashes[s].bondHeld]

\* A slash is collected only after the resolver has had the whole appeal window
\* to contest it, and never while an appeal is open or after one was upheld; the
\* one exception is the automated slash for a reversal on unchanged evidence.
SlashRespectsWindow ==
    [][\A s \in SlashIds :
           LET was == fraudSlashes[s]
               is  == fraudSlashes'[s]
           IN  is.status = "executed" /\ is # was =>
                   \/ /\ was.status = "pending"
                      /\ time >= was.proposedAt + ctx.appealWindow
                      /\ is = [was EXCEPT !.status = "executed"]
                   \/ /\ is.reason = "reversal"
                      /\ ~evidenceUpdated[s[2]]
                      /\ disputeLevels[s[2]] > 0]_vars

\* Stake a resolver takes out is stake nothing depends on: the resolver is named
\* on no running dispute, is not frozen, and keeps no less than any single slash
\* still pending or under appeal asks for (not what they ask for together).
WithdrawalsLeaveCover ==
    [][\A r \in Addr : stakes'[r] < stakes[r] /\ slashTotal'[r] = slashTotal[r] =>
           /\ \A w \in Workflows :
                  ~(transfers[w].state = "disputed" /\ transfers[w].resolver = r)
           /\ frozenUntil[r] <= time
           /\ \A s \in SlashIds :
                  fraudSlashes[s].resolver = r
                  /\ fraudSlashes[s].status \in {"pending", "appealed"}
                      => fraudSlashes'[s].amount <= stakes'[r]]_vars

\* A slash turns stake into slashed stake, unit for unit: what a resolver loses
\* any other way never reaches the reserves.
SlashesMoveStake ==
    [][\A r \in Addr : slashTotal'[r] # slashTotal[r] =>
           /\ stakes'[r] + slashTotal'[r] = stakes[r] + slashTotal[r]
           /\ slashTotal'[r] > slashTotal[r]]_vars

\* A resolver a contestable slash was collected from is sidelined: unavailable,
\* and frozen for the whole freeze from the time the slash fell due.
CollectedSlashSidelines ==
    \A s \in SlashIds :
        fraudSlashes[s].status = "executed" /\ fraudSlashes[s].deadline > 0 =>
            /\ fraudSlashes[s].resolver \in unavailable
            /\ frozenUntil[fraudSlashes[s].resolver]
                   >= fraudSlashes[s].deadline + FreezeDuration

=============================================================================

------------------------------ MODULE SewWorld ------------------------------
(***************************************************************************)
(* The world map every SEW action transforms (types.clj, empty-world), with *)
(* the accounting and registry primitives the actions are built from       *)
(* (accounting.clj, registry.clj) and the guards they share                *)
(* (state_machine.clj, authority.clj).  One variable per key of the world. *)
(***************************************************************************)
EXTENDS SewTypes, FiniteSetsExt

CONSTANTS
    InitTime,        \* block time of the initial world
    MaxTime          \* bound: the last block time explored

ASSUME TimeAssumption == /\ InitTime \in Nat \ {0}
                         /\ MaxTime \in Nat
                         /\ InitTime <= MaxTime

VARIABLES
    ctx,                 \* the execution context, fixed when it is built
    time,                \* :block-time
    paused,              \* :paused?
    transfers,           \* :escrow-transfers
    customResolver,      \* :escrow-settings, the custom resolver of each escrow
    pendingSettlements,  \* :pending-settlements
    disputeTimestamps,   \* :dispute-timestamps, 0 when absent
    disputeLevels,       \* :dispute-levels
    previousDecisions,   \* :previous-decisions, per workflow and level
    challengers,         \* :challengers, per workflow and level
    lastEscalation,      \* :last-escalation-block-time, 0 when absent
    rotations,           \* :resolver-rotations, how many per workflow
    totalHeld,           \* :total-held, per token
    totalFees,           \* :total-fees
    totalReleased,       \* :total-released
    totalRefunded,       \* :total-refunded
    claimable,           \* :claimable, per key and address
    bondBalances,        \* :bond-balances, per workflow and address
    bondFees,            \* :bond-fees, per token
    totalBondsPosted,    \* :total-bonds-posted, per token
    stakes,              \* :resolver-stakes
    staked,              \* the addresses :resolver-stakes has an entry for
    slashTotal,          \* :resolver-slash-total
    distribution,        \* :bond-distribution and :retained-slash-reserves
    bounties,            \* :claimable entries keyed by a challenger's address
    fraudSlashes,        \* :pending-fraud-slashes
    custody,             \* :appeal-bond-custody
    forfeited,           \* :appeal-bonds-forfeited-insurance
    frozenUntil,         \* :resolver-frozen-until
    unavailable,         \* :resolver-unavailable
    evidenceUpdated      \* :evidence-updated?

clockVars  == <<time, paused>>
escrowVars == <<transfers, customResolver, rotations>>
roundVars  == <<pendingSettlements, disputeTimestamps, disputeLevels,
                previousDecisions, challengers, lastEscalation>>
ledgerVars == <<totalHeld, totalFees, totalReleased, totalRefunded, claimable>>
bondVars   == <<bondBalances, bondFees, totalBondsPosted>>
stakeVars  == <<stakes, staked, slashTotal, distribution, bounties>>
slashVars  == <<fraudSlashes, custody, forfeited, frozenUntil, unavailable,
                evidenceUpdated>>

worldVars == <<clockVars, escrowVars, roundVars, ledgerVars, bondVars,
               stakeVars, slashVars>>

vars == <<ctx, worldVars>>

-----------------------------------------------------------------------------
(* Keys of the maps that mix key types. *)

\* Settlement entitlements are recorded under the integer id of the escrow.
IntKey(w) == <<"int", w>>

\* The same id after (str id).
StrKey(w) == <<"str", w>>

ClaimKeys == {"int", "str"} \X Workflows

\* A fraud slash is filed under the escrow id, a reversal slash under
\* "<id>-reversal".
SlashIds == {"fraud", "reversal"} \X Workflows

SlashStatuses == {"none", "pending", "appealed", "reversed", "executed"}

Slash ==
    [ resolver : OptAddr, amount : Nat, reason : {"fraud", "reversal"},
      status : SlashStatuses, proposedAt : Nat, deadline : Nat, bondHeld : Nat ]

NoSlash == [ resolver |-> NoAddr, amount |-> 0, reason |-> "fraud",
             status |-> "none", proposedAt |-> 0, deadline |-> 0, bondHeld |-> 0 ]

Custody == [ held : BOOLEAN, resolver : OptAddr, amount : Nat ]

NoCustody == [ held |-> FALSE, resolver |-> NoAddr, amount |-> 0 ]

NoTransfer ==
    [ state |-> "none", from |-> NoAddr, to |-> NoAddr,
      token |-> CHOOSE t \in Tokens : TRUE, afa |-> 0, fee |-> 0,
      resolver |-> NoAddr, autoRelease |-> 0, autoCancel |-> 0,
      senderStatus |-> "none", recipientStatus |-> "none" ]

WorldInit ==
    /\ ctx \in Contexts
    /\ time = InitTime
    /\ paused = FALSE
    /\ transfers = [w \in Workflows |-> NoTransfer]
    /\ customResolver = [w \in Workflows |-> NoAddr]
    /\ pendingSettlements = [w \in Workflows |-> NoSettlement]
    /\ disputeTimestamps = [w \in Workflows |-> 0]
    /\ disputeLevels = [w \in Workflows |-> 0]
    /\ previousDecisions = [w \in Workflows |-> [l \in Levels |-> NoDecision]]
    /\ challengers = [w \in Workflows |-> [l \in Levels |-> NoAddr]]
    /\ lastEscalation = [w \in Workflows |-> 0]
    /\ rotations = [w \in Workflows |-> 0]
    /\ totalHeld = [t \in Tokens |-> 0]
    /\ totalFees = [t \in Tokens |-> 0]
    /\ totalReleased = [t \in Tokens |-> 0]
    /\ totalRefunded = [t \in Tokens |-> 0]
    /\ claimable = [k \in ClaimKeys |-> [a \in Addr |-> 0]]
    /\ bondBalances = [w \in Workflows |-> [a \in Addr |-> 0]]
    /\ bondFees = [t \in Tokens |-> 0]
    /\ totalBondsPosted = [t \in Tokens |-> 0]
    /\ stakes = [a \in Addr |-> 0]
    /\ staked = {}
    /\ slashTotal = [a \in Addr |-> 0]
    /\ distribution = [insurance |-> 0, protocol |-> 0, retained |-> 0]
    /\ bounties = [a \in Addr |-> 0]
    /\ fraudSlashes = [s \in SlashIds |-> NoSlash]
    /\ custody = [s \in SlashIds |-> NoCustody]
    /\ forfeited = 0
    /\ frozenUntil = [a \in Addr |-> 0]
    /\ unavailable = {}
    /\ evidenceUpdated = [w \in Workflows |-> FALSE]

-----------------------------------------------------------------------------
(* Accessors and shared guards. *)

Exists(w) == transfers[w].state # "none"

IsNextId(w) == \A v \in Workflows : Exists(v) <=> v < w

FinalRound(w) == disputeLevels[w] >= MaxDisputeLevel

IsParty(w, caller) == caller \in {transfers[w].from, transfers[w].to}

AuthorizedBesidesCustom(w, caller) ==      \* mutant: the custom resolver is one of several
    \/ caller = customResolver[w]
    \/ caller = transfers[w].resolver

\* authorized-resolver?: who may decide the dispute.  A custom resolver alone;
\* otherwise whoever the resolution module accepts (with an escalation map, the
\* resolver of the current round), falling through to the resolver written on the
\* escrow.
Authorized(w, caller) ==
    LET module == IF ctx.kleros THEN ctx.levels[disputeLevels[w]] ELSE ctx.module
    IN  IF customResolver[w] # NoAddr
        THEN caller = customResolver[w]
        ELSE \/ ctx.module # NoAddr /\ caller = module
             \/ caller = transfers[w].resolver

ReleaseDueOnTheDot(w) ==                   \* mutant: a keeper a block late finds nothing due
    /\ transfers[w].state = "pending"
    /\ transfers[w].autoRelease > 0
    /\ time = transfers[w].autoRelease

AutoReleaseDue(w) ==
    /\ transfers[w].state = "pending"
    /\ transfers[w].autoRelease > 0
    /\ time >= transfers[w].autoRelease

AutoCancelDue(w) ==
    /\ transfers[w].state = "pending"
    /\ transfers[w].autoCancel > 0
    /\ time >= transfers[w].autoCancel

TimeoutDespiteDecision(w) ==               \* mutant: a pending decision is overlooked
    /\ transfers[w].state = "disputed"
    /\ disputeTimestamps[w] > 0
    /\ ctx.maxDispute > 0
    /\ time >= disputeTimestamps[w] + ctx.maxDispute

TimeoutOnTheDot(w) ==                      \* mutant: a keeper a block late finds nothing due
    /\ transfers[w].state = "disputed"
    /\ ~pendingSettlements[w].exists
    /\ ctx.maxDispute > 0
    /\ time = disputeTimestamps[w] + ctx.maxDispute

DisputeTimeoutExceeded(w) ==
    /\ transfers[w].state = "disputed"
    /\ ~pendingSettlements[w].exists
    /\ disputeTimestamps[w] > 0
    /\ ctx.maxDispute > 0
    /\ time >= disputeTimestamps[w] + ctx.maxDispute

PendingExecutableEarly(w) ==               \* mutant: off by one at the deadline
    /\ pendingSettlements[w].exists
    /\ transfers[w].state = "disputed"
    /\ time + 1 >= pendingSettlements[w].deadline

PendingExecutableOnTheDot(w) ==            \* mutant: a keeper a block late finds nothing due
    /\ pendingSettlements[w].exists
    /\ transfers[w].state = "disputed"
    /\ time = pendingSettlements[w].deadline

PendingExecutable(w) ==
    /\ pendingSettlements[w].exists
    /\ transfers[w].state = "disputed"
    /\ time >= pendingSettlements[w].deadline

-----------------------------------------------------------------------------
(* Accounting and registry primitives. *)

\* What the beneficiary of a settlement of transfer et receives: the escrowed
\* amount less the token's fee-on-transfer tax.
NetAmount(et) == et.afa - ComputeFee(et.afa, ctx.fotBps[et.token])

BeneficiarySwapped(et, outcome) ==         \* mutant
    IF outcome = "released" THEN et.from ELSE et.to

Beneficiary(et, outcome) == IF outcome = "released" THEN et.to ELSE et.from

SubHeldSkipped(token, amount) == UNCHANGED totalHeld     \* mutant

SubHeld(token, amount) == totalHeld' = [totalHeld EXCEPT ![token] = @ - amount]

RecordAllReleased(token, outcome, net) ==        \* mutant: everything counts as released
    /\ totalReleased' = [totalReleased EXCEPT ![token] = @ + net]
    /\ UNCHANGED totalRefunded

\* record-released and record-refunded.
RecordPaid(token, outcome, net) ==
    /\ totalReleased' = IF outcome = "released"
                        THEN [totalReleased EXCEPT ![token] = @ + net]
                        ELSE totalReleased
    /\ totalRefunded' = IF outcome = "refunded"
                        THEN [totalRefunded EXCEPT ![token] = @ + net]
                        ELSE totalRefunded

\* finalize-release and finalize-refund: the escrow, as the transfer record et
\* describes it, is settled with the outcome and its pending decision dropped.
Finalize(w, et, outcome) ==
    LET who == Beneficiary(et, outcome)
        net == NetAmount(et)
    IN  /\ transfers' = [transfers EXCEPT ![w] = [et EXCEPT !.state = outcome]]
        /\ pendingSettlements' = [pendingSettlements EXCEPT ![w] = NoSettlement]
        /\ SubHeld(et.token, et.afa)
        /\ RecordPaid(et.token, outcome, net)
        /\ claimable' = [claimable EXCEPT ![IntKey(w)][who] = @ + net]
        /\ UNCHANGED totalFees

OutcomeOf(isRelease) == IF isRelease THEN "released" ELSE "refunded"

\* post-appeal-bond: the balance is net of the protocol's cut, the custody total
\* is gross.
PostBond(w, who, amount) ==
    LET token == transfers[w].token
        fee   == ComputeFee(amount, ctx.appealBondFeeBps)
    IN  /\ bondBalances' = [bondBalances EXCEPT ![w][who] = @ + (amount - fee)]
        /\ bondFees' = [bondFees EXCEPT ![token] = @ + fee]
        /\ totalBondsPosted' = [totalBondsPosted EXCEPT ![token] = @ + amount]
        /\ totalHeld' = [totalHeld EXCEPT ![token] = @ + amount]
        /\ UNCHANGED <<totalFees, totalReleased, totalRefunded, claimable>>

\* distribute-slashed-funds on the three reserves.
Credit(reserves, amount, bounty) ==
    LET split == SlashSplit(amount, bounty)
    IN  [ insurance |-> reserves.insurance + split.insurance,
          protocol  |-> reserves.protocol + split.protocol,
          retained  |-> reserves.retained + split.retained ]

\* A resolver never loses more than it has staked.
SlashableUncapped(r, amount) == amount     \* mutant

Slashable(r, amount) == Least(stakes[r], amount)

TakeStake(r, amount) ==
    /\ stakes' = [stakes EXCEPT ![r] = @ - Slashable(r, amount)]
    /\ staked' = staked \cup {r}
    /\ slashTotal' = [slashTotal EXCEPT ![r] = @ + Slashable(r, amount)]

\* slash-resolver-stake: the slash is distributed, and a bounty paid to the
\* challenger when there is one.
SlashStake(r, amount, challenger, bountyBps) ==
    LET taken  == Slashable(r, amount)
        bounty == ComputeFee(taken, bountyBps)
    IN  /\ TakeStake(r, amount)
        /\ distribution' = Credit(distribution, taken, bounty)
        /\ bounties' = IF challenger # NoAddr
                       THEN [bounties EXCEPT ![challenger] = @ + bounty]
                       ELSE bounties

=============================================================================

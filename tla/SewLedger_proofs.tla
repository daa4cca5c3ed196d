--------------------------- MODULE SewLedger_proofs ---------------------------
(***************************************************************************)
(* The accounting identities of the contract, for any number of escrows,    *)
(* tokens, parties and resolvers: the vault holds exactly what it owes, the *)
(* totals are what the settled escrows were worth, the reserves hold what   *)
(* was slashed and forfeited, and the kernel's own checks of the ledger      *)
(* never fail in the contexts it is made for.                               *)
(*                                                                          *)
(* Each identity equates counters with sums over all escrows.  A step works *)
(* on one escrow, so it changes one term of each sum; the proofs say what   *)
(* one escrow contributes to a sum, that the contributions of the others     *)
(* stay, and that the counters move by what the one escrow's contribution    *)
(* does.                                                                    *)
(***************************************************************************)
EXTENDS SewDispute_proofs, SewSlashing_proofs

-----------------------------------------------------------------------------
(* How funds move: a step on an escrow opens it, settles it, takes a bond on it *)
(* or moves nothing.                                                           *)

Standing(w) == IF Live(w) THEN "live" ELSE transfers[w].state

\* The step leaves what escrow w is worth, and to whom, as it was.
SameFunds(w) ==
    /\ Standing(w)' = Standing(w)
    /\ transfers'[w].token = transfers[w].token
    /\ transfers'[w].afa = transfers[w].afa

MovesNothing(w) ==
    /\ SameFunds(w)
    /\ bondBalances'[w] = bondBalances[w]
    /\ disputeLevels'[w] = disputeLevels[w]
    /\ UNCHANGED fundVars

Opens(w) ==
    /\ ~Exists(w)
    /\ transfers'[w].state = "pending"
    /\ totalHeld' = [totalHeld EXCEPT ![transfers'[w].token] = @ + transfers'[w].afa]
    /\ UNCHANGED <<totalReleased, totalRefunded, disputeLevels, bondVars>>

Settles(w, outcome) ==
    /\ Live(w)
    /\ transfers'[w].state = outcome
    /\ transfers'[w].token = transfers[w].token
    /\ transfers'[w].afa = transfers[w].afa
    /\ SubHeld(transfers[w].token, transfers[w].afa)
    /\ RecordPaid(transfers[w].token, outcome, NetAmount(transfers[w]))
    /\ UNCHANGED <<disputeLevels, bondVars>>

TakesBond(w, who, amount) ==
    /\ transfers[w].state = "disputed"
    /\ SameFunds(w)
    /\ amount \in {AppealBond(transfers[w].afa, ctx), ChallengeBond(transfers[w].afa, ctx)}
    /\ PostBond(w, who, amount)
    /\ disputeLevels'[w] = disputeLevels[w] + 1

FundsMove(w) ==
    \/ MovesNothing(w)
    \/ Opens(w)
    \/ \E outcome \in {"released", "refunded"} : Settles(w, outcome)
    \/ \E who \in Addr, amount \in Nat : TakesBond(w, who, amount)

LEMMA NextIdUnique ==
    ASSUME NEW v \in Workflows, NEW w \in Workflows, IsNextId(v), IsNextId(w)
    PROVE  v = w /\ ~Exists(w)
<1>1. v \in Nat /\ w \in Nat
    BY DEF Workflows
<1>2. ~Exists(v) /\ ~Exists(w)
    BY <1>1 DEF IsNextId
<1>3. ~(v < w) /\ ~(w < v)
    BY <1>2 DEF IsNextId
<1> QED
    BY <1>1, <1>2, <1>3

LEMMA CreationOpens ==
    ASSUME DisputeInv, NEW o \in Orders, NEW w \in Workflows, CreateEscrow(o), IsNextId(w)
    PROVE  Opens(w)
<1> DEFINE fee == ComputeFee(o.amount, ctx.feeBps)
           et  == [ state |-> "pending", from |-> o.from, to |-> o.to,
                    token |-> o.token, afa |-> o.amount - fee, fee |-> fee,
                    resolver |-> IF o.custom # NoAddr THEN o.custom ELSE ctx.resolver,
                    autoRelease |-> DelayedTime(ctx.autoReleaseDelay),
                    autoCancel |-> DelayedTime(ctx.autoCancelDelay),
                    senderStatus |-> "none", recipientStatus |-> "none" ]
<1>1. PICK v \in Workflows :
          /\ IsNextId(v)
          /\ transfers' = [transfers EXCEPT ![v] = et]
          /\ totalHeld' = [totalHeld EXCEPT ![o.token] = @ + (o.amount - fee)]
          /\ UNCHANGED <<roundVars, totalReleased, totalRefunded, bondVars>>
    BY DEF CreateEscrow
<1>2. v = w /\ ~Exists(w)
    BY <1>1, NextIdUnique
<1>3. et.state = "pending" /\ et.token = o.token /\ et.afa = o.amount - fee
    OBVIOUS
<1> HIDE DEF et, fee
<1>4. transfers'[w] = et
    BY <1>1, <1>2 DEF DisputeInv, TypeInv, EscrowType
<1> QED
    BY <1>1, <1>2, <1>3, <1>4 DEF Opens, roundVars

\* A settlement through Finalize, of the escrow as it is or as its parties just
\* agreed to cancel it.
LEMMA FinalizeSettles ==
    ASSUME DisputeInv, NEW w \in Workflows, Live(w), NEW et \in Transfer,
           NEW outcome, Finalize(w, et, outcome),
           et.token = transfers[w].token, et.afa = transfers[w].afa,
           UNCHANGED <<disputeLevels, bondVars>>
    PROVE  Settles(w, outcome)
<1>1. transfers'[w] = [et EXCEPT !.state = outcome]
    BY DEF Finalize, DisputeInv, TypeInv, EscrowType
<1>2. NetAmount(et) = NetAmount(transfers[w])
    BY DEF NetAmount
<1> QED
    BY <1>1, <1>2 DEF Finalize, Settles, Transfer

LEMMA BondAmounts ==
    ASSUME DisputeInv, NEW w \in Workflows
    PROVE  /\ AppealBond(transfers[w].afa, ctx) \in Nat
           /\ ChallengeBond(transfers[w].afa, ctx) \in Nat
<1>1. transfers[w].afa \in Nat
    BY DEF DisputeInv, TypeInv, EscrowType, Transfer
<1>2. /\ ctx.appealBondAmount \in Nat
      /\ ctx.appealBondBps \in Bps /\ ctx.challengeBondBps \in Bps
    BY DEF DisputeInv, TypeInv, ClockType, Context
<1>3. /\ ComputeFee(transfers[w].afa, ctx.appealBondBps) \in Nat
      /\ ComputeFee(transfers[w].afa, ctx.challengeBondBps) \in Nat
    BY <1>1, <1>2, FeeIsAPart
<1> QED
    BY <1>2, <1>3 DEF AppealBond, ChallengeBond

LEMMA PartyMovesFunds ==
    ASSUME DisputeInv, NEW w \in Workflows, NEW a \in Addr, PartyAction(w, a)
    PROVE  FundsMove(w)
<1>1. /\ transfers \in [Workflows -> Transfer]
      /\ transfers[w] \in Transfer
      /\ disputeLevels \in [Workflows -> Levels]
    BY DEF DisputeInv, TypeInv, EscrowType, RoundType
<1>2. CASE RaiseDispute(w, a)
    <2>1. /\ transfers'[w] = Raised(transfers[w], a)
          /\ transfers[w].state = "pending"
          /\ UNCHANGED <<disputeLevels, ledgerVars, bondVars>>
        BY <1>1, <1>2 DEF RaiseDispute
    <2>2. /\ transfers'[w].state = "disputed"
          /\ transfers'[w].token = transfers[w].token
          /\ transfers'[w].afa = transfers[w].afa
        BY <1>1, <2>1 DEF Raised, Transfer
    <2> QED
        BY <2>1, <2>2 DEF FundsMove, MovesNothing, SameFunds, Standing, Live, LiveStates,
                          fundVars, ledgerVars, bondVars
<1>3. CASE Release(w, a)
    BY <1>1, <1>3, FinalizeSettles
    DEF Release, SettledFromPending, FundsMove, Live, LiveStates
<1>4. ASSUME NEW agreed \in Transfer, transfers[w].state = "pending",
             agreed.state = "pending", agreed.token = transfers[w].token,
             agreed.afa = transfers[w].afa, AgreeToCancel(w, agreed)
      PROVE  FundsMove(w)
    <2>1. CASE Finalize(w, agreed, "refunded") /\ SettledFromPending
        BY <1>4, <2>1, FinalizeSettles DEF SettledFromPending, FundsMove, Live, LiveStates
    <2>2. CASE /\ transfers' = [transfers EXCEPT ![w] = agreed]
               /\ UNCHANGED <<roundVars, ledgerVars, bondVars>>
        BY <1>1, <1>4, <2>2
        DEF FundsMove, MovesNothing, SameFunds, Standing, Live, LiveStates, fundVars,
            ledgerVars, bondVars, roundVars
    <2> QED
        BY <1>4, <2>1, <2>2 DEF AgreeToCancel
<1>5. CASE SenderCancel(w, a)
    <2> DEFINE agreed == [transfers[w] EXCEPT !.senderStatus = "agree-to-cancel"]
    <2>1. /\ agreed \in Transfer /\ agreed.state = transfers[w].state
          /\ agreed.token = transfers[w].token /\ agreed.afa = transfers[w].afa
        BY <1>1 DEF Transfer, PartyStatuses
    <2> QED
        BY <1>4, <1>5, <2>1 DEF SenderCancel
<1>6. CASE RecipientCancel(w, a)
    <2> DEFINE agreed == [transfers[w] EXCEPT !.recipientStatus = "agree-to-cancel"]
    <2>1. /\ agreed \in Transfer /\ agreed.state = transfers[w].state
          /\ agreed.token = transfers[w].token /\ agreed.afa = transfers[w].afa
        BY <1>1 DEF Transfer, PartyStatuses
    <2> QED
        BY <1>4, <1>6, <2>1 DEF RecipientCancel
<1>7. ASSUME NEW bond \in {AppealBond(transfers[w].afa, ctx), ChallengeBond(transfers[w].afa, ctx)},
             transfers[w].state = "disputed", MoveUp(w, a, bond)
      PROVE  FundsMove(w)
    <2>1. /\ transfers' = [transfers EXCEPT ![w].resolver = ctx.levels[disputeLevels[w] + 1]]
          /\ disputeLevels' = [disputeLevels EXCEPT ![w] = disputeLevels[w] + 1]
          /\ PostBond(w, a, bond)
        BY <1>7 DEF MoveUp
    <2>2. /\ transfers'[w].state = transfers[w].state
          /\ transfers'[w].token = transfers[w].token
          /\ transfers'[w].afa = transfers[w].afa
          /\ disputeLevels'[w] = disputeLevels[w] + 1
        BY <1>1, <2>1 DEF Transfer
    <2>3. SameFunds(w)
        BY <2>2 DEF SameFunds, Standing, Live
    <2> QED
        BY <1>7, <2>1, <2>2, <2>3, BondAmounts DEF FundsMove, TakesBond
<1> QED
    BY <1>2, <1>3, <1>5, <1>6, <1>7
    DEF PartyAction, EscalateDispute, ChallengeResolution, Appealable

LEMMA StepMovesFunds ==
    ASSUME DisputeInv, NEW w \in Workflows, EscrowStep(w)
    PROVE  FundsMove(w)
<1>1. /\ transfers \in [Workflows -> Transfer]
      /\ transfers[w] \in Transfer
    BY DEF DisputeInv, TypeInv, EscrowType
<1>2. \A b : OutcomeOf(b) \in {"released", "refunded"}
    BY DEF OutcomeOf
<1>3. ASSUME NEW a \in Addr, ResolverAction(w, a)
      PROVE  FundsMove(w)
    <2>1. PICK b \in BOOLEAN : ExecuteResolution(w, a, b)
        BY <1>3 DEF ResolverAction
    <2>2. transfers[w].state = "disputed" /\ UNCHANGED <<disputeLevels, bondVars>>
        BY <2>1 DEF ExecuteResolution, Decidable
    <2>3. CASE Finalize(w, transfers[w], OutcomeOf(b))
        BY <1>1, <1>2, <2>2, <2>3, FinalizeSettles DEF FundsMove, Live, LiveStates
    <2>4. CASE UNCHANGED <<transfers, ledgerVars>>
        BY <2>2, <2>4 DEF FundsMove, MovesNothing, SameFunds, Standing, Live, fundVars,
                          ledgerVars, bondVars
    <2> QED
        BY <2>1, <2>3, <2>4 DEF ExecuteResolution
<1>4. ASSUME NEW r \in Replacements, RotateDisputeResolver(w, r)
      PROVE  FundsMove(w)
    <2>1. /\ transfers'[w] = [transfers[w] EXCEPT !.resolver = r]
          /\ UNCHANGED <<roundVars, ledgerVars, bondVars>>
        BY <1>1, <1>4 DEF RotateDisputeResolver
    <2>2. /\ transfers'[w].state = transfers[w].state
          /\ transfers'[w].token = transfers[w].token
          /\ transfers'[w].afa = transfers[w].afa
        BY <1>1, <2>1 DEF Transfer
    <2> QED
        BY <2>1, <2>2 DEF FundsMove, MovesNothing, SameFunds, Standing, Live, fundVars,
                          ledgerVars, bondVars, roundVars
<1>5. CASE KeeperAction(w)
    <2>1. ASSUME NEW outcome \in {"released", "refunded"}, Live(w),
                 Finalize(w, transfers[w], outcome), UNCHANGED <<disputeLevels, bondVars>>
          PROVE  FundsMove(w)
        BY <1>1, <2>1, FinalizeSettles DEF FundsMove
    <2> QED
        BY <1>2, <1>5, <2>1
        DEF KeeperAction, AutomateTimedActions, SettlePending, ExecutePendingSettlement,
            AutoCancelDisputed, SettledFromPending, PendingExecutable, AutoReleaseDue,
            AutoCancelDue, DisputeTimeoutExceeded, Live, LiveStates
<1> QED
    BY <1>3, <1>4, <1>5, CreationOpens, PartyMovesFunds DEF EscrowStep, FundsMove

-----------------------------------------------------------------------------
(* What one escrow contributes to the sums of token t. *)

LiveShare(w, t) == IF Live(w) /\ transfers[w].token = t THEN transfers[w].afa ELSE 0

EverShare(w, t) == IF Exists(w) /\ transfers[w].token = t THEN transfers[w].afa ELSE 0

BondShare(w, t) == IF Exists(w) /\ transfers[w].token = t THEN BondsOf(w) ELSE 0

PaidShare(w, t, outcome) ==
    IF transfers[w].state = outcome /\ transfers[w].token = t
    THEN NetAmount(transfers[w]) ELSE 0

\* The amounts and bonds of an escrow are numbers, and so are their sums.
SharesAreNat ==
    \A w \in Workflows :
        /\ Amounts[w] \in Nat /\ Amounts[w] = transfers[w].afa
        /\ NetAmounts[w] \in Nat /\ NetAmounts[w] = NetAmount(transfers[w])
        /\ BondSums[w] \in Nat /\ BondSums[w] = BondsOf(w)
        /\ \A a \in Addr : bondBalances[w][a] \in Nat

LEMMA ShareTypes == DisputeInv => SharesAreNat
<1> SUFFICES ASSUME DisputeInv, NEW w \in Workflows
             PROVE  /\ Amounts[w] \in Nat /\ Amounts[w] = transfers[w].afa
                    /\ NetAmounts[w] \in Nat /\ NetAmounts[w] = NetAmount(transfers[w])
                    /\ BondSums[w] \in Nat /\ BondSums[w] = BondsOf(w)
                    /\ \A a \in Addr : bondBalances[w][a] \in Nat
    BY DEF SharesAreNat
<1>1. transfers[w] \in Transfer /\ transfers[w].afa \in Nat
    BY DEF DisputeInv, TypeInv, EscrowType, Transfer
<1>2. NetAmount(transfers[w]) \in Nat
    BY <1>1, NetIsNat DEF DisputeInv
<1>3. \A a \in Addr : bondBalances[w][a] \in Nat
    BY DEF DisputeInv, TypeInv, BondType
<1>4. BondsOf(w) \in Nat
    BY <1>3, AddrAssumption, SumNat DEF BondsOf
<1> QED
    BY <1>1, <1>2, <1>3, <1>4 DEF Amounts, NetAmounts, BondSums

LEMMA NextShareTypes == DisputeInv' => SharesAreNat'
BY ShareTypes, PTL

\* The step leaves the worth and the bonds of every escrow but w alone.
OthersKeepFunds(w) ==
    \A v \in Workflows \ {w} : SameFunds(v) /\ bondBalances'[v] = bondBalances[v]

LEMMA OthersSameFunds ==
    ASSUME NEW w, OthersSame(w)
    PROVE  OthersKeepFunds(w)
BY DEF OthersSame, SameEscrow, OthersKeepFunds, SameFunds, Standing, Live

LEMMA KeptTerms ==
    ASSUME DisputeInv, DisputeInv', ctx' = ctx, NEW v \in Workflows,
           SameFunds(v), bondBalances'[v] = bondBalances[v]
    PROVE  /\ Live(v)' <=> Live(v)
           /\ Exists(v)' <=> Exists(v)
           /\ \A outcome \in {"released", "refunded"} :
                  transfers'[v].state = outcome <=> transfers[v].state = outcome
           /\ transfers'[v].token = transfers[v].token
           /\ transfers'[v].afa = transfers[v].afa
           /\ NetAmount(transfers[v])' = NetAmount(transfers[v])
           /\ BondsOf(v)' = BondsOf(v)
<1>1. /\ Live(v)' <=> transfers'[v].state \in {"pending", "disputed"}
      /\ Live(v) <=> transfers[v].state \in {"pending", "disputed"}
    BY DEF Live, LiveStates
<1>2. (IF Live(v)' THEN "live" ELSE transfers'[v].state)
          = (IF Live(v) THEN "live" ELSE transfers[v].state)
    BY DEF SameFunds, Standing
<1>3. transfers'[v].token = transfers[v].token /\ transfers'[v].afa = transfers[v].afa
    BY DEF SameFunds
<1>4. transfers'[v].state # "live" /\ transfers[v].state # "live"
    BY DEF DisputeInv, TypeInv, EscrowType, Transfer, EscrowStates
<1>5. NetAmount(transfers[v])' = NetAmount(transfers[v])
    BY <1>3 DEF NetAmount, ComputeFee
<1>6. BondsOf(v)' = BondsOf(v)
    BY DEF BondsOf
<1> QED
    BY <1>1, <1>2, <1>3, <1>4, <1>5, <1>6 DEF Exists

LEMMA OneTermMoves ==
    ASSUME NEW w \in Workflows, NEW f, NEW g,
           NEW S \in SUBSET Workflows, NEW R \in SUBSET Workflows,
           \A v \in Workflows : f[v] \in Nat /\ g[v] \in Nat,
           \A v \in Workflows \ {w} : (v \in R <=> v \in S) /\ g[v] = f[v]
    PROVE  SumFunctionOnSet(g, R) - (IF w \in R THEN g[w] ELSE 0)
               = SumFunctionOnSet(f, S) - (IF w \in S THEN f[w] ELSE 0)
<1>1. /\ \A y \in S : f[y] \in Int
      /\ \A y \in R : g[y] \in Int
      /\ \A y \in Workflows \ {w} : (y \in R <=> y \in S) /\ (y \in S => g[y] = f[y])
    OBVIOUS
<1> QED
    BY <1>1, WorkflowsFinite, SumChange

\* Each sum over the escrows changes by what escrow w's contribution does.
LEMMA SumsMove ==
    ASSUME DisputeInv, DisputeInv', NEW w \in Workflows, OthersKeepFunds(w), ctx' = ctx,
           NEW t \in Tokens
    PROVE  /\ EscrowedLive(t)' - LiveShare(w, t)' = EscrowedLive(t) - LiveShare(w, t)
           /\ EscrowedEver(t)' - EverShare(w, t)' = EscrowedEver(t) - EverShare(w, t)
           /\ BondsHeld(t)' - BondShare(w, t)' = BondsHeld(t) - BondShare(w, t)
           /\ \A outcome \in {"released", "refunded"} :
                  Paid(t, outcome)' - PaidShare(w, t, outcome)'
                      = Paid(t, outcome) - PaidShare(w, t, outcome)
<1>1. \A v \in Workflows :
          /\ Amounts[v] \in Nat /\ Amounts'[v] \in Nat
          /\ NetAmounts[v] \in Nat /\ NetAmounts'[v] \in Nat
          /\ BondSums[v] \in Nat /\ BondSums'[v] \in Nat
    BY ShareTypes, NextShareTypes DEF SharesAreNat
<1>2. \A v \in Workflows \ {w} :
          /\ Live(v)' <=> Live(v)
          /\ Exists(v)' <=> Exists(v)
          /\ \A outcome \in {"released", "refunded"} :
                 transfers'[v].state = outcome <=> transfers[v].state = outcome
          /\ transfers'[v].token = transfers[v].token
          /\ Amounts'[v] = Amounts[v]
          /\ NetAmounts'[v] = NetAmounts[v]
          /\ BondSums'[v] = BondSums[v]
    BY KeptTerms DEF OthersKeepFunds, Amounts, NetAmounts, BondSums
<1>3. /\ Amounts[w] = transfers[w].afa /\ Amounts'[w] = transfers'[w].afa
      /\ NetAmounts[w] = NetAmount(transfers[w]) /\ NetAmounts'[w] = NetAmount(transfers[w])'
      /\ BondSums[w] = BondsOf(w) /\ BondSums'[w] = BondsOf(w)'
    BY DEF Amounts, NetAmounts, BondSums
<1> DEFINE live == {v \in OfToken(t) : Live(v)}
           ever == OfToken(t)
           paid(outcome) == {v \in OfToken(t) : transfers[v].state = outcome}
<1>4. /\ live \in SUBSET Workflows /\ ever \in SUBSET Workflows
      /\ live' \in SUBSET Workflows /\ ever' \in SUBSET Workflows
      /\ \A outcome : paid(outcome) \in SUBSET Workflows /\ paid(outcome)' \in SUBSET Workflows
    BY DEF OfToken
<1>5. \A v \in Workflows \ {w} :
          /\ v \in live' <=> v \in live
          /\ v \in ever' <=> v \in ever
          /\ \A outcome \in {"released", "refunded"} :
                 v \in paid(outcome)' <=> v \in paid(outcome)
    BY <1>2 DEF OfToken
<1>6. /\ w \in live <=> Live(w) /\ transfers[w].token = t
      /\ w \in live' <=> Live(w)' /\ transfers'[w].token = t
      /\ w \in ever <=> Exists(w) /\ transfers[w].token = t
      /\ w \in ever' <=> Exists(w)' /\ transfers'[w].token = t
      /\ \A outcome \in {"released", "refunded"} :
             /\ w \in paid(outcome) <=> transfers[w].state = outcome /\ transfers[w].token = t
             /\ w \in paid(outcome)' <=> transfers'[w].state = outcome /\ transfers'[w].token = t
    BY DEF OfToken, Live, LiveStates, Exists
<1> HIDE DEF live, ever, paid
<1>7. SumFunctionOnSet(Amounts', live') - (IF w \in live' THEN Amounts'[w] ELSE 0)
          = SumFunctionOnSet(Amounts, live) - (IF w \in live THEN Amounts[w] ELSE 0)
    BY <1>1, <1>2, <1>4, <1>5, OneTermMoves
<1>8. SumFunctionOnSet(Amounts', ever') - (IF w \in ever' THEN Amounts'[w] ELSE 0)
          = SumFunctionOnSet(Amounts, ever) - (IF w \in ever THEN Amounts[w] ELSE 0)
    BY <1>1, <1>2, <1>4, <1>5, OneTermMoves
<1>9. SumFunctionOnSet(BondSums', ever') - (IF w \in ever' THEN BondSums'[w] ELSE 0)
          = SumFunctionOnSet(BondSums, ever) - (IF w \in ever THEN BondSums[w] ELSE 0)
    BY <1>1, <1>2, <1>4, <1>5, OneTermMoves
<1>10. ASSUME NEW outcome \in {"released", "refunded"}
       PROVE  SumFunctionOnSet(NetAmounts', paid(outcome)')
                  - (IF w \in paid(outcome)' THEN NetAmounts'[w] ELSE 0)
              = SumFunctionOnSet(NetAmounts, paid(outcome))
                  - (IF w \in paid(outcome) THEN NetAmounts[w] ELSE 0)
    BY <1>1, <1>2, <1>4, <1>5, OneTermMoves
<1> QED
    BY <1>3, <1>6, <1>7, <1>8, <1>9, <1>10
    DEF live, ever, paid, EscrowedLive, EscrowedEver, BondsHeld, Paid, LiveShare, EverShare,
        BondShare, PaidShare

LEMMA SumTypes ==
    ASSUME DisputeInv, NEW t \in Tokens
    PROVE  /\ EscrowedLive(t) \in Nat /\ EscrowedEver(t) \in Nat /\ BondsHeld(t) \in Nat
           /\ \A outcome : Paid(t, outcome) \in Nat
<1>1. \A v \in Workflows : Amounts[v] \in Nat /\ NetAmounts[v] \in Nat /\ BondSums[v] \in Nat
    BY ShareTypes DEF SharesAreNat
<1>2. \A S \in SUBSET Workflows :
          /\ SumFunctionOnSet(Amounts, S) \in Nat
          /\ SumFunctionOnSet(NetAmounts, S) \in Nat
          /\ SumFunctionOnSet(BondSums, S) \in Nat
    BY <1>1, WorkflowsFinite, FS_Subset, SumNat
<1> QED
    BY <1>2 DEF EscrowedLive, EscrowedEver, BondsHeld, Paid, OfToken

-----------------------------------------------------------------------------
(* The counters of token t move by what the contribution of escrow w does. *)

KeepsBooks(w, t) ==
    /\ totalHeld'[t] - totalHeld[t]
           = (LiveShare(w, t)' - LiveShare(w, t)) + (BondShare(w, t)' - BondShare(w, t))
               + (bondFees'[t] - bondFees[t])
    /\ totalBondsPosted'[t] - totalBondsPosted[t]
           = (BondShare(w, t)' - BondShare(w, t)) + (bondFees'[t] - bondFees[t])
    /\ totalReleased'[t] - totalReleased[t]
           = PaidShare(w, t, "released")' - PaidShare(w, t, "released")
    /\ totalRefunded'[t] - totalRefunded[t]
           = PaidShare(w, t, "refunded")' - PaidShare(w, t, "refunded")

\* Where the token takes no tax, a settlement pays out all an escrow holds.
KeepsWorth(w, t) ==
    ctx.fotBps[t] = 0 =>
        LiveShare(w, t)' + PaidShare(w, t, "released")' + PaidShare(w, t, "refunded")'
                - EverShare(w, t)'
            = LiveShare(w, t) + PaidShare(w, t, "released") + PaidShare(w, t, "refunded")
                - EverShare(w, t)

LEMMA CounterTypes ==
    ASSUME DisputeInv, NEW t \in Tokens
    PROVE  /\ totalHeld[t] \in Int /\ bondFees[t] \in Nat /\ totalBondsPosted[t] \in Nat
           /\ totalReleased[t] \in Nat /\ totalRefunded[t] \in Nat
BY DEF DisputeInv, TypeInv, LedgerType, BondType

LEMMA SameShares ==
    ASSUME DisputeInv, DisputeInv', ctx' = ctx, NEW w \in Workflows, NEW t \in Tokens,
           SameFunds(w)
    PROVE  /\ LiveShare(w, t)' = LiveShare(w, t)
           /\ EverShare(w, t)' = EverShare(w, t)
           /\ PaidShare(w, t, "released")' = PaidShare(w, t, "released")
           /\ PaidShare(w, t, "refunded")' = PaidShare(w, t, "refunded")
           /\ bondBalances'[w] = bondBalances[w] => BondShare(w, t)' = BondShare(w, t)
<1>1. /\ Live(w)' <=> Live(w)
      /\ Exists(w)' <=> Exists(w)
      /\ \A outcome \in {"released", "refunded"} :
             transfers'[w].state = outcome <=> transfers[w].state = outcome
      /\ transfers'[w].token = transfers[w].token
      /\ transfers'[w].afa = transfers[w].afa
      /\ NetAmount(transfers[w])' = NetAmount(transfers[w])
    <2>1. transfers'[w].state \in EscrowStates /\ transfers[w].state \in EscrowStates
        BY DEF DisputeInv, TypeInv, EscrowType, Transfer
    <2>2. /\ Live(w)' <=> transfers'[w].state \in {"pending", "disputed"}
          /\ Live(w) <=> transfers[w].state \in {"pending", "disputed"}
        BY DEF Live, LiveStates
    <2>3. transfers'[w].token = transfers[w].token /\ transfers'[w].afa = transfers[w].afa
        BY DEF SameFunds
    <2>4. NetAmount(transfers[w])' = NetAmount(transfers[w])
        BY <2>3 DEF NetAmount, ComputeFee
    <2> QED
        BY <2>1, <2>2, <2>3, <2>4 DEF SameFunds, Standing, EscrowStates, Exists
<1>2. bondBalances'[w] = bondBalances[w] => BondsOf(w)' = BondsOf(w)
    BY DEF BondsOf
<1> QED
    BY <1>1, <1>2 DEF LiveShare, EverShare, PaidShare, BondShare

LEMMA NothingKeepsBooks ==
    ASSUME DisputeInv, DisputeInv', ctx' = ctx, NEW w \in Workflows, NEW t \in Tokens,
           MovesNothing(w)
    PROVE  KeepsBooks(w, t) /\ KeepsWorth(w, t)
<1>1. LiveShare(w, t) \in Nat /\ BondShare(w, t) \in Nat
      /\ PaidShare(w, t, "released") \in Nat /\ PaidShare(w, t, "refunded") \in Nat
    BY ShareTypes DEF SharesAreNat, LiveShare, BondShare, PaidShare
<1>2. UNCHANGED fundVars
    BY DEF MovesNothing
<1> QED
    BY <1>1, <1>2, SameShares, CounterTypes DEF MovesNothing, fundVars, KeepsBooks, KeepsWorth

LEMMA OpeningKeepsBooks ==
    ASSUME DisputeInv, DisputeInv', ctx' = ctx, NEW w \in Workflows, NEW t \in Tokens, Opens(w)
    PROVE  KeepsBooks(w, t) /\ KeepsWorth(w, t)
<1> DEFINE token == transfers'[w].token
           afa   == transfers'[w].afa
<1>1. transfers[w].state = "none" /\ transfers'[w].state = "pending"
    BY DEF Opens, Exists
<1>2. BondsOf(w) = 0 /\ BondsOf(w)' = BondsOf(w)
    <2>1. \A a \in Addr : bondBalances[w][a] = 0
        BY <1>1, FreshRecords
    <2> QED
        BY <2>1, AddrAssumption, SumZero DEF BondsOf, Opens, bondVars
<1>3. afa \in Nat /\ token \in Tokens
    BY DEF DisputeInv, TypeInv, EscrowType, Transfer
<1>4. /\ LiveShare(w, t) = 0
      /\ LiveShare(w, t)' = IF token = t THEN afa ELSE 0
      /\ EverShare(w, t) = 0
      /\ EverShare(w, t)' = IF token = t THEN afa ELSE 0
    BY <1>1 DEF LiveShare, EverShare, Live, LiveStates, Exists
<1>5. /\ BondShare(w, t) = 0 /\ BondShare(w, t)' = 0
      /\ PaidShare(w, t, "released") = 0 /\ PaidShare(w, t, "released")' = 0
      /\ PaidShare(w, t, "refunded") = 0 /\ PaidShare(w, t, "refunded")' = 0
    BY <1>1, <1>2 DEF BondShare, PaidShare
<1>6. /\ totalHeld' = [totalHeld EXCEPT ![token] = @ + afa]
      /\ UNCHANGED <<totalReleased, totalRefunded, bondVars>>
    BY DEF Opens
<1>7. totalHeld \in [Tokens -> Int]
    BY DEF DisputeInv, TypeInv, LedgerType
<1> HIDE DEF token, afa
<1> QED
    BY <1>3, <1>4, <1>5, <1>6, <1>7, CounterTypes DEF KeepsBooks, KeepsWorth, bondVars

LEMMA SettlementKeepsBooks ==
    ASSUME DisputeInv, DisputeInv', ctx' = ctx, NEW w \in Workflows, NEW t \in Tokens,
           NEW outcome \in {"released", "refunded"}, Settles(w, outcome)
    PROVE  KeepsBooks(w, t) /\ KeepsWorth(w, t)
<1> DEFINE token == transfers[w].token
           afa   == transfers[w].afa
           net   == NetAmount(transfers[w])
<1>1. transfers[w].state \in {"pending", "disputed"} /\ transfers'[w].state = outcome
    BY DEF Settles, Live, LiveStates
<1>2. transfers'[w].token = token /\ transfers'[w].afa = afa /\ NetAmount(transfers[w])' = net
    BY DEF Settles, NetAmount, ComputeFee
<1>3. afa \in Nat /\ token \in Tokens /\ net \in Nat
    BY ShareTypes DEF SharesAreNat, DisputeInv, TypeInv, EscrowType, Transfer
<1>4. ctx.fotBps[t] = 0 /\ token = t => net = afa
    BY <1>3 DEF NetAmount, ComputeFee, FeeDenominator
<1>5. /\ LiveShare(w, t) = IF token = t THEN afa ELSE 0
      /\ LiveShare(w, t)' = 0
      /\ EverShare(w, t) = IF token = t THEN afa ELSE 0
      /\ EverShare(w, t)' = IF token = t THEN afa ELSE 0
    BY <1>1, <1>2 DEF LiveShare, EverShare, Live, LiveStates, Exists
<1>6. BondShare(w, t)' = BondShare(w, t) /\ BondShare(w, t) \in Nat
    BY <1>1, <1>2, ShareTypes DEF SharesAreNat, BondShare, BondsOf, Exists, Settles, bondVars
<1>7. /\ PaidShare(w, t, "released") = 0 /\ PaidShare(w, t, "refunded") = 0
      /\ PaidShare(w, t, "released")' = IF outcome = "released" /\ token = t THEN net ELSE 0
      /\ PaidShare(w, t, "refunded")' = IF outcome = "refunded" /\ token = t THEN net ELSE 0
    BY <1>1, <1>2 DEF PaidShare
<1>8. /\ totalHeld' = [totalHeld EXCEPT ![token] = @ - afa]
      /\ totalReleased' = IF outcome = "released"
                          THEN [totalReleased EXCEPT ![token] = @ + net] ELSE totalReleased
      /\ totalRefunded' = IF outcome = "refunded"
                          THEN [totalRefunded EXCEPT ![token] = @ + net] ELSE totalRefunded
      /\ UNCHANGED bondVars
    BY DEF Settles, SubHeld, RecordPaid
<1>9. /\ totalHeld \in [Tokens -> Int]
      /\ totalReleased \in [Tokens -> Nat] /\ totalRefunded \in [Tokens -> Nat]
    BY DEF DisputeInv, TypeInv, LedgerType
<1> HIDE DEF token, afa, net
<1>10. KeepsBooks(w, t)
    BY <1>3, <1>5, <1>6, <1>7, <1>8, <1>9, CounterTypes DEF KeepsBooks, bondVars
<1>11. KeepsWorth(w, t)
    BY <1>3, <1>4, <1>5, <1>7 DEF KeepsWorth
<1> QED
    BY <1>10, <1>11

\* What one address changes of a sum over all addresses.
LEMMA OneAddrMoves ==
    ASSUME NEW f \in [Addr -> Nat], NEW g \in [Addr -> Nat], NEW who \in Addr,
           \A y \in Addr \ {who} : g[y] = f[y]
    PROVE  /\ SumFunctionOnSet(f, Addr) \in Nat /\ SumFunctionOnSet(g, Addr) \in Nat
           /\ SumFunctionOnSet(g, Addr) = SumFunctionOnSet(f, Addr) + (g[who] - f[who])
<1>1. \A y \in Addr : f[y] \in Nat /\ g[y] \in Nat
    OBVIOUS
<1>2. /\ \A y \in Addr : f[y] \in Int
      /\ \A y \in Addr : g[y] \in Int
      /\ \A y \in Addr \ {who} : (y \in Addr <=> y \in Addr) /\ (y \in Addr => g[y] = f[y])
    BY <1>1
<1>3. SumFunctionOnSet(g, Addr) - (IF who \in Addr THEN g[who] ELSE 0)
          = SumFunctionOnSet(f, Addr) - (IF who \in Addr THEN f[who] ELSE 0)
    <2>1. Addr \in SUBSET Addr
        OBVIOUS
    <2> QED
        BY <1>2, <2>1, AddrAssumption, SumChange
<1>4. SumFunctionOnSet(f, Addr) \in Nat /\ SumFunctionOnSet(g, Addr) \in Nat
    BY <1>1, AddrAssumption, SumNat
<1> QED
    BY <1>1, <1>3, <1>4

LEMMA BondAdds ==
    ASSUME DisputeInv, DisputeInv', NEW w \in Workflows, NEW who \in Addr, NEW amount \in Nat,
           PostBond(w, who, amount)
    PROVE  BondsOf(w)' = BondsOf(w) + (amount - ComputeFee(amount, ctx.appealBondFeeBps))
<1> DEFINE fee == ComputeFee(amount, ctx.appealBondFeeBps)
           was == bondBalances[w]
           is  == bondBalances'[w]
<1>1. ctx.appealBondFeeBps \in Bps
    BY DEF DisputeInv, TypeInv, ClockType, Context
<1>2. fee \in Nat
    BY <1>1, FeeIsAPart
<1>3. was \in [Addr -> Nat] /\ is \in [Addr -> Nat] /\ is = [was EXCEPT ![who] = @ + (amount - fee)]
    BY DEF PostBond, DisputeInv, TypeInv, BondType
<1> HIDE DEF fee, was, is
<1>4. \A y \in Addr \ {who} : is[y] = was[y]
    BY <1>3
<1>5. is[who] = was[who] + (amount - fee)
    BY <1>3
<1>6. /\ SumFunctionOnSet(was, Addr) \in Nat
      /\ SumFunctionOnSet(is, Addr) = SumFunctionOnSet(was, Addr) + (is[who] - was[who])
    BY <1>3, <1>4, OneAddrMoves
<1>7. was[who] \in Nat /\ is[who] \in Nat
    BY <1>3
<1>8. SumFunctionOnSet(is, Addr) = SumFunctionOnSet(was, Addr) + (amount - fee)
    BY <1>2, <1>5, <1>6, <1>7
<1> QED
    BY <1>8 DEF BondsOf, was, is, fee

LEMMA BondKeepsBooks ==
    ASSUME DisputeInv, DisputeInv', ctx' = ctx, NEW w \in Workflows, NEW t \in Tokens,
           NEW who \in Addr, NEW amount \in Nat, TakesBond(w, who, amount)
    PROVE  KeepsBooks(w, t) /\ KeepsWorth(w, t)
<1> DEFINE token == transfers[w].token
           fee   == ComputeFee(amount, ctx.appealBondFeeBps)
<1>1. LiveShare(w, t) \in Nat /\ BondsOf(w) \in Nat
      /\ PaidShare(w, t, "released") \in Nat /\ PaidShare(w, t, "refunded") \in Nat
    BY ShareTypes DEF SharesAreNat, LiveShare, PaidShare
<1>2. token \in Tokens /\ fee \in Nat
    <2>1. ctx.appealBondFeeBps \in Bps
        BY DEF DisputeInv, TypeInv, ClockType, Context
    <2> QED
        BY <2>1, FeeIsAPart DEF DisputeInv, TypeInv, EscrowType, Transfer
<1>3. BondsOf(w)' = BondsOf(w) + (amount - fee)
    BY BondAdds DEF TakesBond
<1>4. transfers'[w].token = token /\ Exists(w) /\ Exists(w)'
    BY DEF TakesBond, SameFunds, Standing, Live, LiveStates, Exists
<1>5. /\ BondShare(w, t) = IF token = t THEN BondsOf(w) ELSE 0
      /\ BondShare(w, t)' = IF token = t THEN BondsOf(w) + (amount - fee) ELSE 0
    BY <1>3, <1>4 DEF BondShare
<1>6. /\ bondFees' = [bondFees EXCEPT ![token] = @ + fee]
      /\ totalBondsPosted' = [totalBondsPosted EXCEPT ![token] = @ + amount]
      /\ totalHeld' = [totalHeld EXCEPT ![token] = @ + amount]
      /\ UNCHANGED <<totalReleased, totalRefunded>>
    BY DEF TakesBond, PostBond
<1>7. /\ totalHeld \in [Tokens -> Int]
      /\ bondFees \in [Tokens -> Nat] /\ totalBondsPosted \in [Tokens -> Nat]
    BY DEF DisputeInv, TypeInv, LedgerType, BondType
<1>8. SameFunds(w)
    BY DEF TakesBond
<1> HIDE DEF token, fee
<1>9. KeepsWorth(w, t)
    BY <1>8, SameShares DEF KeepsWorth
<1>10. KeepsBooks(w, t)
    BY <1>1, <1>2, <1>5, <1>6, <1>7, <1>8, SameShares, CounterTypes DEF KeepsBooks
<1> QED
    BY <1>9, <1>10


\* The books of a token are balanced: its counters are what its escrows and their
\* bonds add up to.
BooksBalance(t) ==
    /\ totalHeld[t] = EscrowedLive(t) + BondsHeld(t) + bondFees[t]
    /\ totalBondsPosted[t] = BondsHeld(t) + bondFees[t]
    /\ totalReleased[t] = Paid(t, "released")
    /\ totalRefunded[t] = Paid(t, "refunded")

\* What was ever escrowed in an untaxed token is held or was paid out.
WorthBalances(t) ==
    ctx.fotBps[t] = 0 =>
        EscrowedLive(t) + Paid(t, "released") + Paid(t, "refunded") = EscrowedEver(t)

\* The bonds of a round are at most half of what the escrow holds.
SmallBonds ==
    /\ ctx.appealBondAmount = 0
    /\ 2 * ctx.appealBondBps <= FeeDenominator
    /\ 2 * ctx.challengeBondBps <= FeeDenominator

BondsCapped(w) == SmallBonds => 2 * BondsOf(w) <= disputeLevels[w] * transfers[w].afa

LedgerInv ==
    /\ DisputeInv
    /\ \A t \in Tokens : BooksBalance(t) /\ WorthBalances(t)
    /\ \A w \in Workflows : BondsCapped(w)

LEMMA InitLedger == Init => LedgerInv
<1> SUFFICES ASSUME Init
             PROVE  LedgerInv
    OBVIOUS
<1>1. DisputeInv
    BY InitDispute
<1>2. \A w \in Workflows : transfers[w].state = "none"
    BY DEF Init, WorldInit, NoTransfer
<1>3. \A w \in Workflows : BondsOf(w) = 0
    <2>1. ASSUME NEW w \in Workflows
          PROVE  BondsOf(w) = 0
        <3>1. \A a \in Addr : bondBalances[w][a] = 0
            BY DEF Init, WorldInit
        <3> QED
            BY <3>1, AddrAssumption, SumZero DEF BondsOf
    <2> QED
        BY <2>1
<1>4. ASSUME NEW t \in Tokens
      PROVE  BooksBalance(t) /\ WorthBalances(t)
    <2>1. OfToken(t) = {}
        BY <1>2 DEF OfToken, Exists
    <2>2. /\ EscrowedLive(t) = 0 /\ EscrowedEver(t) = 0 /\ BondsHeld(t) = 0
          /\ Paid(t, "released") = 0 /\ Paid(t, "refunded") = 0
        <3>1. /\ {w \in OfToken(t) : Live(w)} = {}
              /\ \A outcome : {w \in OfToken(t) : transfers[w].state = outcome} = {}
            BY <2>1
        <3> QED
            BY <2>1, <3>1, SumEmpty DEF EscrowedLive, EscrowedEver, BondsHeld, Paid
    <2>3. /\ totalHeld[t] = 0 /\ bondFees[t] = 0 /\ totalBondsPosted[t] = 0
          /\ totalReleased[t] = 0 /\ totalRefunded[t] = 0
        BY DEF Init, WorldInit
    <2> QED
        BY <2>2, <2>3 DEF BooksBalance, WorthBalances
<1>5. ASSUME NEW w \in Workflows
      PROVE  BondsCapped(w)
    <2>1. disputeLevels[w] = 0 /\ transfers[w].afa = 0
        BY DEF Init, WorldInit, NoTransfer
    <2> QED
        BY <1>3, <2>1 DEF BondsCapped
<1> QED
    BY <1>1, <1>4, <1>5 DEF LedgerInv

LEMMA FundsMoveKeepsBooks ==
    ASSUME DisputeInv, DisputeInv', ctx' = ctx, NEW w \in Workflows, FundsMove(w),
           NEW t \in Tokens
    PROVE  KeepsBooks(w, t) /\ KeepsWorth(w, t)
BY NothingKeepsBooks, OpeningKeepsBooks, SettlementKeepsBooks, BondKeepsBooks DEF FundsMove

\* Where no escrow moves, no sum and no counter does.
LEMMA BystandersKeepBooks ==
    ASSUME DisputeInv, DisputeInv', ctx' = ctx, Bystanding, NEW w \in Workflows, NEW t \in Tokens
    PROVE  /\ OthersKeepFunds(w)
           /\ MovesNothing(w)
BY DEF Bystanding, disputeVars, OthersKeepFunds, MovesNothing, SameFunds, Standing, Live

\* The bond of a round is at most half of the escrow, whichever way it is set.
LEMMA BondIsSmall ==
    ASSUME DisputeInv, SmallBonds, NEW w \in Workflows,
           NEW amount \in {AppealBond(transfers[w].afa, ctx), ChallengeBond(transfers[w].afa, ctx)}
    PROVE  amount \in Nat /\ 2 * amount <= transfers[w].afa
<1> DEFINE afa == transfers[w].afa
<1>1. afa \in Nat
    BY DEF DisputeInv, TypeInv, EscrowType, Transfer
<1>2. ctx.appealBondBps \in Bps /\ ctx.challengeBondBps \in Bps
    BY DEF DisputeInv, TypeInv, ClockType, Context
<1>3. ASSUME NEW bps \in Bps, 2 * bps <= FeeDenominator
      PROVE  ComputeFee(afa, bps) \in Nat /\ 2 * ComputeFee(afa, bps) <= afa
    <2>1. bps \in Nat /\ 2 * bps <= 10000
        BY <1>3 DEF Bps, FeeDenominator
    <2> DEFINE p == afa * bps
    <2>2. p \in Nat /\ 2 * p <= afa * 10000
        <3> HIDE DEF afa
        <3>1. 2 * p = afa * (2 * bps)
            BY <1>1, <2>1
        <3>2. afa * (2 * bps) <= afa * 10000
            BY <1>1, <2>1
        <3>3. p \in Nat
            BY <1>1, <2>1
        <3> QED
            BY <3>1, <3>2, <3>3
    <2> HIDE DEF p, afa
    <2>3. 2 * (p \div 10000) <= afa /\ p \div 10000 \in Nat
        BY <1>1, <2>2
    <2> QED
        BY <2>3 DEF ComputeFee, FeeDenominator, p
<1>4. /\ AppealBond(afa, ctx) = ComputeFee(afa, ctx.appealBondBps)
      /\ \/ ChallengeBond(afa, ctx) = ComputeFee(afa, ctx.challengeBondBps)
         \/ ChallengeBond(afa, ctx) = 0
    BY DEF SmallBonds, AppealBond, ChallengeBond
<1> HIDE DEF afa
<1>5. amount \in {AppealBond(afa, ctx), ChallengeBond(afa, ctx)}
    BY DEF afa
<1>6. /\ ComputeFee(afa, ctx.appealBondBps) \in Nat /\ 2 * ComputeFee(afa, ctx.appealBondBps) <= afa
      /\ ComputeFee(afa, ctx.challengeBondBps) \in Nat
      /\ 2 * ComputeFee(afa, ctx.challengeBondBps) <= afa
    BY <1>2, <1>3 DEF SmallBonds
<1>7. amount \in Nat /\ 2 * amount <= afa
    BY <1>1, <1>4, <1>5, <1>6
<1> QED
    BY <1>7 DEF afa

\* The bonds of an escrow that does not exist are none.
LEMMA NoBondsBefore ==
    ASSUME DisputeInv, NEW w \in Workflows, ~Exists(w)
    PROVE  BondsOf(w) = 0 /\ disputeLevels[w] = 0
<1>1. ~WasDisputed(w) /\ RecordsConsistent(w)
    BY DEF DisputeInv, EscrowInv, UndisputedFirst, Exists
<1>2. disputeLevels[w] = 0 /\ \A a \in Addr : bondBalances[w][a] = 0
    BY <1>1 DEF RecordsConsistent
<1>3. BondsOf(w) = 0
    BY <1>2, AddrAssumption, SumZero DEF BondsOf
<1> QED
    BY <1>2, <1>3

LEMMA FundsMoveKeepsCap ==
    ASSUME DisputeInv, DisputeInv', ctx' = ctx, NEW w \in Workflows, BondsCapped(w), FundsMove(w)
    PROVE  BondsCapped(w)'
<1> SUFFICES ASSUME SmallBonds
             PROVE  2 * BondsOf(w)' <= disputeLevels'[w] * transfers'[w].afa
    BY DEF BondsCapped, SmallBonds
<1> DEFINE was == transfers[w].afa
           is  == transfers'[w].afa
           lvl == disputeLevels[w]
<1>1. /\ was \in Nat /\ is \in Nat /\ lvl \in Nat /\ BondsOf(w) \in Nat
      /\ 2 * BondsOf(w) <= lvl * was
    <2>1. was \in Nat /\ is \in Nat
        BY DEF DisputeInv, TypeInv, EscrowType, Transfer
    <2>2. lvl \in Nat
        BY DEF DisputeInv, TypeInv, RoundType, Levels, MaxDisputeLevel
    <2>3. BondsOf(w) \in Nat
        BY ShareTypes DEF SharesAreNat
    <2>4. 2 * BondsOf(w) <= lvl * was
        BY DEF BondsCapped
    <2> QED
        BY <2>1, <2>2, <2>3, <2>4
<1>2. ASSUME bondBalances'[w] = bondBalances[w]
      PROVE  BondsOf(w)' = BondsOf(w)
    BY <1>2 DEF BondsOf
<1>3. CASE MovesNothing(w)
    BY <1>1, <1>2, <1>3 DEF MovesNothing, SameFunds
<1>4. CASE Opens(w)
    <2>1. BondsOf(w)' = 0 /\ disputeLevels'[w] = 0
        BY <1>2, <1>4, NoBondsBefore DEF Opens, bondVars
    <2> QED
        BY <1>1, <2>1
<1>5. ASSUME NEW outcome, Settles(w, outcome)
      PROVE  2 * BondsOf(w)' <= disputeLevels'[w] * transfers'[w].afa
    BY <1>1, <1>2, <1>5 DEF Settles, bondVars
<1>6. ASSUME NEW who \in Addr, NEW amount \in Nat, TakesBond(w, who, amount)
      PROVE  2 * BondsOf(w)' <= disputeLevels'[w] * transfers'[w].afa
    <2> DEFINE fee == ComputeFee(amount, ctx.appealBondFeeBps)
    <2>1. BondsOf(w)' = BondsOf(w) + (amount - fee)
        BY <1>6, BondAdds DEF TakesBond
    <2>2. 2 * amount <= was
        BY <1>6, BondIsSmall DEF TakesBond
    <2>3. fee \in Nat
        BY FeeIsAPart DEF DisputeInv, TypeInv, ClockType, Context
    <2>4. is = was /\ disputeLevels'[w] = lvl + 1
        BY <1>6 DEF TakesBond, SameFunds
    <2> HIDE DEF was, is, lvl, fee
    <2>5. (lvl + 1) * was = lvl * was + was /\ lvl * was \in Nat
        BY <1>1
    <2>6. 2 * (BondsOf(w) + (amount - fee)) <= lvl * was + was
        BY <1>1, <2>2, <2>3, <2>5
    <2>7. 2 * BondsOf(w)' <= (lvl + 1) * is
        BY <2>1, <2>4, <2>5, <2>6
    <2> QED
        BY <2>4, <2>7 DEF is
<1> QED
    BY <1>3, <1>4, <1>5, <1>6 DEF FundsMove

\* A step works on one escrow whose funds it moves, or moves none.
LEMMA OneMoves ==
    ASSUME DisputeInv, DisputeInv', [Next]_vars
    PROVE  /\ ctx' = ctx
           /\ \E w \in Workflows : OthersKeepFunds(w) /\ FundsMove(w)
                                   /\ (Bystanding \/ OthersSame(w))
<1>1. ctx' = ctx
    BY CtxFixed
<1>2. CASE Bystanding
    <2>1. 0 \in Workflows
        BY WorkflowsAssumption DEF Workflows
    <2>2. OthersKeepFunds(0) /\ FundsMove(0)
        BY <1>1, <1>2, <2>1, TokensAssumption, BystandersKeepBooks DEF FundsMove
    <2> QED
        BY <1>1, <1>2, <2>1, <2>2
<1>3. ASSUME NEW w \in Workflows, EscrowStep(w), OthersSame(w)
      PROVE  OthersKeepFunds(w) /\ FundsMove(w)
    BY <1>3, OthersSameFunds, StepMovesFunds
<1> QED
    BY <1>1, <1>2, <1>3, StepOrBystander

SumsAreNat ==
    \A t \in Tokens :
        /\ EscrowedLive(t) \in Nat /\ EscrowedEver(t) \in Nat /\ BondsHeld(t) \in Nat
        /\ Paid(t, "released") \in Nat /\ Paid(t, "refunded") \in Nat

LEMMA NextSumTypes == DisputeInv' => SumsAreNat'
<1>1. DisputeInv => SumsAreNat
    BY SumTypes DEF SumsAreNat
<1> QED
    BY <1>1, PTL

LEMMA Shift ==
    ASSUME NEW a \in Int, NEW b \in Int, NEW c \in Int, NEW d \in Int, a - c = b - d
    PROVE  a - b = c - d
OBVIOUS

\* The sums over the escrows move by what escrow w's contributions do.
LEMMA SumsShift ==
    ASSUME DisputeInv, DisputeInv', NEW w \in Workflows, OthersKeepFunds(w), ctx' = ctx,
           NEW t \in Tokens
    PROVE  /\ EscrowedLive(t)' - EscrowedLive(t) = LiveShare(w, t)' - LiveShare(w, t)
           /\ EscrowedEver(t)' - EscrowedEver(t) = EverShare(w, t)' - EverShare(w, t)
           /\ BondsHeld(t)' - BondsHeld(t) = BondShare(w, t)' - BondShare(w, t)
           /\ Paid(t, "released")' - Paid(t, "released")
                  = PaidShare(w, t, "released")' - PaidShare(w, t, "released")
           /\ Paid(t, "refunded")' - Paid(t, "refunded")
                  = PaidShare(w, t, "refunded")' - PaidShare(w, t, "refunded")
<1>1. /\ EscrowedLive(t) \in Int /\ EscrowedEver(t) \in Int /\ BondsHeld(t) \in Int
      /\ Paid(t, "released") \in Int /\ Paid(t, "refunded") \in Int
    BY SumTypes
<1>2. /\ EscrowedLive(t)' \in Int /\ EscrowedEver(t)' \in Int /\ BondsHeld(t)' \in Int
      /\ Paid(t, "released")' \in Int /\ Paid(t, "refunded")' \in Int
    BY NextSumTypes DEF SumsAreNat
<1>3. /\ LiveShare(w, t) \in Int /\ EverShare(w, t) \in Int /\ BondShare(w, t) \in Int
      /\ PaidShare(w, t, "released") \in Int /\ PaidShare(w, t, "refunded") \in Int
    BY ShareTypes DEF SharesAreNat, LiveShare, EverShare, BondShare, PaidShare
<1>4. /\ LiveShare(w, t)' \in Int /\ EverShare(w, t)' \in Int /\ BondShare(w, t)' \in Int
      /\ PaidShare(w, t, "released")' \in Int /\ PaidShare(w, t, "refunded")' \in Int
    BY NextShareTypes DEF SharesAreNat, LiveShare, EverShare, BondShare, PaidShare
<1>5. EscrowedLive(t)' - LiveShare(w, t)' = EscrowedLive(t) - LiveShare(w, t)
    BY SumsMove
<1>6. EscrowedEver(t)' - EverShare(w, t)' = EscrowedEver(t) - EverShare(w, t)
    BY SumsMove
<1>7. BondsHeld(t)' - BondShare(w, t)' = BondsHeld(t) - BondShare(w, t)
    BY SumsMove
<1>8. ASSUME NEW outcome \in {"released", "refunded"}
      PROVE  Paid(t, outcome)' - PaidShare(w, t, outcome)'
                 = Paid(t, outcome) - PaidShare(w, t, outcome)
    BY SumsMove
<1>9. EscrowedLive(t)' - EscrowedLive(t) = LiveShare(w, t)' - LiveShare(w, t)
    BY <1>1, <1>2, <1>3, <1>4, <1>5, Shift
<1>10. EscrowedEver(t)' - EscrowedEver(t) = EverShare(w, t)' - EverShare(w, t)
    BY <1>1, <1>2, <1>3, <1>4, <1>6, Shift
<1>11. BondsHeld(t)' - BondsHeld(t) = BondShare(w, t)' - BondShare(w, t)
    BY <1>1, <1>2, <1>3, <1>4, <1>7, Shift
<1>12. /\ Paid(t, "released")' - Paid(t, "released")
              = PaidShare(w, t, "released")' - PaidShare(w, t, "released")
       /\ Paid(t, "refunded")' - Paid(t, "refunded")
              = PaidShare(w, t, "refunded")' - PaidShare(w, t, "refunded")
    BY <1>1, <1>2, <1>3, <1>4, <1>8, Shift
<1> QED
    BY <1>9, <1>10, <1>11, <1>12

LEMMA NextLedger == LedgerInv /\ [Next]_vars => LedgerInv'
<1> SUFFICES ASSUME LedgerInv, [Next]_vars
             PROVE  LedgerInv'
    OBVIOUS
<1>1. DisputeInv /\ DisputeInv'
    BY NextDispute DEF LedgerInv
<1>2. ctx' = ctx
    BY <1>1, OneMoves
<1>3. PICK w \in Workflows : OthersKeepFunds(w) /\ FundsMove(w) /\ (Bystanding \/ OthersSame(w))
    BY <1>1, OneMoves
<1>4. ASSUME NEW t \in Tokens
      PROVE  BooksBalance(t)' /\ WorthBalances(t)'
    <2> DEFINE live == EscrowedLive(t)' - EscrowedLive(t)
               ever == EscrowedEver(t)' - EscrowedEver(t)
               held == BondsHeld(t)' - BondsHeld(t)
               cut  == bondFees'[t] - bondFees[t]
               released == Paid(t, "released")' - Paid(t, "released")
               refunded == Paid(t, "refunded")' - Paid(t, "refunded")
    <2>1. /\ live = LiveShare(w, t)' - LiveShare(w, t)
          /\ ever = EverShare(w, t)' - EverShare(w, t)
          /\ held = BondShare(w, t)' - BondShare(w, t)
          /\ released = PaidShare(w, t, "released")' - PaidShare(w, t, "released")
          /\ refunded = PaidShare(w, t, "refunded")' - PaidShare(w, t, "refunded")
        BY <1>1, <1>2, <1>3, SumsShift
    <2>2. KeepsBooks(w, t) /\ KeepsWorth(w, t)
        BY <1>1, <1>2, <1>3, FundsMoveKeepsBooks
    <2>3. /\ totalHeld'[t] - totalHeld[t] = live + held + cut
          /\ totalBondsPosted'[t] - totalBondsPosted[t] = held + cut
          /\ totalReleased'[t] - totalReleased[t] = released
          /\ totalRefunded'[t] - totalRefunded[t] = refunded
        BY <2>1, <2>2 DEF KeepsBooks
    <2>4. ctx.fotBps[t] = 0 => live + released + refunded = ever
        <3>1. /\ LiveShare(w, t) \in Nat /\ EverShare(w, t) \in Nat
              /\ PaidShare(w, t, "released") \in Nat /\ PaidShare(w, t, "refunded") \in Nat
            BY <1>1, ShareTypes DEF SharesAreNat, LiveShare, EverShare, PaidShare
        <3>2. /\ LiveShare(w, t)' \in Nat /\ EverShare(w, t)' \in Nat
              /\ PaidShare(w, t, "released")' \in Nat /\ PaidShare(w, t, "refunded")' \in Nat
            BY <1>1, NextShareTypes DEF SharesAreNat, LiveShare, EverShare, PaidShare
        <3> DEFINE l == LiveShare(w, t)               l1 == LiveShare(w, t)'
                   e == EverShare(w, t)               e1 == EverShare(w, t)'
                   p == PaidShare(w, t, "released")   p1 == PaidShare(w, t, "released")'
                   q == PaidShare(w, t, "refunded")   q1 == PaidShare(w, t, "refunded")'
        <3>3. /\ l \in Int /\ l1 \in Int /\ e \in Int /\ e1 \in Int
              /\ p \in Int /\ p1 \in Int /\ q \in Int /\ q1 \in Int
            BY <3>1, <3>2
        <3>4. live = l1 - l /\ ever = e1 - e /\ released = p1 - p /\ refunded = q1 - q
            BY <2>1
        <3>5. ctx.fotBps[t] = 0 => l1 + p1 + q1 - e1 = l + p + q - e
            BY <2>2 DEF KeepsWorth
        <3> HIDE DEF live, ever, released, refunded, l, l1, e, e1, p, p1, q, q1
        <3> QED
            BY <3>3, <3>4, <3>5
    <2>5. /\ EscrowedLive(t) \in Nat /\ EscrowedEver(t) \in Nat /\ BondsHeld(t) \in Nat
          /\ Paid(t, "released") \in Nat /\ Paid(t, "refunded") \in Nat
        BY <1>1, SumTypes
    <2>6. /\ EscrowedLive(t)' \in Nat /\ EscrowedEver(t)' \in Nat /\ BondsHeld(t)' \in Nat
          /\ Paid(t, "released")' \in Nat /\ Paid(t, "refunded")' \in Nat
        BY <1>1, NextSumTypes DEF SumsAreNat
    <2>7. /\ totalHeld[t] \in Int /\ bondFees[t] \in Nat /\ totalBondsPosted[t] \in Nat
          /\ totalReleased[t] \in Nat /\ totalRefunded[t] \in Nat
        BY <1>1, CounterTypes
    <2>8. /\ totalHeld'[t] \in Int /\ bondFees'[t] \in Nat /\ totalBondsPosted'[t] \in Nat
          /\ totalReleased'[t] \in Nat /\ totalRefunded'[t] \in Nat
        BY <1>1 DEF DisputeInv, TypeInv, LedgerType, BondType
    <2>9. BooksBalance(t) /\ WorthBalances(t)
        BY DEF LedgerInv
    <2>10. BooksBalance(t)'
        <3> DEFINE h == totalHeld[t]          h1 == totalHeld'[t]
                   p == totalBondsPosted[t]   p1 == totalBondsPosted'[t]
                   f == bondFees[t]           f1 == bondFees'[t]
                   l == EscrowedLive(t)       l1 == EscrowedLive(t)'
                   b == BondsHeld(t)          b1 == BondsHeld(t)'
        <3>1. /\ h \in Int /\ p \in Int /\ f \in Int /\ l \in Int /\ b \in Int
              /\ h1 \in Int /\ p1 \in Int /\ f1 \in Int /\ l1 \in Int /\ b1 \in Int
            BY <2>5, <2>6, <2>7, <2>8
        <3>2. h = l + b + f /\ p = b + f
            BY <2>9 DEF BooksBalance
        <3>3. h1 - h = (l1 - l) + (b1 - b) + (f1 - f) /\ p1 - p = (b1 - b) + (f1 - f)
            BY <2>3
        <3> HIDE DEF h, h1, p, p1, f, f1, l, l1, b, b1
        <3>4. h1 = l1 + b1 + f1 /\ p1 = b1 + f1
            BY <3>1, <3>2, <3>3
        <3>5. /\ totalReleased'[t] = Paid(t, "released")'
              /\ totalRefunded'[t] = Paid(t, "refunded")'
            <4> DEFINE r == totalReleased[t]     r1 == totalReleased'[t]
                       u == totalRefunded[t]     u1 == totalRefunded'[t]
                       x == Paid(t, "released")  x1 == Paid(t, "released")'
                       y == Paid(t, "refunded")  y1 == Paid(t, "refunded")'
            <4>1. /\ r \in Int /\ u \in Int /\ x \in Int /\ y \in Int
                  /\ r1 \in Int /\ u1 \in Int /\ x1 \in Int /\ y1 \in Int
                BY <2>5, <2>6, <2>7, <2>8
            <4>2. r = x /\ u = y /\ r1 - r = x1 - x /\ u1 - u = y1 - y
                BY <2>3, <2>9 DEF BooksBalance
            <4> HIDE DEF r, r1, u, u1, x, x1, y, y1
            <4>3. r1 = x1 /\ u1 = y1
                BY <4>1, <4>2
            <4> QED
                BY <4>3 DEF r1, u1, x1, y1
        <3> QED
            BY <3>4, <3>5 DEF BooksBalance, h1, p1, f1, l1, b1
    <2>11. WorthBalances(t)'
        BY <1>2, <2>4, <2>5, <2>6, <2>9 DEF WorthBalances
    <2> QED
        BY <2>10, <2>11
<1>5. ASSUME NEW v \in Workflows
      PROVE  BondsCapped(v)'
    <2>1. BondsCapped(v)
        BY DEF LedgerInv
    <2>2. CASE v = w
        BY <1>1, <1>2, <1>3, <2>1, <2>2, FundsMoveKeepsCap
    <2>3. CASE v # w
        <3>1. /\ bondBalances'[v] = bondBalances[v] /\ transfers'[v].afa = transfers[v].afa
              /\ disputeLevels'[v] = disputeLevels[v]
            BY <1>3, <2>3
            DEF OthersKeepFunds, SameFunds, Bystanding, disputeVars, OthersSame, SameEscrow
        <3>2. BondsOf(v)' = BondsOf(v)
            BY <3>1 DEF BondsOf
        <3> QED
            BY <1>2, <2>1, <3>1, <3>2 DEF BondsCapped, SmallBonds
    <2> QED
        BY <2>2, <2>3
<1> QED
    BY <1>1, <1>4, <1>5 DEF LedgerInv

LEMMA LedgerInvariant == Spec => []LedgerInv
<1>1. Init => LedgerInv
    BY InitLedger
<1>2. LedgerInv /\ [Next]_vars => LedgerInv'
    BY NextLedger
<1> QED
    BY <1>1, <1>2, PTL DEF Spec

\* The vault of every token holds exactly the amounts of its live escrows, the
\* bonds posted on its escrows and the protocol's cut of those bonds, whatever
\* moves in and out of it (create-escrow, finalize-*, post-appeal-bond).
THEOREM VaultAlwaysExact == Spec => []VaultExact
<1>1. LedgerInv => VaultExact
    BY DEF LedgerInv, BooksBalance, VaultExact
<1> QED
    BY <1>1, LedgerInvariant, PTL

\* What was released and refunded in a token is what its settled escrows are
\* entitled to, each on its own side (record-released, record-refunded).
THEOREM SettlementsAlwaysMatch == Spec => []SettlementsMatchTotals
<1>1. LedgerInv => SettlementsMatchTotals
    BY DEF LedgerInv, BooksBalance, SettlementsMatchTotals
<1> QED
    BY <1>1, LedgerInvariant, PTL

-----------------------------------------------------------------------------
(* The kernel's own checks of the ledger.  They know neither of the protocol's *)
(* cut of a bond nor of a token's tax.                                         *)

\* No token is taxed.
Untaxed == \A t \in Tokens : ctx.fotBps[t] = 0

\* The protocol takes no cut of the bonds.
NoBondFee == ctx.appealBondFeeBps = 0

\* Without a cut there are no fees of bonds.
NoFeesHeld == NoBondFee => \A t \in Tokens : bondFees[t] = 0

LEMMA NextNoFees ==
    DisputeInv /\ NoFeesHeld /\ [Next]_vars => NoFeesHeld'
<1> SUFFICES ASSUME DisputeInv, NoFeesHeld, [Next]_vars, NoBondFee, NEW t \in Tokens
             PROVE  bondFees'[t] = 0
    BY CtxFixed DEF NoFeesHeld, NoBondFee
<1>1. bondFees[t] = 0 /\ bondFees \in [Tokens -> Nat]
    BY DEF NoFeesHeld, DisputeInv, TypeInv, BondType
<1>2. PICK w \in Workflows : UNCHANGED bondFees \/ FundsMove(w)
    <2>1. 0 \in Workflows
        BY WorkflowsAssumption DEF Workflows
    <2> QED
        BY <2>1, StepOrBystander, StepMovesFunds DEF Bystanding, fundVars
<1>3. ASSUME NEW who \in Addr, NEW amount \in Nat, PostBond(w, who, amount)
      PROVE  bondFees'[t] = 0
    <2>1. ComputeFee(amount, ctx.appealBondFeeBps) = 0
        BY DEF NoBondFee, ComputeFee, FeeDenominator
    <2> QED
        BY <1>1, <1>3, <2>1 DEF PostBond
<1> QED
    BY <1>1, <1>2, <1>3
    DEF FundsMove, MovesNothing, Opens, Settles, TakesBond, fundVars, bondVars

LEMMA NoFeesInvariant == Spec => []NoFeesHeld
<1>1. Init => NoFeesHeld
    BY DEF Init, WorldInit, NoFeesHeld
<1>2. DisputeInv /\ NoFeesHeld /\ [Next]_vars => NoFeesHeld'
    BY NextNoFees
<1> QED
    BY <1>1, <1>2, DisputeInvariant, PTL DEF Spec

LEMMA ChecksOfLedger ==
    ASSUME LedgerInv, NoFeesHeld, Untaxed, NoBondFee, SmallBonds
    PROVE  LedgerChecks
<1>1. ASSUME NEW t \in Tokens
      PROVE  /\ totalHeld[t] = EscrowedLive(t) + BondsHeld(t)
             /\ totalFees[t] >= 0
             /\ totalHeld[t] >= 0
             /\ totalHeld[t] + totalReleased[t] + totalRefunded[t]
                    = EscrowedEver(t) + totalBondsPosted[t]
    <2>1. BooksBalance(t) /\ WorthBalances(t) /\ DisputeInv
        BY DEF LedgerInv
    <2>2. bondFees[t] = 0 /\ ctx.fotBps[t] = 0
        BY DEF NoFeesHeld, Untaxed
    <2>3. totalFees[t] \in Nat
        BY <2>1 DEF DisputeInv, TypeInv, LedgerType
    <2>4. /\ EscrowedLive(t) \in Nat /\ EscrowedEver(t) \in Nat /\ BondsHeld(t) \in Nat
          /\ Paid(t, "released") \in Nat /\ Paid(t, "refunded") \in Nat
        BY <2>1, SumTypes
    <2> QED
        BY <2>1, <2>2, <2>3, <2>4 DEF BooksBalance, WorthBalances
<1>2. ASSUME NEW w \in Workflows
      PROVE  BondsOf(w) <= transfers[w].afa
    <2>1. BondsCapped(w) /\ DisputeInv
        BY DEF LedgerInv
    <2>2. transfers[w].afa \in Nat /\ BondsOf(w) \in Nat /\ disputeLevels[w] \in {0, 1, 2}
        BY <2>1, ShareTypes
        DEF SharesAreNat, DisputeInv, TypeInv, RoundType, Levels, MaxDisputeLevel
    <2>3. 2 * BondsOf(w) <= disputeLevels[w] * transfers[w].afa
        BY <2>1 DEF BondsCapped
    <2>4. disputeLevels[w] * transfers[w].afa <= 2 * transfers[w].afa
        BY <2>2
    <2> QED
        BY <2>2, <2>3, <2>4
<1> QED
    BY <1>1, <1>2
    DEF LedgerChecks, SolvencyHolds, FeesNonNegative, HeldNonNegative, ConservationOfFunds,
        FeeCapHolds

\* Where no token is taxed, the protocol takes no cut of bonds and a bond is at most
\* half of the escrow, the five checks of the ledger among the kernel's predicates on a
\* world never stop an action.
THEOREM LedgerChecksAlwaysPass ==
    Spec /\ Untaxed /\ NoBondFee /\ SmallBonds => []LedgerChecks
<1>1. LedgerInv /\ NoFeesHeld /\ Untaxed /\ NoBondFee /\ SmallBonds => LedgerChecks
    BY ChecksOfLedger
<1>2. [Next]_vars /\ DisputeInv /\ Untaxed => Untaxed'
    BY CtxFixed DEF Untaxed
<1>3. [Next]_vars /\ DisputeInv /\ NoBondFee => NoBondFee'
    BY CtxFixed DEF NoBondFee
<1>4. [Next]_vars /\ DisputeInv /\ SmallBonds => SmallBonds'
    BY CtxFixed DEF SmallBonds
<1> QED
    BY <1>1, <1>2, <1>3, <1>4, LedgerInvariant, NoFeesInvariant, DisputeInvariant, PTL DEF Spec

LEMMA StepPassesChecks ==
    ASSUME DisputeInv, DisputeInv', [Next]_vars, Untaxed
    PROVE  /\ TerminalStatesUnchanged
           /\ FinalizationAccountingCorrect
           /\ EscalationLevelMonotonic
           /\ TokenTaxReconciliation
<1>1. ctx' = ctx
    BY OneMoves
<1>2. PICK w \in Workflows : OthersKeepFunds(w) /\ FundsMove(w) /\ (Bystanding \/ OthersSame(w))
    BY OneMoves
<1>3. TerminalStatesUnchanged
    BY SettledKept DEF TerminalStatesUnchanged
<1>4. ASSUME NEW v \in Workflows, Live(v), Terminal(v)'
      PROVE  v = w /\ \E outcome \in {"released", "refunded"} : Settles(w, outcome)
    <2>1. ~Live(v)' /\ ~Terminal(v)
        BY <1>4 DEF Live, LiveStates, Terminal, TerminalStates
    <2>2. ~SameFunds(v)
        <3>1. Standing(v) = "live" /\ Standing(v)' \in TerminalStates
            BY <1>4, <2>1 DEF Standing, Terminal
        <3> QED
            BY <3>1 DEF SameFunds, TerminalStates
    <2>3. v = w
        BY <1>2, <2>2 DEF OthersKeepFunds
    <2>4. Exists(w)
        BY <1>4, <2>3 DEF Live, LiveStates, Exists
    <2> QED
        BY <1>2, <2>2, <2>3, <2>4 DEF FundsMove, MovesNothing, Opens, TakesBond
<1>5. FinalizationAccountingCorrect
    <2>1. ASSUME NEW v \in Workflows, Live(v), Terminal(v)'
          PROVE  totalHeld'[transfers'[v].token]
                     = totalHeld[transfers'[v].token] - transfers'[v].afa
        <3>1. PICK outcome \in {"released", "refunded"} : v = w /\ Settles(w, outcome)
            BY <1>4, <2>1
        <3>2. totalHeld \in [Tokens -> Int] /\ transfers[w].token \in Tokens
            BY DEF DisputeInv, TypeInv, LedgerType, EscrowType, Transfer
        <3> QED
            BY <3>1, <3>2 DEF Settles, SubHeld
    <2> QED
        BY <2>1 DEF FinalizationAccountingCorrect
<1>6. EscalationLevelMonotonic
    <2>1. ASSUME NEW v \in Workflows
          PROVE  disputeLevels'[v] - disputeLevels[v] \in {0, 1}
        <3>1. disputeLevels[v] \in Nat
            <4>1. disputeLevels[v] \in Levels
                BY DEF DisputeInv, TypeInv, RoundType
            <4> QED
                BY <4>1 DEF Levels, MaxDisputeLevel
        <3>2. disputeLevels'[v] = disputeLevels[v] \/ disputeLevels'[v] = disputeLevels[v] + 1
            <4>1. CASE v # w
                BY <1>2, <4>1 DEF Bystanding, disputeVars, OthersSame, SameEscrow
            <4>2. CASE v = w
                BY <1>2, <4>2 DEF FundsMove, MovesNothing, Opens, Settles, TakesBond
            <4> QED
                BY <4>1, <4>2
        <3> QED
            BY <3>1, <3>2
    <2> QED
        BY <2>1 DEF EscalationLevelMonotonic
<1>7. TokenTaxReconciliation
    <2>1. ASSUME NEW t \in Tokens
          PROVE  (totalHeld[t] - totalHeld'[t]) - (totalReleased'[t] - totalReleased[t])
                     - (totalRefunded'[t] - totalRefunded[t]) <= 0
        <3>1. /\ totalHeld \in [Tokens -> Int]
              /\ totalReleased \in [Tokens -> Nat] /\ totalRefunded \in [Tokens -> Nat]
            BY DEF DisputeInv, TypeInv, LedgerType
        <3>2. CASE MovesNothing(w)
            BY <3>1, <3>2 DEF MovesNothing, fundVars
        <3>3. CASE Opens(w)
            <4>1. transfers'[w].afa \in Nat
                BY DEF DisputeInv, TypeInv, EscrowType, Transfer
            <4> QED
                BY <3>1, <3>3, <4>1 DEF Opens
        <3>4. ASSUME NEW outcome \in {"released", "refunded"}, Settles(w, outcome)
              PROVE  (totalHeld[t] - totalHeld'[t]) - (totalReleased'[t] - totalReleased[t])
                         - (totalRefunded'[t] - totalRefunded[t]) <= 0
            <4> DEFINE token == transfers[w].token
                       afa   == transfers[w].afa
            <4>1. afa \in Nat /\ token \in Tokens
                BY DEF DisputeInv, TypeInv, EscrowType, Transfer
            <4>2. NetAmount(transfers[w]) = afa
                BY <4>1 DEF NetAmount, ComputeFee, FeeDenominator, Untaxed
            <4>3. /\ totalHeld' = [totalHeld EXCEPT ![token] = @ - afa]
                  /\ totalReleased' = IF outcome = "released"
                                      THEN [totalReleased EXCEPT ![token] = @ + afa]
                                      ELSE totalReleased
                  /\ totalRefunded' = IF outcome = "refunded"
                                      THEN [totalRefunded EXCEPT ![token] = @ + afa]
                                      ELSE totalRefunded
                BY <3>4, <4>2 DEF Settles, SubHeld, RecordPaid
            <4> HIDE DEF token, afa
            <4> QED
                BY <3>1, <4>1, <4>3
        <3>5. ASSUME NEW who \in Addr, NEW amount \in Nat, TakesBond(w, who, amount)
              PROVE  (totalHeld[t] - totalHeld'[t]) - (totalReleased'[t] - totalReleased[t])
                         - (totalRefunded'[t] - totalRefunded[t]) <= 0
            BY <3>1, <3>5 DEF TakesBond, PostBond
        <3> QED
            BY <1>2, <3>2, <3>3, <3>4, <3>5 DEF FundsMove
    <2> QED
        BY <2>1 DEF TokenTaxReconciliation
<1> QED
    BY <1>3, <1>5, <1>6, <1>7

\* Where no token is taxed no step of any actor fails four of the kernel's seven checks
\* of a step: nothing leaves a terminal state, a settlement takes exactly the escrow
\* out of the vault, rounds go up one at a time, and the totals agree with the tax.
THEOREM StepChecksAlwaysPass == Spec /\ Untaxed => StepChecks
<1>1. DisputeInv /\ DisputeInv' /\ [Next]_vars /\ Untaxed
          => [/\ TerminalStatesUnchanged
              /\ FinalizationAccountingCorrect
              /\ EscalationLevelMonotonic
              /\ TokenTaxReconciliation]_vars
    BY StepPassesChecks
<1>2. [Next]_vars /\ DisputeInv /\ Untaxed => Untaxed'
    BY CtxFixed DEF Untaxed
<1> QED
    BY <1>1, <1>2, DisputeInvariant, PTL DEF Spec, StepChecks

-----------------------------------------------------------------------------
(* The reserves.  An escrow joins those that timed out by the timeout's refund *)
(* and by no other way of being refunded.                                      *)

TimedOutSum == SumFunctionOnSet(Amounts, TimedOut)

LostSum == SumFunctionOnSet(slashTotal, Addr)

\* A refund of an escrow that was not in dispute is not a timeout.
LEMMA CancelledNotTimedOut ==
    ASSUME DisputeInv, NEW w \in Workflows, NEW et \in Transfer, NEW outcome,
           "raise-dispute" \notin {et.senderStatus, et.recipientStatus},
           transfers' = [transfers EXCEPT ![w] = [et EXCEPT !.state = outcome]]
    PROVE  w \notin TimedOut'
<1>1. transfers'[w] = [et EXCEPT !.state = outcome]
    BY DEF DisputeInv, TypeInv, EscrowType
<1>2. transfers'[w].senderStatus = et.senderStatus
      /\ transfers'[w].recipientStatus = et.recipientStatus
    BY <1>1 DEF Transfer
<1> QED
    BY <1>2 DEF TimedOut, WasDisputed

LEMMA OnlyTimeoutTimesOut ==
    ASSUME DisputeInv, NEW w \in Workflows, EscrowStep(w), w \in TimedOut'
    PROVE  AutoCancelDisputed(w)
<1>1. /\ transfers'[w].state = "refunded"
      /\ ~Decided(w, disputeLevels[w])'
    BY DEF TimedOut
<1>2. /\ transfers \in [Workflows -> Transfer]
      /\ transfers[w] \in Transfer
      /\ disputeLevels[w] \in Levels
    BY DEF DisputeInv, TypeInv, EscrowType, RoundType
<1>3. transfers[w].state = "pending"
          => "raise-dispute" \notin {transfers[w].senderStatus, transfers[w].recipientStatus}
    BY PendingNeverDisputed
<1>4. CASE \E o \in Orders : CreateEscrow(o) /\ IsNextId(w)
    BY <1>1, <1>4, CreationOpens DEF Opens
<1>5. ASSUME NEW a \in Addr, PartyAction(w, a)
      PROVE  FALSE
    <2>1. CASE RaiseDispute(w, a)
        BY <1>1, <1>2, <2>1 DEF RaiseDispute, Raised, Transfer
    <2>2. CASE Release(w, a)
        BY <1>1, <1>2, <2>2 DEF Release, Finalize, Transfer
    <2>3. ASSUME NEW agreed \in Transfer, agreed.state = "pending",
                 "raise-dispute" \notin {agreed.senderStatus, agreed.recipientStatus},
                 AgreeToCancel(w, agreed)
          PROVE  FALSE
        BY <1>1, <1>2, <2>3, CancelledNotTimedOut DEF AgreeToCancel, Finalize
    <2>4. CASE SenderCancel(w, a)
        <3> DEFINE agreed == [transfers[w] EXCEPT !.senderStatus = "agree-to-cancel"]
        <3>1. agreed \in Transfer /\ agreed.state = "pending"
              /\ "raise-dispute" \notin {agreed.senderStatus, agreed.recipientStatus}
            BY <1>2, <1>3, <2>4 DEF SenderCancel, Transfer, PartyStatuses
        <3> QED
            BY <2>3, <2>4, <3>1 DEF SenderCancel
    <2>5. CASE RecipientCancel(w, a)
        <3> DEFINE agreed == [transfers[w] EXCEPT !.recipientStatus = "agree-to-cancel"]
        <3>1. agreed \in Transfer /\ agreed.state = "pending"
              /\ "raise-dispute" \notin {agreed.senderStatus, agreed.recipientStatus}
            BY <1>2, <1>3, <2>5 DEF RecipientCancel, Transfer, PartyStatuses
        <3> QED
            BY <2>3, <2>5, <3>1 DEF RecipientCancel
    <2>6. CASE EscalateDispute(w, a) \/ ChallengeResolution(w, a)
        BY <1>1, <1>2, <2>6
        DEF EscalateDispute, ChallengeResolution, Appealable, MoveUp, Transfer
    <2> QED
        BY <1>5, <2>1, <2>2, <2>4, <2>5, <2>6 DEF PartyAction
<1>6. ASSUME NEW a \in Addr, ResolverAction(w, a)
      PROVE  FALSE
    <2>1. PICK b \in BOOLEAN : ExecuteResolution(w, a, b)
        BY <1>6 DEF ResolverAction
    <2> DEFINE decision == [resolver |-> a, isRelease |-> b]
    <2>2. decision # NoDecision
        BY NoAddrAssumption DEF NoDecision
    <2>3. /\ previousDecisions' = [previousDecisions EXCEPT ![w][disputeLevels[w]] = decision]
          /\ disputeLevels' = disputeLevels
        BY <2>1 DEF ExecuteResolution
    <2> HIDE DEF decision
    <2>4. previousDecisions'[w][disputeLevels'[w]] = decision
        BY <1>2, <2>3 DEF DisputeInv, TypeInv, RoundType
    <2> QED
        BY <1>1, <2>2, <2>4 DEF Decided
<1>7. ASSUME NEW r \in Replacements, RotateDisputeResolver(w, r)
      PROVE  FALSE
    BY <1>1, <1>2, <1>7 DEF RotateDisputeResolver, Transfer
<1>8. ASSUME SettlePending(w)
      PROVE  FALSE
    <2>1. Decided(w, disputeLevels[w])
        BY <1>8 DEF SettlePending, PendingExecutable, DisputeInv, EscrowInv, DeferredIsCurrent
    <2> QED
        BY <1>1, <1>8, <2>1 DEF SettlePending, SettledFromPending, Decided
<1>9. ASSUME NEW outcome, transfers[w].state = "pending", Finalize(w, transfers[w], outcome)
      PROVE  FALSE
    BY <1>2, <1>3, <1>9, CancelledNotTimedOut DEF Finalize
<1> QED
    BY <1>4, <1>5, <1>6, <1>7, <1>8, <1>9
    DEF EscrowStep, KeeperAction, AutomateTimedActions, ExecutePendingSettlement,
        AutoReleaseDue, AutoCancelDue

LEMMA TimeoutTimesOut ==
    ASSUME DisputeInv, NEW w \in Workflows, AutoCancelDisputed(w)
    PROVE  w \in TimedOut' /\ Amounts'[w] = transfers[w].afa
<1>1. /\ transfers[w].state = "disputed" /\ ~pendingSettlements[w].exists
      /\ transfers' = [transfers EXCEPT ![w] = [transfers[w] EXCEPT !.state = "refunded"]]
      /\ UNCHANGED <<previousDecisions, disputeLevels>>
    BY DEF AutoCancelDisputed, DisputeTimeoutExceeded, Finalize
<1>2. WasDisputed(w) /\ ~Terminal(w) /\ disputeLevels[w] \in Levels /\ EscrowInv(w)
    BY <1>1, DisputedFacts
<1>3. ~Decided(w, disputeLevels[w])
    BY <1>1, <1>2 DEF EscrowInv, RoundsInOrder
<1>4. transfers \in [Workflows -> Transfer]
    BY DEF DisputeInv, TypeInv, EscrowType
<1>5. /\ transfers'[w].state = "refunded"
      /\ transfers'[w].senderStatus = transfers[w].senderStatus
      /\ transfers'[w].recipientStatus = transfers[w].recipientStatus
      /\ transfers'[w].afa = transfers[w].afa
    BY <1>1, <1>4 DEF Transfer
<1>6. WasDisputed(w)' /\ ~Decided(w, disputeLevels[w])'
    BY <1>1, <1>2, <1>3, <1>5 DEF WasDisputed, Decided
<1> QED
    BY <1>5, <1>6 DEF TimedOut, Amounts

\* A step on escrow w adds what w now timed out with, and nothing else.
LEMMA TimedOutMoves ==
    ASSUME DisputeInv, DisputeInv', NEW w \in Workflows, EscrowStep(w), OthersSame(w)
    PROVE  /\ TimedOutSum \in Int
           /\ TimedOutSum' = TimedOutSum + (IF w \in TimedOut' THEN Amounts'[w] ELSE 0)
<1>1. \A v \in Workflows : Amounts[v] \in Nat /\ Amounts'[v] \in Nat
    BY ShareTypes, NextShareTypes DEF SharesAreNat
<1>2. w \notin TimedOut
    BY StepsNeedLife DEF TimedOut, Terminal, TerminalStates
<1>3. \A v \in Workflows \ {w} : (v \in TimedOut' <=> v \in TimedOut) /\ Amounts'[v] = Amounts[v]
    BY DEF OthersSame, SameEscrow, TimedOut, WasDisputed, Decided, Amounts
<1>4. TimedOut \in SUBSET Workflows /\ TimedOut' \in SUBSET Workflows
    BY DEF TimedOut
<1>5. SumFunctionOnSet(Amounts', TimedOut') - (IF w \in TimedOut' THEN Amounts'[w] ELSE 0)
          = SumFunctionOnSet(Amounts, TimedOut) - (IF w \in TimedOut THEN Amounts[w] ELSE 0)
    BY <1>1, <1>3, <1>4, OneTermMoves
<1>6. SumFunctionOnSet(Amounts', TimedOut') \in Nat /\ SumFunctionOnSet(Amounts, TimedOut) \in Nat
    BY <1>1, <1>4, WorkflowsFinite, FS_Subset, SumNat
<1>7. TimedOutSum = SumFunctionOnSet(Amounts, TimedOut)
      /\ TimedOutSum' = SumFunctionOnSet(Amounts', TimedOut')
    BY DEF TimedOutSum
<1> QED
    BY <1>1, <1>2, <1>5, <1>6, <1>7

\* Without a timeout the escrows that timed out stay the same.
LEMMA NoTimeoutNoMove ==
    ASSUME DisputeInv, DisputeInv', [Next]_vars, \A w \in Workflows : ~AutoCancelDisputed(w)
    PROVE  TimedOutSum' = TimedOutSum
<1>1. CASE UNCHANGED disputeVars
    <2>1. TimedOut' = TimedOut /\ Amounts' = Amounts
        BY <1>1 DEF disputeVars, TimedOut, WasDisputed, Decided, Amounts
    <2> QED
        BY <2>1 DEF TimedOutSum
<1>2. ASSUME NEW w \in Workflows, EscrowStep(w), OthersSame(w)
      PROVE  TimedOutSum' = TimedOutSum
    BY <1>2, OnlyTimeoutTimesOut, TimedOutMoves
<1> QED
    BY <1>1, <1>2, OneAtATime

-----------------------------------------------------------------------------
(* What is taken from a stake goes to the reserves. *)

LEMMA CreditAdds ==
    ASSUME NEW reserves \in Reserves, NEW amount \in Nat
    PROVE  /\ Credit(reserves, amount, 0) \in Reserves
           /\ Credit(reserves, amount, 0).insurance + Credit(reserves, amount, 0).protocol
                      + Credit(reserves, amount, 0).retained
                  = reserves.insurance + reserves.protocol + reserves.retained + amount
<1> DEFINE split == SlashSplit(amount, 0)
           i == reserves.insurance  j == split.insurance
           p == reserves.protocol   q == split.protocol
           r == reserves.retained   s == split.retained
<1>1. split \in [insurance : Int, protocol : Int, retained : Nat] /\ j + q + s = amount
    <2>1. 2 * (0 \div 2) = 0
        BY SMT
    <2> QED
        BY <2>1, SplitIsExact
<1>2. i \in Int /\ j \in Int /\ p \in Int /\ q \in Int /\ r \in Int /\ s \in Int
    BY <1>1 DEF Reserves
<1>3. Credit(reserves, amount, 0) =
          [insurance |-> i + j, protocol |-> p + q, retained |-> r + s]
    BY DEF Credit
<1>4. Credit(reserves, amount, 0) \in Reserves
    BY CreditTyped
<1> HIDE DEF split, i, j, p, q, r, s
<1>5. (i + j) + (p + q) + (r + s) = i + p + r + amount
    BY <1>1, <1>2
<1>6. /\ Credit(reserves, amount, 0).insurance = i + j
      /\ Credit(reserves, amount, 0).protocol = p + q
      /\ Credit(reserves, amount, 0).retained = r + s
    BY <1>3
<1> QED
    BY <1>4, <1>5, <1>6 DEF i, p, r

\* What is taken is added to what the resolver has lost.
LEMMA TakingAdds ==
    ASSUME TypeInv, NEW r \in Addr, NEW amount \in Nat, TakeStake(r, amount)
    PROVE  LostSum \in Nat /\ LostSum' = LostSum + Slashable(r, amount)
<1> DEFINE taken == Slashable(r, amount)
<1>1. taken \in Nat
    BY SlashableBounds
<1>2. slashTotal \in [Addr -> Nat] /\ slashTotal' \in [Addr -> Nat]
    BY TakeStakeTyped DEF TypeInv, StakeType
<1>3. slashTotal' = [slashTotal EXCEPT ![r] = @ + taken]
    BY DEF TakeStake
<1> HIDE DEF taken
<1>4. \A y \in Addr \ {r} : slashTotal'[y] = slashTotal[y]
    BY <1>2, <1>3
<1>5. slashTotal'[r] = slashTotal[r] + taken
    BY <1>2, <1>3
<1>6. /\ SumFunctionOnSet(slashTotal, Addr) \in Nat
      /\ SumFunctionOnSet(slashTotal', Addr)
             = SumFunctionOnSet(slashTotal, Addr) + (slashTotal'[r] - slashTotal[r])
    BY <1>2, <1>4, OneAddrMoves
<1>7. slashTotal[r] \in Nat /\ slashTotal'[r] \in Nat
    BY <1>2
<1>8. /\ LostSum = SumFunctionOnSet(slashTotal, Addr)
      /\ LostSum' = SumFunctionOnSet(slashTotal', Addr)
    BY DEF LostSum
<1>9. LostSum \in Nat /\ LostSum' = LostSum + taken
    BY <1>1, <1>5, <1>6, <1>7, <1>8
<1> QED
    BY <1>9 DEF taken

LEMMA ReservesAreInt ==
    ASSUME TypeInv
    PROVE  /\ ReservesTotal \in Int /\ LostSum \in Nat /\ forfeited \in Nat
           /\ distribution \in Reserves
<1>1. distribution \in Reserves /\ forfeited \in Nat /\ \A a \in Addr : slashTotal[a] \in Nat
    BY DEF TypeInv, StakeType, SlashType
<1>2. LostSum \in Nat
    BY <1>1, AddrAssumption, SumNat DEF LostSum
<1>3. ReservesTotal \in Int
    BY <1>1 DEF ReservesTotal, Reserves
<1> QED
    BY <1>1, <1>2, <1>3

\* The reserves take exactly what stakes and appeal bonds lose.
ReservesMove ==
    ReservesTotal' = ReservesTotal + (LostSum' - LostSum) + (forfeited' - forfeited)

LEMMA SlashFills ==
    ASSUME TypeInv, NEW r \in Addr, NEW amount \in Nat, TakeStake(r, amount),
           distribution' = Credit(distribution, Slashable(r, amount), 0), UNCHANGED forfeited
    PROVE  ReservesMove
<1> DEFINE taken == Slashable(r, amount)
<1>1. taken \in Nat /\ LostSum \in Nat /\ LostSum' = LostSum + taken
    BY SlashableBounds, TakingAdds
<1>2. forfeited \in Nat /\ ReservesTotal \in Int /\ distribution \in Reserves
    BY ReservesAreInt
<1>3. distribution'.insurance + distribution'.protocol + distribution'.retained
          = distribution.insurance + distribution.protocol + distribution.retained + taken
    BY <1>1, <1>2, CreditAdds
<1> HIDE DEF taken
<1>4. ReservesTotal' = ReservesTotal + taken
    BY <1>3 DEF ReservesTotal
<1> QED
    BY <1>1, <1>2, <1>4 DEF ReservesMove

LEMMA SameReserves ==
    ASSUME TypeInv, UNCHANGED <<distribution, slashTotal, forfeited>>
    PROVE  ReservesMove
<1>1. ReservesTotal' = ReservesTotal /\ LostSum' = LostSum
    BY DEF ReservesTotal, LostSum
<1> QED
    BY <1>1, ReservesAreInt DEF ReservesMove

LEMMA ReversalFills ==
    ASSUME TypeInv, ctx.bountyBps = 0, NEW w \in Workflows, NEW b \in BOOLEAN,
           HandleReversalSlashing(w, b), UNCHANGED forfeited
    PROVE  ReservesMove
<1> DEFINE round  == disputeLevels[w] - 1
           loser  == previousDecisions[w][round].resolver
           amount == ComputeFee(transfers[w].afa, ctx.reversalSlashBps)
<1>1. CASE UNCHANGED stakeVars
    BY <1>1, SameReserves DEF stakeVars
<1>2. CASE ~UNCHANGED stakeVars
    <2>1. Reverses(w, b) /\ SlashStake(loser, amount, challengers[w][round], ctx.bountyBps)
        BY <1>2 DEF HandleReversalSlashing
    <2>2. disputeLevels[w] \in Levels /\ disputeLevels[w] > 0
        BY <2>1 DEF Reverses, TypeInv, RoundType
    <2>3. round \in Levels
        BY <2>2 DEF Levels, MaxDisputeLevel
    <2>4. loser \in Addr
        BY <2>1, <2>3 DEF Reverses, TypeInv, DecidersNamed, Decided
    <2>5. transfers[w].afa \in Nat /\ ctx.reversalSlashBps \in Bps
        BY DEF TypeInv, EscrowType, Transfer, ClockType, Context
    <2>6. amount \in Nat
        BY <2>5, FeeIsAPart
    <2>7. Slashable(loser, amount) \in Nat
        BY <2>4, <2>6, SlashableBounds
    <2>8. ComputeFee(Slashable(loser, amount), ctx.bountyBps) = 0
        BY <2>7 DEF ComputeFee, FeeDenominator
    <2>9. /\ TakeStake(loser, amount)
          /\ distribution' = Credit(distribution, Slashable(loser, amount), 0)
        BY <2>1, <2>8 DEF SlashStake
    <2> QED
        BY <2>4, <2>6, <2>9, SlashFills
<1> QED
    BY <1>1, <1>2

LEMMA CollectionFills ==
    ASSUME TypeInv, NEW s \in SlashIds, ExecuteFraudSlash(s)
    PROVE  ReservesMove
<1> DEFINE r == fraudSlashes[s].resolver
           amount == fraudSlashes[s].amount
<1>1. fraudSlashes[s] \in Slash /\ fraudSlashes[s].status = "pending"
    BY DEF ExecuteFraudSlash, Collectable, TypeInv, SlashType
<1>2. r \in Addr /\ amount \in Nat
    BY <1>1 DEF TypeInv, SlashedNamed, Slash
<1>3. Slashable(r, amount) \in Nat
    BY <1>2, SlashableBounds
<1>4. ComputeFee(Slashable(r, amount), 0) = 0
    BY <1>3 DEF ComputeFee, FeeDenominator
<1>5. /\ TakeStake(r, amount)
      /\ distribution' = Credit(distribution, Slashable(r, amount), 0)
      /\ UNCHANGED forfeited
    BY <1>4 DEF ExecuteFraudSlash, SlashStake
<1> QED
    BY <1>2, <1>5, SlashFills

LEMMA RulingFills ==
    ASSUME TypeInv, NEW s \in SlashIds, NEW upheld \in BOOLEAN, ResolveAppeal(s, upheld)
    PROVE  ReservesMove
<1> DEFINE bond == fraudSlashes[s].bondHeld
<1>1. bond \in Nat
    BY DEF TypeInv, SlashType, Slash
<1>2. UNCHANGED slashTotal
    BY DEF ResolveAppeal
<1>3. CASE upheld
    BY <1>2, <1>3, SameReserves DEF ResolveAppeal
<1>4. CASE ~upheld
    <2>1. /\ distribution' = [distribution EXCEPT !.insurance = @ + bond]
          /\ forfeited' = forfeited + bond
        BY <1>4 DEF ResolveAppeal
    <2> HIDE DEF bond
    <2>2. distribution \in Reserves /\ forfeited \in Nat /\ ReservesTotal \in Int /\ LostSum \in Nat
        BY ReservesAreInt
    <2>3. ReservesTotal' = ReservesTotal + bond
        BY <1>1, <2>1, <2>2 DEF ReservesTotal, Reserves
    <2>4. LostSum' = LostSum
        BY <1>2 DEF LostSum
    <2> QED
        BY <1>1, <2>1, <2>2, <2>3, <2>4 DEF ReservesMove
<1> QED
    BY <1>3, <1>4

LEMMA StepFills ==
    ASSUME TypeInv, [Next]_vars, ctx.bountyBps = 0,
           \A w \in Workflows : ~AutoCancelDisputed(w)
    PROVE  ReservesMove
<1>1. CASE UNCHANGED <<distribution, slashTotal, forfeited>>
    BY <1>1, SameReserves
<1>2. ASSUME NEW w \in Workflows, NEW a \in Addr, ResolverAction(w, a)
      PROVE  ReservesMove
    BY <1>2, ReversalFills DEF ResolverAction, ExecuteResolution
<1>3. ASSUME NEW w \in Workflows, NEW a \in Addr, PartyAction(w, a)
      PROVE  UNCHANGED <<distribution, slashTotal, forfeited>>
    BY <1>3 DEF PartyAction, RaiseDispute, Release, SenderCancel, RecipientCancel,
                AgreeToCancel, SettledFromPending, EscalateDispute,
                ChallengeResolution, MoveUp, stakeVars, slashVars
<1>4. ASSUME NEW w \in Workflows, KeeperAction(w)
      PROVE  UNCHANGED <<distribution, slashTotal, forfeited>>
    BY <1>4 DEF KeeperAction, AutomateTimedActions, SettlePending, ExecutePendingSettlement,
                SettledFromPending, stakeVars, slashVars
<1>5. ASSUME NEW s \in SlashIds, SlashAction(s)
      PROVE  ReservesMove
    <2>1. ASSUME NEW a \in Addr, AppealSlash(s, a)
          PROVE  UNCHANGED <<distribution, slashTotal, forfeited>>
        BY <2>1 DEF AppealSlash, stakeVars
    <2> QED
        BY <1>1, <1>5, <2>1, RulingFills, CollectionFills DEF SlashAction
<1>6. CASE \/ Tick
           \/ \E o \in Orders : CreateEscrow(o)
           \/ \E w \in Workflows : UpdateEvidence(w)
           \/ \E r \in Stakers : StakeAction(r)
           \/ UNCHANGED vars
    <2>1. UNCHANGED <<distribution, slashTotal, forfeited>>
        BY <1>6 DEF Tick, CreateEscrow, UpdateEvidence, StakeAction, RegisterStake,
                    WithdrawStake, stakeVars, slashVars, vars, worldVars
    <2> QED
        BY <1>1, <2>1
<1>7. CASE GovernanceAction
    <2>1. UNCHANGED <<distribution, slashTotal, forfeited>>
        BY <1>7 DEF GovernanceAction, RotateDisputeResolver, ProposeFraudSlash, SetPaused,
                    WithdrawFees, stakeVars, slashVars
    <2> QED
        BY <1>1, <2>1
<1> QED
    BY <1>1, <1>2, <1>3, <1>4, <1>5, <1>6, <1>7 DEF Next, UserAction

\* The timeout distributes what it takes from the resolver, and the escrow on top.
LEMMA TimeoutFills ==
    ASSUME TypeInv, NEW w \in Workflows, AutoCancelDisputed(w)
    PROVE  ReservesTotal' = ReservesTotal + (LostSum' - LostSum) + transfers[w].afa
           /\ forfeited' = forfeited
<1> DEFINE r   == transfers[w].resolver
           afa == transfers[w].afa
           taken == Slashable(r, afa)
<1>1. r \in OptAddr /\ afa \in Nat
    BY DEF TypeInv, EscrowType, Transfer
<1>2. forfeited' = forfeited
    BY DEF AutoCancelDisputed, slashVars
<1>3. LostSum \in Nat /\ ReservesTotal \in Int /\ distribution \in Reserves
    BY ReservesAreInt
<1>4. ReservesTotal = distribution.insurance + distribution.protocol + distribution.retained
      /\ ReservesTotal'
             = distribution'.insurance + distribution'.protocol + distribution'.retained
    BY DEF ReservesTotal
<1>5. CASE r # NoAddr
    <2>1. TakeStake(r, afa) /\ distribution' = Credit(Credit(distribution, taken, 0), afa, 0)
        BY <1>5 DEF AutoCancelDisputed
    <2>2. r \in Addr /\ taken \in Nat /\ LostSum' = LostSum + taken
        BY <1>1, <1>5, <2>1, SlashableBounds, TakingAdds DEF OptAddr
    <2> DEFINE between == Credit(distribution, taken, 0)
    <2>3. /\ between \in Reserves
          /\ between.insurance + between.protocol + between.retained
                 = distribution.insurance + distribution.protocol + distribution.retained + taken
        BY <1>3, <2>2, CreditAdds
    <2> HIDE DEF between, taken, afa
    <2>4. distribution' = Credit(between, afa, 0)
        BY <2>1 DEF between
    <2>5. distribution'.insurance + distribution'.protocol + distribution'.retained
              = between.insurance + between.protocol + between.retained + afa
        BY <1>1, <2>3, <2>4, CreditAdds
    <2>6. ReservesTotal' = ReservesTotal + taken + afa
        BY <1>4, <2>3, <2>5
    <2>7. ReservesTotal' = ReservesTotal + (LostSum' - LostSum) + afa
        BY <1>1, <1>3, <2>2, <2>6
    <2> QED
        BY <1>2, <2>7 DEF afa
<1>6. CASE r = NoAddr
    <2>1. UNCHANGED slashTotal /\ distribution' = Credit(distribution, afa, 0)
        BY <1>6 DEF AutoCancelDisputed
    <2> HIDE DEF afa
    <2>2. LostSum' = LostSum
        BY <2>1 DEF LostSum
    <2>3. ReservesTotal' = ReservesTotal + afa
        BY <1>1, <1>3, <1>4, <2>1, CreditAdds
    <2>4. ReservesTotal' = ReservesTotal + (LostSum' - LostSum) + afa
        BY <1>1, <1>3, <2>2, <2>3
    <2> QED
        BY <1>2, <2>4 DEF afa
<1> QED
    BY <1>5, <1>6

ReservesBalance == ReservesTotal = LostSum + forfeited + TimedOutSum

LossesAreNat == LostSum \in Nat /\ forfeited \in Nat

LEMMA NextLossesTyped == TypeInv' => LossesAreNat'
<1>1. TypeInv => LossesAreNat
    BY ReservesAreInt DEF LossesAreNat
<1> QED
    BY <1>1, PTL

LEMMA NextReserves ==
    ASSUME DisputeInv, DisputeInv', [Next]_vars, ctx.bountyBps = 0, ReservesBalance
    PROVE  ReservesBalance'
<1>1. TypeInv /\ TypeInv'
    BY DEF DisputeInv
<1>2. ReservesTotal \in Int /\ LostSum \in Nat /\ forfeited \in Nat
    BY <1>1, ReservesAreInt
<1>3. LostSum' \in Nat /\ forfeited' \in Nat
    BY <1>1, NextLossesTyped DEF LossesAreNat
<1>4. TimedOutSum \in Int
    <2>1. \A v \in Workflows : Amounts[v] \in Nat
        BY ShareTypes DEF SharesAreNat
    <2>2. IsFiniteSet(TimedOut) /\ \A v \in TimedOut : Amounts[v] \in Int
        BY <2>1, WorkflowsFinite, FS_Subset DEF TimedOut
    <2> QED
        BY <2>2, SumInt DEF TimedOutSum
<1>5. CASE \A w \in Workflows : ~AutoCancelDisputed(w)
    <2>1. ReservesMove /\ TimedOutSum' = TimedOutSum
        BY <1>1, <1>5, StepFills, NoTimeoutNoMove
    <2> QED
        BY <1>2, <1>3, <1>4, <2>1 DEF ReservesBalance, ReservesMove
<1>6. ASSUME NEW w \in Workflows, AutoCancelDisputed(w)
      PROVE  ReservesBalance'
    <2> DEFINE afa == transfers[w].afa
    <2>1. afa \in Nat
        BY <1>1 DEF TypeInv, EscrowType, Transfer
    <2>2. EscrowStep(w) /\ OthersSame(w)
        BY <1>6, KeeperLeavesOthers DEF EscrowStep, KeeperAction
    <2>3. TimedOutSum' = TimedOutSum + afa
        BY <1>6, <2>2, TimeoutTimesOut, TimedOutMoves
    <2>4. ReservesTotal' = ReservesTotal + (LostSum' - LostSum) + afa /\ forfeited' = forfeited
        BY <1>1, <1>6, TimeoutFills
    <2> HIDE DEF afa
    <2> QED
        BY <1>2, <1>3, <1>4, <2>1, <2>3, <2>4 DEF ReservesBalance
<1> QED
    BY <1>5, <1>6

\* Bounties apart, the reserves hold exactly the slashed stake, the forfeited bonds
\* and, once more, the amounts of the escrows the timeout refunded
\* (distribute-slashed-funds, resolve-appeal, auto-cancel-disputed-escrow).
THEOREM ReservesAlwaysExplained == Spec => []ReservesExplained
<1> DEFINE Books == ctx.bountyBps = 0 => ReservesBalance
<1>1. Init => Books
    <2> SUFFICES ASSUME Init
                 PROVE  ReservesBalance
        OBVIOUS
    <2>1. TimedOut = {}
        BY DEF Init, WorldInit, NoTransfer, TimedOut
    <2>2. TimedOutSum = 0
        BY <2>1, SumEmpty DEF TimedOutSum
    <2>3. LostSum = 0
        <3>1. \A a \in Addr : slashTotal[a] = 0
            BY DEF Init, WorldInit
        <3> QED
            BY <3>1, AddrAssumption, SumZero DEF LostSum
    <2>4. ReservesTotal = 0 /\ forfeited = 0
        BY DEF Init, WorldInit, ReservesTotal
    <2> QED
        BY <2>2, <2>3, <2>4 DEF ReservesBalance
<1>2. DisputeInv /\ DisputeInv' /\ Books /\ [Next]_vars => Books'
    BY CtxFixed, NextReserves
<1>3. Books => ReservesExplained
    BY DEF ReservesBalance, ReservesExplained, LostSum, TimedOutSum
<1> HIDE DEF Books
<1> QED
    BY <1>1, <1>2, <1>3, DisputeInvariant, PTL DEF Spec

-----------------------------------------------------------------------------
(* Under the kernel. *)

\* The kernel's books balance as the contract's do: its veto drops steps, and takes
\* no step half.
THEOREM KernelKeepsTheBooks ==
    KernelSpec => []VaultExact /\ []SettlementsMatchTotals /\ []ReservesExplained
BY KernelImplementsContract, VaultAlwaysExact, SettlementsAlwaysMatch,
   ReservesAlwaysExplained, PTL

=============================================================================

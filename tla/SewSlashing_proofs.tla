-------------------------- MODULE SewSlashing_proofs --------------------------
(***************************************************************************)
(* Slashes, for any number of resolvers, escrows and slashes: the bond of   *)
(* an appeal, the appeal window, the freeze of a resolver a slash was       *)
(* collected from, and stake that becomes slashed stake.                    *)
(*                                                                          *)
(* The bond and the freeze are invariants, each of one slash, and need two  *)
(* facts more: a slash that may still be collected was filed a whole window *)
(* before its deadline, and no resolver is frozen for longer than a freeze  *)
(* from now, so that a later freeze never shortens an earlier one.          *)
(***************************************************************************)
EXTENDS SewTyping_proofs

\* The part of BondsBackOpenAppeals about one slash.
Backed(s) ==
    fraudSlashes[s].bondHeld > 0 =>
        /\ fraudSlashes[s].status = "appealed"
        /\ custody[s] = [held |-> TRUE, resolver |-> fraudSlashes[s].resolver,
                         amount |-> fraudSlashes[s].bondHeld]

\* The part of CollectedSlashSidelines about one slash.
Sidelined(s) ==
    fraudSlashes[s].status = "executed" /\ fraudSlashes[s].deadline > 0 =>
        /\ fraudSlashes[s].resolver \in unavailable
        /\ frozenUntil[fraudSlashes[s].resolver]
               >= fraudSlashes[s].deadline + FreezeDuration

\* A slash that may still be collected leaves the whole window for an appeal.
Windowed(s) ==
    fraudSlashes[s].status \in {"pending", "appealed"} =>
        fraudSlashes[s].deadline >= fraudSlashes[s].proposedAt + ctx.appealWindow

SlashInv ==
    /\ TypeInv
    /\ \A s \in SlashIds : Backed(s) /\ Sidelined(s) /\ Windowed(s)
    /\ \A r \in Addr : frozenUntil[r] <= time + FreezeDuration

-----------------------------------------------------------------------------
(* The steps that touch a slash, and what the others leave alone. *)

\* A step that files, contests, rules on or collects no slash.
LeavesSlashes ==
    /\ UNCHANGED <<fraudSlashes, custody, frozenUntil, unavailable>>
    /\ time' \in Nat
    /\ time' >= time

\* The slash an escrow's reversed decision files.
ReversalFiled(w, slash) ==
    /\ fraudSlashes' = [fraudSlashes EXCEPT ![<<"reversal", w>>] = slash]
    /\ slash.bondHeld = 0
    /\ slash.resolver \in Addr
    /\ slash.reason = "reversal"
    /\ \/ /\ slash.status = "pending"
          /\ slash.deadline = slash.proposedAt + ctx.appealWindow
       \/ /\ slash.status = "executed"
          /\ slash.deadline = 0
          /\ ~evidenceUpdated[w]
          /\ disputeLevels[w] > 0

LEMMA ReversalSlash ==
    ASSUME TypeInv, NEW w \in Workflows, NEW b \in BOOLEAN, HandleReversalSlashing(w, b)
    PROVE  \/ UNCHANGED fraudSlashes
           \/ \E slash \in Slash : ReversalFiled(w, slash)
<1> DEFINE round  == disputeLevels[w] - 1
           loser  == previousDecisions[w][round].resolver
           amount == ComputeFee(transfers[w].afa, ctx.reversalSlashBps)
           slash  == [ resolver |-> loser, amount |-> amount, reason |-> "reversal",
                       status |-> "executed", proposedAt |-> time, deadline |-> 0,
                       bondHeld |-> 0 ]
           contestable == [slash EXCEPT !.status = "pending",
                                        !.deadline = time + ctx.appealWindow]
<1>1. CASE ~Reverses(w, b) \/ UNCHANGED fraudSlashes
    BY <1>1 DEF HandleReversalSlashing
<1>2. CASE Reverses(w, b) /\ ~UNCHANGED fraudSlashes
    <2>1. disputeLevels[w] > 0 /\ round \in Levels
        BY <1>2 DEF Reverses, TypeInv, RoundType, Levels, MaxDisputeLevel
    <2>2. loser \in Addr
        BY <1>2, <2>1 DEF Reverses, TypeInv, DecidersNamed, Decided
    <2>3. transfers[w].afa \in Nat /\ ctx.reversalSlashBps \in Bps
        BY DEF TypeInv, EscrowType, Transfer, ClockType, Context
    <2>4. amount \in Nat
        BY <2>3, FeeIsAPart
    <2>5. time \in Nat /\ ctx.appealWindow \in Nat
        BY DEF TypeInv, ClockType, Context
    <2>6. \/ evidenceUpdated[w] /\ fraudSlashes' =
                 [fraudSlashes EXCEPT ![<<"reversal", w>>] = contestable]
          \/ ~evidenceUpdated[w] /\ fraudSlashes' =
                 [fraudSlashes EXCEPT ![<<"reversal", w>>] = slash]
        BY <1>2 DEF HandleReversalSlashing
    <2> HIDE DEF round, loser, amount
    <2>7. slash \in Slash /\ contestable \in Slash
        <3>1. slash \in Slash
            BY <2>2, <2>4, <2>5 DEF Slash, SlashStatuses, OptAddr
        <3>2. time + ctx.appealWindow \in Nat
            BY <2>5
        <3> HIDE DEF slash
        <3>3. contestable \in Slash
            BY <3>1, <3>2 DEF Slash, SlashStatuses
        <3> QED
            BY <3>1, <3>3
    <2>8. CASE evidenceUpdated[w]
        <3>1. ReversalFiled(w, contestable)
            BY <2>2, <2>6, <2>8 DEF ReversalFiled
        <3> QED
            BY <2>7, <3>1
    <2>9. CASE ~evidenceUpdated[w]
        <3>1. ReversalFiled(w, slash)
            BY <2>1, <2>2, <2>6, <2>9 DEF ReversalFiled
        <3> QED
            BY <2>7, <3>1
    <2> QED
        BY <2>8, <2>9
<1> QED
    BY <1>1, <1>2

\* The steps that touch a slash.
SlashStep ==
    \/ \E w \in Workflows, r \in Stakers, n \in SlashAmounts : ProposeFraudSlash(w, r, n)
    \/ \E s \in SlashIds : SlashAction(s)
    \/ \E w \in Workflows, a \in Addr, b \in BOOLEAN : ExecuteResolution(w, a, b)

LEMMA StepsOfSlashes ==
    ASSUME TypeInv, [Next]_vars
    PROVE  ctx' = ctx /\ (LeavesSlashes \/ SlashStep)
<1> USE DEF LeavesSlashes
<1>1. time \in Nat
    BY DEF TypeInv, ClockType
<1>2. CASE Tick
    BY <1>1, <1>2 DEF Tick, slashVars
<1>3. CASE \E o \in Orders : CreateEscrow(o)
    BY <1>1, <1>3 DEF CreateEscrow, clockVars, slashVars
<1>4. ASSUME NEW w \in Workflows, NEW a \in Addr, PartyAction(w, a)
      PROVE  ctx' = ctx /\ LeavesSlashes
    <2>1. UNCHANGED <<ctx, clockVars, slashVars>>
        BY <1>4 DEF PartyAction, RaiseDispute, Release, SenderCancel, RecipientCancel,
                    AgreeToCancel, SettledFromPending, EscalateDispute,
                    ChallengeResolution, MoveUp
    <2> QED
        BY <1>1, <2>1 DEF clockVars, slashVars
<1>5. ASSUME NEW w \in Workflows, NEW a \in Addr, ResolverAction(w, a)
      PROVE  ctx' = ctx /\ SlashStep
    BY <1>5 DEF ResolverAction, ExecuteResolution, SlashStep
<1>6. CASE \E w \in Workflows : UpdateEvidence(w)
    BY <1>1, <1>6 DEF UpdateEvidence, clockVars
<1>7. CASE \E r \in Stakers : StakeAction(r)
    BY <1>1, <1>7 DEF StakeAction, RegisterStake, WithdrawStake, clockVars, slashVars
<1>8. ASSUME NEW s \in SlashIds, SlashAction(s)
      PROVE  ctx' = ctx /\ SlashStep
    BY <1>8 DEF SlashAction, AppealSlash, ResolveAppeal, ExecuteFraudSlash, SlashStep
<1>9. CASE GovernanceAction
    <2>1. CASE \E w \in Workflows, r \in Stakers, n \in SlashAmounts : ProposeFraudSlash(w, r, n)
        BY <2>1 DEF ProposeFraudSlash, SlashStep
    <2>2. CASE \/ \E w \in Workflows, r \in Replacements : RotateDisputeResolver(w, r)
               \/ \E p \in PauseValues : SetPaused(p)
               \/ \E t \in FeeTokens : WithdrawFees(t)
        BY <1>1, <2>2 DEF RotateDisputeResolver, SetPaused, WithdrawFees, clockVars, slashVars
    <2> QED
        BY <1>9, <2>1, <2>2 DEF GovernanceAction
<1>10. ASSUME NEW w \in Workflows, KeeperAction(w)
       PROVE  ctx' = ctx /\ LeavesSlashes
    <2>1. UNCHANGED <<ctx, clockVars, slashVars>>
        BY <1>10 DEF KeeperAction, AutomateTimedActions, SettlePending,
                     ExecutePendingSettlement, AutoCancelDisputed, SettledFromPending
    <2> QED
        BY <1>1, <2>1 DEF clockVars, slashVars
<1>11. CASE UNCHANGED vars
    BY <1>1, <1>11 DEF vars, worldVars, clockVars, slashVars
<1> QED
    BY <1>2, <1>3, <1>4, <1>5, <1>6, <1>7, <1>8, <1>9, <1>10, <1>11 DEF Next, UserAction

-----------------------------------------------------------------------------
(* The invariant. *)

LEMMA InitSlashes == Init => SlashInv
<1> SUFFICES ASSUME Init
             PROVE  SlashInv
    OBVIOUS
<1>1. TypeInv
    BY InitTyped
<1>2. \A s \in SlashIds : Backed(s) /\ Sidelined(s) /\ Windowed(s)
    BY DEF Init, WorldInit, NoSlash, Backed, Sidelined, Windowed
<1>3. \A r \in Addr : frozenUntil[r] <= time + FreezeDuration
    BY TimeAssumption, SlashingAssumption DEF Init, WorldInit
<1> QED
    BY <1>1, <1>2, <1>3 DEF SlashInv

\* A step that files slash at id, and nothing else, keeps the invariant.
LEMMA FilingKeeps ==
    ASSUME SlashInv, TypeInv', NEW id \in SlashIds, NEW slash \in Slash,
           fraudSlashes' = [fraudSlashes EXCEPT ![id] = slash],
           UNCHANGED <<ctx, time, custody, frozenUntil, unavailable>>,
           slash.bondHeld = 0,
           \/ /\ slash.status = "pending"
              /\ slash.deadline = slash.proposedAt + ctx.appealWindow
           \/ slash.status = "executed" /\ slash.deadline = 0
    PROVE  SlashInv'
<1>1. fraudSlashes \in [SlashIds -> Slash]
    BY DEF SlashInv, TypeInv, SlashType
<1>2. fraudSlashes'[id] = slash
    BY <1>1
<1>3. slash.proposedAt + ctx.appealWindow \in Nat
    BY DEF SlashInv, TypeInv, ClockType, Context, Slash
<1>4. Backed(id)' /\ Sidelined(id)' /\ Windowed(id)'
    BY <1>2, <1>3 DEF Backed, Sidelined, Windowed
<1>5. ASSUME NEW s \in SlashIds, s # id
      PROVE  Backed(s)' /\ Sidelined(s)' /\ Windowed(s)'
    <2>1. fraudSlashes'[s] = fraudSlashes[s]
        BY <1>1, <1>5
    <2> QED
        BY <2>1 DEF SlashInv, Backed, Sidelined, Windowed
<1>6. \A r \in Addr : frozenUntil'[r] <= time' + FreezeDuration
    BY DEF SlashInv
<1> QED
    BY <1>4, <1>5, <1>6 DEF SlashInv

LEMMA AppealKeeps ==
    ASSUME SlashInv, TypeInv', NEW id \in SlashIds, NEW a \in Addr, AppealSlash(id, a)
    PROVE  SlashInv'
<1> DEFINE bond == ctx.appealBondAmount
<1>1. /\ fraudSlashes \in [SlashIds -> Slash]
      /\ custody \in [SlashIds -> Custody]
      /\ bond \in Nat
    BY DEF SlashInv, TypeInv, SlashType, ClockType, Context
<1>2. /\ fraudSlashes[id].status = "pending"
      /\ fraudSlashes[id].resolver = a
      /\ fraudSlashes[id].bondHeld \in Nat
    BY <1>1 DEF AppealSlash, Slash
<1>3. fraudSlashes[id].bondHeld = 0
    <2>1. Backed(id)
        BY DEF SlashInv
    <2>2. ~(fraudSlashes[id].bondHeld > 0)
        BY <1>2, <2>1 DEF Backed
    <2> QED
        BY <1>2, <2>2
<1>4. fraudSlashes' = [fraudSlashes EXCEPT ![id].status = "appealed",
                           ![id].bondHeld = IF bond > 0 THEN bond ELSE @]
    BY DEF AppealSlash
<1>5. custody' = IF bond > 0
                 THEN [custody EXCEPT ![id] =
                           [held |-> TRUE, resolver |-> a, amount |-> bond]]
                 ELSE custody
    BY DEF AppealSlash
<1>6. UNCHANGED <<ctx, time, frozenUntil, unavailable>>
    BY DEF AppealSlash, clockVars
<1> HIDE DEF bond
<1>7. /\ fraudSlashes'[id].status = "appealed"
      /\ fraudSlashes'[id].bondHeld = IF bond > 0 THEN bond ELSE 0
      /\ fraudSlashes'[id].resolver = a
      /\ fraudSlashes'[id].deadline = fraudSlashes[id].deadline
      /\ fraudSlashes'[id].proposedAt = fraudSlashes[id].proposedAt
    BY <1>1, <1>2, <1>3, <1>4 DEF Slash
<1>8. Backed(id)'
    <2>1. CASE bond > 0
        <3>1. custody'[id] = [held |-> TRUE, resolver |-> a, amount |-> bond]
            BY <1>1, <1>5, <2>1
        <3> QED
            BY <1>7, <2>1, <3>1 DEF Backed
    <2>2. CASE ~(bond > 0)
        BY <1>7, <2>2 DEF Backed
    <2> QED
        BY <2>1, <2>2
<1>9. Sidelined(id)' /\ Windowed(id)'
    BY <1>2, <1>6, <1>7 DEF SlashInv, Sidelined, Windowed
<1>10. ASSUME NEW s \in SlashIds, s # id
       PROVE  Backed(s)' /\ Sidelined(s)' /\ Windowed(s)'
    <2>1. fraudSlashes'[s] = fraudSlashes[s] /\ custody'[s] = custody[s]
        BY <1>1, <1>4, <1>5, <1>10
    <2> QED
        BY <1>6, <2>1 DEF SlashInv, Backed, Sidelined, Windowed
<1> QED
    BY <1>6, <1>8, <1>9, <1>10 DEF SlashInv

LEMMA RulingKeeps ==
    ASSUME SlashInv, TypeInv', NEW id \in SlashIds, NEW upheld \in BOOLEAN,
           ResolveAppeal(id, upheld)
    PROVE  SlashInv'
<1>1. /\ fraudSlashes \in [SlashIds -> Slash]
      /\ custody \in [SlashIds -> Custody]
    BY DEF SlashInv, TypeInv, SlashType
<1>2. fraudSlashes[id].status = "appealed"
    BY DEF ResolveAppeal
<1>3. /\ fraudSlashes' = [fraudSlashes EXCEPT ![id] = Ruled(fraudSlashes[id], upheld)]
      /\ custody' = [custody EXCEPT ![id] = NoCustody]
      /\ UNCHANGED <<ctx, time, frozenUntil, unavailable>>
    BY DEF ResolveAppeal, clockVars
<1>4. /\ fraudSlashes'[id].status \in {"reversed", "pending"}
      /\ fraudSlashes'[id].bondHeld = 0
      /\ fraudSlashes'[id].deadline = fraudSlashes[id].deadline
      /\ fraudSlashes'[id].proposedAt = fraudSlashes[id].proposedAt
    BY <1>1, <1>3 DEF Ruled, Slash
<1>5. Backed(id)' /\ Sidelined(id)' /\ Windowed(id)'
    <2>1. Windowed(id)
        BY DEF SlashInv
    <2>2. Windowed(id)'
        BY <1>2, <1>3, <1>4, <2>1 DEF Windowed
    <2>3. Backed(id)' /\ Sidelined(id)'
        BY <1>4 DEF Backed, Sidelined
    <2> QED
        BY <2>2, <2>3
<1>6. ASSUME NEW s \in SlashIds, s # id
      PROVE  Backed(s)' /\ Sidelined(s)' /\ Windowed(s)'
    <2>1. fraudSlashes'[s] = fraudSlashes[s] /\ custody'[s] = custody[s]
        BY <1>1, <1>3, <1>6
    <2> QED
        BY <1>3, <2>1 DEF SlashInv, Backed, Sidelined, Windowed
<1> QED
    BY <1>3, <1>5, <1>6 DEF SlashInv

LEMMA CollectionKeeps ==
    ASSUME SlashInv, TypeInv', NEW id \in SlashIds, ExecuteFraudSlash(id)
    PROVE  SlashInv'
<1> DEFINE r == fraudSlashes[id].resolver
           until == time + FreezeDuration
<1>1. /\ fraudSlashes \in [SlashIds -> Slash]
      /\ frozenUntil \in [Addr -> Nat]
      /\ time \in Nat /\ FreezeDuration \in Nat
    BY SlashingAssumption DEF SlashInv, TypeInv, SlashType, ClockType
<1>2. /\ fraudSlashes[id].status = "pending"
      /\ time >= fraudSlashes[id].deadline
      /\ fraudSlashes[id].deadline \in Nat
    BY <1>1 DEF ExecuteFraudSlash, Collectable, Slash
<1>3. r \in Addr
    BY <1>2 DEF SlashInv, TypeInv, SlashedNamed
<1>4. /\ fraudSlashes' = [fraudSlashes EXCEPT ![id].status = "executed"]
      /\ frozenUntil' = [frozenUntil EXCEPT ![r] = until]
      /\ unavailable' = unavailable \cup {r}
      /\ UNCHANGED <<ctx, time, custody>>
    BY DEF ExecuteFraudSlash, Freeze, clockVars
<1>5. /\ fraudSlashes'[id].status = "executed"
      /\ fraudSlashes'[id].resolver = r
      /\ fraudSlashes'[id].deadline = fraudSlashes[id].deadline
      /\ fraudSlashes'[id].bondHeld = fraudSlashes[id].bondHeld
    BY <1>1, <1>4 DEF Slash
<1>6. fraudSlashes[id].bondHeld \in Nat /\ ~(fraudSlashes[id].bondHeld > 0)
    BY <1>1, <1>2 DEF SlashInv, Backed, Slash
<1>7. r \in unavailable' /\ frozenUntil'[r] = until
    BY <1>1, <1>3, <1>4
<1>8. \A a \in Addr : frozenUntil'[a] >= frozenUntil[a] /\ frozenUntil'[a] <= until
    BY <1>1, <1>3, <1>4 DEF SlashInv
<1> HIDE DEF r
<1>9. Backed(id)' /\ Sidelined(id)' /\ Windowed(id)'
    BY <1>1, <1>2, <1>5, <1>6, <1>7 DEF Backed, Sidelined, Windowed
<1>10. ASSUME NEW s \in SlashIds, s # id
       PROVE  Backed(s)' /\ Sidelined(s)' /\ Windowed(s)'
    <2>1. fraudSlashes'[s] = fraudSlashes[s] /\ custody'[s] = custody[s]
        BY <1>1, <1>4, <1>10
    <2>2. Backed(s)' /\ Windowed(s)'
        BY <1>4, <2>1 DEF SlashInv, Backed, Windowed
    <2>3. Sidelined(s)'
        <3> SUFFICES ASSUME fraudSlashes[s].status = "executed", fraudSlashes[s].deadline > 0
                     PROVE  /\ fraudSlashes[s].resolver \in unavailable'
                            /\ frozenUntil'[fraudSlashes[s].resolver]
                                   >= fraudSlashes[s].deadline + FreezeDuration
            BY <2>1 DEF Sidelined
        <3>1. /\ fraudSlashes[s].resolver \in unavailable
              /\ frozenUntil[fraudSlashes[s].resolver]
                     >= fraudSlashes[s].deadline + FreezeDuration
            BY DEF SlashInv, Sidelined
        <3>2. fraudSlashes[s].resolver \in Addr /\ fraudSlashes[s].deadline \in Nat
            BY <1>1 DEF SlashInv, TypeInv, SlashedNamed, Slash
        <3>3. /\ frozenUntil[fraudSlashes[s].resolver] \in Nat
              /\ frozenUntil'[fraudSlashes[s].resolver] \in Nat
            BY <3>2 DEF SlashInv, TypeInv, SlashType
        <3> QED
            BY <1>1, <1>4, <1>8, <3>1, <3>2, <3>3
    <2> QED
        BY <2>2, <2>3
<1> QED
    BY <1>4, <1>8, <1>9, <1>10 DEF SlashInv

LEMMA NextSlashes == SlashInv /\ [Next]_vars => SlashInv'
<1> SUFFICES ASSUME SlashInv, [Next]_vars
             PROVE  SlashInv'
    OBVIOUS
<1>1. TypeInv /\ TypeInv'
    BY NextTyped DEF SlashInv
<1>2. ctx' = ctx /\ (LeavesSlashes \/ SlashStep)
    BY <1>1, StepsOfSlashes
<1>3. CASE LeavesSlashes
    <2>1. time \in Nat /\ time' \in Nat /\ time' >= time
        BY <1>1, <1>3 DEF LeavesSlashes, TypeInv, ClockType
    <2>2. \A s \in SlashIds : Backed(s)' /\ Sidelined(s)' /\ Windowed(s)'
        BY <1>2, <1>3 DEF SlashInv, LeavesSlashes, Backed, Sidelined, Windowed
    <2>3. \A r \in Addr : frozenUntil'[r] <= time' + FreezeDuration
        BY <1>1, <1>3, <2>1, SlashingAssumption DEF SlashInv, LeavesSlashes, TypeInv, SlashType
    <2> QED
        BY <1>1, <2>2, <2>3 DEF SlashInv
<1>4. ASSUME NEW w \in Workflows, NEW r \in Stakers, NEW n \in SlashAmounts,
             ProposeFraudSlash(w, r, n)
      PROVE  SlashInv'
    <2> DEFINE slash == [ resolver |-> r, amount |-> n, reason |-> "fraud",
                          status |-> "pending", proposedAt |-> time,
                          deadline |-> time + ctx.appealWindow, bondHeld |-> 0 ]
               id    == <<"fraud", w>>
    <2>1. id \in SlashIds
        BY DEF SlashIds
    <2>2. /\ r \in Addr /\ n \in Nat /\ time \in Nat /\ ctx.appealWindow \in Nat
        BY <1>1, SlashingAssumption DEF TypeInv, ClockType, Context
    <2>3. slash \in Slash
        BY <2>2 DEF Slash, SlashStatuses, OptAddr
    <2>4. /\ fraudSlashes' = [fraudSlashes EXCEPT ![id] = slash]
          /\ UNCHANGED <<ctx, time, custody, frozenUntil, unavailable>>
        BY <1>4 DEF ProposeFraudSlash, clockVars
    <2>5. /\ slash.bondHeld = 0 /\ slash.status = "pending"
          /\ slash.deadline = slash.proposedAt + ctx.appealWindow
        OBVIOUS
    <2> HIDE DEF slash, id
    <2> QED
        BY <1>1, <2>1, <2>3, <2>4, <2>5, FilingKeeps
<1>5. ASSUME NEW w \in Workflows, NEW a \in Addr, NEW b \in BOOLEAN,
             ExecuteResolution(w, a, b)
      PROVE  SlashInv'
    <2>1. UNCHANGED <<ctx, time, custody, frozenUntil, unavailable>>
        BY <1>5 DEF ExecuteResolution, clockVars
    <2>2. CASE UNCHANGED fraudSlashes
        <3>1. \A s \in SlashIds : Backed(s)' /\ Sidelined(s)' /\ Windowed(s)'
            BY <2>1, <2>2 DEF SlashInv, Backed, Sidelined, Windowed
        <3> QED
            BY <1>1, <2>1, <3>1 DEF SlashInv
    <2>3. ASSUME NEW slash \in Slash, ReversalFiled(w, slash)
          PROVE  SlashInv'
        <3>1. <<"reversal", w>> \in SlashIds
            BY DEF SlashIds
        <3> QED
            BY <1>1, <2>1, <2>3, <3>1, FilingKeeps DEF ReversalFiled
    <2> QED
        BY <1>1, <1>5, <2>2, <2>3, ReversalSlash DEF ExecuteResolution
<1>6. ASSUME NEW s \in SlashIds, SlashAction(s)
      PROVE  SlashInv'
    BY <1>1, <1>6, AppealKeeps, RulingKeeps, CollectionKeeps DEF SlashAction
<1> QED
    BY <1>2, <1>3, <1>4, <1>5, <1>6 DEF SlashStep

LEMMA SlashInvariant == Spec => []SlashInv
<1>1. Init => SlashInv
    BY InitSlashes
<1>2. SlashInv /\ [Next]_vars => SlashInv'
    BY NextSlashes
<1> QED
    BY <1>1, <1>2, PTL DEF Spec

\* A bond held for a slash appeal backs an appeal that is open, in full and for
\* the resolver who posted it (appeal-slash, resolve-appeal).
THEOREM BondsBackAlways == Spec => []BondsBackOpenAppeals
<1>1. SlashInv => BondsBackOpenAppeals
    BY DEF SlashInv, Backed, BondsBackOpenAppeals
<1> QED
    BY <1>1, SlashInvariant, PTL

\* Whoever a contestable slash was collected from is unavailable, and frozen for
\* the whole freeze, whatever else is collected later (execute-fraud-slash).
THEOREM CollectedSlashesSideline == Spec => []CollectedSlashSidelines
<1>1. SlashInv => CollectedSlashSidelines
    BY DEF SlashInv, Sidelined, CollectedSlashSidelines
<1> QED
    BY <1>1, SlashInvariant, PTL

-----------------------------------------------------------------------------
(* The appeal window. *)

\* What SlashRespectsWindow allows of a step that makes slash s executed.
CollectedByTheRules(s) ==
    LET was == fraudSlashes[s]
        is  == fraudSlashes'[s]
    IN  is.status = "executed" /\ is # was =>
            \/ /\ was.status = "pending"
               /\ time >= was.proposedAt + ctx.appealWindow
               /\ is = [was EXCEPT !.status = "executed"]
            \/ /\ is.reason = "reversal"
               /\ ~evidenceUpdated[s[2]]
               /\ disputeLevels[s[2]] > 0

LEMMA CollectionByTheRules ==
    ASSUME SlashInv, [Next]_vars, NEW s \in SlashIds
    PROVE  CollectedByTheRules(s)
<1>1. TypeInv /\ fraudSlashes \in [SlashIds -> Slash]
    BY DEF SlashInv, TypeInv, SlashType
<1>2. CASE fraudSlashes'[s] = fraudSlashes[s]
    BY <1>2 DEF CollectedByTheRules
<1>3. CASE fraudSlashes'[s].status # "executed"
    BY <1>3 DEF CollectedByTheRules
<1>4. ASSUME NEW w \in Workflows, NEW r \in Stakers, NEW n \in SlashAmounts,
             ProposeFraudSlash(w, r, n)
      PROVE  CollectedByTheRules(s)
    <2>1. fraudSlashes'[s] = fraudSlashes[s] \/ fraudSlashes'[s].status = "pending"
        BY <1>1, <1>4 DEF ProposeFraudSlash
    <2> QED
        BY <1>2, <1>3, <2>1
<1>5. ASSUME NEW id \in SlashIds, NEW a \in Addr, AppealSlash(id, a)
      PROVE  CollectedByTheRules(s)
    <2>1. \/ fraudSlashes'[s] = fraudSlashes[s]
          \/ fraudSlashes'[s].status = "appealed"
        BY <1>1, <1>5 DEF AppealSlash, Slash
    <2> QED
        BY <1>2, <1>3, <2>1
<1>6. ASSUME NEW id \in SlashIds, NEW upheld \in BOOLEAN, ResolveAppeal(id, upheld)
      PROVE  CollectedByTheRules(s)
    <2>1. \/ fraudSlashes'[s] = fraudSlashes[s]
          \/ fraudSlashes'[s].status \in {"reversed", "pending"}
        BY <1>1, <1>6 DEF ResolveAppeal, Ruled, Slash
    <2> QED
        BY <1>2, <1>3, <2>1
<1>7. ASSUME NEW id \in SlashIds, ExecuteFraudSlash(id)
      PROVE  CollectedByTheRules(s)
    <2>1. fraudSlashes' = [fraudSlashes EXCEPT ![id].status = "executed"]
        BY <1>7 DEF ExecuteFraudSlash
    <2>2. CASE s # id
        BY <1>1, <1>2, <2>1, <2>2
    <2>3. CASE s = id
        <3>1. fraudSlashes[s].status = "pending" /\ time >= fraudSlashes[s].deadline
            BY <1>7, <2>3 DEF ExecuteFraudSlash, Collectable
        <3>2. fraudSlashes[s].deadline >= fraudSlashes[s].proposedAt + ctx.appealWindow
            BY <3>1 DEF SlashInv, Windowed
        <3>3. /\ time \in Nat /\ ctx.appealWindow \in Nat
              /\ fraudSlashes[s].deadline \in Nat /\ fraudSlashes[s].proposedAt \in Nat
            BY <1>1 DEF TypeInv, ClockType, Context, Slash
        <3>4. time >= fraudSlashes[s].proposedAt + ctx.appealWindow
            BY <3>1, <3>2, <3>3
        <3>5. fraudSlashes'[s] = [fraudSlashes[s] EXCEPT !.status = "executed"]
            BY <1>1, <2>1, <2>3
        <3> QED
            BY <3>1, <3>4, <3>5 DEF CollectedByTheRules
    <2> QED
        BY <2>2, <2>3
<1>8. ASSUME NEW w \in Workflows, NEW a \in Addr, NEW b \in BOOLEAN,
             ExecuteResolution(w, a, b)
      PROVE  CollectedByTheRules(s)
    <2>1. CASE UNCHANGED fraudSlashes
        BY <1>2, <2>1
    <2>2. ASSUME NEW slash \in Slash, ReversalFiled(w, slash)
          PROVE  CollectedByTheRules(s)
        <3> DEFINE id == <<"reversal", w>>
        <3>1. fraudSlashes' = [fraudSlashes EXCEPT ![id] = slash]
            BY <2>2 DEF ReversalFiled
        <3>2. CASE s # id
            BY <1>1, <1>2, <3>1, <3>2
        <3>3. CASE s = id
            <4>1. fraudSlashes'[s] = slash /\ s[2] = w
                BY <1>1, <3>1, <3>3
            <4> QED
                BY <2>2, <4>1 DEF ReversalFiled, CollectedByTheRules
        <3> QED
            BY <3>2, <3>3
    <2> QED
        BY <1>1, <1>8, <2>1, <2>2, ReversalSlash DEF ExecuteResolution
<1>9. CASE LeavesSlashes
    BY <1>2, <1>9 DEF LeavesSlashes
<1> QED
    BY <1>1, <1>4, <1>5, <1>6, <1>7, <1>8, <1>9, StepsOfSlashes DEF SlashStep, SlashAction

\* No slash is collected before its resolver has had the appeal window, while an
\* appeal is open or after one was upheld; only a reversal on unchanged evidence
\* is collected at once (execute-fraud-slash, handle-reversal-slashing).
THEOREM SlashWindowRespected == Spec => SlashRespectsWindow
<1>1. SlashInv /\ [Next]_vars => [\A s \in SlashIds : CollectedByTheRules(s)]_vars
    BY CollectionByTheRules
<1> QED
    BY <1>1, SlashInvariant, PTL DEF Spec, SlashRespectsWindow, CollectedByTheRules

-----------------------------------------------------------------------------
(* Stake that is slashed. *)

\* What a step does to the stake of r and to what r has lost: it turns one into the
\* other, adds to the stake, or is r's own withdrawal.
StakeMoves(r) ==
    \/ /\ stakes'[r] + slashTotal'[r] = stakes[r] + slashTotal[r]
       /\ slashTotal'[r] >= slashTotal[r]
    \/ /\ slashTotal'[r] = slashTotal[r]
       /\ stakes'[r] >= stakes[r]
    \/ /\ slashTotal'[r] = slashTotal[r]
       /\ \E amount \in StakeAmounts : WithdrawStake(r, amount)

LEMMA SameStakeMoves ==
    ASSUME TypeInv, UNCHANGED <<stakes, slashTotal>>, NEW r \in Addr
    PROVE  StakeMoves(r)
BY DEF StakeMoves, TypeInv, StakeType

LEMMA TakingMovesStake ==
    ASSUME TypeInv, NEW who \in Addr, NEW amount \in Nat, TakeStake(who, amount),
           NEW r \in Addr
    PROVE  StakeMoves(r)
<1> DEFINE taken == Slashable(who, amount)
<1>1. taken \in Nat
    BY SlashableBounds
<1>2. stakes \in [Addr -> Nat] /\ slashTotal \in [Addr -> Nat]
    BY DEF TypeInv, StakeType
<1>3. /\ stakes' = [stakes EXCEPT ![who] = @ - taken]
      /\ slashTotal' = [slashTotal EXCEPT ![who] = @ + taken]
    BY DEF TakeStake
<1> HIDE DEF taken
<1> QED
    BY <1>1, <1>2, <1>3 DEF StakeMoves

LEMMA StakingMovesStake ==
    ASSUME TypeInv, NEW q \in Stakers, StakeAction(q), NEW r \in Addr
    PROVE  StakeMoves(r)
<1>1. stakes \in [Addr -> Nat] /\ slashTotal \in [Addr -> Nat]
    BY DEF TypeInv, StakeType
<1>2. PICK amount \in StakeAmounts : RegisterStake(q, amount) \/ WithdrawStake(q, amount)
    BY DEF StakeAction
<1>3. amount \in Nat /\ q \in Addr
    BY SlashingAssumption
<1>4. CASE RegisterStake(q, amount)
    BY <1>1, <1>3, <1>4 DEF RegisterStake, StakeMoves
<1>5. CASE WithdrawStake(q, amount) /\ q = r
    BY <1>5 DEF WithdrawStake, StakeMoves
<1>6. CASE WithdrawStake(q, amount) /\ q # r
    BY <1>1, <1>6 DEF WithdrawStake, StakeMoves
<1> QED
    BY <1>2, <1>4, <1>5, <1>6

LEMMA ReversalMovesStake ==
    ASSUME TypeInv, NEW w \in Workflows, NEW b \in BOOLEAN,
           HandleReversalSlashing(w, b), NEW r \in Addr
    PROVE  StakeMoves(r)
<1> DEFINE round  == disputeLevels[w] - 1
           loser  == previousDecisions[w][round].resolver
           amount == ComputeFee(transfers[w].afa, ctx.reversalSlashBps)
<1>1. CASE UNCHANGED <<stakes, slashTotal>>
    BY <1>1, SameStakeMoves
<1>2. CASE ~UNCHANGED <<stakes, slashTotal>>
    <2>1. Reverses(w, b)
        BY <1>2 DEF HandleReversalSlashing, stakeVars
    <2>2. disputeLevels[w] \in Levels /\ disputeLevels[w] > 0
        BY <2>1 DEF Reverses, TypeInv, RoundType
    <2>3. round \in Levels
        BY <2>2 DEF Levels, MaxDisputeLevel
    <2>4. loser \in Addr
        BY <2>1, <2>3 DEF Reverses, TypeInv, DecidersNamed, Decided
    <2>5. transfers[w].afa \in Nat /\ ctx.reversalSlashBps \in Bps
        BY DEF TypeInv, EscrowType, Transfer, ClockType, Context
    <2>6. amount \in Nat
        BY <2>5, FeeIsAPart
    <2>7. TakeStake(loser, amount)
        BY <1>2, <2>1 DEF HandleReversalSlashing, SlashStake, stakeVars
    <2> QED
        BY <2>4, <2>6, <2>7, TakingMovesStake
<1> QED
    BY <1>1, <1>2

LEMMA StepMovesStake ==
    ASSUME TypeInv, [Next]_vars, NEW r \in Addr
    PROVE  StakeMoves(r)
<1>1. CASE UNCHANGED <<stakes, slashTotal>>
    BY <1>1, SameStakeMoves
<1>2. ASSUME NEW s \in SlashIds, ExecuteFraudSlash(s)
      PROVE  StakeMoves(r)
    <2>1. fraudSlashes[s] \in Slash /\ fraudSlashes[s].status = "pending"
        BY <1>2 DEF ExecuteFraudSlash, Collectable, TypeInv, SlashType
    <2>2. fraudSlashes[s].resolver \in Addr /\ fraudSlashes[s].amount \in Nat
        BY <2>1 DEF TypeInv, SlashedNamed, Slash
    <2>3. TakeStake(fraudSlashes[s].resolver, fraudSlashes[s].amount)
        BY <1>2 DEF ExecuteFraudSlash, SlashStake
    <2> QED
        BY <2>2, <2>3, TakingMovesStake
<1>3. ASSUME NEW w \in Workflows, NEW a \in Addr, ResolverAction(w, a)
      PROVE  StakeMoves(r)
    BY <1>3, ReversalMovesStake DEF ResolverAction, ExecuteResolution
<1>4. ASSUME NEW w \in Workflows, AutoCancelDisputed(w)
      PROVE  StakeMoves(r)
    <2>1. transfers[w].resolver \in OptAddr /\ transfers[w].afa \in Nat
        BY DEF TypeInv, EscrowType, Transfer
    <2>2. CASE transfers[w].resolver = NoAddr
        BY <1>1, <1>4, <2>2 DEF AutoCancelDisputed
    <2>3. CASE transfers[w].resolver # NoAddr
        <3>1. TakeStake(transfers[w].resolver, transfers[w].afa)
            BY <1>4, <2>3 DEF AutoCancelDisputed
        <3> QED
            BY <2>1, <2>3, <3>1, TakingMovesStake DEF OptAddr
    <2> QED
        BY <2>2, <2>3
<1>5. ASSUME NEW w \in Workflows, NEW a \in Addr, PartyAction(w, a)
      PROVE  UNCHANGED <<stakes, slashTotal>>
    BY <1>5 DEF PartyAction, RaiseDispute, Release, SenderCancel, RecipientCancel,
                AgreeToCancel, SettledFromPending, EscalateDispute,
                ChallengeResolution, MoveUp, stakeVars
<1>6. ASSUME NEW w \in Workflows,
             AutomateTimedActions(w) \/ ExecutePendingSettlement(w)
      PROVE  UNCHANGED <<stakes, slashTotal>>
    BY <1>6 DEF AutomateTimedActions, SettlePending, ExecutePendingSettlement,
                SettledFromPending, stakeVars
<1>7. CASE \/ Tick
           \/ \E o \in Orders : CreateEscrow(o)
           \/ \E w \in Workflows : UpdateEvidence(w)
           \/ UNCHANGED vars
    <2>1. UNCHANGED <<stakes, slashTotal>>
        BY <1>7 DEF Tick, CreateEscrow, UpdateEvidence, stakeVars, vars, worldVars
    <2> QED
        BY <1>1, <2>1
<1>8. CASE GovernanceAction
    <2>1. UNCHANGED <<stakes, slashTotal>>
        BY <1>8 DEF GovernanceAction, RotateDisputeResolver, ProposeFraudSlash,
                    SetPaused, WithdrawFees, stakeVars
    <2> QED
        BY <1>1, <2>1
<1>9. ASSUME NEW s \in SlashIds,
             \/ \E a \in Addr : AppealSlash(s, a)
             \/ \E upheld \in BOOLEAN : ResolveAppeal(s, upheld)
      PROVE  UNCHANGED <<stakes, slashTotal>>
    BY <1>9 DEF AppealSlash, ResolveAppeal, stakeVars
<1> QED
    BY <1>1, <1>2, <1>3, <1>4, <1>5, <1>6, <1>7, <1>8, <1>9, StakingMovesStake
    DEF Next, UserAction, KeeperAction, SlashAction

\* What a resolver loses to a slash, a reversal or a timeout leaves its stake unit
\* for unit, for any amount asked for (slash-resolver-stake).
THEOREM SlashesAlwaysMoveStake == Spec => SlashesMoveStake
<1>1. ASSUME TypeInv, [Next]_vars, NEW r \in Addr, slashTotal'[r] # slashTotal[r]
      PROVE  /\ stakes'[r] + slashTotal'[r] = stakes[r] + slashTotal[r]
             /\ slashTotal'[r] > slashTotal[r]
    <2>1. StakeMoves(r) /\ TypeInv'
        BY <1>1, StepMovesStake, NextTyped
    <2>2. slashTotal[r] \in Nat /\ slashTotal'[r] \in Nat
        BY <1>1, <2>1 DEF TypeInv, StakeType
    <2> QED
        BY <1>1, <2>1, <2>2 DEF StakeMoves
<1>2. TypeInv /\ [Next]_vars
          => [\A r \in Addr : slashTotal'[r] # slashTotal[r] =>
                 /\ stakes'[r] + slashTotal'[r] = stakes[r] + slashTotal[r]
                 /\ slashTotal'[r] > slashTotal[r]]_vars
    BY <1>1
<1> QED
    BY <1>2, TypeInvariant, PTL DEF Spec, SlashesMoveStake

LEMMA SlashIdsFinite == IsFiniteSet(SlashIds)
<1>1. IsFiniteSet({"fraud", "reversal"})
    <2>1. {"fraud", "reversal"} = {"fraud"} \cup {"reversal"}
        OBVIOUS
    <2> QED
        <3>1. IsFiniteSet({"fraud"})
            BY FS_Singleton
        <3>2. IsFiniteSet({"fraud"} \cup {"reversal"})
            BY <3>1, FS_AddElement
        <3> QED
            BY <2>1, <3>2
<1> QED
    BY <1>1, WorkflowsFinite, FS_Product DEF SlashIds

\* What WithdrawalsLeaveCover asks of a step that takes stake of r out.
LeavesCover(r) ==
    stakes'[r] < stakes[r] /\ slashTotal'[r] = slashTotal[r] =>
        /\ \A w \in Workflows :
               ~(transfers[w].state = "disputed" /\ transfers[w].resolver = r)
        /\ frozenUntil[r] <= time
        /\ \A s \in SlashIds :
               fraudSlashes[s].resolver = r
               /\ fraudSlashes[s].status \in {"pending", "appealed"}
                   => fraudSlashes'[s].amount <= stakes'[r]

LEMMA WithdrawalLeavesCover ==
    ASSUME TypeInv, NEW r \in Addr, NEW amount \in StakeAmounts, WithdrawStake(r, amount)
    PROVE  LeavesCover(r)
<1> DEFINE amounts == [s \in SlashIds |-> fraudSlashes[s].amount]
<1>1. stakes \in [Addr -> Nat] /\ amount \in Nat /\ \A s \in SlashIds : amounts[s] \in Nat
    BY SlashingAssumption DEF TypeInv, StakeType, SlashType, Slash
<1>2. stakes'[r] = stakes[r] - amount /\ UNCHANGED fraudSlashes
    BY <1>1 DEF WithdrawStake, slashVars
<1>3. ASSUME NEW s \in SlashIds, fraudSlashes[s].resolver = r,
             fraudSlashes[s].status \in {"pending", "appealed"}
      PROVE  fraudSlashes'[s].amount <= stakes'[r]
    <2>1. s \in UnsettledSlashes(r) /\ IsFiniteSet(UnsettledSlashes(r))
        BY <1>3, SlashIdsFinite, FS_Subset DEF UnsettledSlashes
    <2>2. \A x \in UnsettledSlashes(r) : amounts[x] \in Nat
        BY <1>1 DEF UnsettledSlashes
    <2>3. amounts[s] <= UnsettledAmount(r) /\ UnsettledAmount(r) \in Nat
        <3> HIDE DEF amounts
        <3>1. /\ SumFunctionOnSet(amounts, UnsettledSlashes(r)) \in Nat
              /\ amounts[s] <= SumFunctionOnSet(amounts, UnsettledSlashes(r))
            BY <2>1, <2>2, SumNat
        <3> QED
            BY <3>1 DEF UnsettledAmount, amounts
    <2>4. UnsettledAmount(r) <= stakes[r] - amount
        BY DEF WithdrawStake
    <2> QED
        BY <1>1, <1>2, <2>3, <2>4
<1> QED
    BY <1>3 DEF LeavesCover, WithdrawStake, HasActiveDispute

LEMMA StepLeavesCover ==
    ASSUME TypeInv, [Next]_vars, NEW r \in Addr
    PROVE  LeavesCover(r)
<1>1. StakeMoves(r) /\ TypeInv'
    BY StepMovesStake, NextTyped
<1>2. stakes[r] \in Nat /\ stakes'[r] \in Nat /\ slashTotal[r] \in Nat
    BY <1>1 DEF TypeInv, StakeType
<1>3. CASE stakes'[r] < stakes[r] /\ slashTotal'[r] = slashTotal[r]
    BY <1>1, <1>2, <1>3, WithdrawalLeavesCover DEF StakeMoves
<1> QED
    BY <1>3 DEF LeavesCover

\* Stake leaves only by its owner's withdrawal, and then nothing depends on it: no
\* running dispute names the resolver, it is not frozen, and what stays covers each
\* slash pending or under appeal, taken singly (withdraw-stake, guards of sew.clj).
THEOREM WithdrawalsAlwaysLeaveCover == Spec => WithdrawalsLeaveCover
<1>1. TypeInv /\ [Next]_vars => [\A r \in Addr : LeavesCover(r)]_vars
    BY StepLeavesCover
<1> QED
    BY <1>1, TypeInvariant, PTL DEF Spec, WithdrawalsLeaveCover, LeavesCover

=============================================================================

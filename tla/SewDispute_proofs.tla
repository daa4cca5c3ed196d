-------------------------- MODULE SewDispute_proofs --------------------------
(***************************************************************************)
(* The dispute of an escrow, from the call that raises it to the settlement *)
(* that carries out its last decision, is sound for any number of escrows,  *)
(* parties and resolvers and under every context.                           *)
(*                                                                          *)
(* None of the properties is inductive alone.  A deferred decision is the   *)
(* current one because rounds are decided in order; rounds are decided in   *)
(* order because a decision is refused while one is deferred; and a fresh   *)
(* escrow starts with clean records because nothing touches the records of  *)
(* one that was never disputed.  So they are proved together.               *)
(*                                                                          *)
(* What a step may do to an escrow follows from this invariant and from one *)
(* fact about the actions: a step works on at most one escrow.  The kernel  *)
(* only leaves out steps, so all of it holds there too.                     *)
(***************************************************************************)
EXTENDS SewTyping_proofs, SewKernel

\* An escrow that does not exist yet or is still pending was never disputed.
UndisputedFirst(w) == transfers[w].state \in {"none", "pending"} => ~WasDisputed(w)

EscrowInv(w) ==
    /\ UndisputedFirst(w)
    /\ DeferredIsCurrent(w)
    /\ RoundsInOrder(w)
    /\ OutcomeFollows(w)
    /\ RecordsConsistent(w)
    /\ CustomDecidesAlone(w)

ClockStarted == time > 0

DisputeInv ==
    /\ TypeInv
    /\ ClockStarted
    /\ \A w \in Workflows : EscrowInv(w)

-----------------------------------------------------------------------------
(* What a step leaves alone. *)

\* The step leaves escrow w alone, its clock apart.
SameEscrow(w) ==
    /\ transfers'[w] = transfers[w]
    /\ customResolver'[w] = customResolver[w]
    /\ pendingSettlements'[w] = pendingSettlements[w]
    /\ disputeTimestamps'[w] = disputeTimestamps[w]
    /\ disputeLevels'[w] = disputeLevels[w]
    /\ previousDecisions'[w] = previousDecisions[w]
    /\ challengers'[w] = challengers[w]
    /\ bondBalances'[w] = bondBalances[w]

disputeVars ==
    <<transfers, customResolver, pendingSettlements, disputeTimestamps,
      disputeLevels, previousDecisions, challengers, bondBalances>>

\* The step leaves every escrow but w alone.
OthersSame(w) == \A v \in Workflows \ {w} : SameEscrow(v)

\* The invariant of an escrow survives every step that leaves it alone, though
\* time may pass.
LEMMA Frame ==
    ASSUME TypeInv, TypeInv', NEW w \in Workflows, EscrowInv(w), SameEscrow(w),
           ctx' = ctx, time' >= time
    PROVE  EscrowInv(w)'
<1>1. time \in Nat /\ time' \in Nat
    BY DEF TypeInv, ClockType
<1>2. \A l \in Levels : Decided(w, l)' <=> Decided(w, l)
    BY DEF SameEscrow, Decided
<1>3. /\ WasDisputed(w)' <=> WasDisputed(w)
      /\ Terminal(w)' <=> Terminal(w)
      /\ FinalRound(w)' <=> FinalRound(w)
    BY DEF SameEscrow, WasDisputed, Terminal, FinalRound
<1>4. disputeLevels[w] \in Levels
    BY DEF TypeInv, RoundType
<1>5. UndisputedFirst(w)'
    BY <1>3 DEF EscrowInv, UndisputedFirst, SameEscrow
<1>6. DeferredIsCurrent(w)'
    <2>1. DecisionWindow(ctx) \in Nat /\ DecisionWindow(ctx)' = DecisionWindow(ctx)
        BY WindowIsNat DEF DecisionWindow, Greatest
    <2>2. pendingSettlements[w].deadline \in Nat
        BY DEF TypeInv, RoundType, Settlement
    <2> QED
        BY <1>1, <1>2, <1>3, <1>4, <2>1, <2>2
        DEF EscrowInv, DeferredIsCurrent, SameEscrow
<1>7. RoundsInOrder(w)'
    BY <1>2, <1>3 DEF EscrowInv, RoundsInOrder, SameEscrow
<1>8. OutcomeFollows(w)'
    BY <1>2, <1>3, <1>4 DEF EscrowInv, OutcomeFollows, SameEscrow
<1>9. RecordsConsistent(w)'
    <2>1. disputeTimestamps[w] \in Nat
        BY DEF TypeInv, RoundType
    <2> QED
        BY <1>1, <1>2, <1>3, <2>1 DEF EscrowInv, RecordsConsistent, SameEscrow
<1>10. CustomDecidesAlone(w)'
    BY <1>2 DEF EscrowInv, CustomDecidesAlone, SameEscrow
<1> QED
    BY <1>5, <1>6, <1>7, <1>8, <1>9, <1>10 DEF EscrowInv

\* A step of one escrow keeps the invariant if it keeps that escrow's.
LEMMA OneEscrow ==
    ASSUME DisputeInv, TypeInv', NEW w \in Workflows, OthersSame(w),
           EscrowInv(w)', UNCHANGED <<ctx, clockVars>>
    PROVE  DisputeInv'
<1>1. ctx' = ctx /\ time' = time /\ time \in Nat
    BY DEF clockVars, DisputeInv, TypeInv, ClockType
<1>2. \A v \in Workflows \ {w} : EscrowInv(v)'
    BY <1>1, Frame DEF DisputeInv, OthersSame
<1> QED
    BY <1>1, <1>2 DEF DisputeInv, ClockStarted

\* A step that touches no dispute keeps the invariant.
LEMMA NoEscrow ==
    ASSUME DisputeInv, TypeInv', UNCHANGED disputeVars, ctx' = ctx, time' >= time
    PROVE  DisputeInv'
<1>1. \A w \in Workflows : SameEscrow(w)
    BY DEF disputeVars, SameEscrow
<1>2. \A w \in Workflows : EscrowInv(w)'
    BY <1>1, Frame DEF DisputeInv
<1>3. ClockStarted'
    BY DEF DisputeInv, ClockStarted, TypeInv, ClockType
<1> QED
    BY <1>2, <1>3 DEF DisputeInv

LEMMA InitDispute == Init => DisputeInv
<1> SUFFICES ASSUME Init
             PROVE  DisputeInv
    OBVIOUS
<1>1. TypeInv
    BY InitTyped
<1>2. ClockStarted
    BY TimeAssumption DEF ClockStarted, Init, WorldInit
<1>3. ASSUME NEW w \in Workflows
      PROVE  EscrowInv(w)
    <2>1. /\ transfers[w] = NoTransfer
          /\ pendingSettlements[w] = NoSettlement
          /\ disputeTimestamps[w] = 0
          /\ disputeLevels[w] = 0
          /\ \A a \in Addr : bondBalances[w][a] = 0
          /\ \A l \in Levels : ~Decided(w, l) /\ challengers[w][l] = NoAddr
        BY DEF Init, WorldInit, Decided
    <2>2. 0 \in Levels
        BY DEF Levels, MaxDisputeLevel
    <2>3. ~WasDisputed(w) /\ ~Terminal(w) /\ transfers[w].state = "none"
        BY <2>1 DEF NoTransfer, WasDisputed, Terminal, TerminalStates
    <2>4. ~pendingSettlements[w].exists
        BY <2>1 DEF NoSettlement
    <2> QED
        BY <2>1, <2>2, <2>3, <2>4
        DEF EscrowInv, UndisputedFirst, DeferredIsCurrent, RoundsInOrder,
            OutcomeFollows, RecordsConsistent, CustomDecidesAlone, Levels
<1> QED
    BY <1>1, <1>2, <1>3 DEF DisputeInv

-----------------------------------------------------------------------------
(* The actions that touch a dispute. *)

\* The records of an escrow in a state before any dispute.
LEMMA FreshRecords ==
    ASSUME DisputeInv, NEW w \in Workflows, transfers[w].state \in {"none", "pending"}
    PROVE  /\ ~WasDisputed(w)
           /\ ~pendingSettlements[w].exists
           /\ disputeTimestamps[w] = 0
           /\ disputeLevels[w] = 0
           /\ \A l \in Levels : ~Decided(w, l) /\ challengers[w][l] = NoAddr
           /\ \A a \in Addr : bondBalances[w][a] = 0
<1>1. EscrowInv(w)
    BY DEF DisputeInv
<1>2. ~WasDisputed(w)
    BY <1>1 DEF EscrowInv, UndisputedFirst
<1>3. ~pendingSettlements[w].exists
    BY <1>1 DEF EscrowInv, DeferredIsCurrent
<1> QED
    BY <1>1, <1>2, <1>3 DEF EscrowInv, RecordsConsistent, Levels

LEMMA CreateEscrowDispute ==
    ASSUME DisputeInv, TypeInv', NEW o, CreateEscrow(o)
    PROVE  DisputeInv'
<1> DEFINE fee      == ComputeFee(o.amount, ctx.feeBps)
           resolver == IF o.custom # NoAddr THEN o.custom ELSE ctx.resolver
           et       == [ state |-> "pending", from |-> o.from, to |-> o.to,
                         token |-> o.token, afa |-> o.amount - fee, fee |-> fee,
                         resolver |-> resolver,
                         autoRelease |-> DelayedTime(ctx.autoReleaseDelay),
                         autoCancel |-> DelayedTime(ctx.autoCancelDelay),
                         senderStatus |-> "none", recipientStatus |-> "none" ]
<1>0. /\ et.state = "pending"
      /\ et.senderStatus = "none"
      /\ et.recipientStatus = "none"
    OBVIOUS
<1>1. PICK w \in Workflows :
          /\ IsNextId(w)
          /\ transfers' = [transfers EXCEPT ![w] = et]
          /\ customResolver' = [customResolver EXCEPT ![w] = o.custom]
          /\ UNCHANGED <<ctx, clockVars, roundVars, bondVars>>
    BY DEF CreateEscrow
<1> HIDE DEF et
<1>2. transfers[w].state = "none"
    <2>1. ~(w < w)
        BY DEF Workflows
    <2> QED
        BY <1>1, <2>1 DEF IsNextId, Exists
<1>3. OthersSame(w)
    BY <1>1 DEF DisputeInv, TypeInv, EscrowType, OthersSame, SameEscrow, roundVars, bondVars
<1>4. /\ transfers'[w].state = "pending"
      /\ ~WasDisputed(w)'
    BY <1>0, <1>1 DEF DisputeInv, TypeInv, EscrowType, WasDisputed
<1>5. /\ ~pendingSettlements'[w].exists
      /\ disputeTimestamps'[w] = 0
      /\ disputeLevels'[w] = 0
      /\ \A l \in Levels : ~Decided(w, l)' /\ challengers'[w][l] = NoAddr
      /\ \A a \in Addr : bondBalances'[w][a] = 0
    BY <1>1, <1>2, FreshRecords DEF roundVars, bondVars, Decided
<1>6. EscrowInv(w)'
    BY <1>4, <1>5
    DEF EscrowInv, UndisputedFirst, DeferredIsCurrent, RoundsInOrder, OutcomeFollows,
        RecordsConsistent, CustomDecidesAlone, Levels
<1> QED
    BY <1>1, <1>3, <1>6, OneEscrow

LEMMA RaiseDisputeDispute ==
    ASSUME DisputeInv, TypeInv', NEW w \in Workflows, NEW a \in Addr, RaiseDispute(w, a)
    PROVE  DisputeInv'
<1>1. /\ transfers[w].state = "pending"
      /\ transfers[w] \in Transfer
      /\ transfers \in [Workflows -> Transfer]
      /\ disputeTimestamps \in [Workflows -> Nat]
      /\ time \in Nat /\ time > 0
    BY DEF RaiseDispute, DisputeInv, TypeInv, EscrowType, RoundType, ClockType, ClockStarted
<1>2. OthersSame(w)
    BY <1>1 DEF RaiseDispute, OthersSame, SameEscrow, bondVars
<1>3. transfers'[w] = Raised(transfers[w], a)
    BY <1>1 DEF RaiseDispute
<1>4. /\ transfers'[w].state = "disputed"
      /\ {transfers'[w].senderStatus, transfers'[w].recipientStatus} = {"raise-dispute", "none"}
    BY <1>1, <1>3 DEF Raised, Transfer
<1>5. WasDisputed(w)' /\ ~Terminal(w)'
    BY <1>4 DEF WasDisputed, Terminal, TerminalStates
<1>6. /\ ~pendingSettlements'[w].exists
      /\ disputeTimestamps'[w] = time
      /\ disputeLevels'[w] = 0
      /\ \A l \in Levels : ~Decided(w, l)' /\ challengers'[w][l] = NoAddr
    BY <1>1, FreshRecords DEF RaiseDispute, Decided
<1>7. time' = time
    BY DEF RaiseDispute, clockVars
<1>8. EscrowInv(w)'
    BY <1>1, <1>4, <1>5, <1>6, <1>7
    DEF EscrowInv, UndisputedFirst, DeferredIsCurrent, RoundsInOrder, OutcomeFollows,
        RecordsConsistent, CustomDecidesAlone, Levels
<1> QED
    BY <1>2, <1>8, OneEscrow DEF RaiseDispute

\* A settlement of an escrow that was not in dispute.
LEMMA SettledUndisputed ==
    ASSUME DisputeInv, TypeInv', NEW w \in Workflows, NEW et, NEW outcome,
           transfers[w].state = "pending",
           outcome \in {"released", "refunded"},
           et \in Transfer,
           "raise-dispute" \notin {et.senderStatus, et.recipientStatus},
           Finalize(w, et, outcome), SettledFromPending
    PROVE  DisputeInv'
<1>1. /\ transfers \in [Workflows -> Transfer]
      /\ pendingSettlements \in [Workflows -> Settlement]
    BY DEF DisputeInv, TypeInv, EscrowType, RoundType
<1>2. OthersSame(w)
    BY <1>1 DEF Finalize, SettledFromPending, OthersSame, SameEscrow, bondVars
<1>3. /\ transfers'[w].state = outcome
      /\ ~WasDisputed(w)'
      /\ ~pendingSettlements'[w].exists
    BY <1>1 DEF Finalize, WasDisputed, Transfer, NoSettlement
<1>4. Terminal(w)'
    BY <1>3 DEF Terminal, TerminalStates
<1>5. /\ disputeTimestamps'[w] = 0
      /\ disputeLevels'[w] = 0
      /\ \A l \in Levels : ~Decided(w, l)' /\ challengers'[w][l] = NoAddr
      /\ \A a \in Addr : bondBalances'[w][a] = 0
    BY FreshRecords DEF SettledFromPending, Decided, bondVars
<1>6. EscrowInv(w)'
    BY <1>3, <1>4, <1>5
    DEF EscrowInv, UndisputedFirst, DeferredIsCurrent, RoundsInOrder, OutcomeFollows,
        RecordsConsistent, CustomDecidesAlone, Levels
<1> QED
    BY <1>2, <1>6, OneEscrow DEF SettledFromPending

LEMMA PendingNeverDisputed ==
    ASSUME DisputeInv, NEW w \in Workflows, transfers[w].state = "pending"
    PROVE  /\ transfers[w] \in Transfer
           /\ "raise-dispute" \notin {transfers[w].senderStatus, transfers[w].recipientStatus}
BY FreshRecords DEF WasDisputed, DisputeInv, TypeInv, EscrowType

LEMMA ReleaseDispute ==
    ASSUME DisputeInv, TypeInv', NEW w \in Workflows, NEW a \in Addr, Release(w, a)
    PROVE  DisputeInv'
BY PendingNeverDisputed, SettledUndisputed DEF Release

LEMMA AgreeToCancelDispute ==
    ASSUME DisputeInv, TypeInv', NEW w \in Workflows, NEW agreed \in Transfer,
           transfers[w].state = "pending", agreed.state = "pending",
           "raise-dispute" \notin {agreed.senderStatus, agreed.recipientStatus},
           AgreeToCancel(w, agreed)
    PROVE  DisputeInv'
<1>1. CASE Finalize(w, agreed, "refunded") /\ SettledFromPending
    BY <1>1, SettledUndisputed
<1>2. CASE /\ transfers' = [transfers EXCEPT ![w] = agreed]
           /\ UNCHANGED <<ctx, clockVars, customResolver, rotations, roundVars,
                          ledgerVars, bondVars, stakeVars, slashVars>>
    <2>1. OthersSame(w)
        BY <1>2 DEF DisputeInv, TypeInv, EscrowType, OthersSame, SameEscrow,
                    roundVars, bondVars
    <2>2. transfers'[w] = agreed
        BY <1>2 DEF DisputeInv, TypeInv, EscrowType
    <2>3. ~WasDisputed(w)' /\ ~Terminal(w)' /\ transfers'[w].state = "pending"
        BY <2>2 DEF WasDisputed, Terminal, TerminalStates
    <2>4. /\ ~pendingSettlements'[w].exists
          /\ disputeTimestamps'[w] = 0
          /\ disputeLevels'[w] = 0
          /\ \A l \in Levels : ~Decided(w, l)' /\ challengers'[w][l] = NoAddr
          /\ \A x \in Addr : bondBalances'[w][x] = 0
        BY <1>2, FreshRecords DEF roundVars, bondVars, Decided
    <2>5. EscrowInv(w)'
        BY <2>3, <2>4
        DEF EscrowInv, UndisputedFirst, DeferredIsCurrent, RoundsInOrder,
            OutcomeFollows, RecordsConsistent, CustomDecidesAlone, Levels
    <2> QED
        BY <1>2, <2>1, <2>5, OneEscrow
<1> QED
    BY <1>1, <1>2 DEF AgreeToCancel

LEMMA CancelDispute ==
    ASSUME DisputeInv, TypeInv', NEW w \in Workflows, NEW a \in Addr,
           SenderCancel(w, a) \/ RecipientCancel(w, a)
    PROVE  DisputeInv'
<1>1. transfers[w].state = "pending"
    BY DEF SenderCancel, RecipientCancel
<1>2. /\ transfers[w] \in Transfer
      /\ "raise-dispute" \notin {transfers[w].senderStatus, transfers[w].recipientStatus}
    BY <1>1, PendingNeverDisputed
<1>3. PICK agreed \in Transfer :
          /\ agreed.state = "pending"
          /\ "raise-dispute" \notin {agreed.senderStatus, agreed.recipientStatus}
          /\ AgreeToCancel(w, agreed)
    <2>1. CASE SenderCancel(w, a)
        <3> DEFINE agreed == [transfers[w] EXCEPT !.senderStatus = "agree-to-cancel"]
        <3>1. agreed \in Transfer /\ agreed.state = "pending"
              /\ "raise-dispute" \notin {agreed.senderStatus, agreed.recipientStatus}
            BY <1>1, <1>2 DEF Transfer, PartyStatuses
        <3> QED
            BY <2>1, <3>1 DEF SenderCancel
    <2>2. CASE RecipientCancel(w, a)
        <3> DEFINE agreed == [transfers[w] EXCEPT !.recipientStatus = "agree-to-cancel"]
        <3>1. agreed \in Transfer /\ agreed.state = "pending"
              /\ "raise-dispute" \notin {agreed.senderStatus, agreed.recipientStatus}
            BY <1>1, <1>2 DEF Transfer, PartyStatuses
        <3> QED
            BY <2>2, <3>1 DEF RecipientCancel
    <2> QED
        BY <2>1, <2>2
<1> QED
    BY <1>1, <1>3, AgreeToCancelDispute

LEMMA DisputedFacts ==
    ASSUME DisputeInv, NEW w \in Workflows, transfers[w].state = "disputed"
    PROVE  /\ transfers[w] \in Transfer
           /\ WasDisputed(w)
           /\ ~Terminal(w)
           /\ disputeLevels[w] \in Levels
           /\ EscrowInv(w)
<1>1. EscrowInv(w)
    BY DEF DisputeInv
<1> QED
    BY <1>1 DEF DisputeInv, TypeInv, EscrowType, RoundType, EscrowInv, RecordsConsistent,
                Terminal, TerminalStates

\* A settlement of a disputed escrow: whatever settles it, the invariant is kept
\* if the outcome is the one its last round decided.
LEMMA SettledDisputed ==
    ASSUME DisputeInv, TypeInv', NEW w \in Workflows, NEW outcome,
           transfers[w].state = "disputed",
           outcome \in {"released", "refunded"},
           Finalize(w, transfers[w], outcome),
           UNCHANGED <<ctx, clockVars, customResolver, disputeLevels, challengers,
                       bondBalances>>,
           \A v \in Workflows \ {w} : /\ disputeTimestamps'[v] = disputeTimestamps[v]
                                      /\ previousDecisions'[v] = previousDecisions[v],
           \A l \in Levels : l # disputeLevels[w] => (Decided(w, l)' <=> Decided(w, l)),
           outcome = IF Decided(w, disputeLevels[w])'
                     THEN OutcomeOf(previousDecisions'[w][disputeLevels[w]].isRelease)
                     ELSE "refunded",
           CustomDecidesAlone(w)'
    PROVE  DisputeInv'
<1>1. /\ transfers \in [Workflows -> Transfer]
      /\ pendingSettlements \in [Workflows -> Settlement]
    BY DEF DisputeInv, TypeInv, EscrowType, RoundType
<1>2. /\ transfers[w] \in Transfer /\ WasDisputed(w) /\ ~Terminal(w)
      /\ disputeLevels[w] \in Levels /\ EscrowInv(w)
    BY DisputedFacts
<1>3. OthersSame(w)
    BY <1>1 DEF Finalize, OthersSame, SameEscrow
<1>4. /\ transfers'[w] = [transfers[w] EXCEPT !.state = outcome]
      /\ ~pendingSettlements'[w].exists
    BY <1>1 DEF Finalize, NoSettlement
<1>5. /\ transfers'[w].state = outcome
      /\ WasDisputed(w)'
      /\ Terminal(w)'
    BY <1>2, <1>4 DEF WasDisputed, Terminal, TerminalStates, Transfer
<1>6. disputeLevels' = disputeLevels /\ challengers' = challengers
    OBVIOUS
<1>7. UndisputedFirst(w)' /\ DeferredIsCurrent(w)'
    BY <1>4, <1>5 DEF UndisputedFirst, DeferredIsCurrent
<1>8. RoundsInOrder(w)'
    BY <1>2, <1>5, <1>6 DEF EscrowInv, RoundsInOrder, Levels
<1>9. OutcomeFollows(w)'
    BY <1>5, <1>6 DEF OutcomeFollows
<1>10. RecordsConsistent(w)'
    BY <1>2, <1>5, <1>6 DEF EscrowInv, RecordsConsistent
<1>11. EscrowInv(w)'
    BY <1>7, <1>8, <1>9, <1>10 DEF EscrowInv
<1> QED
    BY <1>3, <1>11, OneEscrow

LEMMA SettlePendingDispute ==
    ASSUME DisputeInv, TypeInv', NEW w \in Workflows, SettlePending(w)
    PROVE  DisputeInv'
<1> DEFINE outcome == OutcomeOf(pendingSettlements[w].isRelease)
<1>1. /\ transfers[w].state = "disputed"
      /\ pendingSettlements[w].exists
      /\ Finalize(w, transfers[w], outcome)
      /\ SettledFromPending
    BY DEF SettlePending, PendingExecutable
<1>2. EscrowInv(w)
    BY <1>1, DisputedFacts
<1>3. /\ Decided(w, disputeLevels[w])
      /\ pendingSettlements[w].isRelease = previousDecisions[w][disputeLevels[w]].isRelease
    BY <1>1, <1>2 DEF EscrowInv, DeferredIsCurrent
<1>4. previousDecisions' = previousDecisions /\ customResolver' = customResolver
    BY <1>1 DEF SettledFromPending
<1>5. \A l \in Levels : Decided(w, l)' <=> Decided(w, l)
    BY <1>4 DEF Decided
<1>6. Decided(w, disputeLevels[w])'
    <2>1. disputeLevels' = disputeLevels
        BY <1>1 DEF SettledFromPending
    <2> QED
        BY <1>3, <1>4, <2>1 DEF Decided
<1>7. CustomDecidesAlone(w)'
    BY <1>2, <1>4, <1>5 DEF EscrowInv, CustomDecidesAlone
<1>8. outcome \in {"released", "refunded"}
    BY DEF OutcomeOf
<1>9. outcome = OutcomeOf(previousDecisions'[w][disputeLevels[w]].isRelease)
    BY <1>3, <1>4
<1>10. UNCHANGED <<ctx, clockVars, customResolver, disputeLevels, challengers,
                   bondBalances, disputeTimestamps>>
    BY <1>1 DEF SettledFromPending, bondVars
<1> HIDE DEF outcome
<1> QED
    BY <1>1, <1>4, <1>5, <1>6, <1>7, <1>8, <1>9, <1>10, SettledDisputed

LEMMA AutomateTimedActionsDispute ==
    ASSUME DisputeInv, TypeInv', NEW w \in Workflows, AutomateTimedActions(w)
    PROVE  DisputeInv'
<1>1. CASE SettlePending(w)
    BY <1>1, SettlePendingDispute
<1>2. ASSUME NEW outcome \in {"released", "refunded"}, transfers[w].state = "pending",
             Finalize(w, transfers[w], outcome), SettledFromPending
      PROVE  DisputeInv'
    BY <1>2, PendingNeverDisputed, SettledUndisputed
<1> QED
    BY <1>1, <1>2 DEF AutomateTimedActions, AutoReleaseDue, AutoCancelDue

LEMMA AutoCancelDisputedDispute ==
    ASSUME DisputeInv, TypeInv', NEW w \in Workflows, AutoCancelDisputed(w)
    PROVE  DisputeInv'
<1>1. /\ transfers[w].state = "disputed"
      /\ ~pendingSettlements[w].exists
      /\ Finalize(w, transfers[w], "refunded")
      /\ UNCHANGED <<ctx, clockVars, customResolver, disputeLevels, previousDecisions,
                     challengers, bondBalances>>
      /\ disputeTimestamps' = [disputeTimestamps EXCEPT ![w] = 0]
    BY DEF AutoCancelDisputed, DisputeTimeoutExceeded, bondVars
<1>2. EscrowInv(w) /\ ~Terminal(w) /\ disputeLevels[w] \in Levels
    BY <1>1, DisputedFacts
<1>3. ~Decided(w, disputeLevels[w])
    BY <1>1, <1>2 DEF EscrowInv, RoundsInOrder
<1>4. \A l \in Levels : Decided(w, l)' <=> Decided(w, l)
    BY <1>1 DEF Decided
<1>5. ~Decided(w, disputeLevels[w])'
    BY <1>1, <1>3 DEF Decided
<1>6. CustomDecidesAlone(w)'
    BY <1>1, <1>2, <1>4 DEF EscrowInv, CustomDecidesAlone
<1>7. \A v \in Workflows \ {w} : disputeTimestamps'[v] = disputeTimestamps[v]
    BY <1>1 DEF DisputeInv, TypeInv, RoundType
<1> QED
    BY <1>1, <1>4, <1>5, <1>6, <1>7, SettledDisputed

LEMMA ExecuteResolutionDispute ==
    ASSUME DisputeInv, TypeInv', NEW w \in Workflows, NEW a \in Addr, NEW b \in BOOLEAN,
           ExecuteResolution(w, a, b)
    PROVE  DisputeInv'
<1> DEFINE level    == disputeLevels[w]
           decision == [resolver |-> a, isRelease |-> b]
<1>1. /\ transfers[w].state = "disputed"
      /\ Authorized(w, a)
      /\ ~pendingSettlements[w].exists
      /\ previousDecisions' = [previousDecisions EXCEPT ![w][level] = decision]
      /\ UNCHANGED <<ctx, clockVars, customResolver, disputeTimestamps, disputeLevels,
                     challengers, bondBalances>>
    BY DEF ExecuteResolution, Decidable, bondVars
<1>2. /\ transfers[w] \in Transfer /\ WasDisputed(w) /\ ~Terminal(w)
      /\ level \in Levels /\ EscrowInv(w)
    BY <1>1, DisputedFacts
<1>3. decision # NoDecision /\ decision.resolver = a /\ decision.isRelease = b
    BY NoAddrAssumption DEF NoDecision
<1> HIDE DEF decision
<1>4. previousDecisions \in [Workflows -> [Levels -> Decision]]
    BY DEF DisputeInv, TypeInv, RoundType
<1>5. /\ previousDecisions'[w][level] = decision
      /\ \A l \in Levels : l # level => previousDecisions'[w][l] = previousDecisions[w][l]
      /\ \A v \in Workflows \ {w} : previousDecisions'[v] = previousDecisions[v]
    BY <1>1, <1>2, <1>4
<1>6. /\ \A l \in Levels : l # level => (Decided(w, l)' <=> Decided(w, l))
      /\ Decided(w, level)'
    <2>1. level' = level
        BY <1>1
    <2> QED
        BY <1>3, <1>5, <2>1 DEF Decided
<1>7. CustomDecidesAlone(w)'
    <2>1. customResolver[w] # NoAddr => a = customResolver[w]
        BY <1>1 DEF Authorized
    <2> QED
        BY <1>1, <1>2, <1>3, <1>5, <1>6, <2>1 DEF EscrowInv, CustomDecidesAlone
<1>8. CASE FinalRound(w) \/ DecisionWindow(ctx) = 0
    <2>1. Finalize(w, transfers[w], OutcomeOf(b))
        BY <1>8 DEF ExecuteResolution
    <2>2. OutcomeOf(b) \in {"released", "refunded"}
        BY DEF OutcomeOf
    <2>3. OutcomeOf(b) = OutcomeOf(previousDecisions'[w][level].isRelease)
        BY <1>3, <1>5
    <2> QED
        BY <1>1, <1>5, <1>6, <1>7, <2>1, <2>2, <2>3, SettledDisputed
<1>9. CASE ~(FinalRound(w) \/ DecisionWindow(ctx) = 0)
    <2> DEFINE deferred == [ exists |-> TRUE, isRelease |-> b,
                             deadline |-> time + DecisionWindow(ctx) ]
    <2>1. /\ pendingSettlements' = [pendingSettlements EXCEPT ![w] = deferred]
          /\ UNCHANGED transfers
        BY <1>9 DEF ExecuteResolution
    <2>2. pendingSettlements'[w] = deferred
        BY <2>1 DEF DisputeInv, TypeInv, RoundType
    <2>3. OthersSame(w)
        BY <1>1, <1>5, <2>1 DEF DisputeInv, TypeInv, RoundType, OthersSame, SameEscrow
    <2>4. WasDisputed(w)' /\ transfers'[w].state = "disputed" /\ ~Terminal(w)'
        BY <1>1, <1>2, <2>1 DEF WasDisputed, Terminal
    <2>5. UndisputedFirst(w)'
        BY <2>4 DEF UndisputedFirst
    <2>6. DeferredIsCurrent(w)'
        <3>1. /\ time' = time /\ DecisionWindow(ctx)' = DecisionWindow(ctx)
              /\ time + DecisionWindow(ctx) \in Nat
              /\ disputeLevels' = disputeLevels
            BY <1>1, WindowIsNat
            DEF clockVars, DecisionWindow, Greatest, DisputeInv, TypeInv, ClockType
        <3>2. ~FinalRound(w)'
            BY <1>9, <3>1 DEF FinalRound
        <3>3. previousDecisions'[w][disputeLevels'[w]].isRelease = b
            BY <1>3, <1>5, <3>1
        <3> QED
            BY <1>6, <2>2, <2>4, <3>1, <3>2, <3>3 DEF DeferredIsCurrent
    <2>7. RoundsInOrder(w)'
        BY <1>1, <1>2, <1>6, <2>2 DEF EscrowInv, RoundsInOrder, Levels
    <2>8. OutcomeFollows(w)'
        BY <2>4 DEF OutcomeFollows
    <2>9. RecordsConsistent(w)'
        BY <1>1, <1>2, <2>1, <2>4 DEF EscrowInv, RecordsConsistent, clockVars
    <2> QED
        BY <1>1, <1>7, <2>3, <2>5, <2>6, <2>7, <2>8, <2>9, OneEscrow DEF EscrowInv
<1> QED
    BY <1>8, <1>9

LEMMA MoveUpDispute ==
    ASSUME DisputeInv, TypeInv', NEW w \in Workflows, NEW a \in Addr, NEW bond,
           Appealable(w), MoveUp(w, a, bond),
           \A v \in Workflows \ {w} : challengers'[v] = challengers[v],
           \A l \in Levels : l # disputeLevels[w] => challengers'[w][l] = challengers[w][l]
    PROVE  DisputeInv'
<1> DEFINE level == disputeLevels[w]
<1>1. /\ transfers[w].state = "disputed"
      /\ ~FinalRound(w)
      /\ pendingSettlements[w].exists
    BY DEF Appealable
<1>2. /\ transfers[w] \in Transfer /\ WasDisputed(w) /\ ~Terminal(w)
      /\ level \in Levels /\ EscrowInv(w)
    BY <1>1, DisputedFacts
<1>3. /\ transfers \in [Workflows -> Transfer]
      /\ pendingSettlements \in [Workflows -> Settlement]
      /\ disputeLevels \in [Workflows -> Levels]
      /\ bondBalances \in [Workflows -> [Addr -> Nat]]
    BY DEF DisputeInv, TypeInv, EscrowType, RoundType, BondType
<1>4. /\ transfers' = [transfers EXCEPT ![w].resolver = ctx.levels[level + 1]]
      /\ pendingSettlements' = [pendingSettlements EXCEPT ![w] = NoSettlement]
      /\ disputeLevels' = [disputeLevels EXCEPT ![w] = level + 1]
      /\ UNCHANGED <<ctx, clockVars, customResolver, disputeTimestamps, previousDecisions>>
    BY DEF MoveUp, CancelPending
<1>5. \A v \in Workflows \ {w} : bondBalances'[v] = bondBalances[v]
    BY <1>3 DEF MoveUp, PostBond
<1>6. OthersSame(w)
    BY <1>3, <1>4, <1>5 DEF OthersSame, SameEscrow
<1>7. /\ transfers'[w].state = "disputed"
      /\ transfers'[w].senderStatus = transfers[w].senderStatus
      /\ transfers'[w].recipientStatus = transfers[w].recipientStatus
    BY <1>1, <1>2, <1>3, <1>4 DEF Transfer
<1>8. WasDisputed(w)' /\ ~Terminal(w)'
    BY <1>2, <1>7 DEF WasDisputed, Terminal, TerminalStates
<1>9. ~pendingSettlements'[w].exists /\ disputeLevels'[w] = level + 1
    BY <1>3, <1>4 DEF NoSettlement
<1>10. \A l \in Levels : Decided(w, l)' <=> Decided(w, l)
    BY <1>4 DEF Decided
<1>11. Decided(w, level)
    BY <1>1, <1>2 DEF EscrowInv, DeferredIsCurrent
<1>12. UndisputedFirst(w)' /\ DeferredIsCurrent(w)' /\ OutcomeFollows(w)'
    BY <1>7, <1>8, <1>9 DEF UndisputedFirst, DeferredIsCurrent, OutcomeFollows
<1>13. RoundsInOrder(w)'
    BY <1>2, <1>9, <1>10, <1>11 DEF EscrowInv, RoundsInOrder, Levels
<1>14. RecordsConsistent(w)'
    BY <1>1, <1>2, <1>4, <1>7, <1>8, <1>9 DEF EscrowInv, RecordsConsistent, Levels, clockVars
<1>15. CustomDecidesAlone(w)'
    BY <1>2, <1>4, <1>10 DEF EscrowInv, CustomDecidesAlone
<1> QED
    BY <1>4, <1>6, <1>12, <1>13, <1>14, <1>15, OneEscrow DEF EscrowInv

LEMMA AppealDispute ==
    ASSUME DisputeInv, TypeInv', NEW w \in Workflows, NEW a \in Addr,
           EscalateDispute(w, a) \/ ChallengeResolution(w, a)
    PROVE  DisputeInv'
<1>1. challengers \in [Workflows -> [Levels -> OptAddr]]
    BY DEF DisputeInv, TypeInv, RoundType
<1>2. /\ \A v \in Workflows \ {w} : challengers'[v] = challengers[v]
      /\ \A l \in Levels : l # disputeLevels[w] => challengers'[w][l] = challengers[w][l]
    BY <1>1 DEF EscalateDispute, ChallengeResolution
<1> QED
    BY <1>2, MoveUpDispute DEF EscalateDispute, ChallengeResolution

LEMMA RotateDispute ==
    ASSUME DisputeInv, TypeInv', NEW w \in Workflows, NEW r \in OptAddr,
           RotateDisputeResolver(w, r)
    PROVE  DisputeInv'
<1>1. /\ transfers[w].state = "disputed"
      /\ transfers' = [transfers EXCEPT ![w].resolver = r]
      /\ UNCHANGED <<ctx, clockVars, customResolver, roundVars, bondVars>>
    BY DEF RotateDisputeResolver
<1>2. /\ transfers[w] \in Transfer /\ WasDisputed(w) /\ ~Terminal(w) /\ EscrowInv(w)
      /\ disputeLevels[w] \in Levels
    BY <1>1, DisputedFacts
<1>3. transfers \in [Workflows -> Transfer]
    BY DEF DisputeInv, TypeInv, EscrowType
<1>4. OthersSame(w)
    BY <1>1, <1>3 DEF OthersSame, SameEscrow, roundVars, bondVars
<1>5. /\ transfers'[w].state = "disputed"
      /\ transfers'[w].senderStatus = transfers[w].senderStatus
      /\ transfers'[w].recipientStatus = transfers[w].recipientStatus
    BY <1>1, <1>2, <1>3 DEF Transfer
<1>6. WasDisputed(w)' /\ ~Terminal(w)'
    BY <1>2, <1>5 DEF WasDisputed, Terminal, TerminalStates
<1>7. /\ \A l \in Levels : Decided(w, l)' <=> Decided(w, l)
      /\ FinalRound(w)' <=> FinalRound(w)
      /\ DecisionWindow(ctx)' = DecisionWindow(ctx)
      /\ time' = time
    BY <1>1 DEF Decided, FinalRound, DecisionWindow, Greatest, roundVars, clockVars
<1>8. UndisputedFirst(w)' /\ OutcomeFollows(w)'
    BY <1>5, <1>6 DEF UndisputedFirst, OutcomeFollows
<1>9. DeferredIsCurrent(w)' /\ RoundsInOrder(w)'
    BY <1>1, <1>2, <1>5, <1>6, <1>7
    DEF EscrowInv, DeferredIsCurrent, RoundsInOrder, roundVars
<1>10. RecordsConsistent(w)' /\ CustomDecidesAlone(w)'
    BY <1>1, <1>2, <1>5, <1>6, <1>7
    DEF EscrowInv, RecordsConsistent, CustomDecidesAlone, roundVars, bondVars
<1> QED
    BY <1>1, <1>4, <1>8, <1>9, <1>10, OneEscrow DEF EscrowInv

\* The actions that touch no dispute: stakes, slashes, governance's switches.
LEMMA BystandersDispute ==
    ASSUME DisputeInv, TypeInv',
           \/ Tick
           \/ \E w \in Workflows : UpdateEvidence(w)
           \/ \E r \in Stakers : StakeAction(r)
           \/ \E s \in SlashIds : SlashAction(s)
           \/ \E w \in Workflows, r \in Stakers, n \in SlashAmounts : ProposeFraudSlash(w, r, n)
           \/ \E p \in PauseValues : SetPaused(p)
           \/ \E t \in FeeTokens : WithdrawFees(t)
           \/ UNCHANGED vars
    PROVE  DisputeInv'
<1>1. time \in Nat
    BY DEF DisputeInv, TypeInv, ClockType
<1>2. UNCHANGED disputeVars /\ ctx' = ctx /\ time' >= time
    <2>1. CASE Tick
        BY <1>1, <2>1 DEF Tick, disputeVars, escrowVars, roundVars, bondVars
    <2>2. CASE \E w \in Workflows : UpdateEvidence(w)
        BY <1>1, <2>2 DEF UpdateEvidence, disputeVars, clockVars, escrowVars, roundVars, bondVars
    <2>3. CASE \E r \in Stakers : StakeAction(r)
        BY <1>1, <2>3 DEF StakeAction, RegisterStake, WithdrawStake, disputeVars,
                          clockVars, escrowVars, roundVars, bondVars
    <2>4. ASSUME NEW s \in SlashIds, SlashAction(s)
          PROVE  UNCHANGED disputeVars /\ ctx' = ctx /\ time' >= time
        <3>1. UNCHANGED <<ctx, clockVars, escrowVars, roundVars, bondVars>>
            BY <2>4 DEF SlashAction, AppealSlash, ResolveAppeal, ExecuteFraudSlash
        <3> QED
            BY <1>1, <3>1 DEF disputeVars, clockVars, escrowVars, roundVars, bondVars
    <2>5. CASE \E w \in Workflows, r \in Stakers, n \in SlashAmounts :
                  ProposeFraudSlash(w, r, n)
        BY <1>1, <2>5 DEF ProposeFraudSlash, disputeVars, clockVars, escrowVars,
                          roundVars, bondVars
    <2>6. CASE \E p \in PauseValues : SetPaused(p)
        BY <1>1, <2>6 DEF SetPaused, disputeVars, escrowVars, roundVars, bondVars
    <2>7. CASE \E t \in FeeTokens : WithdrawFees(t)
        BY <1>1, <2>7 DEF WithdrawFees, disputeVars, clockVars, escrowVars, roundVars, bondVars
    <2>8. CASE UNCHANGED vars
        BY <1>1, <2>8 DEF vars, worldVars, disputeVars, clockVars, escrowVars, roundVars, bondVars
    <2> QED
        BY <2>1, <2>2, <2>3, <2>4, <2>5, <2>6, <2>7, <2>8
<1> QED
    BY <1>2, NoEscrow

-----------------------------------------------------------------------------

LEMMA NextDispute == DisputeInv /\ [Next]_vars => DisputeInv'
<1> SUFFICES ASSUME DisputeInv, [Next]_vars
             PROVE  DisputeInv'
    OBVIOUS
<1>1. TypeInv'
    BY NextTyped DEF DisputeInv
<1>2. CASE \E o \in Orders : CreateEscrow(o)
    BY <1>1, <1>2, CreateEscrowDispute
<1>3. ASSUME NEW w \in Workflows, NEW a \in Addr, PartyAction(w, a)
      PROVE  DisputeInv'
    BY <1>1, <1>3, RaiseDisputeDispute, ReleaseDispute, CancelDispute, AppealDispute
    DEF PartyAction
<1>4. ASSUME NEW w \in Workflows, NEW a \in Addr, ResolverAction(w, a)
      PROVE  DisputeInv'
    BY <1>1, <1>4, ExecuteResolutionDispute DEF ResolverAction
<1>5. CASE \E w \in Workflows, r \in Replacements : RotateDisputeResolver(w, r)
  <2>1. PICK w \in Workflows, r \in Replacements : RotateDisputeResolver(w, r)
      BY <1>5
  <2>2. r \in OptAddr
      BY ProtocolAssumption DEF OptAddr
  <2> QED
      BY <1>1, <2>1, <2>2, RotateDispute
<1>6. ASSUME NEW w \in Workflows, KeeperAction(w)
      PROVE  DisputeInv'
    BY <1>1, <1>6, AutomateTimedActionsDispute, AutoCancelDisputedDispute,
       SettlePendingDispute DEF KeeperAction, ExecutePendingSettlement
<1> QED
    BY <1>1, <1>2, <1>3, <1>4, <1>5, <1>6, BystandersDispute
    DEF Next, UserAction, GovernanceAction

LEMMA DisputeInvariant == Spec => []DisputeInv
<1>1. Init => DisputeInv
    BY InitDispute
<1>2. DisputeInv /\ [Next]_vars => DisputeInv'
    BY NextDispute
<1> QED
    BY <1>1, <1>2, PTL DEF Spec

\* A deferred settlement always carries out the decision of the round the
\* dispute is in, however appeals, challenges, rotations and keepers interleave.
THEOREM DeferredCorrect == Spec => []DeferredIsCurrentDecision
<1>1. DisputeInv => DeferredIsCurrentDecision
    BY DEF DisputeInv, EscrowInv, DeferredIsCurrentDecision
<1> QED
    BY <1>1, DisputeInvariant, PTL

\* Rounds are decided in order and at most once each.
THEOREM RoundsCorrect == Spec => []RoundsDecidedInOrder
<1>1. DisputeInv => RoundsDecidedInOrder
    BY DEF DisputeInv, EscrowInv, RoundsDecidedInOrder
<1> QED
    BY <1>1, DisputeInvariant, PTL

\* A settled dispute was settled the way its last round decided, or in the
\* sender's favour when that round never decided.
THEOREM OutcomeCorrect == Spec => []OutcomeFollowsLastRound
<1>1. DisputeInv => OutcomeFollowsLastRound
    BY DEF DisputeInv, EscrowInv, OutcomeFollowsLastRound
<1> QED
    BY <1>1, DisputeInvariant, PTL

\* The records of an escrow agree about how far its dispute has gone.
THEOREM RecordsCorrect == Spec => []DisputeRecordsConsistent
<1>1. DisputeInv => DisputeRecordsConsistent
    BY DEF DisputeInv, EscrowInv, DisputeRecordsConsistent
<1> QED
    BY <1>1, DisputeInvariant, PTL

\* A custom resolver decides every round of its escrow, and nobody else any.
THEOREM CustomCorrect == Spec => []CustomResolverDecidesAlone
<1>1. DisputeInv => CustomResolverDecidesAlone
    BY DEF DisputeInv, EscrowInv, CustomResolverDecidesAlone
<1> QED
    BY <1>1, DisputeInvariant, PTL

-----------------------------------------------------------------------------
(* What a step may never do to an escrow: alter a decision, touch a settled *)
(* escrow, settle a dispute before the rules let it, start something new     *)
(* while the protocol is paused, go against what the parties were promised, *)
(* or pay twice.                                                            *)

\* The steps that work on escrow w.
EscrowStep(w) ==
    \/ \E o \in Orders : CreateEscrow(o) /\ IsNextId(w)
    \/ \E a \in Addr : PartyAction(w, a) \/ ResolverAction(w, a)
    \/ \E r \in Replacements : RotateDisputeResolver(w, r)
    \/ KeeperAction(w)

LEMMA CreateLeavesOthers ==
    ASSUME DisputeInv, NEW o \in Orders, CreateEscrow(o)
    PROVE  \E w \in Workflows : EscrowStep(w) /\ OthersSame(w)
<1> DEFINE fee == ComputeFee(o.amount, ctx.feeBps)
           et  == [ state |-> "pending", from |-> o.from, to |-> o.to,
                    token |-> o.token, afa |-> o.amount - fee, fee |-> fee,
                    resolver |-> IF o.custom # NoAddr THEN o.custom ELSE ctx.resolver,
                    autoRelease |-> DelayedTime(ctx.autoReleaseDelay),
                    autoCancel |-> DelayedTime(ctx.autoCancelDelay),
                    senderStatus |-> "none", recipientStatus |-> "none" ]
<1>1. PICK w \in Workflows :
          /\ IsNextId(w)
          /\ transfers' = [transfers EXCEPT ![w] = et]
          /\ customResolver' = [customResolver EXCEPT ![w] = o.custom]
          /\ UNCHANGED <<roundVars, bondVars>>
    BY DEF CreateEscrow
<1> HIDE DEF et
<1>2. OthersSame(w)
    BY <1>1 DEF DisputeInv, TypeInv, EscrowType, OthersSame, SameEscrow, roundVars, bondVars
<1> QED
    BY <1>1, <1>2 DEF EscrowStep

LEMMA PartyLeavesOthers ==
    ASSUME DisputeInv, NEW w \in Workflows, NEW a \in Addr, PartyAction(w, a)
    PROVE  OthersSame(w)
<1> USE DEF OthersSame, SameEscrow
<1>1. DisputeInv => /\ transfers \in [Workflows -> Transfer]
                    /\ pendingSettlements \in [Workflows -> Settlement]
                    /\ disputeTimestamps \in [Workflows -> Nat]
                    /\ disputeLevels \in [Workflows -> Levels]
                    /\ challengers \in [Workflows -> [Levels -> OptAddr]]
                    /\ bondBalances \in [Workflows -> [Addr -> Nat]]
    BY DEF DisputeInv, TypeInv, EscrowType, RoundType, BondType
<1>2. CASE RaiseDispute(w, a)
    BY <1>1, <1>2 DEF RaiseDispute, bondVars
<1>3. CASE Release(w, a)
    BY <1>1, <1>3 DEF Release, Finalize, SettledFromPending, bondVars
<1>4. ASSUME NEW agreed, AgreeToCancel(w, agreed)
      PROVE  OthersSame(w)
    BY <1>1, <1>4 DEF AgreeToCancel, Finalize, SettledFromPending, roundVars, bondVars
<1>5. ASSUME NEW bond, MoveUp(w, a, bond),
             \A v \in Workflows \ {w} : challengers'[v] = challengers[v]
      PROVE  OthersSame(w)
    BY <1>1, <1>5 DEF MoveUp, PostBond, CancelPending
<1> QED
    BY <1>1, <1>2, <1>3, <1>4, <1>5
    DEF PartyAction, SenderCancel, RecipientCancel, EscalateDispute, ChallengeResolution

LEMMA ResolverLeavesOthers ==
    ASSUME DisputeInv, NEW w \in Workflows, NEW a \in Addr, ResolverAction(w, a)
    PROVE  OthersSame(w)
BY DEF ResolverAction, ExecuteResolution, Finalize, OthersSame, SameEscrow, bondVars,
       DisputeInv, TypeInv, EscrowType, RoundType

LEMMA KeeperLeavesOthers ==
    ASSUME DisputeInv, NEW w \in Workflows, KeeperAction(w)
    PROVE  OthersSame(w)
<1>1. /\ transfers \in [Workflows -> Transfer]
      /\ pendingSettlements \in [Workflows -> Settlement]
      /\ disputeTimestamps \in [Workflows -> Nat]
    BY DEF DisputeInv, TypeInv, EscrowType, RoundType
<1>2. ASSUME NEW et, NEW outcome, Finalize(w, et, outcome), SettledFromPending
      PROVE  OthersSame(w)
    BY <1>1, <1>2 DEF Finalize, SettledFromPending, OthersSame, SameEscrow, bondVars
<1>3. CASE AutoCancelDisputed(w)
    BY <1>1, <1>3 DEF AutoCancelDisputed, Finalize, OthersSame, SameEscrow, bondVars
<1> QED
    BY <1>2, <1>3
    DEF KeeperAction, AutomateTimedActions, SettlePending, ExecutePendingSettlement

LEMMA RotationLeavesOthers ==
    ASSUME DisputeInv, NEW w \in Workflows, NEW r, RotateDisputeResolver(w, r)
    PROVE  OthersSame(w)
BY DEF RotateDisputeResolver, OthersSame, SameEscrow, roundVars, bondVars,
       DisputeInv, TypeInv, EscrowType

\* What the vaults hold and have paid, bonds aside.
fundVars == <<totalHeld, totalReleased, totalRefunded, bondFees, totalBondsPosted>>

\* The other steps: they leave the vaults alone, and of them only a ruling on a slash
\* appeal pays anybody.
Bystanding ==
    /\ UNCHANGED <<disputeVars, fundVars>>
    /\ \/ UNCHANGED claimable
       \/ \E s \in SlashIds, upheld \in BOOLEAN : ResolveAppeal(s, upheld)

LEMMA BystandersLeaveAll ==
    ASSUME \/ Tick
           \/ \E w \in Workflows : UpdateEvidence(w)
           \/ \E r \in Stakers : StakeAction(r)
           \/ \E s \in SlashIds : SlashAction(s)
           \/ \E w \in Workflows, r \in Stakers, n \in SlashAmounts : ProposeFraudSlash(w, r, n)
           \/ \E p \in PauseValues : SetPaused(p)
           \/ \E t \in FeeTokens : WithdrawFees(t)
           \/ UNCHANGED vars
    PROVE  Bystanding
<1>1. UNCHANGED <<escrowVars, roundVars, bondVars>>
    BY DEF Tick, UpdateEvidence, StakeAction, RegisterStake, WithdrawStake, SlashAction,
           AppealSlash, ResolveAppeal, ExecuteFraudSlash, ProposeFraudSlash, SetPaused,
           WithdrawFees, vars, worldVars
<1>2. UNCHANGED claimable \/ \E s \in SlashIds, upheld \in BOOLEAN : ResolveAppeal(s, upheld)
    BY DEF Tick, UpdateEvidence, StakeAction, RegisterStake, WithdrawStake, SlashAction,
           AppealSlash, ExecuteFraudSlash, ProposeFraudSlash, SetPaused, WithdrawFees,
           ledgerVars, vars, worldVars
<1>3. UNCHANGED <<totalHeld, totalReleased, totalRefunded>>
    BY DEF Tick, UpdateEvidence, StakeAction, RegisterStake, WithdrawStake, SlashAction,
           AppealSlash, ResolveAppeal, ExecuteFraudSlash, ProposeFraudSlash, SetPaused,
           WithdrawFees, ledgerVars, vars, worldVars
<1> QED
    BY <1>1, <1>2, <1>3
    DEF Bystanding, disputeVars, fundVars, escrowVars, roundVars, bondVars

\* A step works on one escrow and leaves the others alone, or on none.
LEMMA StepOrBystander ==
    ASSUME DisputeInv, [Next]_vars
    PROVE  \/ Bystanding
           \/ \E w \in Workflows : EscrowStep(w) /\ OthersSame(w)
<1>1. CASE \E o \in Orders : CreateEscrow(o)
    BY <1>1, CreateLeavesOthers
<1>2. CASE \E w \in Workflows, a \in Addr : PartyAction(w, a) \/ ResolverAction(w, a)
    BY <1>2, PartyLeavesOthers, ResolverLeavesOthers DEF EscrowStep
<1>3. CASE \E w \in Workflows, r \in Replacements : RotateDisputeResolver(w, r)
    BY <1>3, RotationLeavesOthers DEF EscrowStep
<1>4. CASE \E w \in Workflows : KeeperAction(w)
    BY <1>4, KeeperLeavesOthers DEF EscrowStep
<1> QED
    BY <1>1, <1>2, <1>3, <1>4, BystandersLeaveAll DEF Next, UserAction, GovernanceAction

LEMMA OneAtATime ==
    ASSUME DisputeInv, [Next]_vars
    PROVE  \/ UNCHANGED disputeVars
           \/ \E w \in Workflows : EscrowStep(w) /\ OthersSame(w)
BY StepOrBystander DEF Bystanding

-----------------------------------------------------------------------------
(* Decisions stand. *)

LEMMA DecisionsKept ==
    ASSUME DisputeInv, [Next]_vars, NEW w \in Workflows, NEW l \in Levels, Decided(w, l)
    PROVE  previousDecisions'[w][l] = previousDecisions[w][l]
<1>1. PICK v \in Workflows : UNCHANGED disputeVars \/ (EscrowStep(v) /\ OthersSame(v))
    BY OneAtATime
<1>2. CASE UNCHANGED disputeVars
    BY <1>2 DEF disputeVars
<1>3. CASE EscrowStep(v) /\ OthersSame(v) /\ w # v
    BY <1>3 DEF OthersSame, SameEscrow
<1>4. CASE EscrowStep(w)
    <2>1. CASE \E a \in Addr, b \in BOOLEAN : ExecuteResolution(w, a, b)
        <3>1. PICK a \in Addr, b \in BOOLEAN : ExecuteResolution(w, a, b)
            BY <2>1
        <3>2. transfers[w].state = "disputed" /\ ~pendingSettlements[w].exists
            BY <3>1 DEF ExecuteResolution, Decidable
        <3>3. EscrowInv(w) /\ ~Terminal(w)
            BY <3>2, DisputedFacts
        <3>4. l # disputeLevels[w]
            BY <3>2, <3>3 DEF EscrowInv, RoundsInOrder
        <3>5. previousDecisions' = [previousDecisions EXCEPT ![w][disputeLevels[w]] =
                                        [resolver |-> a, isRelease |-> b]]
            BY <3>1 DEF ExecuteResolution
        <3> QED
            BY <3>4, <3>5 DEF DisputeInv, TypeInv, RoundType
    <2>2. CASE \E o \in Orders : CreateEscrow(o)
        BY <2>2 DEF CreateEscrow, roundVars
    <2>3. ASSUME NEW a \in Addr, PartyAction(w, a)
          PROVE  UNCHANGED previousDecisions
        BY <2>3 DEF PartyAction, RaiseDispute, Release, SenderCancel, RecipientCancel,
                    AgreeToCancel, SettledFromPending, EscalateDispute,
                    ChallengeResolution, MoveUp, roundVars
    <2>4. CASE \E r \in Replacements : RotateDisputeResolver(w, r)
        BY <2>4 DEF RotateDisputeResolver, roundVars
    <2>5. CASE KeeperAction(w)
        BY <2>5 DEF KeeperAction, AutomateTimedActions, SettlePending,
                    ExecutePendingSettlement, AutoCancelDisputed, SettledFromPending
    <2> QED
        BY <1>4, <2>1, <2>2, <2>3, <2>4, <2>5 DEF EscrowStep, ResolverAction
<1> QED
    BY <1>1, <1>2, <1>3, <1>4

\* No step of any actor alters a decision that was taken.
THEOREM DecisionsStandAlways == Spec => DecisionsStand
<1>1. DisputeInv /\ [Next]_vars
          => [\A w \in Workflows : \A l \in Levels :
                 Decided(w, l) => previousDecisions'[w][l] = previousDecisions[w][l]]_vars
    BY DecisionsKept
<1> QED
    BY <1>1, DisputeInvariant, PTL DEF Spec, DecisionsStand

-----------------------------------------------------------------------------
(* Settled escrows are settled for good. *)

\* Every step on an escrow needs it to be new, pending or in dispute.
LEMMA StepsNeedLife ==
    ASSUME NEW w \in Workflows, EscrowStep(w)
    PROVE  ~Terminal(w)
<1>1. CASE IsNextId(w)
    <2>1. ~(w < w)
        BY DEF Workflows
    <2> QED
        BY <1>1, <2>1 DEF IsNextId, Exists, Terminal, TerminalStates
<1>2. CASE transfers[w].state \in LiveStates
    BY <1>2 DEF LiveStates, Terminal, TerminalStates
<1>3. ASSUME NEW a \in Addr, PartyAction(w, a)
      PROVE  transfers[w].state \in LiveStates
    BY <1>3 DEF PartyAction, RaiseDispute, Release, SenderCancel, RecipientCancel,
                EscalateDispute, ChallengeResolution, Appealable, LiveStates
<1>4. ASSUME NEW a \in Addr, ResolverAction(w, a)
      PROVE  transfers[w].state \in LiveStates
    BY <1>4 DEF ResolverAction, ExecuteResolution, Decidable, LiveStates
<1>5. ASSUME NEW r \in Replacements, RotateDisputeResolver(w, r)
      PROVE  transfers[w].state \in LiveStates
    BY <1>5 DEF RotateDisputeResolver, LiveStates
<1>6. ASSUME KeeperAction(w)
      PROVE  transfers[w].state \in LiveStates
    BY <1>6 DEF KeeperAction, AutomateTimedActions, SettlePending,
                ExecutePendingSettlement, PendingExecutable, AutoReleaseDue,
                AutoCancelDue, AutoCancelDisputed, DisputeTimeoutExceeded, LiveStates
<1> QED
    BY <1>1, <1>2, <1>3, <1>4, <1>5, <1>6 DEF EscrowStep

LEMMA SettledKept ==
    ASSUME DisputeInv, [Next]_vars, NEW w \in Workflows, Terminal(w)
    PROVE  /\ transfers'[w] = transfers[w]
           /\ ~pendingSettlements'[w].exists
           /\ disputeLevels'[w] = disputeLevels[w]
           /\ bondBalances'[w] = bondBalances[w]
<1>1. ~pendingSettlements[w].exists
    BY DEF DisputeInv, EscrowInv, DeferredIsCurrent, Terminal, TerminalStates
<1>2. SameEscrow(w)
    BY OneAtATime, StepsNeedLife DEF OthersSame, SameEscrow, disputeVars
<1> QED
    BY <1>1, <1>2 DEF SameEscrow

\* No step of any actor touches an escrow that is settled.
THEOREM SettledForGoodAlways == Spec => SettledForGood
<1>1. DisputeInv /\ [Next]_vars
          => [\A w \in Workflows : Terminal(w) =>
                 /\ transfers'[w] = transfers[w]
                 /\ ~pendingSettlements'[w].exists
                 /\ disputeLevels'[w] = disputeLevels[w]
                 /\ bondBalances'[w] = bondBalances[w]]_vars
    BY SettledKept
<1> QED
    BY <1>1, DisputeInvariant, PTL DEF Spec, SettledForGood

-----------------------------------------------------------------------------
(* No dispute is settled early. *)

\* What NoEarlySettlement allows of a step that settles the dispute of w.
SettlesByTheRules(w) ==
    \/ /\ pendingSettlements[w].exists
       /\ time >= pendingSettlements[w].deadline
       /\ transfers'[w].state = OutcomeOf(pendingSettlements[w].isRelease)
    \/ /\ ~pendingSettlements[w].exists
       /\ ~Decided(w, disputeLevels[w])
       /\ \/ /\ Decided(w, disputeLevels[w])'
             /\ FinalRound(w) \/ DecisionWindow(ctx) = 0
          \/ /\ ~Decided(w, disputeLevels[w])'
             /\ time >= disputeTimestamps[w] + ctx.maxDispute

LEMMA SettlementByTheRules ==
    ASSUME DisputeInv, [Next]_vars, NEW w \in Workflows,
           transfers[w].state = "disputed", Terminal(w)'
    PROVE  SettlesByTheRules(w)
<1>1. /\ transfers[w] \in Transfer /\ ~Terminal(w)
      /\ disputeLevels[w] \in Levels /\ EscrowInv(w)
    BY DisputedFacts
<1>2. ~SameEscrow(w)
    BY <1>1 DEF SameEscrow, Terminal
<1>3. EscrowStep(w)
    BY <1>2, OneAtATime DEF OthersSame, SameEscrow, disputeVars
<1>4. transfers \in [Workflows -> Transfer] /\ transfers'[w].state # "disputed"
    BY DEF DisputeInv, TypeInv, EscrowType, Terminal, TerminalStates
<1>5. CASE SettlePending(w)
    BY <1>4, <1>5 DEF SettlePending, PendingExecutable, Finalize, Transfer, SettlesByTheRules
<1>6. CASE AutoCancelDisputed(w)
    <2>1. /\ ~pendingSettlements[w].exists
          /\ time >= disputeTimestamps[w] + ctx.maxDispute
          /\ UNCHANGED <<previousDecisions, disputeLevels>>
        BY <1>6 DEF AutoCancelDisputed, DisputeTimeoutExceeded
    <2>2. ~Decided(w, disputeLevels[w])
        BY <1>1, <2>1 DEF EscrowInv, RoundsInOrder
    <2>3. ~Decided(w, disputeLevels[w])'
        BY <2>1, <2>2 DEF Decided
    <2> QED
        BY <2>1, <2>2, <2>3 DEF SettlesByTheRules
<1>7. ASSUME NEW a \in Addr, ResolverAction(w, a)
      PROVE  SettlesByTheRules(w)
    <2>1. PICK b \in BOOLEAN : ExecuteResolution(w, a, b)
        BY <1>7 DEF ResolverAction
    <2>2. ~pendingSettlements[w].exists
        BY <2>1 DEF ExecuteResolution, Decidable
    <2>3. ~Decided(w, disputeLevels[w])
        BY <1>1, <2>2 DEF EscrowInv, RoundsInOrder
    <2>4. FinalRound(w) \/ DecisionWindow(ctx) = 0
        BY <1>4, <2>1 DEF ExecuteResolution
    <2>5. Decided(w, disputeLevels[w])'
        <3> DEFINE decision == [resolver |-> a, isRelease |-> b]
        <3>1. decision # NoDecision
            BY NoAddrAssumption DEF NoDecision
        <3>2. /\ previousDecisions' = [previousDecisions EXCEPT ![w][disputeLevels[w]] = decision]
              /\ disputeLevels' = disputeLevels
            BY <2>1 DEF ExecuteResolution
        <3> HIDE DEF decision
        <3> QED
            BY <1>1, <3>1, <3>2 DEF Decided, DisputeInv, TypeInv, RoundType
    <2> QED
        BY <2>2, <2>3, <2>4, <2>5 DEF SettlesByTheRules
<1>8. ASSUME NEW a \in Addr, PartyAction(w, a)
      PROVE  FALSE
    <2>1. ASSUME NEW bond, MoveUp(w, a, bond)
          PROVE  FALSE
        BY <1>1, <1>4, <2>1 DEF MoveUp, Transfer
    <2> QED
        BY <1>8, <2>1 DEF PartyAction, RaiseDispute, Release, SenderCancel,
                          RecipientCancel, EscalateDispute, ChallengeResolution
<1>9. ASSUME NEW r \in Replacements, RotateDisputeResolver(w, r)
      PROVE  FALSE
    BY <1>1, <1>4, <1>9 DEF RotateDisputeResolver, Transfer
<1>10. ~IsNextId(w)
    <2>1. ~(w < w)
        BY DEF Workflows
    <2> QED
        BY <2>1 DEF IsNextId, Exists
<1> QED
    BY <1>3, <1>5, <1>6, <1>7, <1>8, <1>9, <1>10
    DEF EscrowStep, KeeperAction, AutomateTimedActions, ExecutePendingSettlement,
        AutoReleaseDue, AutoCancelDue

\* A dispute is settled by its deferred decision once the window has closed, by
\* the final round, by a decision without a window, or by the timeout.
THEOREM NoEarlySettlementAlways == Spec => NoEarlySettlement
<1>1. DisputeInv /\ [Next]_vars
          => [\A w \in Workflows : transfers[w].state = "disputed" /\ Terminal(w)' =>
                 SettlesByTheRules(w)]_vars
    BY SettlementByTheRules
<1> QED
    BY <1>1, DisputeInvariant, PTL DEF Spec, NoEarlySettlement, SettlesByTheRules

-----------------------------------------------------------------------------
(* A pause stops what is new. *)

\* What PauseFreezes allows of a step while the protocol is paused.
NothingBegins(w) ==
    /\ Exists(w)' => Exists(w)
    /\ transfers'[w].state = "disputed" => transfers[w].state = "disputed"
    /\ previousDecisions'[w] = previousDecisions[w]
    /\ Live(w) /\ Terminal(w)' =>
           \/ AutoReleaseDue(w)
           \/ AutoCancelDue(w)
           \/ PendingExecutable(w)
           \/ DisputeTimeoutExceeded(w)

LEMMA SameBeginsNothing ==
    ASSUME NEW w \in Workflows, SameEscrow(w)
    PROVE  NothingBegins(w)
BY DEF SameEscrow, NothingBegins, Exists, Live, Terminal, LiveStates, TerminalStates

LEMMA PausedBeginsNothing ==
    ASSUME DisputeInv, [Next]_vars, paused, NEW w \in Workflows
    PROVE  NothingBegins(w)
<1>1. CASE SameEscrow(w)
    BY <1>1, SameBeginsNothing
<1>2. ASSUME ~SameEscrow(w)
      PROVE  EscrowStep(w)
    BY <1>2, OneAtATime DEF OthersSame, SameEscrow, disputeVars
<1>3. transfers \in [Workflows -> Transfer]
    BY DEF DisputeInv, TypeInv, EscrowType
<1>4. CASE EscrowStep(w)
    <2>1. ASSUME NEW r \in Replacements, RotateDisputeResolver(w, r)
          PROVE  NothingBegins(w)
        <3>1. transfers'[w].state = transfers[w].state /\ transfers[w].state = "disputed"
            BY <1>3, <2>1 DEF RotateDisputeResolver, Transfer
        <3>2. previousDecisions' = previousDecisions
            BY <2>1 DEF RotateDisputeResolver, roundVars
        <3> QED
            BY <3>1, <3>2 DEF NothingBegins, Exists, Terminal, TerminalStates
    <2>2. ASSUME NEW a \in Addr, PartyAction(w, a)
          PROVE  NothingBegins(w)
        <3>1. ChallengeResolution(w, a)
            BY <2>2 DEF PartyAction, RaiseDispute, Release, SenderCancel,
                        RecipientCancel, EscalateDispute
        <3>2. /\ transfers[w].state = "disputed"
              /\ transfers' = [transfers EXCEPT ![w].resolver = ctx.levels[disputeLevels[w] + 1]]
              /\ previousDecisions' = previousDecisions
            BY <3>1 DEF ChallengeResolution, Appealable, MoveUp
        <3>3. transfers'[w].state = "disputed"
            BY <1>3, <3>2 DEF Transfer
        <3> QED
            BY <3>2, <3>3 DEF NothingBegins, Exists, Terminal, TerminalStates
    <2>3. ASSUME KeeperAction(w)
          PROVE  NothingBegins(w)
        <3>1. ASSUME NEW outcome \in {"released", "refunded"},
                     Finalize(w, transfers[w], outcome),
                     \/ AutoReleaseDue(w)
                     \/ AutoCancelDue(w)
                     \/ PendingExecutable(w)
                     \/ DisputeTimeoutExceeded(w),
                     UNCHANGED previousDecisions
              PROVE  NothingBegins(w)
            <4>1. transfers'[w].state \in TerminalStates
                BY <1>3, <3>1 DEF Finalize, Transfer, TerminalStates
            <4>2. Exists(w)
                BY <3>1 DEF Exists, AutoReleaseDue, AutoCancelDue, PendingExecutable,
                            DisputeTimeoutExceeded
            <4> QED
                BY <3>1, <4>1, <4>2 DEF NothingBegins, TerminalStates
        <3>2. \A b : OutcomeOf(b) \in {"released", "refunded"}
            BY DEF OutcomeOf
        <3> QED
            BY <2>3, <3>1, <3>2
            DEF KeeperAction, AutomateTimedActions, SettlePending, AutoCancelDisputed,
                ExecutePendingSettlement, SettledFromPending
    <2>4. ASSUME NEW a \in Addr, ResolverAction(w, a)
          PROVE  FALSE
        BY <2>4 DEF ResolverAction, ExecuteResolution
    <2>5. ~(\E o \in Orders : CreateEscrow(o))
        BY DEF CreateEscrow
    <2> QED
        BY <1>4, <2>1, <2>2, <2>3, <2>4, <2>5 DEF EscrowStep
<1> QED
    BY <1>1, <1>2, <1>4

\* While the protocol is paused no escrow, dispute or decision begins, and an
\* escrow ends only if a keeper finds it due.
THEOREM PauseFreezesAlways == Spec => PauseFreezes
<1>1. DisputeInv /\ [Next]_vars
          => [paused /\ paused' => \A w \in Workflows : NothingBegins(w)]_vars
    BY PausedBeginsNothing
<1> QED
    BY <1>1, DisputeInvariant, PTL DEF Spec, PauseFreezes, NothingBegins

-----------------------------------------------------------------------------
(* The promise to the parties. *)

SamePromise(w) ==
    /\ transfers'[w].state = transfers[w].state
    /\ Agreed(w)' = Agreed(w)
    /\ Expiry(w)' = Expiry(w)
    /\ disputeLevels'[w] = disputeLevels[w]
    /\ Verdict(w)' = Verdict(w)

LEMMA SameEscrowSamePromise ==
    ASSUME NEW w \in Workflows, SameEscrow(w)
    PROVE  SamePromise(w)
BY DEF SameEscrow, SamePromise, Agreed, Expiry, Verdict, Decided

LEMMA CtxFixed ==
    ASSUME [Next]_vars
    PROVE  ctx' = ctx
<1>1. CASE Tick \/ GovernanceAction \/ UNCHANGED vars
    BY <1>1 DEF Tick, GovernanceAction, RotateDisputeResolver, ProposeFraudSlash, SetPaused,
                WithdrawFees, vars
<1>2. ASSUME NEW w \in Workflows, NEW a \in Addr, PartyAction(w, a) \/ ResolverAction(w, a)
      PROVE  ctx' = ctx
    BY <1>2 DEF PartyAction, RaiseDispute, Release, SenderCancel, RecipientCancel,
                AgreeToCancel, SettledFromPending, EscalateDispute, ChallengeResolution,
                MoveUp, ResolverAction, ExecuteResolution
<1>3. ASSUME NEW w \in Workflows, KeeperAction(w)
      PROVE  ctx' = ctx
    BY <1>3 DEF KeeperAction, AutomateTimedActions, SettlePending, SettledFromPending,
                ExecutePendingSettlement, AutoCancelDisputed
<1>4. CASE \/ \E o \in Orders : CreateEscrow(o)
           \/ \E w \in Workflows : UpdateEvidence(w)
    BY <1>4 DEF CreateEscrow, UpdateEvidence
<1>5. CASE \/ \E r \in Stakers : StakeAction(r)
           \/ \E s \in SlashIds : SlashAction(s)
    BY <1>5 DEF StakeAction, RegisterStake, WithdrawStake, SlashAction, AppealSlash,
                ResolveAppeal, ExecuteFraudSlash
<1> QED
    BY <1>1, <1>2, <1>3, <1>4, <1>5 DEF Next, UserAction

LEMMA InitPromised == Init => Promise!AgreementInit
<1> SUFFICES ASSUME Init
             PROVE  Promise!AgreementInit
    OBVIOUS
<1>1. ASSUME NEW w \in Workflows
      PROVE  /\ transfers[w].state = "none"
             /\ Agreed(w) = {}
             /\ Expiry(w) = {}
             /\ disputeLevels[w] = 0
             /\ Verdict(w) = "open"
    <2>1. /\ transfers[w] = NoTransfer
          /\ disputeLevels[w] = 0
          /\ ~Decided(w, 0)
        BY DEF Init, WorldInit, Decided, Levels, MaxDisputeLevel
    <2> QED
        BY <2>1 DEF Agreed, Expiry, Verdict, NoTransfer
<1> QED
    BY <1>1 DEF Promise!AgreementInit, Init, WorldInit

\* The promise as the contract keeps it, variable by variable.
StatusOf    == [w \in Workflows |-> transfers[w].state]
AgreedOf    == [w \in Workflows |-> Agreed(w)]
ExpiryOf    == [w \in Workflows |-> Expiry(w)]
VerdictsOf  == [w \in Workflows |-> Verdict(w)]
MayAppeal   == DecisionWindow(ctx) > 0

\* A step on one escrow leaves what the others are promised as it was.
LEMMA PromiseUpdate ==
    ASSUME DisputeInv, DisputeInv', NEW w \in Workflows, OthersSame(w), ctx' = ctx
    PROVE  /\ StatusOf' = [StatusOf EXCEPT ![w] = transfers'[w].state]
           /\ AgreedOf' = [AgreedOf EXCEPT ![w] = Agreed(w)']
           /\ ExpiryOf' = [ExpiryOf EXCEPT ![w] = Expiry(w)']
           /\ disputeLevels' = [disputeLevels EXCEPT ![w] = disputeLevels'[w]]
           /\ VerdictsOf' = [VerdictsOf EXCEPT ![w] = Verdict(w)']
           /\ MayAppeal' = MayAppeal
<1>1. \A v \in Workflows \ {w} : SamePromise(v)
    BY SameEscrowSamePromise DEF OthersSame
<1>2. /\ disputeLevels \in [Workflows -> Levels]
      /\ disputeLevels' \in [Workflows -> Levels]
    BY DEF DisputeInv, TypeInv, RoundType
<1> QED
    BY <1>1, <1>2
    DEF SamePromise, StatusOf, AgreedOf, ExpiryOf, VerdictsOf, MayAppeal, DecisionWindow,
        Greatest

\* What is the same of the one escrow is the same of all.
LEMMA PromiseSame ==
    ASSUME DisputeInv, DisputeInv', NEW w \in Workflows, OthersSame(w), ctx' = ctx
    PROVE  /\ transfers'[w].state = transfers[w].state => StatusOf' = StatusOf
           /\ Agreed(w)' = Agreed(w) => AgreedOf' = AgreedOf
           /\ Expiry(w)' = Expiry(w) => ExpiryOf' = ExpiryOf
           /\ disputeLevels'[w] = disputeLevels[w] => disputeLevels' = disputeLevels
           /\ Verdict(w)' = Verdict(w) => VerdictsOf' = VerdictsOf
           /\ MayAppeal' = MayAppeal
<1>1. \A v \in Workflows \ {w} : SamePromise(v)
    BY SameEscrowSamePromise DEF OthersSame
<1>2. /\ disputeLevels \in [Workflows -> Levels]
      /\ disputeLevels' \in [Workflows -> Levels]
    BY DEF DisputeInv, TypeInv, RoundType
<1> QED
    BY <1>1, <1>2
    DEF SamePromise, StatusOf, AgreedOf, ExpiryOf, VerdictsOf, MayAppeal, DecisionWindow,
        Greatest

\* What a settlement keeps of a promise.
LEMMA SettledPromise ==
    ASSUME DisputeInv, NEW w \in Workflows, NEW outcome, NEW et \in Transfer,
           Finalize(w, et, outcome)
    PROVE  /\ transfers'[w].state = outcome
           /\ /\ et.senderStatus = transfers[w].senderStatus
              /\ et.recipientStatus = transfers[w].recipientStatus
              => Agreed(w)' = Agreed(w)
           /\ et.autoRelease = transfers[w].autoRelease
              /\ et.autoCancel = transfers[w].autoCancel
              => Expiry(w)' = Expiry(w)
<1>1. transfers'[w] = [et EXCEPT !.state = outcome]
    BY DEF Finalize, DisputeInv, TypeInv, EscrowType
<1>2. /\ transfers'[w].state = outcome
      /\ transfers'[w].senderStatus = et.senderStatus
      /\ transfers'[w].recipientStatus = et.recipientStatus
      /\ transfers'[w].autoRelease = et.autoRelease
      /\ transfers'[w].autoCancel = et.autoCancel
    BY <1>1 DEF Transfer
<1> QED
    BY <1>2 DEF Agreed, Expiry

LEMMA RoundsSamePromise ==
    ASSUME NEW w \in Workflows, UNCHANGED <<disputeLevels, previousDecisions>>
    PROVE  Verdict(w)' = Verdict(w)
BY DEF Verdict, Decided

LEMMA CreatePromised ==
    ASSUME DisputeInv, DisputeInv', NEW o \in Orders, NEW w \in Workflows,
           CreateEscrow(o), IsNextId(w), OthersSame(w)
    PROVE  Promise!AgreementStep(w)
<1> DEFINE fee == ComputeFee(o.amount, ctx.feeBps)
           et  == [ state |-> "pending", from |-> o.from, to |-> o.to,
                    token |-> o.token, afa |-> o.amount - fee, fee |-> fee,
                    resolver |-> IF o.custom # NoAddr THEN o.custom ELSE ctx.resolver,
                    autoRelease |-> DelayedTime(ctx.autoReleaseDelay),
                    autoCancel |-> DelayedTime(ctx.autoCancelDelay),
                    senderStatus |-> "none", recipientStatus |-> "none" ]
<1>1. PICK v \in Workflows :
          /\ IsNextId(v)
          /\ transfers' = [transfers EXCEPT ![v] = et]
          /\ UNCHANGED <<ctx, roundVars>>
    BY DEF CreateEscrow
<1>2. v = w
    <2>1. w \in Nat /\ v \in Nat
        BY DEF Workflows
    <2>2. ~(w < w) /\ ~(v < v)
        BY <2>1
    <2>3. ~(w < v) /\ ~(v < w)
        BY <1>1, <2>2 DEF IsNextId
    <2> QED
        BY <2>1, <2>3
<1>3. /\ transfers'[w].state = "pending"
      /\ transfers'[w].senderStatus = "none"
      /\ transfers'[w].recipientStatus = "none"
    BY <1>1, <1>2 DEF DisputeInv, TypeInv, EscrowType
<1>4. Agreed(w)' = {}
    BY <1>3 DEF Agreed
<1>5. Expiry(w)' \in SUBSET {"released", "refunded"}
    BY DEF Expiry
<1>6. transfers[w].state = "none"
    <2>1. ~(w < w)
        BY DEF Workflows
    <2> QED
        BY <2>1 DEF IsNextId, Exists
<1>7. Verdict(w)' = Verdict(w) /\ disputeLevels' = disputeLevels
    BY <1>1, RoundsSamePromise DEF roundVars
<1>8. ctx' = ctx
    BY <1>1
<1>9. PICK outcomes \in SUBSET {"released", "refunded"} : outcomes = Expiry(w)'
    BY <1>5
<1>10. Promise!Open(w, outcomes)
    BY <1>3, <1>4, <1>6, <1>7, <1>8, <1>9, PromiseUpdate, PromiseSame
    DEF Promise!Open, Promise!Becomes, StatusOf, AgreedOf, ExpiryOf, VerdictsOf, MayAppeal
<1> QED
    BY <1>10 DEF Promise!AgreementStep, Promise!Outcomes

LEMMA PartyPromised ==
    ASSUME DisputeInv, DisputeInv', NEW w \in Workflows, NEW a \in Addr,
           PartyAction(w, a), OthersSame(w)
    PROVE  Promise!AgreementStep(w)
<1> USE DEF StatusOf, AgreedOf, ExpiryOf, VerdictsOf, MayAppeal
<1>1. /\ transfers \in [Workflows -> Transfer]
      /\ transfers[w] \in Transfer
    BY DEF DisputeInv, TypeInv, EscrowType
<1>2. CASE RaiseDispute(w, a)
    <2>1. /\ transfers'[w] = Raised(transfers[w], a)
          /\ UNCHANGED <<ctx, disputeLevels, previousDecisions>>
        BY <1>1, <1>2 DEF RaiseDispute
    <2>2. /\ transfers'[w].state = "disputed"
          /\ transfers'[w].senderStatus # "agree-to-cancel"
          /\ transfers'[w].recipientStatus # "agree-to-cancel"
          /\ transfers'[w].autoRelease = transfers[w].autoRelease
          /\ transfers'[w].autoCancel = transfers[w].autoCancel
        BY <1>1, <2>1 DEF Raised, Transfer
    <2>3. Agreed(w)' = {}
        BY <2>2 DEF Agreed
    <2>4. Expiry(w)' = Expiry(w)
        BY <2>2 DEF Expiry
    <2>5. Promise!Dispute(w)
        BY <1>2, <2>1, <2>2, <2>3, <2>4, PromiseUpdate, PromiseSame, RoundsSamePromise
        DEF Promise!Dispute, Promise!Becomes, Promise!terms, RaiseDispute
    <2> QED
        BY <2>5 DEF Promise!AgreementStep
<1>3. CASE Release(w, a)
    <2>1. /\ transfers'[w].state = "released"
          /\ Agreed(w)' = Agreed(w)
          /\ Expiry(w)' = Expiry(w)
        BY <1>1, <1>3, SettledPromise DEF Release
    <2>2. Promise!HandOver(w)
        BY <1>3, <2>1, PromiseUpdate, PromiseSame, RoundsSamePromise
        DEF Promise!HandOver, Promise!Becomes, Promise!terms, Release, SettledFromPending
    <2> QED
        BY <2>2 DEF Promise!AgreementStep
<1>4. ASSUME NEW party \in {"sender", "recipient"}, NEW agreed \in Transfer,
             transfers[w].state = "pending", AgreeToCancel(w, agreed),
             agreed = IF party = "sender"
                      THEN [transfers[w] EXCEPT !.senderStatus = "agree-to-cancel"]
                      ELSE [transfers[w] EXCEPT !.recipientStatus = "agree-to-cancel"]
      PROVE  Promise!AgreementStep(w)
    <2> DEFINE both == /\ agreed.senderStatus = "agree-to-cancel"
                       /\ agreed.recipientStatus = "agree-to-cancel"
    <2>1. /\ transfers'[w] = IF both THEN [agreed EXCEPT !.state = "refunded"] ELSE agreed
          /\ UNCHANGED <<ctx, disputeLevels, previousDecisions>>
        BY <1>1, <1>4 DEF AgreeToCancel, Finalize, SettledFromPending, roundVars
    <2>2. /\ transfers'[w].state = IF both THEN "refunded" ELSE "pending"
          /\ transfers'[w].senderStatus = agreed.senderStatus
          /\ transfers'[w].recipientStatus = agreed.recipientStatus
          /\ transfers'[w].autoRelease = transfers[w].autoRelease
          /\ transfers'[w].autoCancel = transfers[w].autoCancel
        BY <1>1, <1>4, <2>1 DEF Transfer
    <2>3. /\ agreed.senderStatus = IF party = "sender" THEN "agree-to-cancel"
                                                       ELSE transfers[w].senderStatus
          /\ agreed.recipientStatus = IF party = "recipient" THEN "agree-to-cancel"
                                                             ELSE transfers[w].recipientStatus
        BY <1>1, <1>4 DEF Transfer
    <2>4. Agreed(w)' = Agreed(w) \cup {party}
        BY <1>4, <2>2, <2>3 DEF Agreed
    <2>5. Agreed(w)' = {"sender", "recipient"} <=> both
        BY <2>2 DEF Agreed
    <2>6. Expiry(w)' = Expiry(w)
        BY <2>2 DEF Expiry
    <2>7. transfers'[w].state = IF Agreed(w) \cup {party} = {"sender", "recipient"}
                                THEN "refunded" ELSE "pending"
        BY <2>2, <2>4, <2>5
    <2>8. Promise!CallOff(w, party)
        BY <1>4, <2>1, <2>4, <2>6, <2>7, PromiseUpdate, PromiseSame, RoundsSamePromise
        DEF Promise!CallOff, Promise!Becomes, Promise!terms, Promise!Parties
    <2> QED
        BY <2>8 DEF Promise!AgreementStep, Promise!Parties
<1>5. CASE SenderCancel(w, a)
    <2>1. [transfers[w] EXCEPT !.senderStatus = "agree-to-cancel"] \in Transfer
        BY <1>1 DEF Transfer, PartyStatuses
    <2> QED
        BY <1>4, <1>5, <2>1 DEF SenderCancel
<1>6. CASE RecipientCancel(w, a)
    <2>1. [transfers[w] EXCEPT !.recipientStatus = "agree-to-cancel"] \in Transfer
        BY <1>1 DEF Transfer, PartyStatuses
    <2> QED
        BY <1>4, <1>6, <2>1 DEF RecipientCancel
<1>7. ASSUME NEW bond, Appealable(w), MoveUp(w, a, bond)
      PROVE  Promise!AgreementStep(w)
    <2>1. /\ EscrowInv(w) /\ disputeLevels[w] \in Levels
          /\ transfers[w].state = "disputed" /\ pendingSettlements[w].exists
        BY <1>7, DisputedFacts DEF Appealable
    <2>2. Verdict(w) # "open"
        BY <2>1 DEF EscrowInv, DeferredIsCurrent, Verdict, OutcomeOf
    <2>3. MayAppeal
        <3>1. /\ time < pendingSettlements[w].deadline
              /\ pendingSettlements[w].deadline <= time + DecisionWindow(ctx)
            BY <1>7, <2>1 DEF Appealable, EscrowInv, DeferredIsCurrent
        <3>2. /\ time \in Nat /\ DecisionWindow(ctx) \in Nat
              /\ pendingSettlements[w].deadline \in Nat
            BY WindowIsNat DEF DisputeInv, TypeInv, ClockType, RoundType, Settlement
        <3> QED
            BY <3>1, <3>2
    <2>4. /\ disputeLevels[w] # MaxDisputeLevel
          /\ disputeLevels[w] + 1 \in Levels
          /\ disputeLevels[w] < disputeLevels[w] + 1
        BY <1>7, <2>1 DEF Appealable, FinalRound, Levels, MaxDisputeLevel
    <2>5. /\ disputeLevels'[w] = disputeLevels[w] + 1
          /\ UNCHANGED <<ctx, previousDecisions>>
        BY <1>7 DEF MoveUp, DisputeInv, TypeInv, RoundType
    <2>6. Verdict(w)' = "open"
        <3>1. ~Decided(w, disputeLevels[w] + 1)
            BY <2>1, <2>4 DEF EscrowInv, RoundsInOrder
        <3> QED
            BY <2>5, <3>1 DEF Verdict, Decided
    <2>7. /\ transfers'[w].state = transfers[w].state
          /\ Agreed(w)' = Agreed(w)
          /\ Expiry(w)' = Expiry(w)
        <3>1. /\ transfers'[w].state = transfers[w].state
              /\ transfers'[w].senderStatus = transfers[w].senderStatus
              /\ transfers'[w].recipientStatus = transfers[w].recipientStatus
              /\ transfers'[w].autoRelease = transfers[w].autoRelease
              /\ transfers'[w].autoCancel = transfers[w].autoCancel
            BY <1>1, <1>7 DEF MoveUp, Transfer
        <3> QED
            BY <3>1 DEF Agreed, Expiry
    <2>8. Promise!Appeal(w)
        BY <2>1, <2>2, <2>3, <2>4, <2>5, <2>6, <2>7, PromiseUpdate, PromiseSame
        DEF Promise!Appeal, Promise!Final, Promise!terms
    <2> QED
        BY <2>8 DEF Promise!AgreementStep
<1> QED
    BY <1>2, <1>3, <1>5, <1>6, <1>7 DEF PartyAction, EscalateDispute, ChallengeResolution

LEMMA ResolverPromised ==
    ASSUME DisputeInv, DisputeInv', NEW w \in Workflows, NEW a \in Addr,
           ResolverAction(w, a), OthersSame(w)
    PROVE  Promise!AgreementStep(w)
<1> USE DEF StatusOf, AgreedOf, ExpiryOf, VerdictsOf, MayAppeal
<1>1. PICK b \in BOOLEAN : ExecuteResolution(w, a, b)
    BY DEF ResolverAction
<1>2. /\ transfers[w].state = "disputed" /\ ~pendingSettlements[w].exists
      /\ UNCHANGED <<ctx, disputeLevels>>
    BY <1>1 DEF ExecuteResolution, Decidable
<1>3. /\ transfers[w] \in Transfer /\ ~Terminal(w)
      /\ disputeLevels[w] \in Levels /\ EscrowInv(w)
    BY <1>2, DisputedFacts
<1>4. Verdict(w) = "open"
    BY <1>2, <1>3 DEF EscrowInv, RoundsInOrder, Verdict
<1>5. Verdict(w)' = OutcomeOf(b)
    <2> DEFINE decision == [resolver |-> a, isRelease |-> b]
    <2>1. decision # NoDecision /\ decision.isRelease = b
        BY NoAddrAssumption DEF NoDecision
    <2>2. previousDecisions' = [previousDecisions EXCEPT ![w][disputeLevels[w]] = decision]
        BY <1>1 DEF ExecuteResolution
    <2> HIDE DEF decision
    <2>3. previousDecisions'[w][disputeLevels[w]] = decision
        BY <1>3, <2>2 DEF DisputeInv, TypeInv, RoundType
    <2> QED
        BY <1>2, <2>1, <2>3 DEF Verdict, Decided
<1> DEFINE final == FinalRound(w) \/ DecisionWindow(ctx) = 0
<1>6. final <=> disputeLevels[w] = MaxDisputeLevel \/ ~MayAppeal
    BY <1>3, WindowIsNat DEF DisputeInv, FinalRound, Levels, MaxDisputeLevel
<1>7. /\ transfers'[w].state = IF final THEN OutcomeOf(b) ELSE "disputed"
      /\ Agreed(w)' = Agreed(w)
      /\ Expiry(w)' = Expiry(w)
    <2>1. CASE final
        BY <1>1, <1>3, <2>1, SettledPromise DEF ExecuteResolution
    <2>2. CASE ~final
        BY <1>1, <1>2, <2>2 DEF ExecuteResolution, Agreed, Expiry
    <2> QED
        BY <2>1, <2>2
<1>8. PICK outcome \in {"released", "refunded"} : outcome = OutcomeOf(b)
    BY DEF OutcomeOf
<1> HIDE DEF final
<1>9. Promise!Decide(w, outcome)
    BY <1>2, <1>4, <1>5, <1>6, <1>7, <1>8, PromiseUpdate, PromiseSame
    DEF Promise!Decide, Promise!Becomes, Promise!Final, Promise!terms
<1> QED
    BY <1>9 DEF Promise!AgreementStep, Promise!Outcomes

LEMMA KeeperPromised ==
    ASSUME DisputeInv, DisputeInv', NEW w \in Workflows, KeeperAction(w), OthersSame(w)
    PROVE  Promise!AgreementStep(w)
<1> USE DEF StatusOf, AgreedOf, ExpiryOf, VerdictsOf, MayAppeal
<1>1. transfers[w] \in Transfer
    BY DEF DisputeInv, TypeInv, EscrowType
<1>2. ASSUME NEW outcome, Finalize(w, transfers[w], outcome),
             UNCHANGED <<ctx, disputeLevels, previousDecisions>>
      PROVE  /\ StatusOf' = [StatusOf EXCEPT ![w] = outcome]
             /\ UNCHANGED <<AgreedOf, ExpiryOf, disputeLevels, VerdictsOf, MayAppeal>>
    <2>1. /\ transfers'[w].state = outcome
          /\ Agreed(w)' = Agreed(w)
          /\ Expiry(w)' = Expiry(w)
        BY <1>1, <1>2, SettledPromise
    <2> QED
        BY <1>2, <2>1, PromiseUpdate, PromiseSame, RoundsSamePromise
<1>3. CASE SettlePending(w)
    <2>1. /\ transfers[w].state = "disputed" /\ pendingSettlements[w].exists
          /\ Finalize(w, transfers[w], OutcomeOf(pendingSettlements[w].isRelease))
          /\ UNCHANGED <<ctx, disputeLevels, previousDecisions>>
        BY <1>3 DEF SettlePending, PendingExecutable, SettledFromPending
    <2>2. EscrowInv(w)
        BY <2>1, DisputedFacts
    <2>3. /\ Verdict(w) = OutcomeOf(pendingSettlements[w].isRelease)
          /\ Verdict(w) # "open"
        BY <2>1, <2>2 DEF EscrowInv, DeferredIsCurrent, Verdict, OutcomeOf
    <2>4. Promise!CarryOut(w)
        BY <1>2, <2>1, <2>3 DEF Promise!CarryOut, Promise!Becomes, Promise!terms
    <2> QED
        BY <2>4 DEF Promise!AgreementStep
<1>4. CASE AutoCancelDisputed(w)
    <2>1. /\ transfers[w].state = "disputed" /\ ~pendingSettlements[w].exists
          /\ Finalize(w, transfers[w], "refunded")
          /\ UNCHANGED <<ctx, disputeLevels, previousDecisions>>
        BY <1>4 DEF AutoCancelDisputed, DisputeTimeoutExceeded
    <2>2. EscrowInv(w) /\ disputeLevels[w] \in Levels /\ ~Terminal(w)
        BY <2>1, DisputedFacts
    <2>3. Verdict(w) = "open"
        BY <2>1, <2>2 DEF EscrowInv, RoundsInOrder, Verdict
    <2>4. Promise!Lapse(w)
        BY <1>2, <2>1, <2>3 DEF Promise!Lapse, Promise!Becomes, Promise!terms
    <2> QED
        BY <2>4 DEF Promise!AgreementStep
<1>5. ASSUME NEW outcome \in {"released", "refunded"}, transfers[w].state = "pending",
             outcome \in Expiry(w), Finalize(w, transfers[w], outcome), SettledFromPending
      PROVE  Promise!AgreementStep(w)
    <2>1. Promise!Expire(w, outcome)
        BY <1>2, <1>5 DEF SettledFromPending, Promise!Expire, Promise!Becomes, Promise!terms
    <2> QED
        BY <2>1 DEF Promise!AgreementStep, Promise!Outcomes
<1>6. /\ AutoReleaseDue(w) => transfers[w].state = "pending" /\ "released" \in Expiry(w)
      /\ AutoCancelDue(w) => transfers[w].state = "pending" /\ "refunded" \in Expiry(w)
    BY DEF AutoReleaseDue, AutoCancelDue, Expiry
<1> QED
    BY <1>3, <1>4, <1>5, <1>6 DEF KeeperAction, AutomateTimedActions, ExecutePendingSettlement

\* The promise knows nothing of resolvers: replacing one is no step of it.
LEMMA RotationPromised ==
    ASSUME DisputeInv, DisputeInv', NEW w \in Workflows, NEW r,
           RotateDisputeResolver(w, r), OthersSame(w)
    PROVE  UNCHANGED Promise!agreementVars
<1>1. /\ transfers'[w] = [transfers[w] EXCEPT !.resolver = r]
      /\ UNCHANGED <<ctx, disputeLevels, previousDecisions>>
    BY DEF RotateDisputeResolver, roundVars, DisputeInv, TypeInv, EscrowType
<1>2. /\ transfers'[w].state = transfers[w].state
      /\ transfers'[w].senderStatus = transfers[w].senderStatus
      /\ transfers'[w].recipientStatus = transfers[w].recipientStatus
      /\ transfers'[w].autoRelease = transfers[w].autoRelease
      /\ transfers'[w].autoCancel = transfers[w].autoCancel
    BY <1>1 DEF DisputeInv, TypeInv, EscrowType, Transfer
<1>3. Agreed(w)' = Agreed(w) /\ Expiry(w)' = Expiry(w)
    BY <1>2 DEF Agreed, Expiry
<1> QED
    BY <1>1, <1>2, <1>3, PromiseSame, RoundsSamePromise
    DEF Promise!agreementVars, Promise!terms, StatusOf, AgreedOf, ExpiryOf, VerdictsOf, MayAppeal

LEMMA StepPromised ==
    ASSUME DisputeInv, DisputeInv', [Next]_vars
    PROVE  [Promise!AgreementNext]_(Promise!agreementVars)
<1>1. CASE UNCHANGED disputeVars
    <2>1. \A w \in Workflows : SamePromise(w)
        BY <1>1, SameEscrowSamePromise DEF disputeVars, SameEscrow
    <2>2. disputeLevels' = disputeLevels /\ MayAppeal' = MayAppeal
        BY <1>1, CtxFixed DEF disputeVars, MayAppeal, DecisionWindow, Greatest
    <2> QED
        BY <2>1, <2>2 DEF SamePromise, MayAppeal, Promise!agreementVars, Promise!terms
<1>2. ASSUME NEW w \in Workflows, EscrowStep(w), OthersSame(w)
      PROVE  Promise!AgreementStep(w) \/ UNCHANGED Promise!agreementVars
    BY <1>2, CreatePromised, PartyPromised, ResolverPromised, KeeperPromised, RotationPromised
    DEF EscrowStep
<1> QED
    BY <1>1, <1>2, OneAtATime DEF Promise!AgreementNext

\* However its calls interleave, the contract does to each escrow only what its
\* parties were promised, and one escrow at a time.
THEOREM ContractKeepsPromise == Spec => ImplementsAgreement
<1>1. DisputeInv /\ DisputeInv' /\ [Next]_vars
          => [Promise!AgreementNext]_(Promise!agreementVars)
    BY StepPromised
<1> QED
    BY <1>1, InitPromised, DisputeInvariant, PTL
    DEF Spec, ImplementsAgreement, Promise!AgreementSpec

-----------------------------------------------------------------------------
(* Payments. *)

PaidRight(w) ==
    \A a \in Addr :
        /\ claimable[IntKey(w)][a] >= Entitlement(w, a)
        /\ ctx.appealBondAmount = 0 => claimable[IntKey(w)][a] = Entitlement(w, a)

NoBondsHeld == ctx.appealBondAmount = 0 => \A s \in SlashIds : fraudSlashes[s].bondHeld = 0

PaymentInv == NoBondsHeld /\ \A w \in Workflows : PaidRight(w)

LEMMA InitPaid == Init => PaymentInv
<1> SUFFICES ASSUME Init
             PROVE  PaymentInv
    OBVIOUS
<1>1. NoBondsHeld
    BY DEF Init, WorldInit, NoBondsHeld, NoSlash
<1>2. ASSUME NEW w \in Workflows, NEW a \in Addr
      PROVE  claimable[IntKey(w)][a] = 0 /\ Entitlement(w, a) = 0
    BY DEF Init, WorldInit, Entitlement, NoTransfer, IntKey, ClaimKeys
<1> QED
    BY <1>1, <1>2 DEF PaymentInv, PaidRight

\* Where no bond is asked of an appeal none is ever held.
LEMMA NextNoBonds ==
    ASSUME DisputeInv, NoBondsHeld, [Next]_vars
    PROVE  NoBondsHeld'
<1>1. /\ ctx' = ctx
      /\ fraudSlashes \in [SlashIds -> Slash]
    BY CtxFixed DEF DisputeInv, TypeInv, SlashType
<1>2. CASE UNCHANGED fraudSlashes
    BY <1>1, <1>2 DEF NoBondsHeld
<1>3. ASSUME NEW id, NEW slash, slash.bondHeld = 0,
             fraudSlashes' = [fraudSlashes EXCEPT ![id] = slash]
      PROVE  NoBondsHeld'
    BY <1>1, <1>3 DEF NoBondsHeld
<1>4. ASSUME NEW w \in Workflows, NEW r \in Stakers, NEW n \in SlashAmounts,
             ProposeFraudSlash(w, r, n)
      PROVE  NoBondsHeld'
    <2> DEFINE slash == [ resolver |-> r, amount |-> n, reason |-> "fraud",
                          status |-> "pending", proposedAt |-> time,
                          deadline |-> time + ctx.appealWindow, bondHeld |-> 0 ]
    <2>1. fraudSlashes' = [fraudSlashes EXCEPT ![<<"fraud", w>>] = slash]
        BY <1>4 DEF ProposeFraudSlash
    <2>2. slash.bondHeld = 0
        OBVIOUS
    <2> HIDE DEF slash
    <2> QED
        BY <1>3, <2>1, <2>2
<1>5. ASSUME NEW s \in SlashIds, SlashAction(s)
      PROVE  NoBondsHeld'
    <2>1. ASSUME NEW a \in Addr, AppealSlash(s, a)
          PROVE  NoBondsHeld'
        BY <1>1, <2>1 DEF AppealSlash, NoBondsHeld, Slash
    <2>2. ASSUME NEW upheld \in BOOLEAN, ResolveAppeal(s, upheld)
          PROVE  NoBondsHeld'
        <3>1. Ruled(fraudSlashes[s], upheld).bondHeld = 0
            BY <1>1 DEF Ruled, Slash
        <3> QED
            BY <1>3, <2>2, <3>1 DEF ResolveAppeal
    <2>3. CASE ExecuteFraudSlash(s)
        BY <1>1, <2>3 DEF ExecuteFraudSlash, NoBondsHeld, Slash
    <2> QED
        BY <1>5, <2>1, <2>2, <2>3 DEF SlashAction
<1>6. ASSUME NEW w \in Workflows, NEW a \in Addr, ResolverAction(w, a)
      PROVE  NoBondsHeld'
    <2>1. PICK b \in BOOLEAN : HandleReversalSlashing(w, b)
        BY <1>6 DEF ResolverAction, ExecuteResolution
    <2> DEFINE loser  == previousDecisions[w][disputeLevels[w] - 1].resolver
               amount == ComputeFee(transfers[w].afa, ctx.reversalSlashBps)
               slash  == [ resolver |-> loser, amount |-> amount, reason |-> "reversal",
                           status |-> "executed", proposedAt |-> time, deadline |-> 0,
                           bondHeld |-> 0 ]
               filed  == [slash EXCEPT !.status = "pending",
                                       !.deadline = time + ctx.appealWindow]
    <2>2. \/ UNCHANGED fraudSlashes
          \/ fraudSlashes' = [fraudSlashes EXCEPT ![<<"reversal", w>>] = slash]
          \/ fraudSlashes' = [fraudSlashes EXCEPT ![<<"reversal", w>>] = filed]
        BY <2>1 DEF HandleReversalSlashing
    <2>3. slash.bondHeld = 0 /\ filed.bondHeld = 0
        OBVIOUS
    <2> HIDE DEF slash, filed
    <2> QED
        BY <1>2, <1>3, <2>2, <2>3
<1>7. CASE \/ Tick
           \/ \E o \in Orders : CreateEscrow(o)
           \/ \E w \in Workflows : UpdateEvidence(w)
           \/ \E r \in Stakers : StakeAction(r)
           \/ \E w \in Workflows, r \in Replacements : RotateDisputeResolver(w, r)
           \/ \E p \in PauseValues : SetPaused(p)
           \/ \E t \in FeeTokens : WithdrawFees(t)
           \/ UNCHANGED vars
    BY <1>2, <1>7 DEF Tick, CreateEscrow, UpdateEvidence, StakeAction, RegisterStake,
                      WithdrawStake, RotateDisputeResolver, SetPaused, WithdrawFees,
                      slashVars, vars, worldVars
<1>8. ASSUME NEW w \in Workflows, NEW a \in Addr, PartyAction(w, a)
      PROVE  NoBondsHeld'
    BY <1>2, <1>8 DEF PartyAction, RaiseDispute, Release, SenderCancel, RecipientCancel,
                      AgreeToCancel, SettledFromPending, EscalateDispute,
                      ChallengeResolution, MoveUp, slashVars
<1>9. ASSUME NEW w \in Workflows, KeeperAction(w)
      PROVE  NoBondsHeld'
    BY <1>2, <1>9 DEF KeeperAction, AutomateTimedActions, SettlePending, SettledFromPending,
                      ExecutePendingSettlement, AutoCancelDisputed, slashVars
<1> QED
    BY <1>4, <1>5, <1>6, <1>7, <1>8, <1>9 DEF Next, UserAction, GovernanceAction

\* A step on an escrow settles it or pays nothing.
LEMMA SettlesOrPaysNothing ==
    ASSUME DisputeInv, NEW w \in Workflows, EscrowStep(w)
    PROVE  \/ \E et \in Transfer, outcome \in {"released", "refunded"} :
                  Finalize(w, et, outcome)
           \/ /\ UNCHANGED claimable
              /\ transfers'[w].state \notin {"released", "refunded"}
<1>1. /\ transfers \in [Workflows -> Transfer]
      /\ transfers[w] \in Transfer
    BY DEF DisputeInv, TypeInv, EscrowType
<1>2. \A b : OutcomeOf(b) \in {"released", "refunded"}
    BY DEF OutcomeOf
<1>3. CASE \E o \in Orders : CreateEscrow(o) /\ IsNextId(w)
    <2>1. /\ UNCHANGED claimable
          /\ \E v \in Workflows : \E et :
                 et.state = "pending" /\ transfers' = [transfers EXCEPT ![v] = et]
        BY <1>3 DEF CreateEscrow
    <2>2. ~Exists(w)
        <3>1. ~(w < w)
            BY DEF Workflows
        <3> QED
            BY <1>3, <3>1 DEF IsNextId
    <2>3. transfers'[w].state \in {"none", "pending"}
        BY <1>1, <2>1, <2>2 DEF Exists
    <2> QED
        BY <2>1, <2>3
<1>4. ASSUME NEW a \in Addr, PartyAction(w, a)
      PROVE  \/ \E et \in Transfer, outcome \in {"released", "refunded"} :
                    Finalize(w, et, outcome)
             \/ /\ UNCHANGED claimable
                /\ transfers'[w].state \notin {"released", "refunded"}
    <2>1. CASE RaiseDispute(w, a)
        BY <1>1, <2>1 DEF RaiseDispute, Raised, Transfer, ledgerVars
    <2>2. CASE Release(w, a)
        BY <1>1, <2>2 DEF Release
    <2>3. ASSUME NEW agreed \in Transfer, agreed.state = "pending", AgreeToCancel(w, agreed)
          PROVE  \/ \E et \in Transfer, outcome \in {"released", "refunded"} :
                        Finalize(w, et, outcome)
                 \/ /\ UNCHANGED claimable
                    /\ transfers'[w].state \notin {"released", "refunded"}
        BY <1>1, <2>3 DEF AgreeToCancel, ledgerVars
    <2>4. CASE SenderCancel(w, a)
        <3>1. /\ [transfers[w] EXCEPT !.senderStatus = "agree-to-cancel"] \in Transfer
              /\ [transfers[w] EXCEPT !.senderStatus = "agree-to-cancel"].state = "pending"
            BY <1>1, <2>4 DEF SenderCancel, Transfer, PartyStatuses
        <3> QED
            BY <2>3, <2>4, <3>1 DEF SenderCancel
    <2>5. CASE RecipientCancel(w, a)
        <3>1. /\ [transfers[w] EXCEPT !.recipientStatus = "agree-to-cancel"] \in Transfer
              /\ [transfers[w] EXCEPT !.recipientStatus = "agree-to-cancel"].state = "pending"
            BY <1>1, <2>5 DEF RecipientCancel, Transfer, PartyStatuses
        <3> QED
            BY <2>3, <2>5, <3>1 DEF RecipientCancel
    <2>6. ASSUME NEW bond, Appealable(w), MoveUp(w, a, bond)
          PROVE  /\ UNCHANGED claimable
                 /\ transfers'[w].state \notin {"released", "refunded"}
        BY <1>1, <2>6 DEF MoveUp, PostBond, Appealable, Transfer
    <2> QED
        BY <1>4, <2>1, <2>2, <2>4, <2>5, <2>6
        DEF PartyAction, EscalateDispute, ChallengeResolution
<1>5. ASSUME NEW a \in Addr, ResolverAction(w, a)
      PROVE  \/ \E et \in Transfer, outcome \in {"released", "refunded"} :
                    Finalize(w, et, outcome)
             \/ /\ UNCHANGED claimable
                /\ transfers'[w].state \notin {"released", "refunded"}
    BY <1>1, <1>2, <1>5 DEF ResolverAction, ExecuteResolution, Decidable, ledgerVars
<1>6. CASE \E r \in Replacements : RotateDisputeResolver(w, r)
    BY <1>1, <1>6 DEF RotateDisputeResolver, ledgerVars, Transfer
<1>7. CASE KeeperAction(w)
    BY <1>1, <1>2, <1>7 DEF KeeperAction, AutomateTimedActions, SettlePending,
                            ExecutePendingSettlement, AutoCancelDisputed
<1> QED
    BY <1>3, <1>4, <1>5, <1>6, <1>7 DEF EscrowStep

LEMMA SamePaid ==
    ASSUME NEW w \in Workflows, PaidRight(w), ctx' = ctx,
           transfers'[w] = transfers[w],
           \A a \in Addr : claimable'[IntKey(w)][a] = claimable[IntKey(w)][a]
    PROVE  PaidRight(w)'
<1>1. \A a \in Addr : Entitlement(w, a)' = Entitlement(w, a)
    BY DEF Entitlement, NetAmount, ComputeFee
<1> QED
    BY <1>1 DEF PaidRight

LEMMA SettledPaid ==
    ASSUME DisputeInv, NEW w \in Workflows, ~Terminal(w), PaidRight(w), ctx' = ctx,
           NEW et \in Transfer, NEW outcome \in {"released", "refunded"},
           Finalize(w, et, outcome)
    PROVE  PaidRight(w)'
<1> DEFINE who == Beneficiary(et, outcome)
           net == NetAmount(et)
<1>1. /\ claimable' = [claimable EXCEPT ![IntKey(w)][who] = @ + net]
      /\ transfers'[w] = [et EXCEPT !.state = outcome]
    BY DEF Finalize, DisputeInv, TypeInv, EscrowType
<1>2. net \in Nat
    BY NetIsNat DEF DisputeInv
<1>3. /\ claimable \in [ClaimKeys -> [Addr -> Nat]]
      /\ IntKey(w) \in ClaimKeys
    BY DEF DisputeInv, TypeInv, LedgerType, IntKey, ClaimKeys
<1>4. /\ transfers'[w].state = outcome
      /\ transfers'[w].to = et.to /\ transfers'[w].from = et.from
      /\ transfers'[w].afa = et.afa /\ transfers'[w].token = et.token
    BY <1>1 DEF Transfer
<1>5. ASSUME NEW a \in Addr
      PROVE  /\ Entitlement(w, a) = 0
             /\ Entitlement(w, a)' = IF a = who THEN net ELSE 0
             /\ claimable'[IntKey(w)][a] =
                    claimable[IntKey(w)][a] + (IF a = who THEN net ELSE 0)
             /\ claimable[IntKey(w)][a] \in Nat
    <2>1. Entitlement(w, a) = 0
        BY DEF Entitlement, Terminal, TerminalStates
    <2>2. NetAmount(transfers[w])' = net
        BY <1>4 DEF NetAmount
    <2>3. Entitlement(w, a)' = IF a = who THEN net ELSE 0
        BY <1>4, <2>2 DEF Entitlement, Beneficiary
    <2> HIDE DEF who, net
    <2> QED
        BY <1>1, <1>2, <1>3, <2>1, <2>3
<1> HIDE DEF who, net
<1> QED
    BY <1>2, <1>5 DEF PaidRight

LEMMA UnsettledPaid ==
    ASSUME DisputeInv, NEW w \in Workflows, ~Terminal(w), PaidRight(w), ctx' = ctx,
           UNCHANGED claimable, transfers'[w].state \notin {"released", "refunded"}
    PROVE  PaidRight(w)'
<1>1. \A a \in Addr : Entitlement(w, a) = 0 /\ Entitlement(w, a)' = 0
    BY DEF Entitlement, Terminal, TerminalStates
<1> QED
    BY <1>1 DEF PaidRight

\* A ruling returns at most a bond, and none where none is asked for.
LEMMA RulingPaid ==
    ASSUME DisputeInv, NoBondsHeld, NEW s \in SlashIds, NEW upheld \in BOOLEAN,
           ResolveAppeal(s, upheld), UNCHANGED disputeVars,
           NEW w \in Workflows, PaidRight(w)
    PROVE  PaidRight(w)'
<1> DEFINE bond == fraudSlashes[s].bondHeld
           who  == IF custody[s].held THEN custody[s].resolver ELSE fraudSlashes[s].resolver
           key  == IntKey(s[2])
<1>1. /\ ctx' = ctx
      /\ claimable' = IF upheld THEN [claimable EXCEPT ![key][who] = @ + bond] ELSE claimable
    BY DEF ResolveAppeal
<1>2. /\ bond \in Nat
      /\ ctx.appealBondAmount = 0 => bond = 0
    BY DEF NoBondsHeld, DisputeInv, TypeInv, SlashType, Slash
<1>3. /\ claimable \in [ClaimKeys -> [Addr -> Nat]]
      /\ IntKey(w) \in ClaimKeys
    BY DEF DisputeInv, TypeInv, LedgerType, IntKey, ClaimKeys
<1>4. ASSUME NEW a \in Addr
      PROVE  /\ claimable[IntKey(w)][a] \in Nat
             /\ \/ claimable'[IntKey(w)][a] = claimable[IntKey(w)][a]
                \/ claimable'[IntKey(w)][a] = claimable[IntKey(w)][a] + bond
    <2> HIDE DEF bond, who, key
    <2>1. CASE upheld /\ key = IntKey(w)
        <3>1. claimable' = [claimable EXCEPT ![IntKey(w)] =
                                [claimable[IntKey(w)] EXCEPT ![who] = @ + bond]]
            BY <1>1, <2>1
        <3>2. claimable'[IntKey(w)] = [claimable[IntKey(w)] EXCEPT ![who] = @ + bond]
            BY <1>3, <3>1
        <3>3. claimable[IntKey(w)] \in [Addr -> Nat]
            BY <1>3
        <3> QED
            BY <3>2, <3>3
    <2>2. CASE ~(upheld /\ key = IntKey(w))
        BY <1>1, <1>3, <2>2
    <2> QED
        BY <2>1, <2>2
<1>5. ASSUME NEW a \in Addr
      PROVE  Entitlement(w, a)' = Entitlement(w, a) /\ Entitlement(w, a) \in Nat
    <2>1. transfers[w] \in Transfer /\ transfers'[w] = transfers[w]
        BY DEF disputeVars, DisputeInv, TypeInv, EscrowType
    <2>2. NetAmount(transfers[w]) \in Nat
        BY <2>1, NetIsNat DEF DisputeInv
    <2> QED
        BY <1>1, <2>1, <2>2 DEF Entitlement, NetAmount, ComputeFee
<1> HIDE DEF bond, who, key
<1> QED
    BY <1>1, <1>2, <1>4, <1>5 DEF PaidRight

LEMMA NextPaid == DisputeInv /\ DisputeInv' /\ PaymentInv /\ [Next]_vars => PaymentInv'
<1> SUFFICES ASSUME DisputeInv, DisputeInv', PaymentInv, [Next]_vars
             PROVE  PaymentInv'
    OBVIOUS
<1>1. NoBondsHeld' /\ ctx' = ctx
    BY NextNoBonds, CtxFixed DEF PaymentInv
<1>2. ASSUME NEW v \in Workflows
      PROVE  PaidRight(v)'
    <2>1. PaidRight(v)
        BY DEF PaymentInv
    <2>2. CASE UNCHANGED disputeVars /\ UNCHANGED claimable
        BY <1>1, <2>1, <2>2, SamePaid DEF disputeVars
    <2>3. ASSUME NEW s \in SlashIds, NEW upheld \in BOOLEAN,
                 ResolveAppeal(s, upheld), UNCHANGED disputeVars
          PROVE  PaidRight(v)'
        BY <2>1, <2>3, RulingPaid DEF PaymentInv
    <2>4. CASE EscrowStep(v)
        BY <1>1, <2>1, <2>4, StepsNeedLife, SettlesOrPaysNothing, SettledPaid, UnsettledPaid
    <2>5. ASSUME NEW w \in Workflows, v # w, EscrowStep(w), OthersSame(w)
          PROVE  PaidRight(v)'
        <3>1. transfers'[v] = transfers[v]
            BY <2>5 DEF OthersSame, SameEscrow
        <3>2. \A a \in Addr : claimable'[IntKey(v)][a] = claimable[IntKey(v)][a]
            <4>1. IntKey(v) # IntKey(w)
                BY <2>5 DEF IntKey
            <4>2. IntKey(v) \in ClaimKeys /\ claimable \in [ClaimKeys -> [Addr -> Nat]]
                BY DEF DisputeInv, TypeInv, LedgerType, IntKey, ClaimKeys
            <4> QED
                BY <2>5, <4>1, <4>2, SettlesOrPaysNothing DEF Finalize
        <3> QED
            BY <1>1, <2>1, <3>1, <3>2, SamePaid
    <2> QED
        BY <2>2, <2>3, <2>4, <2>5, StepOrBystander DEF Bystanding
<1> QED
    BY <1>1, <1>2 DEF PaymentInv

\* A settled escrow pays its beneficiary once and in full, and nobody else: what
\* an escrow's account holds beyond that are the bonds of upheld slash appeals.
THEOREM PaidCorrect == Spec => []PaidOnceToOne
<1>1. PaymentInv => PaidOnceToOne
    BY DEF PaymentInv, PaidRight, PaidOnceToOne
<1>2. DisputeInv /\ DisputeInv' /\ PaymentInv /\ [Next]_vars => PaymentInv'
    BY NextPaid
<1> QED
    BY <1>1, <1>2, InitPaid, DisputeInvariant, PTL DEF Spec

-----------------------------------------------------------------------------
(* Under the kernel. *)

\* The kernel's veto adds no behaviour to the contract (replay.clj, process-step).
THEOREM KernelImplementsContract == KernelSpec => Spec
<1>1. [KernelNext]_vars => [Next]_vars
    BY DEF KernelNext, Dispatch, Next
<1> QED
    BY <1>1, PTL DEF KernelSpec, Spec

\* Under the kernel too the parties get what they were promised, paid once;
\* disputes are settled by the rules and for good, decisions stand, and a pause
\* freezes what a keeper does not find due.
THEOREM KernelKeepsTheRules ==
    KernelSpec => /\ ImplementsAgreement /\ []PaidOnceToOne
                  /\ NoEarlySettlement /\ SettledForGood /\ DecisionsStand /\ PauseFreezes
BY KernelImplementsContract, ContractKeepsPromise, PaidCorrect, NoEarlySettlementAlways,
   SettledForGoodAlways, DecisionsStandAlways, PauseFreezesAlways, PTL

=============================================================================

------------------------------ MODULE SewTypes ------------------------------
(***************************************************************************)
(* The values the SEW contract model is made of, and its arithmetic: the   *)
(* escrow states and statuses of types.clj, the configuration an execution *)
(* context freezes into every escrow (the module snapshot, the escalation  *)
(* map, the fee-on-transfer taxes), and the fee, bond and slashing formulas *)
(* of economics/payoffs.clj.  Nothing here has state.                      *)
(***************************************************************************)
EXTENDS Integers, FiniteSets

CONSTANTS
    Addr,            \* addresses that may appear in a call
    NoAddr,          \* nil: no address configured
    Tokens,          \* token addresses
    NumWorkflows,    \* bound: how many escrows may be created
    Contexts         \* the execution contexts a session may be built with

FeeDenominator == 10000

MaxDisputeLevel == 2

Levels == 0 .. MaxDisputeLevel

\* Workflow ids are handed out in order: the id of a new escrow is the number
\* of escrows that exist.
Workflows == 0 .. (NumWorkflows - 1)

OptAddr == Addr \cup {NoAddr}

Bps == 0 .. FeeDenominator

EscrowStates == {"none", "pending", "disputed", "released", "refunded", "resolved"}

LiveStates == {"pending", "disputed"}

TerminalStates == {"released", "refunded", "resolved"}

PartyStatuses == {"none", "agree-to-cancel", "raise-dispute"}

Transfer ==
    [ state : EscrowStates, from : OptAddr, to : OptAddr, token : Tokens,
      afa : Nat, fee : Nat, resolver : OptAddr,
      autoRelease : Nat, autoCancel : Nat,
      senderStatus : PartyStatuses, recipientStatus : PartyStatuses ]

\* A decision deferred until its appeal window has closed.
Settlement == [ exists : BOOLEAN, isRelease : BOOLEAN, deadline : Nat ]

NoSettlement == [ exists |-> FALSE, isRelease |-> FALSE, deadline |-> 0 ]

Decision == [ resolver : OptAddr, isRelease : BOOLEAN ]

NoDecision == [ resolver |-> NoAddr, isRelease |-> FALSE ]

\* What build-execution-context derives from the protocol parameters: the
\* module snapshot copied into every escrow (numeric fields are 0 when unset,
\* never nil), the resolver of each escalation round, and the token taxes.
Context ==
    [ feeBps : Bps, resolver : OptAddr, module : OptAddr,
      appealWindow : Nat, challengeWindow : Nat, maxDispute : Nat,
      autoReleaseDelay : Nat, autoCancelDelay : Nat,
      resolverBondBps : Bps, reversalSlashBps : Bps,
      appealBondBps : Bps, appealBondAmount : Nat, appealBondFeeBps : Bps,
      challengeBondBps : Bps, bountyBps : Bps,
      kleros : BOOLEAN, levels : [Levels -> OptAddr],
      fotBps : [Tokens -> Bps] ]

ASSUME NoAddrAssumption == NoAddr \notin Addr
ASSUME AddrAssumption == IsFiniteSet(Addr)
ASSUME TokensAssumption == Tokens # {}
ASSUME WorkflowsAssumption == NumWorkflows \in Nat \ {0}
ASSUME ContextsAssumption == Contexts \subseteq Context

-----------------------------------------------------------------------------
(* Fees and bonds: uint256 truncating division throughout. *)

ComputeFee(amount, bps) == (amount * bps) \div FeeDenominator

\* Bond a challenger posts.  The final default of 100 in the code is reached
\* only when the snapshot field is nil, which make-module-snapshot excludes.
ChallengeBond(afa, snap) ==
    IF snap.challengeBondBps > 0 THEN ComputeFee(afa, snap.challengeBondBps)
                                 ELSE snap.appealBondAmount

AppealBond(afa, snap) ==
    IF snap.appealBondAmount > 0 THEN snap.appealBondAmount
                                 ELSE ComputeFee(afa, snap.appealBondBps)

SlashSplitRounded(amount, bounty) ==       \* mutant: every part is rounded down
    LET half == bounty \div 2
    IN  [ insurance |-> (amount * 50) \div 100 - half,
          protocol  |-> (amount * 30) \div 100 - half,
          retained  |-> (amount * 20) \div 100 ]

\* The 50/30/20 split of a slash; half the bounty (rounded down) is taken from
\* the insurance part and half from the protocol part.
SlashSplit(amount, bounty) ==
    LET insurance == (amount * 50) \div 100
        protocol  == (amount * 30) \div 100
        half      == bounty \div 2
    IN  [ insurance |-> insurance - half,
          protocol  |-> protocol - half,
          retained  |-> amount - insurance - protocol ]

Least(a, b) == IF a <= b THEN a ELSE b

Greatest(a, b) == IF a >= b THEN a ELSE b

\* The window a non-final decision stays open to appeal or challenge.
DecisionWindow(snap) == Greatest(snap.appealWindow, snap.challengeWindow)

=============================================================================

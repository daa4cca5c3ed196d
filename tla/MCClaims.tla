------------------------------- MODULE MCClaims -------------------------------
(***************************************************************************)
(* One escrow in the contexts that bring the claims of SewClaims down.      *)
(***************************************************************************)
EXTENDS SewClaims

CONSTANTS alice, bob, r0, r1, usdc

Base == [ feeBps |-> 1000, resolver |-> r0, module |-> NoAddr,
          appealWindow |-> 1, challengeWindow |-> 0, maxDispute |-> 0,
          autoReleaseDelay |-> 0, autoCancelDelay |-> 0,
          resolverBondBps |-> 0, reversalSlashBps |-> 0,
          appealBondBps |-> 2000, appealBondAmount |-> 0, appealBondFeeBps |-> 0,
          challengeBondBps |-> 3000, bountyBps |-> 0,
          kleros |-> FALSE, levels |-> [l \in Levels |-> NoAddr],
          fotBps |-> [t \in Tokens |-> 0] ]

Ladder == [l \in Levels |-> IF l = 1 THEN r1 ELSE r0]

LadderContext == [Base EXCEPT !.module = r0, !.kleros = TRUE, !.levels = Ladder]

LadderContexts == { LadderContext }

PlainContexts == { Base }

TimeoutContexts == { [Base EXCEPT !.maxDispute = 1] }

\* The bounty of a reversal slash: 9 of 90 (odd), 18 of 90 (even).
OddBountyContexts == { [LadderContext EXCEPT !.reversalSlashBps = 5000, !.bountyBps = 1000] }

EvenBountyContexts == { [LadderContext EXCEPT !.reversalSlashBps = 5000, !.bountyBps = 2000] }

BondFeeContexts == { [LadderContext EXCEPT !.appealBondFeeBps = 2500] }

TaxContexts == { [Base EXCEPT !.fotBps = [t \in Tokens |-> 500]] }

NoWindowContexts == { [Base EXCEPT !.appealWindow = 0] }

SlashBondContexts == { [Base EXCEPT !.appealBondAmount = 7] }

BothTimesContexts == { [Base EXCEPT !.autoReleaseDelay = 2, !.autoCancelDelay = 1] }

OrderOf(custom) ==
    [from |-> alice, to |-> bob, token |-> usdc, amount |-> 200, custom |-> custom]

PlainOrders == { OrderOf(NoAddr) }

CustomOrders == { OrderOf(r1) }

=============================================================================

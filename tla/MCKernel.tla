------------------------------- MODULE MCKernel -------------------------------
(***************************************************************************)
(* Two escrows over one ledger, and the kernel's checks around one or two   *)
(* escrows.  The contexts keep to what the kernel accepts: no fee on appeal *)
(* bonds, no token tax, no reversal slash, a window on every decision.      *)
(***************************************************************************)
EXTENDS SewKernel

CONSTANTS alice, bob, r0, r1, usdc

Base == [ feeBps |-> 1000, resolver |-> r0, module |-> NoAddr,
          appealWindow |-> 1, challengeWindow |-> 0, maxDispute |-> 2,
          autoReleaseDelay |-> 0, autoCancelDelay |-> 0,
          resolverBondBps |-> 0, reversalSlashBps |-> 0,
          appealBondBps |-> 2000, appealBondAmount |-> 0, appealBondFeeBps |-> 0,
          challengeBondBps |-> 3000, bountyBps |-> 0,
          kleros |-> FALSE, levels |-> [l \in Levels |-> NoAddr],
          fotBps |-> [t \in Tokens |-> 0] ]

Ladder == [l \in Levels |-> IF l = 1 THEN r1 ELSE r0]

LadderContext ==
    [Base EXCEPT !.module = r0, !.kleros = TRUE, !.levels = Ladder]

TimedContext == [Base EXCEPT !.autoReleaseDelay = 2]

\* One resolver and a single appeal, so that the pair stays small.
PairContext ==
    [LadderContext EXCEPT !.levels = [l \in Levels |-> IF l = 2 THEN NoAddr ELSE r0],
                          !.maxDispute = 1]

PairContexts == { PairContext }

DueTogetherContexts == { TimedContext }

LiveContexts == { LadderContext, TimedContext,
                  [Base EXCEPT !.autoCancelDelay = 1, !.challengeWindow = 2] }

OrderOf(amount) ==
    [from |-> alice, to |-> bob, token |-> usdc, amount |-> amount, custom |-> NoAddr]

OneOrder == { OrderOf(200) }

TwoOrders == { OrderOf(200), OrderOf(100) }

=============================================================================

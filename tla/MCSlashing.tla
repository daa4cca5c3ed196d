------------------------------- MODULE MCSlashing -------------------------------
(***************************************************************************)
(* Stakes and slashes around one disputed escrow: fraud slashes proposed,   *)
(* appealed and ruled on, reversal slashes on old and new evidence, and the *)
(* stake that pays for them, with and without a slash-appeal bond.          *)
(***************************************************************************)
EXTENDS SewLedger

CONSTANTS alice, bob, r0, r1, usdc

Base == [ feeBps |-> 1000, resolver |-> r0, module |-> NoAddr,
          appealWindow |-> 0, challengeWindow |-> 0, maxDispute |-> 2,
          autoReleaseDelay |-> 0, autoCancelDelay |-> 0,
          resolverBondBps |-> 0, reversalSlashBps |-> 0,
          appealBondBps |-> 2000, appealBondAmount |-> 0, appealBondFeeBps |-> 0,
          challengeBondBps |-> 3000, bountyBps |-> 0,
          kleros |-> FALSE, levels |-> [l \in Levels |-> NoAddr],
          fotBps |-> [t \in Tokens |-> 0] ]

Ladder == [l \in Levels |-> IF l = 1 THEN r1 ELSE r0]

FraudContexts ==
    { [Base EXCEPT !.appealWindow = 1, !.appealBondAmount = 7],
      [Base EXCEPT !.appealWindow = 2] }

ReversalContexts ==
    { [Base EXCEPT !.module = r0, !.kleros = TRUE, !.levels = Ladder,
                   !.appealWindow = 1, !.reversalSlashBps = b,
                   !.appealBondAmount = 7, !.maxDispute = 0] : b \in {0, 5000} }

MCOrders ==
    { [from |-> alice, to |-> bob, token |-> usdc, amount |-> 200, custom |-> NoAddr] }

=============================================================================

------------------------------- MODULE MCEscrow -------------------------------
(***************************************************************************)
(* One escrow from creation to settlement, in five configurations: an       *)
(* escalation ladder with windows, bonds and bond fees; the same ladder      *)
(* without a module (authority falls through to the escrow's resolver), in  *)
(* a taxed token; a single module resolver without windows; both automatic  *)
(* settlements; and no resolver but the custom one.                         *)
(***************************************************************************)
EXTENDS SewLedger

CONSTANTS alice, bob, r0, r1, usdc

Base == [ feeBps |-> 1000, resolver |-> r0, module |-> NoAddr,
          appealWindow |-> 0, challengeWindow |-> 0, maxDispute |-> 2,
          autoReleaseDelay |-> 0, autoCancelDelay |-> 0,
          resolverBondBps |-> 0, reversalSlashBps |-> 0,
          appealBondBps |-> 2000, appealBondAmount |-> 0, appealBondFeeBps |-> 0,
          challengeBondBps |-> 3000, bountyBps |-> 0,
          kleros |-> FALSE, levels |-> [l \in Levels |-> NoAddr],
          fotBps |-> [t \in Tokens |-> 0] ]

Ladder == [l \in Levels |-> IF l = 1 THEN r1 ELSE r0]

LadderContexts ==
    { [Base EXCEPT !.module = r0, !.kleros = TRUE, !.levels = Ladder,
                   !.appealWindow = 1, !.challengeWindow = 2,
                   !.appealBondFeeBps = 2500],
      [Base EXCEPT !.kleros = TRUE, !.levels = Ladder, !.appealWindow = 1,
                   !.fotBps = [t \in Tokens |-> 500]] }

TimedContexts ==
    { [Base EXCEPT !.module = r1],
      [Base EXCEPT !.autoReleaseDelay = 2, !.autoCancelDelay = 1],
      [Base EXCEPT !.resolver = NoAddr, !.appealWindow = 1] }

MCContexts == LadderContexts \cup TimedContexts

MCOrders ==
    { [from |-> alice, to |-> bob, token |-> usdc, amount |-> 200, custom |-> c] :
        c \in {NoAddr, r1} }

=============================================================================

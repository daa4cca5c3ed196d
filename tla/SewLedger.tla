------------------------------ MODULE SewLedger ------------------------------
(***************************************************************************)
(* The accounting identities of the contract model: what the vault holds,   *)
(* what it owes to whom, and where slashed stake and forfeited bonds go.     *)
(***************************************************************************)
EXTENDS SewProperties

OfToken(t) == {w \in Workflows : Exists(w) /\ transfers[w].token = t}

\* What each escrow holds, what it pays out, and the bonds posted on it.
Amounts == [w \in Workflows |-> transfers[w].afa]

NetAmounts == [w \in Workflows |-> NetAmount(transfers[w])]

BondsOf(w) == SumFunctionOnSet(bondBalances[w], Addr)

BondSums == [w \in Workflows |-> BondsOf(w)]

EscrowedLive(t) == SumFunctionOnSet(Amounts, {w \in OfToken(t) : Live(w)})

EscrowedEver(t) == SumFunctionOnSet(Amounts, OfToken(t))

BondsHeld(t) == SumFunctionOnSet(BondSums, OfToken(t))

\* The vault of a token holds exactly the amounts of its live escrows, the bonds
\* posted on its escrows and the protocol's cut of those bonds; so sub-held
\* never goes below zero.
VaultExact ==
    \A t \in Tokens : totalHeld[t] = EscrowedLive(t) + BondsHeld(t) + bondFees[t]

\* What the settlement of an escrow entitles an address to.
Entitlement(w, a) ==
    IF \/ transfers[w].state = "released" /\ a = transfers[w].to
       \/ transfers[w].state = "refunded" /\ a = transfers[w].from
    THEN NetAmount(transfers[w])
    ELSE 0

\* A settled escrow pays its beneficiary, once and in full, and nobody else; a
\* live one pays nobody.  On top of that an escrow's account only ever receives
\* the bonds of upheld slash appeals.
PaidOnceToOne ==
    \A w \in Workflows : \A a \in Addr :
        LET paid == claimable[IntKey(w)][a]
        IN  /\ paid >= Entitlement(w, a)
            /\ ctx.appealBondAmount = 0 => paid = Entitlement(w, a)

Paid(t, outcome) ==
    SumFunctionOnSet(NetAmounts, {w \in OfToken(t) : transfers[w].state = outcome})

\* What was released and refunded in a token is what its settled escrows are
\* entitled to, each on its own side of the ledger.
SettlementsMatchTotals ==
    \A t \in Tokens :
        /\ totalReleased[t] = Paid(t, "released")
        /\ totalRefunded[t] = Paid(t, "refunded")

-----------------------------------------------------------------------------
(* Slashed stake. *)

\* The escrows settled by the dispute timeout: refunded without a decision of the
\* round they ended in.
TimedOut ==
    {w \in Workflows : /\ transfers[w].state = "refunded"
                       /\ WasDisputed(w)
                       /\ ~Decided(w, disputeLevels[w])}

ReservesTotal == distribution.insurance + distribution.protocol + distribution.retained

\* Every unit of slashed stake and of forfeited appeal bonds is in one of the
\* three reserves, and nothing else is but the amounts of the escrows that timed
\* out, which the code distributes although they are refunded (bounties apart).
ReservesExplained ==
    ctx.bountyBps = 0 =>
        ReservesTotal = SumFunctionOnSet(slashTotal, Addr) + forfeited
                          + SumFunctionOnSet(Amounts, TimedOut)

=============================================================================

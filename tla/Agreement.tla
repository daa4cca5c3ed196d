------------------------------- MODULE Agreement -------------------------------
(***************************************************************************)
(* What the contract promises the two parties of an escrow, whoever calls   *)
(* what in which order.  An escrow is opened once and settled once.  Before *)
(* a dispute the money goes to the recipient when the sender says so, back  *)
(* when both agree, and either way when the terms let it expire.  In a      *)
(* dispute it goes the way of the last round's verdict, which may be        *)
(* appealed into the next round while there is one, or back when no verdict *)
(* comes.  Escrows do not interfere.                                        *)
(***************************************************************************)
EXTENDS Naturals

CONSTANTS
    Escrows,     \* the escrows there may be
    LastRound    \* the round whose verdict is final

VARIABLES
    status,      \* how far each escrow has gone
    agreed,      \* the parties who agree to call it off
    expiry,      \* how it may end if nobody does anything
    round,       \* the round its dispute is in
    verdict,     \* what that round decided, if it has
    appealable   \* whether verdicts may be appealed, the same for all

terms == <<expiry, appealable>>

agreementVars == <<status, agreed, terms, round, verdict>>

Outcomes == {"released", "refunded"}

Parties == {"sender", "recipient"}

AgreementInit ==
    /\ status = [e \in Escrows |-> "none"]
    /\ agreed = [e \in Escrows |-> {}]
    /\ expiry = [e \in Escrows |-> {}]
    /\ round = [e \in Escrows |-> 0]
    /\ verdict = [e \in Escrows |-> "open"]
    /\ appealable \in BOOLEAN

Becomes(e, s) == status' = [status EXCEPT ![e] = s]

Open(e, outcomes) ==
    /\ status[e] = "none"
    /\ Becomes(e, "pending")
    /\ agreed' = [agreed EXCEPT ![e] = {}]
    /\ expiry' = [expiry EXCEPT ![e] = outcomes]
    /\ UNCHANGED <<appealable, round, verdict>>

\* The sender lets the recipient have the money.
HandOver(e) ==
    /\ status[e] = "pending"
    /\ Becomes(e, "released")
    /\ UNCHANGED <<agreed, terms, round, verdict>>

\* A party agrees to call it off; when both have, the money goes back.
CallOff(e, party) ==
    LET parties == agreed[e] \cup {party}
    IN  /\ status[e] = "pending"
        /\ agreed' = [agreed EXCEPT ![e] = parties]
        /\ Becomes(e, IF parties = Parties THEN "refunded" ELSE "pending")
        /\ UNCHANGED <<terms, round, verdict>>

Expire(e, outcome) ==
    /\ status[e] = "pending"
    /\ outcome \in expiry[e]
    /\ Becomes(e, outcome)
    /\ UNCHANGED <<agreed, terms, round, verdict>>

\* A dispute ends all agreement.
Dispute(e) ==
    /\ status[e] = "pending"
    /\ Becomes(e, "disputed")
    /\ agreed' = [agreed EXCEPT ![e] = {}]
    /\ UNCHANGED <<terms, round, verdict>>

Final(e) == round[e] = LastRound \/ ~appealable

\* A round reaches its one verdict.  It is carried out at once when it is final
\* and waits for an appeal when it is not.
Decide(e, outcome) ==
    /\ status[e] = "disputed"
    /\ verdict[e] = "open"
    /\ verdict' = [verdict EXCEPT ![e] = outcome]
    /\ Becomes(e, IF Final(e) THEN outcome ELSE "disputed")
    /\ UNCHANGED <<agreed, terms, round>>

Appeal(e) ==
    /\ status[e] = "disputed"
    /\ verdict[e] # "open"
    /\ ~Final(e)
    /\ round' = [round EXCEPT ![e] = @ + 1]
    /\ verdict' = [verdict EXCEPT ![e] = "open"]
    /\ UNCHANGED <<status, agreed, terms>>

CarryOut(e) ==
    /\ status[e] = "disputed"
    /\ verdict[e] # "open"
    /\ Becomes(e, verdict[e])
    /\ UNCHANGED <<agreed, terms, round, verdict>>

\* No verdict came.
Lapse(e) ==
    /\ status[e] = "disputed"
    /\ verdict[e] = "open"
    /\ Becomes(e, "refunded")
    /\ UNCHANGED <<agreed, terms, round, verdict>>

AgreementStep(e) ==
    \/ \E outcomes \in SUBSET Outcomes : Open(e, outcomes)
    \/ HandOver(e) \/ Dispute(e) \/ Appeal(e) \/ CarryOut(e) \/ Lapse(e)
    \/ \E party \in Parties : CallOff(e, party)
    \/ \E outcome \in Outcomes : Expire(e, outcome) \/ Decide(e, outcome)

AgreementNext == \E e \in Escrows : AgreementStep(e)

AgreementSpec == AgreementInit /\ [][AgreementNext]_agreementVars

=============================================================================

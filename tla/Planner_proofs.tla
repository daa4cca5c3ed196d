---------------------------- MODULE Planner_proofs ----------------------------
(***************************************************************************)
(* No dispute of a generated scenario is lost: however many agents there     *)
(* are, whatever their strategies and delays and however the processes'      *)
(* times coincide, each dispute the resolver can answer before the end is    *)
(* answered once, its delay later.                                           *)
(*                                                                          *)
(* The property speaks of the emitted actions only.  Why it holds lies in    *)
(* where a dispute is meanwhile, in the queue or in hand, and in the time    *)
(* the resolver waits for, which is never later than what the first of them  *)
(* allows; so these are followed from step to step with it.                  *)
(*                                                                          *)
(* What a buyer does after its creation names the escrow that creation will  *)
(* make.  The counter counts the plans that create, in the order in which    *)
(* they are begun; the events are replayed in the order of time.  The two    *)
(* agree because every plan begins with its creation, at once, so that the   *)
(* creations are emitted in the order of their ids, and because what is      *)
(* emitted in the order of time is exported in the order it was emitted.     *)
(***************************************************************************)
EXTENDS PlannerReplay, SewTyping_proofs, SequenceTheorems, WellFoundedInduction

-----------------------------------------------------------------------------
(* The inductive invariant. *)

Agents == DOMAIN cast.agents

Actions == {"none", "create_escrow", "raise_dispute", "release", "auto_cancel_disputed",
            "execute_resolution"}

Call == [ action : Actions, wf : Int, to : OptAddr, amount : Nat, isRelease : BOOLEAN ]

Planned == [ delay : Nat, call : Call ]

Dispute == [ target : Nat, wf : Nat ]

Waiter == [ who : Nat, at : Nat ]

Entry == [ at : Nat, agent : Nat, call : Call ]

PlanTypeOK ==
    /\ cast \in Cast
    /\ now \in Nat
    /\ agenda \in Seq(Waiter)
    /\ todo \in [Agents -> Seq(Planned)]
    /\ wfCounter \in Nat
    /\ queue \in Seq(Dispute)
    /\ inHand \in Dispute \cup {NoDispute}
    /\ raw \in Seq(Entry)

\* A planned or emitted action that raises a dispute.
Raises(e) == e.call.action = "raise_dispute"

\* Every process waits for a time to come, and they wait in the order of time.
InOrder(ag) == \A j, k \in DOMAIN ag : j <= k => ag[j].at <= ag[k].at

NotBefore(ag, t) == \A k \in DOMAIN ag : ag[k].at >= t

AgendaInOrder == InOrder(agenda) /\ NotBefore(agenda, now)

\* The process is in the agenda once, until that time.
WaitsOnce(ag, who, t) ==
    \E r \in DOMAIN ag : /\ ag[r] = [who |-> who, at |-> t]
                         /\ \A k \in DOMAIN ag : ag[k].who = who => k = r

\* The disputes are taken in the order in which they fall due.
QueueInOrder ==
    /\ \A k \in DOMAIN queue : /\ queue[k].target <= now + cast.resolutionDelay
                               /\ inHand.target <= queue[k].target
    /\ \A j, k \in DOMAIN queue : j <= k => queue[j].target <= queue[k].target
    /\ inHand.target <= now + cast.resolutionDelay

\* The simulations that end before the resolver gives up.
Attended == cast.resolving /\ cast.until <= SafetyExit

\* The resolver waits until the dispute in hand falls due, or looks at the queue one
\* unit after the last dispute was raised at the latest.
ResolverLooks ==
    Attended =>
        \E t \in Nat :
            /\ WaitsOnce(agenda, ResolverProcess, t)
            /\ inHand # NoDispute => t = inHand.target
            /\ inHand = NoDispute =>
                 /\ t <= now + 1
                 /\ \A k \in DOMAIN queue : t + cast.resolutionDelay <= queue[k].target + 1

\* The escrows whose disputes are before the resolver or answered.
Asked ==
    {inHand.wf} \cup {queue[k].wf : k \in DOMAIN queue}
        \cup {raw[n].call.wf : n \in {k \in DOMAIN raw : raw[k].agent = ResolverProcess}}

\* The escrows of the disputes still planned are not asked about yet, and no two
\* plans are about one escrow.
PlansApart ==
    /\ \A i \in Agents : \A k \in DOMAIN todo[i] :
         Raises(todo[i][k]) =>
             /\ todo[i][k].call.wf \in Nat
             /\ todo[i][k].call.wf < wfCounter
             /\ todo[i][k].call.wf \notin Asked
             /\ \A l \in DOMAIN todo[i] : Raises(todo[i][l]) => k = l
    /\ \A i, j \in Agents : \A k \in DOMAIN todo[i] : \A l \in DOMAIN todo[j] :
         i # j /\ Raises(todo[i][k]) /\ Raises(todo[j][l])
             => todo[i][k].call.wf # todo[j][l].call.wf

\* An escrow is asked about once.
AskedOnce ==
    /\ \A w \in Asked : w < wfCounter
    /\ \A j, k \in DOMAIN queue : queue[j].wf = queue[k].wf => j = k
    /\ \A k \in DOMAIN queue : queue[k].wf # inHand.wf
    /\ \A n \in DOMAIN raw : raw[n].agent = ResolverProcess =>
         /\ raw[n].call.wf \in Nat
         /\ raw[n].call.wf # inHand.wf
         /\ \A k \in DOMAIN queue : raw[n].call.wf # queue[k].wf
         /\ \A m \in DOMAIN raw :
              raw[m].agent = ResolverProcess /\ raw[m].call.wf = raw[n].call.wf => m = n

\* The dispute an emitted action put before the resolver.
DisputeOf(e) == [target |-> e.at + cast.resolutionDelay, wf |-> e.call.wf]

Waits(e) == inHand = DisputeOf(e) \/ \E k \in DOMAIN queue : queue[k] = DisputeOf(e)

\* The latest time at which a dispute is answered.
Late(e) == e.at + Max({cast.resolutionDelay, 1})

AnsweredAt(n, k) ==
    /\ k > n
    /\ raw[k].agent = ResolverProcess
    /\ raw[k].call.wf = raw[n].call.wf
    /\ raw[k].at \in raw[n].at + cast.resolutionDelay .. Late(raw[n])

\* No dispute is lost.
DisputesHeld ==
    Attended => \A n \in DOMAIN raw :
        Raises(raw[n]) => \/ Waits(raw[n])
                          \/ \E k \in DOMAIN raw : AnsweredAt(n, k)

ExportedWhenOver == events # <<>> => Over

PlannerInv ==
    /\ PlanTypeOK
    /\ AgendaInOrder
    /\ QueueInOrder
    /\ ResolverLooks
    /\ PlansApart
    /\ AskedOnce
    /\ DisputesHeld
    /\ ExportedWhenOver

-----------------------------------------------------------------------------
(* Sequences. *)

\* The least of a set of numbers.
LEMMA LeastIsMin ==
    ASSUME NEW S \in SUBSET Nat, S # {}
    PROVE  Min(S) \in S /\ \A y \in S : Min(S) <= y
<1>1. IsWellFoundedOn(OpToRel(<, Nat), Nat)
    BY NatLessThanWellFounded, Zenon
<1>2. PICK x \in S : \A y \in S : <<y, x>> \notin OpToRel(<, Nat)
    BY <1>1, WFMin, Zenon
<1>3. \A y \in S : ~(y < x)
    BY <1>2 DEF OpToRel
<1>4. \A y \in S : x <= y
    BY <1>3
<1> QED
    BY <1>4 DEF Min

\* Everything before the first of some places of a sequence is at another place.
LEMMA FirstPlace ==
    ASSUME NEW X, NEW s \in Seq(X), NEW P \in SUBSET DOMAIN s
    PROVE  /\ FirstOf(P, s) \in 1 .. Len(s) + 1
           /\ \A k \in DOMAIN s : k < FirstOf(P, s) => k \notin P
           /\ FirstOf(P, s) \in DOMAIN s => FirstOf(P, s) \in P
<1>1. DOMAIN s = 1 .. Len(s) /\ Len(s) \in Nat
    OBVIOUS
<1>2. CASE P = {}
    BY <1>1, <1>2 DEF FirstOf
<1>3. CASE P # {}
    <2>1. Min(P) \in P /\ \A y \in P : Min(P) <= y
        BY <1>1, <1>3, LeastIsMin
    <2>2. FirstOf(P, s) = Min(P)
        BY <1>3 DEF FirstOf
    <2> QED
        BY <1>1, <2>1, <2>2
<1> QED
    BY <1>2, <1>3

\* An agenda with a process more, in place p: it stands after those that wait for an
\* earlier time or the same and before those that wait for a later one.
EntersAt(p, new, ag, w, t) ==
    /\ new \in Seq(Waiter)
    /\ Len(new) = Len(ag) + 1
    /\ new[p] = [who |-> w, at |-> t]
    /\ \A k \in 1 .. Len(ag) : k < p => new[k] = ag[k] /\ ag[k].at <= t
    /\ \A k \in p + 1 .. Len(ag) + 1 : new[k] = ag[k - 1]
    /\ p <= Len(ag) => ag[p].at > t

LEMMA WaitingPlaces ==
    ASSUME NEW ag \in Seq(Waiter), NEW w \in Nat, NEW t \in Nat
    PROVE  \E p \in 1 .. Len(ag) + 1 : EntersAt(p, Waiting(ag, w, t), ag, w, t)
<1> DEFINE later == {k \in DOMAIN ag : ag[k].at > t}
           p == FirstOf(later, ag)
           x == [who |-> w, at |-> t]
           front == SubSeq(ag, 1, p - 1)
           back == SubSeq(ag, p, Len(ag))
<1>1. /\ p \in 1 .. Len(ag) + 1
      /\ \A k \in DOMAIN ag : k < p => k \notin later
      /\ p \in DOMAIN ag => p \in later
    BY FirstPlace
<1>2. Waiting(ag, w, t) = front \o <<x>> \o back
    BY DEF Waiting, InsertAt
<1>3. DOMAIN ag = 1 .. Len(ag) /\ Len(ag) \in Nat /\ \A k \in DOMAIN ag : ag[k] \in Waiter
    OBVIOUS
<1>4. /\ \A k \in DOMAIN ag : k < p => ag[k].at <= t
      /\ p \in DOMAIN ag => ag[p].at > t
    BY <1>1, <1>3 DEF Waiter
<1> HIDE DEF later, p
<1>5. /\ front \in Seq(Waiter) /\ Len(front) = p - 1
      /\ \A k \in 1 .. p - 1 : front[k] = ag[k]
    BY <1>1, <1>3, SubSeqProperties
<1>6. /\ back \in Seq(Waiter) /\ Len(back) = Len(ag) - p + 1
      /\ \A k \in 1 .. Len(ag) - p + 1 : back[k] = ag[p + k - 1]
    BY <1>1, <1>3, SubSeqProperties
<1>7. <<x>> \in Seq(Waiter) /\ Len(<<x>>) = 1 /\ <<x>>[1] = x
    BY DEF Waiter
<1> HIDE DEF front, back, x
<1> DEFINE head == front \o <<x>>
           all == Waiting(ag, w, t)
<1>8. /\ head \in Seq(Waiter) /\ Len(head) = p
      /\ \A k \in 1 .. p - 1 : head[k] = front[k]
      /\ head[p] = <<x>>[1]
    <2>1. /\ head \in Seq(Waiter) /\ Len(head) = Len(front) + Len(<<x>>)
          /\ \A k \in 1 .. Len(front) + Len(<<x>>) :
               head[k] = IF k <= Len(front) THEN front[k] ELSE <<x>>[k - Len(front)]
        BY <1>5, <1>7, ConcatProperties
    <2> HIDE DEF head
    <2>2. Len(front) + Len(<<x>>) = p /\ p - Len(front) = 1 /\ p \in Nat /\ p > 0
        BY <1>1, <1>3, <1>5, <1>7
    <2>3. \A k \in 1 .. p - 1 : k \in 1 .. p /\ k <= Len(front)
        BY <1>5, <2>2
    <2>4. p \in 1 .. p /\ ~(p <= Len(front))
        BY <1>5, <2>2
    <2> QED
        BY <2>1, <2>2, <2>3, <2>4
<1> HIDE DEF head
<1>9. /\ all \in Seq(Waiter) /\ Len(all) = Len(ag) + 1
      /\ \A k \in 1 .. p : all[k] = head[k]
      /\ \A k \in p + 1 .. Len(ag) + 1 : all[k] = back[k - p]
    <2>1. all = head \o back
        BY <1>2 DEF head
    <2> HIDE DEF all
    <2>2. /\ all \in Seq(Waiter) /\ Len(all) = Len(head) + Len(back)
          /\ \A k \in 1 .. Len(head) + Len(back) :
               all[k] = IF k <= Len(head) THEN head[k] ELSE back[k - Len(head)]
        <3>1. head \in Seq(Waiter) /\ back \in Seq(Waiter)
            BY <1>6, <1>8
        <3> QED
            BY <2>1, <3>1, ConcatProperties
    <2> QED
        BY <1>1, <1>3, <1>6, <1>8, <2>2
<1> HIDE DEF all
<1>10. all[p] = x
    BY <1>1, <1>3, <1>7, <1>8, <1>9
<1>11. \A k \in 1 .. Len(ag) : k < p => all[k] = ag[k]
    BY <1>1, <1>3, <1>5, <1>8, <1>9
<1>12. \A k \in p + 1 .. Len(ag) + 1 : all[k] = ag[k - 1]
    BY <1>1, <1>3, <1>6, <1>9
<1>13. /\ all[p] = [who |-> w, at |-> t]
       /\ \A k \in 1 .. Len(ag) : k < p => all[k] = ag[k] /\ ag[k].at <= t
       /\ p <= Len(ag) => ag[p].at > t
    BY <1>1, <1>3, <1>4, <1>10, <1>11 DEF x
<1> QED
    BY <1>1, <1>9, <1>12, <1>13, Zenon DEF all, EntersAt

\* It keeps the order of time, and the times to come.
LEMMA WaitingInOrder ==
    ASSUME NEW ag \in Seq(Waiter), NEW w \in Nat, NEW t \in Nat, NEW b \in Nat,
           InOrder(ag), NotBefore(ag, b), b <= t
    PROVE  InOrder(Waiting(ag, w, t)) /\ NotBefore(Waiting(ag, w, t), b)
<1> DEFINE new == Waiting(ag, w, t)
<1>0. PICK p \in 1 .. Len(ag) + 1 : EntersAt(p, new, ag, w, t)
    BY WaitingPlaces, Zenon
<1> HIDE DEF new
<1>1. /\ new \in Seq(Waiter)
      /\ Len(new) = Len(ag) + 1
      /\ new[p] = [who |-> w, at |-> t]
      /\ \A k \in 1 .. Len(ag) : k < p => new[k] = ag[k] /\ ag[k].at <= t
      /\ \A k \in p + 1 .. Len(ag) + 1 : new[k] = ag[k - 1]
      /\ p <= Len(ag) => ag[p].at > t
    BY <1>0, Zenon DEF EntersAt
<1>2. /\ DOMAIN ag = 1 .. Len(ag) /\ Len(ag) \in Nat
      /\ DOMAIN new = 1 .. Len(ag) + 1
    <2>1. DOMAIN ag = 1 .. Len(ag) /\ Len(ag) \in Nat
        BY LenProperties
    <2>2. DOMAIN new = 1 .. Len(new)
        BY <1>1, LenProperties, Zenon
    <2> QED
        BY <1>1, <2>1, <2>2, Zenon
<1>3. /\ new[p].at = t
      /\ \A k \in 1 .. Len(ag) : ag[k].at \in Nat
    <2>1. new[p].at = t
        BY <1>1
    <2>2. \A k \in 1 .. Len(ag) : ag[k] \in Waiter
        BY ElementOfSeq, Zenon
    <2> QED
        BY <2>1, <2>2 DEF Waiter
<1>4. /\ \A j, k \in 1 .. Len(ag) : j <= k => ag[j].at <= ag[k].at
      /\ \A k \in 1 .. Len(ag) : ag[k].at >= b
    BY <1>2 DEF InOrder, NotBefore
<1>5. \A k \in 1 .. Len(ag) : k >= p => ag[k].at > t
    <2> SUFFICES ASSUME NEW k \in 1 .. Len(ag), k >= p
                 PROVE  ag[k].at > t
        OBVIOUS
    <2>1. p \in 1 .. Len(ag)
        BY <1>2
    <2>2. ag[p].at <= ag[k].at /\ ag[p].at > t
        BY <1>1, <1>4, <2>1
    <2> QED
        BY <1>3, <2>1, <2>2
<1>6. ASSUME NEW k \in 1 .. Len(ag) + 1
      PROVE  /\ k < p => k \in 1 .. Len(ag) /\ new[k].at = ag[k].at /\ ag[k].at <= t
             /\ k > p => k - 1 \in 1 .. Len(ag) /\ new[k].at = ag[k - 1].at /\ ag[k - 1].at > t
    BY <1>1, <1>2, <1>5
<1>7. \A k \in 1 .. Len(ag) + 1 : new[k].at >= b
    <2> SUFFICES ASSUME NEW k \in 1 .. Len(ag) + 1
                 PROVE  new[k].at >= b
        OBVIOUS
    <2>1. k < p \/ k = p \/ k > p
        BY <1>2
    <2> QED
        BY <1>2, <1>3, <1>4, <1>6, <2>1
<1>8. ASSUME NEW j \in 1 .. Len(ag) + 1, NEW k \in 1 .. Len(ag) + 1, j <= k
      PROVE  new[j].at <= new[k].at
    <2>1. CASE k < p
        BY <1>1, <1>2, <1>4, <1>6, <1>8, <2>1
    <2>2. CASE j > p
        <3>1. j - 1 <= k - 1 /\ k > p
            BY <1>2, <1>8, <2>2
        <3> QED
            BY <1>4, <1>6, <2>2, <3>1
    <2>3. CASE j <= p /\ k >= p
        <3>0. new[j].at \in Nat /\ new[k].at \in Nat
            <4>1. new[j] \in Waiter /\ new[k] \in Waiter
                BY <1>1, ElementOfSeq, Zenon
            <4> QED
                BY <4>1 DEF Waiter
        <3>1. new[j].at <= t
            <4>1. CASE j < p
                BY <1>6, <4>1
            <4>2. CASE j = p
                BY <1>3, <4>2
            <4> QED
                BY <2>3, <4>1, <4>2
        <3>2. new[k].at >= t
            <4>1. CASE k > p
                <5>1. new[k].at > t
                    BY <1>6, <4>1
                <5> QED
                    BY <3>0, <5>1
            <4>2. CASE k = p
                BY <1>3, <4>2
            <4> QED
                BY <2>3, <4>1, <4>2
        <3> QED
            BY <3>0, <3>1, <3>2
    <2> QED
        BY <1>2, <2>1, <2>2, <2>3
<1> QED
    BY <1>2, <1>7, <1>8 DEF InOrder, NotBefore, new

\* The other processes go on waiting.
LEMMA WaitingKeepsOthers ==
    ASSUME NEW ag \in Seq(Waiter), NEW w \in Nat, NEW t \in Nat,
           NEW v \in Nat, NEW u \in Nat, v # w, WaitsOnce(ag, v, u)
    PROVE  WaitsOnce(Waiting(ag, w, t), v, u)
<1> DEFINE new == Waiting(ag, w, t)
<1>0. PICK p \in 1 .. Len(ag) + 1 : EntersAt(p, new, ag, w, t)
    BY WaitingPlaces, Zenon
<1> HIDE DEF new
<1>1. /\ new \in Seq(Waiter)
      /\ Len(new) = Len(ag) + 1
      /\ new[p] = [who |-> w, at |-> t]
      /\ \A k \in 1 .. Len(ag) : k < p => new[k] = ag[k]
      /\ \A k \in p + 1 .. Len(ag) + 1 : new[k] = ag[k - 1]
    BY <1>0, Zenon DEF EntersAt
<1>2. /\ DOMAIN ag = 1 .. Len(ag) /\ Len(ag) \in Nat
      /\ DOMAIN new = 1 .. Len(ag) + 1
    BY <1>1
<1>3. PICK r \in 1 .. Len(ag) : /\ ag[r] = [who |-> v, at |-> u]
                                /\ \A k \in 1 .. Len(ag) : ag[k].who = v => k = r
    BY <1>2 DEF WaitsOnce
<1>4. new[p].who # v
    BY <1>1
<1> DEFINE s == IF r < p THEN r ELSE r + 1
<1>5. s \in 1 .. Len(ag) + 1 /\ new[s] = [who |-> v, at |-> u]
    BY <1>1, <1>2, <1>3
<1>6. ASSUME NEW k \in 1 .. Len(ag) + 1, new[k].who = v
      PROVE  k = s
    <2>1. CASE k < p
        <3>1. k \in 1 .. Len(ag) /\ new[k] = ag[k]
            BY <1>1, <1>2, <2>1
        <3>2. k = r
            BY <1>3, <1>6, <3>1
        <3> QED
            BY <2>1, <3>2
    <2>2. CASE k > p
        <3>1. new[k] = ag[k - 1] /\ k - 1 \in 1 .. Len(ag)
            BY <1>1, <1>2, <2>2
        <3>2. k - 1 = r
            BY <1>3, <1>6, <3>1
        <3> QED
            BY <1>2, <2>2, <3>2
    <2> QED
        BY <1>2, <1>4, <1>6, <2>1, <2>2
<1> HIDE DEF s
<1> QED
    BY <1>2, <1>5, <1>6 DEF WaitsOnce, new

\* A process that did not wait waits once.
LEMMA WaitingOnce ==
    ASSUME NEW ag \in Seq(Waiter), NEW w \in Nat, NEW t \in Nat,
           \A k \in DOMAIN ag : ag[k].who # w
    PROVE  WaitsOnce(Waiting(ag, w, t), w, t)
<1> DEFINE new == Waiting(ag, w, t)
<1>0. PICK p \in 1 .. Len(ag) + 1 : EntersAt(p, new, ag, w, t)
    BY WaitingPlaces, Zenon
<1> HIDE DEF new
<1>1. /\ new \in Seq(Waiter)
      /\ Len(new) = Len(ag) + 1
      /\ new[p] = [who |-> w, at |-> t]
      /\ \A k \in 1 .. Len(ag) : k < p => new[k] = ag[k]
      /\ \A k \in p + 1 .. Len(ag) + 1 : new[k] = ag[k - 1]
    BY <1>0, Zenon DEF EntersAt
<1>2. /\ DOMAIN ag = 1 .. Len(ag) /\ Len(ag) \in Nat
      /\ DOMAIN new = 1 .. Len(ag) + 1
    BY <1>1
<1>3. ASSUME NEW k \in 1 .. Len(ag) + 1, new[k].who = w
      PROVE  k = p
    <2>1. CASE k < p
        BY <1>1, <1>2, <1>3, <2>1
    <2>2. CASE k > p
        <3>1. new[k] = ag[k - 1] /\ k - 1 \in 1 .. Len(ag)
            BY <1>1, <1>2, <2>2
        <3> QED
            BY <1>2, <1>3, <3>1
    <2> QED
        BY <1>2, <2>1, <2>2
<1> QED
    BY <1>1, <1>2, <1>3 DEF WaitsOnce, new

\* The agenda without the process that is resumed.
LEMMA TailInOrder ==
    ASSUME NEW ag \in Seq(Waiter), ag # <<>>, InOrder(ag)
    PROVE  /\ Tail(ag) \in Seq(Waiter)
           /\ InOrder(Tail(ag))
           /\ NotBefore(Tail(ag), Head(ag).at)
<1>1. /\ Tail(ag) \in Seq(Waiter) /\ Len(Tail(ag)) = Len(ag) - 1
      /\ \A k \in 1 .. Len(Tail(ag)) : Tail(ag)[k] = ag[k + 1]
      /\ Head(ag) = ag[1]
    BY HeadTailProperties
<1> DEFINE t == Tail(ag)
<1>2. /\ DOMAIN ag = 1 .. Len(ag) /\ Len(ag) \in Nat /\ Len(ag) > 0
      /\ DOMAIN t = 1 .. Len(t) /\ Len(t) \in Nat
    BY <1>1, EmptySeq
<1> HIDE DEF t
<1>3. \A k \in 1 .. Len(t) : k + 1 \in 1 .. Len(ag) /\ t[k] = ag[k + 1]
    BY <1>1, <1>2 DEF t
<1>4. 1 \in DOMAIN ag /\ \A k \in 1 .. Len(t) : 1 <= k + 1
    BY <1>2
<1>5. \A j, k \in 1 .. Len(t) : j <= k => j + 1 <= k + 1
    BY <1>2
<1>6. NotBefore(t, Head(ag).at)
    <2> SUFFICES ASSUME NEW k \in 1 .. Len(t)
                 PROVE  t[k].at >= ag[1].at
        BY <1>1, <1>2 DEF NotBefore
    <2>1. ag[1] \in Waiter /\ ag[k + 1] \in Waiter
        BY <1>2, <1>3, <1>4, ElementOfSeq, Zenon
    <2>2. ag[1].at \in Nat /\ ag[k + 1].at \in Nat
        BY <2>1 DEF Waiter
    <2>3. ag[1].at <= ag[k + 1].at
        BY <1>2, <1>3, <1>4, Zenon DEF InOrder
    <2> QED
        BY <1>3, <2>2, <2>3
<1>7. InOrder(t)
    BY <1>2, <1>3, <1>5 DEF InOrder
<1> QED
    BY <1>1, <1>6, <1>7 DEF t

LEMMA TailWaits ==
    ASSUME NEW ag \in Seq(Waiter), ag # <<>>, NEW v \in Nat, NEW u \in Nat, WaitsOnce(ag, v, u)
    PROVE  /\ Head(ag).who # v => WaitsOnce(Tail(ag), v, u)
           /\ Head(ag).who = v => /\ Head(ag).at = u
                                  /\ \A k \in DOMAIN Tail(ag) : Tail(ag)[k].who # v
<1>1. /\ Tail(ag) \in Seq(Waiter) /\ Len(Tail(ag)) = Len(ag) - 1
      /\ \A k \in 1 .. Len(Tail(ag)) : Tail(ag)[k] = ag[k + 1]
      /\ Head(ag) = ag[1]
    BY HeadTailProperties
<1> DEFINE t == Tail(ag)
<1>2. /\ DOMAIN ag = 1 .. Len(ag) /\ Len(ag) \in Nat /\ Len(ag) > 0
      /\ DOMAIN t = 1 .. Len(ag) - 1
    BY <1>1, EmptySeq
<1> HIDE DEF t
<1>3. \A k \in 1 .. Len(ag) - 1 : k + 1 \in 1 .. Len(ag) /\ t[k] = ag[k + 1]
    BY <1>1, <1>2 DEF t
<1>4. PICK r \in 1 .. Len(ag) : /\ ag[r] = [who |-> v, at |-> u]
                                /\ \A k \in 1 .. Len(ag) : ag[k].who = v => k = r
    BY <1>2 DEF WaitsOnce
<1>5. CASE Head(ag).who = v
    <2>1. r = 1
        BY <1>1, <1>2, <1>4, <1>5
    <2>2. \A k \in DOMAIN t : t[k].who # v
        BY <1>2, <1>3, <1>4, <2>1
    <2> QED
        BY <1>1, <1>4, <1>5, <2>1, <2>2 DEF t
<1>6. CASE Head(ag).who # v
    <2>1. r # 1
        BY <1>1, <1>4, <1>6
    <2>2. r - 1 \in 1 .. Len(ag) - 1 /\ r - 1 + 1 = r
        BY <1>2, <2>1
    <2>3. t[r - 1] = [who |-> v, at |-> u]
        BY <1>3, <1>4, <2>2
    <2>4. ASSUME NEW k \in 1 .. Len(ag) - 1, t[k].who = v
          PROVE  k = r - 1
        <3>1. k + 1 = r
            BY <1>3, <1>4, <2>4
        <3> QED
            BY <1>2, <3>1
    <2>5. WaitsOnce(t, v, u)
        BY <1>2, <2>2, <2>3, <2>4 DEF WaitsOnce
    <2> QED
        BY <1>6, <2>5 DEF t
<1> QED
    BY <1>5, <1>6

-----------------------------------------------------------------------------
(* Plans. *)

LEMMA CallTyped ==
    ASSUME NEW w \in Int
    PROVE  /\ NoCall \in Call
           /\ \A action \in Actions : /\ On(action, w) \in Call
                                     /\ On(action, w).action = action
                                     /\ On(action, w).wf = w
           /\ \A b \in BOOLEAN : /\ Resolve(w, b) \in Call
                                 /\ Resolve(w, b).action = "execute_resolution"
                                 /\ Resolve(w, b).wf = w
<1>1. NoCall \in Call
    BY DEF NoCall, Call, Actions, OptAddr, NoWf
<1>2. ASSUME NEW c \in Call, NEW action \in Actions
      PROVE  LET d == [c EXCEPT !.action = action, !.wf = w]
             IN  d \in Call /\ d.action = action /\ d.wf = w
    BY DEF Call
<1>3. ASSUME NEW action \in Actions
      PROVE  On(action, w) \in Call /\ On(action, w).action = action /\ On(action, w).wf = w
    BY <1>1, <1>2, Zenon DEF On
<1>4. ASSUME NEW c \in Call, NEW b \in BOOLEAN
      PROVE  LET d == [c EXCEPT !.isRelease = b]
             IN  d \in Call /\ d.action = c.action /\ d.wf = c.wf
    BY DEF Call
<1>5. ASSUME NEW b \in BOOLEAN
      PROVE  /\ Resolve(w, b) \in Call
             /\ Resolve(w, b).action = "execute_resolution"
             /\ Resolve(w, b).wf = w
    <2>1. "execute_resolution" \in Actions
        BY DEF Actions
    <2> QED
        BY <1>3, <1>4, <2>1, Zenon DEF Resolve
<1> QED
    BY <1>1, <1>3, <1>5

\* A plan disputes no other escrow than the one it creates, and that one once at most.
PlanOK(list, counter, creates) ==
    /\ list \in Seq(Planned)
    /\ \A k \in DOMAIN list : Raises(list[k]) => list[k].call.wf = counter /\ creates
    /\ \A k, l \in DOMAIN list : Raises(list[k]) /\ Raises(list[l]) => k = l

LEMMA TwoStepPlan ==
    ASSUME NEW a \in Planned, NEW b \in Planned, NEW counter, NEW creates,
           ~Raises(a), Raises(b) => b.call.wf = counter /\ creates
    PROVE  PlanOK(<<a, b>>, counter, creates)
<1> DEFINE list == <<a, b>>
<1>1. list \in Seq(Planned) /\ DOMAIN list = 1 .. 2 /\ list[1] = a /\ list[2] = b
    OBVIOUS
<1> HIDE DEF list
<1>2. \A k \in DOMAIN list : k = 1 \/ k = 2
    BY <1>1
<1> QED
    BY <1>1, <1>2, Zenon DEF PlanOK, list

\* What an agent plans when it starts.
LEMMA PlansAreOK ==
    ASSUME PlanTypeOK, NEW i \in Agents, NEW list \in PlansOf(cast.agents[i], wfCounter)
    PROVE  PlanOK(list, wfCounter, Creates(cast.agents[i]))
<1> DEFINE c == cast.agents[i]
           first == Creation(c)
<1> DEFINE S == [ strategy : {"HonestBuyer", "AttackingBuyer", "AttackingResolver",
                              "GriefingBuyer", "OpportunisticBuyer"},
                  addr : Addr, to : Addr, amount : Nat, delay : Nat ]
<1>1. /\ c.strategy \in {"HonestBuyer", "AttackingBuyer", "AttackingResolver",
                         "GriefingBuyer", "OpportunisticBuyer"}
      /\ c.to \in Addr /\ c.amount \in Nat /\ c.delay \in Nat
      /\ cast.maxDispute \in Nat /\ wfCounter \in Nat
    <2>1. /\ cast.agents \in Seq(S)
          /\ cast.maxDispute \in Nat /\ wfCounter \in Nat
        BY DEF PlanTypeOK, Cast
    <2> HIDE DEF S
    <2>2. c \in S
        BY <2>1 DEF Agents
    <2> QED
        BY <2>1, <2>2 DEF S
<1>2. list \in PlansOf(c, wfCounter)
    OBVIOUS
<1>3. first \in Planned /\ ~Raises(first)
    <2> DEFINE call == [NoCall EXCEPT !.action = "create_escrow", !.to = c.to,
                                      !.amount = c.amount]
    <2>1. NoCall \in Call
        BY CallTyped
    <2>2. ASSUME NEW d \in Call, NEW to \in Addr, NEW amount \in Nat
          PROVE  LET e == [d EXCEPT !.action = "create_escrow", !.to = to, !.amount = amount]
                 IN  e \in Call /\ e.action = "create_escrow"
        BY DEF Call, Actions, OptAddr
    <2>3. call \in Call /\ call.action = "create_escrow"
        BY <1>1, <2>1, <2>2, Zenon
    <2>4. first = [delay |-> 0, call |-> call]
        BY DEF Creation, After
    <2> HIDE DEF first, call
    <2> QED
        BY <2>3, <2>4 DEF Planned, Raises
<1> HIDE DEF c, first
<1>0. {"release", "raise_dispute", "auto_cancel_disputed"} \subseteq Actions
    BY DEF Actions
<1>4. ASSUME NEW d \in Nat, NEW action \in Actions
      PROVE  /\ After(d, On(action, wfCounter)) \in Planned
             /\ After(d, On(action, wfCounter)).call.wf = wfCounter
             /\ After(d, On(action, wfCounter)).call.action = action
    BY <1>1, CallTyped DEF After, Planned
<1>5. CASE c.strategy = "HonestBuyer"
    <2>1. list = <<first, After(c.delay, On("release", wfCounter))>>
        BY <1>2, <1>5 DEF PlansOf, HonestBuyerPlans, first
    <2> QED
        BY <1>0, <1>1, <1>3, <1>4, <1>5, <2>1, TwoStepPlan DEF Creates, Raises, c
<1>6. CASE c.strategy = "AttackingBuyer"
    <2>1. list = <<first, After(c.delay, On("raise_dispute", wfCounter))>>
        BY <1>2, <1>6 DEF PlansOf, AttackingBuyerPlans, first
    <2> QED
        BY <1>0, <1>1, <1>3, <1>4, <1>6, <2>1, TwoStepPlan DEF Creates, Raises, c
<1>7. CASE c.strategy = "OpportunisticBuyer"
    <2>1. PICK choice \in {"raise_dispute", "release"} :
              list = <<first, After(c.delay, On(choice, wfCounter))>>
        BY <1>2, <1>7 DEF PlansOf, OpportunisticBuyerPlans, first
    <2> DEFINE a == After(c.delay, On(choice, wfCounter))
    <2>2. choice \in Actions
        BY <1>0
    <2>3. a \in Planned /\ a.call.wf = wfCounter
        BY <1>1, <1>4, <2>2
    <2>4. Creates(cast.agents[i])
        BY <1>7 DEF Creates, c
    <2>5. list = <<first, a>>
        BY <2>1
    <2> HIDE DEF a
    <2> QED
        BY <1>3, <2>3, <2>4, <2>5, TwoStepPlan
<1>8. CASE c.strategy = "AttackingResolver"
    <2> DEFINE target == IF wfCounter > 0 THEN wfCounter - 1 ELSE 0
    <2>1. PICK b \in BOOLEAN : list = <<After(2, Resolve(target, b))>>
        BY <1>2, <1>8 DEF PlansOf, AttackingResolverPlans
    <2>2. target \in Int
        BY <1>1
    <2> HIDE DEF target
    <2>3. Resolve(target, b) \in Call /\ Resolve(target, b).action = "execute_resolution"
        BY <2>2, CallTyped
    <2> DEFINE a == After(2, Resolve(target, b))
    <2>4. a \in Planned /\ ~Raises(a)
        BY <2>3 DEF After, Planned, Raises
    <2> HIDE DEF a
    <2>5. <<a>> \in Seq(Planned) /\ \A k \in DOMAIN <<a>> : <<a>>[k] = a
        BY <2>4
    <2> QED
        BY <2>1, <2>4, <2>5 DEF PlanOK, a
<1>9. CASE c.strategy = "GriefingBuyer"
    <2> DEFINE a == After(1, On("raise_dispute", wfCounter))
               b == After(cast.maxDispute + 1, On("auto_cancel_disputed", wfCounter))
    <2>1. list = <<first, a, b>>
        BY <1>2, <1>9 DEF PlansOf, GriefingBuyerPlans, first
    <2>2. a \in Planned /\ b \in Planned /\ a.call.wf = wfCounter /\ ~Raises(b)
        <3>1. cast.maxDispute + 1 \in Nat /\ 1 \in Nat
            BY <1>1
        <3>2. b \in Planned /\ b.call.action = "auto_cancel_disputed"
            BY <1>0, <1>4, <3>1
        <3>3. a \in Planned /\ a.call.wf = wfCounter
            BY <1>0, <1>4, <3>1
        <3> HIDE DEF a, b
        <3> QED
            BY <3>2, <3>3 DEF Raises
    <2> HIDE DEF a, b
    <2>3. list \in Seq(Planned) /\ DOMAIN list = 1 .. 3
          /\ list[1] = first /\ list[2] = a /\ list[3] = b
        BY <1>3, <2>1, <2>2
    <2>4. \A k \in DOMAIN list : Raises(list[k]) => k = 2
        <3>1. \A k \in 1 .. 3 : k = 1 \/ k = 2 \/ k = 3
            OBVIOUS
        <3> QED
            BY <1>3, <2>2, <2>3, <3>1, Zenon
    <2>5. Creates(cast.agents[i])
        BY <1>9 DEF Creates, c
    <2> QED
        BY <2>2, <2>3, <2>4, <2>5, Zenon DEF PlanOK
<1> QED
    BY <1>1, <1>5, <1>6, <1>7, <1>8, <1>9

-----------------------------------------------------------------------------
(* What an agent does when it is resumed. *)

\* The agent emits the actions of its plan before the next one that is not due, and
\* puts the dispute it raises before the resolver.
EmitsUpTo(next, i, list) ==
    LET rest == SubSeq(list, next, Len(list))
    IN  /\ raw' \in Seq(Entry)
        /\ Len(raw') = Len(raw) + next - 1
        /\ \A n \in 1 .. Len(raw) : raw'[n] = raw[n]
        /\ \A k \in 1 .. next - 1 :
             raw'[Len(raw) + k] = [at |-> now', agent |-> i, call |-> list[k].call]
        /\ rest \in Seq(Planned)
        /\ Len(rest) = Len(list) - next + 1
        /\ \A k \in 1 .. Len(list) - next + 1 : rest[k] = list[next + k - 1]
        /\ todo' = [todo EXCEPT ![i] = rest]
        /\ \/ rest = <<>> /\ agenda' = Tail(agenda)
           \/ rest # <<>> /\ \E t \in Nat : t > now' /\ agenda' = Waiting(Tail(agenda), i, t)
        /\ next <= Len(list) => list[next].delay > now'
        /\ \/ /\ \A k \in 1 .. next - 1 : ~Raises(list[k])
              /\ queue' = queue
           \/ \E m \in 1 .. next - 1 :
                /\ Raises(list[m])
                /\ queue' = Append(queue, [target |-> now' + cast.resolutionDelay,
                                           wf |-> list[m].call.wf])

LEMMA EmitParts ==
    ASSUME PlanTypeOK, NEW i \in Agents, NEW list \in Seq(Planned), now' \in Nat, Emit(i, list)
    PROVE  \E next \in 1 .. Len(list) + 1 : EmitsUpTo(next, i, list)
<1> DEFINE next == FirstOf({k \in DOMAIN list : list[k].delay > now'}, list)
           due == SubSeq(list, 1, next - 1)
           rest == SubSeq(list, next, Len(list))
           emitted == [k \in DOMAIN due |-> Emitted(i, due[k].call)]
           raised == {k \in DOMAIN due : due[k].call.action = "raise_dispute"}
<1>1. /\ raw' = raw \o emitted
      /\ queue' = IF raised = {} THEN queue
                  ELSE Append(queue, [target |-> now' + cast.resolutionDelay,
                                      wf |-> due[Min(raised)].call.wf])
      /\ todo' = [todo EXCEPT ![i] = rest]
      /\ agenda' = IF rest = <<>> THEN Tail(agenda)
                   ELSE Waiting(Tail(agenda), i, Head(rest).delay)
    BY Zenon DEF Emit
<1>2. /\ next \in 1 .. Len(list) + 1
      /\ next \in DOMAIN list => list[next].delay > now'
    <2> DEFINE late == {k \in DOMAIN list : list[k].delay > now'}
    <2>1. late \in SUBSET DOMAIN list
        OBVIOUS
    <2>2. next = FirstOf(late, list)
        OBVIOUS
    <2>3. \A k : k \in late => list[k].delay > now'
        OBVIOUS
    <2> HIDE DEF next, late
    <2> QED
        BY <2>1, <2>2, <2>3, FirstPlace
<1>3. DOMAIN list = 1 .. Len(list) /\ Len(list) \in Nat /\ \A k \in DOMAIN list : list[k] \in Planned
    OBVIOUS
<1> HIDE DEF next
<1>4. /\ due \in Seq(Planned) /\ Len(due) = next - 1
      /\ \A k \in 1 .. next - 1 : due[k] = list[k]
    BY <1>2, <1>3, SubSeqProperties
<1>5. /\ rest \in Seq(Planned) /\ Len(rest) = Len(list) - next + 1
      /\ \A k \in 1 .. Len(list) - next + 1 : rest[k] = list[next + k - 1]
    BY <1>2, <1>3, SubSeqProperties
<1> HIDE DEF due, rest
<1>6. DOMAIN due = 1 .. next - 1
    BY <1>2, <1>4
<1>7. \A k \in 1 .. next - 1 : due[k] \in Planned
    BY <1>4, <1>6
<1>8. i \in Nat
    <2>1. PICK X : cast.agents \in Seq(X)
        BY DEF PlanTypeOK, Cast
    <2>2. DOMAIN cast.agents = 1 .. Len(cast.agents)
        BY <2>1, LenProperties
    <2> QED
        BY <2>2 DEF Agents
<1>9. /\ \A k \in 1 .. next - 1 : emitted[k] = [at |-> now', agent |-> i, call |-> list[k].call]
      /\ emitted = [k \in 1 .. next - 1 |-> Emitted(i, due[k].call)]
    BY <1>4, <1>6 DEF Emitted
<1>10. \A k \in 1 .. next - 1 : Emitted(i, due[k].call) \in Entry
    BY <1>7, <1>8 DEF Emitted, Entry, Planned
<1>11. emitted \in Seq(Entry) /\ Len(emitted) = next - 1
    <2>1. emitted \in [1 .. next - 1 -> Entry]
        BY <1>9, <1>10, Zenon
    <2> HIDE DEF emitted
    <2> QED
        BY <1>2, <1>3, <2>1
<1> HIDE DEF emitted
<1>12. raw \in Seq(Entry) /\ Len(raw) \in Nat
    BY DEF PlanTypeOK
<1>13. /\ raw' \in Seq(Entry)
       /\ Len(raw') = Len(raw) + next - 1
       /\ \A n \in 1 .. Len(raw) : raw'[n] = raw[n]
       /\ \A k \in 1 .. next - 1 : raw'[Len(raw) + k] = emitted[k]
    <2>1. /\ raw' \in Seq(Entry)
          /\ Len(raw') = Len(raw) + Len(emitted)
          /\ \A n \in 1 .. Len(raw) + Len(emitted) :
               raw'[n] = IF n <= Len(raw) THEN raw[n] ELSE emitted[n - Len(raw)]
        BY <1>1, <1>11, <1>12, ConcatProperties
    <2>2. \A n \in 1 .. Len(raw) : raw'[n] = raw[n]
        BY <1>2, <1>3, <1>11, <1>12, <2>1
    <2>3. ASSUME NEW k \in 1 .. next - 1
          PROVE  raw'[Len(raw) + k] = emitted[k]
        <3>1. Len(raw) + k \in 1 .. Len(raw) + Len(emitted) /\ ~(Len(raw) + k <= Len(raw))
              /\ Len(raw) + k - Len(raw) = k
            BY <1>2, <1>3, <1>11, <1>12
        <3> QED
            BY <2>1, <3>1
    <2> QED
        BY <1>2, <1>3, <1>11, <1>12, <2>1, <2>2, <2>3
<1>14. \A k \in 1 .. next - 1 :
          raw'[Len(raw) + k] = [at |-> now', agent |-> i, call |-> list[k].call]
    BY <1>9, <1>13
<1>15. \/ rest = <<>> /\ agenda' = Tail(agenda)
       \/ rest # <<>> /\ \E t \in Nat : t > now' /\ agenda' = Waiting(Tail(agenda), i, t)
    <2>1. CASE rest = <<>>
        BY <1>1, <2>1
    <2>2. CASE rest # <<>>
        <3>1. Len(rest) > 0
            BY <1>5, <2>2
        <3>2. next \in DOMAIN list /\ 1 \in 1 .. Len(list) - next + 1 /\ next + 1 - 1 = next
            BY <1>2, <1>3, <1>5, <3>1
        <3>3. Head(rest) = list[next]
            BY <1>5, <2>2, <3>2
        <3>4. Head(rest).delay \in Nat /\ Head(rest).delay > now'
            BY <1>2, <1>3, <3>2, <3>3 DEF Planned
        <3> QED
            BY <1>1, <2>2, <3>4
    <2> QED
        BY <2>1, <2>2
<1>16. \/ /\ \A k \in 1 .. next - 1 : ~Raises(list[k])
          /\ queue' = queue
       \/ \E m \in 1 .. next - 1 :
            /\ Raises(list[m])
            /\ queue' = Append(queue, [target |-> now' + cast.resolutionDelay,
                                       wf |-> list[m].call.wf])
    <2>1. \A k \in 1 .. next - 1 : k \in raised <=> Raises(list[k])
        BY <1>4, <1>6 DEF Raises
    <2>2. raised \subseteq 1 .. next - 1
        BY <1>6
    <2> HIDE DEF raised
    <2>3. CASE raised = {}
        BY <1>1, <2>1, <2>3
    <2>4. CASE raised # {}
        <3>1. Min(raised) \in raised
            BY <2>2, <2>4, LeastIsMin
        <3>2. Min(raised) \in 1 .. next - 1 /\ Raises(list[Min(raised)])
              /\ due[Min(raised)] = list[Min(raised)]
            BY <1>4, <2>1, <2>2, <3>1
        <3> QED
            BY <1>1, <2>4, <3>2
    <2> QED
        BY <2>3, <2>4
<1>17. next <= Len(list) => list[next].delay > now'
    BY <1>2, <1>3
<1> QED
    BY <1>1, <1>2, <1>5, <1>13, <1>14, <1>15, <1>16, <1>17, Zenon DEF EmitsUpTo, rest

AgentEmits(next, i, list) ==
    /\ Due(i)
    /\ now' = Head(agenda).at
    /\ EmitsUpTo(next, i, list)
    /\ wfCounter' \in Nat /\ wfCounter <= wfCounter'
    /\ cast' = cast
    /\ inHand' = inHand

\* The dispute of the plan is not before the resolver yet, and is the only one over
\* its escrow.
FreshPlan(i, list) ==
    /\ list \in Seq(Planned)
    /\ \A k \in DOMAIN list :
         Raises(list[k]) =>
             /\ list[k].call.wf \in Nat
             /\ list[k].call.wf < wfCounter'
             /\ list[k].call.wf \notin Asked
             /\ \A l \in DOMAIN list : Raises(list[l]) => k = l
             /\ \A j \in Agents : \A l \in DOMAIN todo[j] :
                  j # i /\ Raises(todo[j][l]) => list[k].call.wf # todo[j][l].call.wf

\* The process resumed is the first of the agenda.
LEMMA DueIsFirst ==
    ASSUME PlanTypeOK, AgendaInOrder, NEW who, Due(who)
    PROVE  /\ agenda \in Seq(Waiter) /\ agenda # <<>>
           /\ Head(agenda) \in Waiter
           /\ Head(agenda).who = who
           /\ Head(agenda).at \in Nat
           /\ now <= Head(agenda).at
           /\ Head(agenda).at < cast.until
           /\ Tail(agenda) \in Seq(Waiter)
           /\ InOrder(Tail(agenda))
           /\ NotBefore(Tail(agenda), Head(agenda).at)
<1>1. agenda \in Seq(Waiter) /\ agenda # <<>> /\ Head(agenda).who = who
      /\ Head(agenda).at < cast.until
    BY DEF PlanTypeOK, Due
<1>2. Head(agenda) \in Waiter /\ Head(agenda) = agenda[1] /\ 1 \in DOMAIN agenda
    BY <1>1
<1>3. Head(agenda).at \in Nat
    BY <1>2 DEF Waiter
<1>4. now <= Head(agenda).at
    BY <1>2, <1>3 DEF AgendaInOrder, NotBefore, PlanTypeOK
<1>5. InOrder(agenda)
    BY DEF AgendaInOrder
<1> QED
    BY <1>1, <1>2, <1>3, <1>4, <1>5, TailInOrder

LEMMA CastTyped ==
    ASSUME PlanTypeOK
    PROVE  /\ cast.resolutionDelay \in Nat /\ cast.until \in Nat
           /\ Agents = 1 .. Len(cast.agents) /\ Len(cast.agents) \in Nat
           /\ ResolverProcess \notin Agents
           /\ \A i \in Agents : i \in Nat /\ i # ResolverProcess
<1>1. cast.resolutionDelay \in Nat /\ cast.until \in Nat
    BY DEF PlanTypeOK, Cast
<1>2. Agents = 1 .. Len(cast.agents) /\ Len(cast.agents) \in Nat
    BY DEF PlanTypeOK, Cast, Agents
<1> QED
    BY <1>1, <1>2 DEF ResolverProcess

\* The dispute it raises comes last in the queue.
Queues(next, list) ==
    \/ /\ \A k \in 1 .. next - 1 : ~Raises(list[k])
       /\ queue' = queue
    \/ \E m \in 1 .. next - 1 :
         /\ Raises(list[m])
         /\ Len(queue') = Len(queue) + 1
         /\ \A k \in 1 .. Len(queue) : queue'[k] = queue[k]
         /\ queue'[Len(queue) + 1] = [target |-> now' + cast.resolutionDelay,
                                      wf |-> list[m].call.wf]

LEMMA QueueStep ==
    ASSUME PlanTypeOK, AgendaInOrder, NEW i \in Agents, NEW list,
           NEW next \in 1 .. Len(list) + 1, AgentEmits(next, i, list), FreshPlan(i, list)
    PROVE  queue' \in Seq(Dispute) /\ Queues(next, list)
<1>1. queue \in Seq(Dispute) /\ list \in Seq(Planned)
    BY DEF PlanTypeOK, FreshPlan
<1>2. \/ /\ \A k \in 1 .. next - 1 : ~Raises(list[k])
         /\ queue' = queue
      \/ \E m \in 1 .. next - 1 :
           /\ Raises(list[m])
           /\ queue' = Append(queue, [target |-> now' + cast.resolutionDelay,
                                      wf |-> list[m].call.wf])
    BY Zenon DEF AgentEmits, EmitsUpTo
<1>3. now' \in Nat /\ cast.resolutionDelay \in Nat
    BY DueIsFirst, CastTyped DEF AgentEmits
<1>4. CASE /\ \A k \in 1 .. next - 1 : ~Raises(list[k])
           /\ queue' = queue
    BY <1>1, <1>4 DEF Queues
<1>5. ASSUME NEW m \in 1 .. next - 1, Raises(list[m]),
             queue' = Append(queue, [target |-> now' + cast.resolutionDelay,
                                     wf |-> list[m].call.wf])
      PROVE  queue' \in Seq(Dispute) /\ Queues(next, list)
    <2> DEFINE d == [target |-> now' + cast.resolutionDelay, wf |-> list[m].call.wf]
    <2>1. m \in DOMAIN list
        BY <1>1
    <2>2. list[m].call.wf \in Nat
        BY <1>5, <2>1 DEF FreshPlan
    <2>3. d \in Dispute
        BY <1>3, <2>2 DEF Dispute
    <2>4. queue' = Append(queue, d)
        BY <1>5
    <2> HIDE DEF d
    <2>5. /\ queue' \in Seq(Dispute)
          /\ Len(queue') = Len(queue) + 1
          /\ \A k \in 1 .. Len(queue) : queue'[k] = queue[k]
          /\ queue'[Len(queue) + 1] = d
        BY <1>1, <2>3, <2>4
    <2> QED
        BY <1>5, <2>5, Zenon DEF Queues, d
<1> QED
    BY <1>2, <1>4, <1>5

LEMMA AgentTypes ==
    ASSUME PlannerInv, NEW i \in Agents, NEW list, NEW next \in 1 .. Len(list) + 1,
           AgentEmits(next, i, list), FreshPlan(i, list)
    PROVE  PlanTypeOK'
<1>1. PlanTypeOK /\ AgendaInOrder
    BY DEF PlannerInv
<1>2. /\ cast' = cast /\ inHand' = inHand /\ wfCounter' \in Nat
      /\ now' = Head(agenda).at /\ Due(i)
    BY Zenon DEF AgentEmits
<1> DEFINE rest == SubSeq(list, next, Len(list))
<1>3. /\ raw' \in Seq(Entry)
      /\ rest \in Seq(Planned)
      /\ todo' = [todo EXCEPT ![i] = rest]
      /\ \/ agenda' = Tail(agenda)
         \/ \E t \in Nat : t > now' /\ agenda' = Waiting(Tail(agenda), i, t)
    BY Zenon DEF AgentEmits, EmitsUpTo
<1> HIDE DEF rest
<1>4. now' \in Nat /\ Tail(agenda) \in Seq(Waiter)
    BY <1>1, <1>2, DueIsFirst
<1>5. agenda' \in Seq(Waiter)
    <2>1. CASE agenda' = Tail(agenda)
        BY <1>4, <2>1
    <2>2. CASE \E t \in Nat : agenda' = Waiting(Tail(agenda), i, t)
        <3>1. PICK t \in Nat : agenda' = Waiting(Tail(agenda), i, t)
            BY <2>2
        <3>2. i \in Nat
            BY <1>1, CastTyped
        <3>3. \E p \in 1 .. Len(Tail(agenda)) + 1 : EntersAt(p, agenda', Tail(agenda), i, t)
            BY <1>4, <3>1, <3>2, WaitingPlaces
        <3> QED
            BY <3>3, Zenon DEF EntersAt
    <2> QED
        BY <1>3, <2>1, <2>2
<1>6. todo' \in [Agents -> Seq(Planned)]
    BY <1>1, <1>3 DEF PlanTypeOK
<1>7. queue' \in Seq(Dispute)
    BY <1>1, QueueStep
<1>8. Agents' = Agents
    BY <1>2 DEF Agents
<1> QED
    BY <1>1, <1>2, <1>3, <1>4, <1>5, <1>6, <1>7, <1>8 DEF PlanTypeOK

LEMMA AgentAgenda ==
    ASSUME PlannerInv, NEW i \in Agents, NEW list, NEW next \in 1 .. Len(list) + 1,
           AgentEmits(next, i, list)
    PROVE  AgendaInOrder' /\ now' \in Nat /\ now <= now'
<1>1. PlanTypeOK /\ AgendaInOrder
    BY DEF PlannerInv
<1>2. now' = Head(agenda).at /\ Due(i)
    BY Zenon DEF AgentEmits
<1>3. \/ agenda' = Tail(agenda)
      \/ \E t \in Nat : t > now' /\ agenda' = Waiting(Tail(agenda), i, t)
    BY Zenon DEF AgentEmits, EmitsUpTo
<1>4. /\ now' \in Nat /\ now <= now' /\ Tail(agenda) \in Seq(Waiter)
      /\ InOrder(Tail(agenda)) /\ NotBefore(Tail(agenda), now')
    BY <1>1, <1>2, DueIsFirst
<1>5. CASE agenda' = Tail(agenda)
    BY <1>4, <1>5 DEF AgendaInOrder
<1>6. CASE \E t \in Nat : t > now' /\ agenda' = Waiting(Tail(agenda), i, t)
    <2>1. PICK t \in Nat : t > now' /\ agenda' = Waiting(Tail(agenda), i, t)
        BY <1>6
    <2>2. i \in Nat /\ now' <= t
        BY <1>1, <1>4, <2>1, CastTyped
    <2> DEFINE b == now'
    <2>3. b \in Nat /\ b <= t /\ NotBefore(Tail(agenda), b)
        BY <1>4, <2>2
    <2>4. InOrder(agenda') /\ NotBefore(agenda', b)
        <3> HIDE DEF b
        <3> QED
            BY <1>4, <2>1, <2>2, <2>3, WaitingInOrder
    <2> QED
        BY <1>4, <2>4 DEF AgendaInOrder
<1> QED
    BY <1>3, <1>4, <1>5, <1>6

LEMMA AgentLooks ==
    ASSUME PlannerInv, NEW i \in Agents, NEW list, NEW next \in 1 .. Len(list) + 1,
           AgentEmits(next, i, list), FreshPlan(i, list)
    PROVE  ResolverLooks'
<1>1. PlanTypeOK /\ AgendaInOrder /\ ResolverLooks
    BY DEF PlannerInv
<1>2. /\ cast' = cast /\ inHand' = inHand /\ now' = Head(agenda).at /\ Due(i)
    BY Zenon DEF AgentEmits
<1> SUFFICES ASSUME Attended
             PROVE  \E t \in Nat :
                      /\ WaitsOnce(agenda', ResolverProcess, t)
                      /\ inHand # NoDispute => t = inHand.target
                      /\ inHand = NoDispute =>
                           /\ t <= now' + 1
                           /\ \A k \in DOMAIN queue' :
                                t + cast.resolutionDelay <= queue'[k].target + 1
    BY <1>2 DEF ResolverLooks, Attended
<1>3. PICK t \in Nat :
        /\ WaitsOnce(agenda, ResolverProcess, t)
        /\ inHand # NoDispute => t = inHand.target
        /\ inHand = NoDispute =>
             /\ t <= now + 1
             /\ \A k \in DOMAIN queue : t + cast.resolutionDelay <= queue[k].target + 1
    BY <1>1 DEF ResolverLooks
<1>8. /\ now' \in Nat /\ now <= now' /\ now \in Nat
      /\ cast.resolutionDelay \in Nat
    BY <1>1, <1>2, DueIsFirst, CastTyped DEF PlanTypeOK
<1>4. /\ agenda \in Seq(Waiter) /\ agenda # <<>> /\ Head(agenda).who = i
      /\ Tail(agenda) \in Seq(Waiter)
      /\ i \in Nat /\ i # ResolverProcess /\ ResolverProcess \in Nat
    BY <1>1, <1>2, DueIsFirst, CastTyped DEF PlanTypeOK, ResolverProcess
<1>5. WaitsOnce(Tail(agenda), ResolverProcess, t)
    BY <1>3, <1>4, TailWaits
<1>6. WaitsOnce(agenda', ResolverProcess, t)
    <2>1. \/ agenda' = Tail(agenda)
          \/ \E u \in Nat : agenda' = Waiting(Tail(agenda), i, u)
        BY Zenon DEF AgentEmits, EmitsUpTo
    <2>2. ASSUME NEW u \in Nat
          PROVE  WaitsOnce(Waiting(Tail(agenda), i, u), ResolverProcess, t)
        BY <1>4, <1>5, WaitingKeepsOthers
    <2> QED
        BY <1>5, <2>1, <2>2
<1>7. ASSUME inHand = NoDispute
      PROVE  /\ t <= now' + 1
             /\ \A k \in DOMAIN queue' : t + cast.resolutionDelay <= queue'[k].target + 1
    <2>1. t <= now' + 1
        <3>1. t <= now + 1
            BY <1>3, <1>7, Zenon
        <3>2. /\ now' \in Nat /\ now \in Nat /\ now <= now'
              /\ \A a, b, c \in Nat : a <= b + 1 /\ b <= c => a <= c + 1
            BY <1>8
        <3> QED
            BY <3>1, <3>2, Zenon
    <2>2. queue \in Seq(Dispute) /\ queue' \in Seq(Dispute) /\ Queues(next, list)
        BY <1>1, QueueStep DEF PlanTypeOK
    <2>3. CASE queue' = queue
        BY <1>3, <1>7, <2>1, <2>3
    <2>4. CASE queue' # queue
        <3>1. /\ Len(queue') = Len(queue) + 1
              /\ \A k \in 1 .. Len(queue) : queue'[k] = queue[k]
              /\ queue'[Len(queue) + 1].target = now' + cast.resolutionDelay
            <4>1. PICK m \in 1 .. next - 1 :
                    /\ Len(queue') = Len(queue) + 1
                    /\ \A k \in 1 .. Len(queue) : queue'[k] = queue[k]
                    /\ queue'[Len(queue) + 1] = [target |-> now' + cast.resolutionDelay,
                                                 wf |-> list[m].call.wf]
                BY <2>2, <2>4, Zenon DEF Queues
            <4> QED
                BY <4>1
        <3>2. ASSUME NEW k \in DOMAIN queue'
              PROVE  t + cast.resolutionDelay <= queue'[k].target + 1
            <4>1. k = Len(queue) + 1 \/ (k \in DOMAIN queue /\ queue'[k] = queue[k])
                <5>1. k \in 1 .. Len(queue) + 1 /\ Len(queue) \in Nat
                      /\ DOMAIN queue = 1 .. Len(queue)
                    BY <2>2, <3>1
                <5> QED
                    BY <3>1, <5>1
            <4>2. CASE k = Len(queue) + 1
                <5>1. queue'[k].target = now' + cast.resolutionDelay
                    BY <3>1, <4>2
                <5>2. /\ now' \in Nat /\ cast.resolutionDelay \in Nat
                      /\ \A a, b, c \in Nat : a <= b + 1 => a + c <= b + c + 1
                    BY <1>8
                <5> QED
                    BY <2>1, <5>1, <5>2, Zenon
            <4> QED
                BY <1>3, <1>7, <4>1, <4>2
        <3> QED
            BY <2>1, <3>2
    <2> QED
        BY <2>3, <2>4
<1> QED
    BY <1>3, <1>6, <1>7

LEMMA AgentQueue ==
    ASSUME PlannerInv, NEW i \in Agents, NEW list, NEW next \in 1 .. Len(list) + 1,
           AgentEmits(next, i, list), FreshPlan(i, list)
    PROVE  QueueInOrder'
<1> DEFINE D == cast.resolutionDelay
           e == now' + D
<1>1. PlanTypeOK /\ AgendaInOrder /\ QueueInOrder
    BY DEF PlannerInv
<1>2. now' \in Nat /\ now <= now' /\ now \in Nat /\ D \in Nat
    BY <1>1, AgentAgenda, CastTyped DEF PlanTypeOK
<1>3. queue \in Seq(Dispute) /\ queue' \in Seq(Dispute) /\ Queues(next, list)
    BY <1>1, QueueStep DEF PlanTypeOK
<1>4. cast' = cast /\ inHand' = inHand
    BY Zenon DEF AgentEmits
<1>5. inHand.target \in Int
    <2>1. inHand \in Dispute \cup {NoDispute}
        BY <1>1 DEF PlanTypeOK
    <2> QED
        BY <2>1 DEF Dispute, NoDispute
<1>6. /\ \A k \in 1 .. Len(queue) : queue[k].target <= now + D /\ inHand.target <= queue[k].target
      /\ \A j, k \in 1 .. Len(queue) : j <= k => queue[j].target <= queue[k].target
      /\ inHand.target <= now + D
    BY <1>1, <1>3 DEF QueueInOrder
<1>7. /\ \A k \in 1 .. Len(queue) : queue[k].target \in Nat
      /\ Len(queue) \in Nat /\ DOMAIN queue = 1 .. Len(queue)
      /\ DOMAIN queue' = 1 .. Len(queue')
    <2>1. \A k \in 1 .. Len(queue) : queue[k] \in Dispute
        BY <1>3
    <2> QED
        BY <1>3, <2>1 DEF Dispute
<1>8. e \in Nat /\ now + D <= e
    BY <1>2
<1>9. now + D \in Nat
    BY <1>2
<1> DEFINE c == now + D
<1>10. /\ c \in Nat /\ c <= e
       /\ \A k \in 1 .. Len(queue) : queue[k].target <= c
       /\ inHand.target <= c
    BY <1>6, <1>8, <1>9
<1> HIDE DEF c, e
<1>11. /\ \A k \in 1 .. Len(queue) : queue[k].target <= e
       /\ inHand.target <= e
    BY <1>5, <1>7, <1>8, <1>10
<1> SUFFICES /\ \A k \in DOMAIN queue' : queue'[k].target <= e /\ inHand.target <= queue'[k].target
             /\ \A j, k \in DOMAIN queue' : j <= k => queue'[j].target <= queue'[k].target
    BY <1>4, <1>11 DEF QueueInOrder, e
<1>12. CASE queue' = queue
    BY <1>6, <1>7, <1>11, <1>12
<1>13. CASE queue' # queue
    <2>1. PICK m \in 1 .. next - 1 :
            /\ Len(queue') = Len(queue) + 1
            /\ \A k \in 1 .. Len(queue) : queue'[k] = queue[k]
            /\ queue'[Len(queue) + 1] = [target |-> e, wf |-> list[m].call.wf]
        BY <1>3, <1>13, Zenon DEF Queues, e
    <2>2. queue'[Len(queue) + 1].target = e
        BY <2>1
    <2>3. DOMAIN queue' = 1 .. Len(queue) + 1
        BY <1>7, <2>1
    <2>4. ASSUME NEW k \in 1 .. Len(queue) + 1
          PROVE  k = Len(queue) + 1 \/ (k \in 1 .. Len(queue) /\ queue'[k] = queue[k])
        BY <1>7, <2>1
    <2>5. ASSUME NEW k \in 1 .. Len(queue) + 1
          PROVE  queue'[k].target <= e /\ inHand.target <= queue'[k].target
        <3>1. CASE k = Len(queue) + 1
            BY <1>8, <1>11, <2>2, <3>1
        <3> QED
            BY <1>6, <1>11, <2>4, <3>1
    <2>6. ASSUME NEW j \in 1 .. Len(queue) + 1, NEW k \in 1 .. Len(queue) + 1, j <= k
          PROVE  queue'[j].target <= queue'[k].target
        <3>1. CASE k = Len(queue) + 1
            BY <2>2, <2>5, <3>1
        <3>2. CASE k # Len(queue) + 1
            <4>1. j # Len(queue) + 1
                BY <1>7, <2>6, <3>2
            <4> QED
                BY <1>6, <2>4, <2>6, <3>2, <4>1
        <3> QED
            BY <3>1, <3>2
    <2> QED
        BY <2>3, <2>5, <2>6
<1> QED
    BY <1>12, <1>13

\* What was emitted and queued stays; what is added is of the plan.
LEMMA AgentAdds ==
    ASSUME PlannerInv, NEW i \in Agents, NEW list, NEW next \in 1 .. Len(list) + 1,
           AgentEmits(next, i, list), FreshPlan(i, list)
    PROVE  /\ \A n \in DOMAIN raw : n \in DOMAIN raw' /\ raw'[n] = raw[n]
           /\ \A n \in DOMAIN raw' :
                \/ n \in DOMAIN raw
                \/ \E k \in 1 .. next - 1 :
                     raw'[n] = [at |-> now', agent |-> i, call |-> list[k].call]
           /\ \A k \in DOMAIN queue : k \in DOMAIN queue' /\ queue'[k] = queue[k]
           /\ \A k \in DOMAIN queue' :
                \/ k \in DOMAIN queue
                \/ k = Len(queue) + 1
           /\ 1 .. next - 1 \subseteq DOMAIN list
<1>1. PlanTypeOK /\ AgendaInOrder
    BY DEF PlannerInv
<1>2. queue \in Seq(Dispute) /\ queue' \in Seq(Dispute) /\ Queues(next, list)
    BY <1>1, QueueStep DEF PlanTypeOK
<1>3. /\ raw' \in Seq(Entry) /\ raw \in Seq(Entry)
      /\ Len(raw') = Len(raw) + next - 1
      /\ \A n \in 1 .. Len(raw) : raw'[n] = raw[n]
      /\ \A k \in 1 .. next - 1 :
           raw'[Len(raw) + k] = [at |-> now', agent |-> i, call |-> list[k].call]
    BY <1>1, Zenon DEF AgentEmits, EmitsUpTo, PlanTypeOK
<1>4. Len(list) \in Nat /\ DOMAIN list = 1 .. Len(list)
    BY <1>1 DEF FreshPlan
<1>5. \A n \in DOMAIN raw' :
         \/ n \in DOMAIN raw
         \/ \E k \in 1 .. next - 1 :
              raw'[n] = [at |-> now', agent |-> i, call |-> list[k].call]
    <2> SUFFICES ASSUME NEW n \in DOMAIN raw', n \notin DOMAIN raw
                 PROVE  \E k \in 1 .. next - 1 :
                          raw'[n] = [at |-> now', agent |-> i, call |-> list[k].call]
        BY <1>3
    <2>1. n - Len(raw) \in 1 .. next - 1 /\ Len(raw) + (n - Len(raw)) = n
        BY <1>3, <1>4
    <2>2. raw'[n] = [at |-> now', agent |-> i, call |-> list[n - Len(raw)].call]
        BY <1>3, <2>1
    <2> QED
        BY <2>1, <2>2
<1>6. \A n \in DOMAIN raw : n \in DOMAIN raw' /\ raw'[n] = raw[n]
    BY <1>3, <1>4
<1>7. /\ \A k \in DOMAIN queue : k \in DOMAIN queue' /\ queue'[k] = queue[k]
      /\ \A k \in DOMAIN queue' : k \in DOMAIN queue \/ k = Len(queue) + 1
    <2>1. CASE queue' = queue
        BY <2>1
    <2>2. CASE /\ Len(queue') = Len(queue) + 1
               /\ \A k \in 1 .. Len(queue) : queue'[k] = queue[k]
        BY <1>2, <2>2
    <2> QED
        BY <1>2, <2>1, <2>2, Zenon DEF Queues
<1>8. 1 .. next - 1 \subseteq DOMAIN list
    BY <1>4
<1> QED
    BY <1>5, <1>6, <1>7, <1>8

\* The escrows asked about are those asked about before and that of the dispute raised.
LEMMA AgentAsked ==
    ASSUME PlannerInv, NEW i \in Agents, NEW list, NEW next \in 1 .. Len(list) + 1,
           AgentEmits(next, i, list), FreshPlan(i, list), NEW w
    PROVE  w \in Asked' <=> \/ w \in Asked
                            \/ \E m \in 1 .. next - 1 : Raises(list[m]) /\ list[m].call.wf = w
<1>1. PlanTypeOK /\ AgendaInOrder
    BY DEF PlannerInv
<1>2. queue \in Seq(Dispute) /\ queue' \in Seq(Dispute) /\ Queues(next, list)
    BY <1>1, QueueStep DEF PlanTypeOK
<1>3. inHand' = inHand
    BY Zenon DEF AgentEmits
<1>4. i # ResolverProcess /\ Len(list) \in Nat /\ DOMAIN list = 1 .. Len(list)
    BY <1>1, CastTyped DEF FreshPlan
<1>5. \A n \in DOMAIN raw' : n \in DOMAIN raw \/ raw'[n].agent = i
    <2> SUFFICES ASSUME NEW n \in DOMAIN raw', n \notin DOMAIN raw
                 PROVE  raw'[n].agent = i
        OBVIOUS
    <2>1. PICK k \in 1 .. next - 1 :
              raw'[n] = [at |-> now', agent |-> i, call |-> list[k].call]
        BY AgentAdds
    <2> QED
        BY <2>1
<1>6. \A n \in DOMAIN raw' : \/ n \in DOMAIN raw /\ raw'[n] = raw[n]
                             \/ raw'[n].agent # ResolverProcess
    BY <1>4, <1>5, AgentAdds, Zenon
<1>7. \A n \in DOMAIN raw : n \in DOMAIN raw' /\ raw'[n] = raw[n]
    BY AgentAdds, Zenon
<1>8. (\E n \in DOMAIN raw' : raw'[n].agent = ResolverProcess /\ raw'[n].call.wf = w)
        <=> (\E n \in DOMAIN raw : raw[n].agent = ResolverProcess /\ raw[n].call.wf = w)
    BY <1>6, <1>7, Zenon
<1>9. (\E k \in DOMAIN queue' : queue'[k].wf = w)
        <=> \/ \E k \in DOMAIN queue : queue[k].wf = w
            \/ \E m \in 1 .. next - 1 : Raises(list[m]) /\ list[m].call.wf = w
    <2>1. CASE /\ \A k \in 1 .. next - 1 : ~Raises(list[k])
               /\ queue' = queue
        BY <2>1
    <2>2. ASSUME NEW m \in 1 .. next - 1, Raises(list[m]),
                 Len(queue') = Len(queue) + 1,
                 \A k \in 1 .. Len(queue) : queue'[k] = queue[k],
                 queue'[Len(queue) + 1] = [target |-> now' + cast.resolutionDelay,
                                           wf |-> list[m].call.wf]
          PROVE  <1>9!:
        <3>1. queue'[Len(queue) + 1].wf = list[m].call.wf
            BY <2>2
        <3>2. DOMAIN queue' = 1 .. Len(queue) + 1 /\ DOMAIN queue = 1 .. Len(queue)
              /\ Len(queue) \in Nat
            BY <1>2, <2>2
        <3>3. \A l \in 1 .. next - 1 : Raises(list[l]) => l = m
            <4>1. \A l \in 1 .. next - 1 : l \in DOMAIN list
                BY <1>4
            <4> QED
                BY <2>2, <4>1 DEF FreshPlan
        <3>4. \A k \in DOMAIN queue' : k = Len(queue) + 1 \/ (k \in DOMAIN queue /\ queue'[k] = queue[k])
            BY <2>2, <3>2
        <3>5. \A k \in DOMAIN queue : k \in DOMAIN queue' /\ queue'[k] = queue[k]
            BY <2>2, <3>2
        <3>6. Len(queue) + 1 \in DOMAIN queue'
            BY <3>2
        <3> QED
            BY <2>2, <3>1, <3>3, <3>4, <3>5, <3>6, Zenon
    <2> QED
        BY <1>2, <2>1, <2>2, Zenon DEF Queues
<1> QED
    BY <1>3, <1>8, <1>9, Zenon DEF Asked

LEMMA AgentPlans ==
    ASSUME PlannerInv, NEW i \in Agents, NEW list, NEW next \in 1 .. Len(list) + 1,
           AgentEmits(next, i, list), FreshPlan(i, list)
    PROVE  PlansApart'
<1> DEFINE rest == SubSeq(list, next, Len(list))
<1>1. PlanTypeOK /\ PlansApart
    BY DEF PlannerInv
<1>2. /\ rest \in Seq(Planned)
      /\ Len(rest) = Len(list) - next + 1
      /\ \A k \in 1 .. Len(list) - next + 1 : rest[k] = list[next + k - 1]
      /\ todo' = [todo EXCEPT ![i] = rest]
      /\ cast' = cast /\ wfCounter' \in Nat /\ wfCounter <= wfCounter'
    BY Zenon DEF AgentEmits, EmitsUpTo
<1> HIDE DEF rest
<1>3. Agents' = Agents
    BY <1>2 DEF Agents
<1>4. /\ todo'[i] = rest
      /\ \A j \in Agents : j # i => todo'[j] = todo[j]
    BY <1>1, <1>2 DEF PlanTypeOK
<1>5. /\ DOMAIN list = 1 .. Len(list) /\ Len(list) \in Nat
      /\ DOMAIN rest = 1 .. Len(list) - next + 1
    BY <1>2 DEF FreshPlan
<1>6. \A k \in DOMAIN rest : /\ next + k - 1 \in DOMAIN list
                             /\ rest[k] = list[next + k - 1]
                             /\ next + k - 1 \notin 1 .. next - 1
    <2>1. ASSUME NEW k \in DOMAIN rest
          PROVE  next + k - 1 \in DOMAIN list /\ next + k - 1 \notin 1 .. next - 1
        BY <1>5
    <2>2. \A k \in DOMAIN rest : rest[k] = list[next + k - 1]
        BY <1>2, <1>5, Zenon
    <2> QED
        BY <2>1, <2>2
<1>7. \A k, l \in DOMAIN rest : next + k - 1 = next + l - 1 => k = l
    BY <1>5
<1>8. /\ \A m \in 1 .. next - 1 : m \in DOMAIN list
      /\ \A w : w \in Asked' => \/ w \in Asked
                                \/ \E m \in 1 .. next - 1 : Raises(list[m]) /\ list[m].call.wf = w
    <2>1. \A m \in 1 .. next - 1 : m \in DOMAIN list
        BY AgentAdds
    <2>2. ASSUME NEW w
          PROVE  w \in Asked' => \/ w \in Asked
                                 \/ \E m \in 1 .. next - 1 :
                                      Raises(list[m]) /\ list[m].call.wf = w
        BY AgentAsked
    <2> QED
        BY <2>1, <2>2, Zenon
<1>9. ASSUME NEW k \in DOMAIN rest, Raises(rest[k])
      PROVE  /\ rest[k].call.wf \in Nat
             /\ rest[k].call.wf < wfCounter'
             /\ rest[k].call.wf \notin Asked'
             /\ \A l \in DOMAIN rest : Raises(rest[l]) => k = l
    <2>1. /\ rest[k].call.wf \in Nat
          /\ rest[k].call.wf < wfCounter'
          /\ rest[k].call.wf \notin Asked
        BY <1>6, <1>9, Zenon DEF FreshPlan
    <2>2. \A m \in DOMAIN list : Raises(list[m]) => m = next + k - 1
        BY <1>6, <1>9, Zenon DEF FreshPlan
    <2>3. \A l \in DOMAIN rest : Raises(rest[l]) => k = l
        BY <1>6, <1>7, <2>2, Zenon
    <2>4. ~ \E m \in 1 .. next - 1 : Raises(list[m])
        BY <1>6, <1>8, <2>2, Zenon
    <2> QED
        BY <1>8, <2>1, <2>3, <2>4, Zenon
<1>10. ASSUME NEW j \in Agents, j # i, NEW k \in DOMAIN todo[j], Raises(todo[j][k])
       PROVE  /\ todo[j][k].call.wf \in Nat
              /\ todo[j][k].call.wf < wfCounter'
              /\ todo[j][k].call.wf \notin Asked'
              /\ \A l \in DOMAIN todo[j] : Raises(todo[j][l]) => k = l
              /\ \A l \in DOMAIN rest : Raises(rest[l]) =>
                   todo[j][k].call.wf # rest[l].call.wf
    <2>1. /\ todo[j][k].call.wf \in Nat
          /\ todo[j][k].call.wf < wfCounter
          /\ todo[j][k].call.wf \notin Asked
          /\ \A l \in DOMAIN todo[j] : Raises(todo[j][l]) => k = l
        BY <1>1, <1>10, Zenon DEF PlansApart
    <2>2. todo[j][k].call.wf < wfCounter'
        <3> DEFINE w == todo[j][k].call.wf
        <3>1. w \in Nat /\ w < wfCounter
            BY <2>1
        <3>2. wfCounter \in Nat
            BY <1>1 DEF PlanTypeOK
        <3> HIDE DEF w
        <3>3. w < wfCounter'
            BY <1>2, <3>1, <3>2
        <3> QED
            BY <3>3 DEF w
    <2>3. \A l \in DOMAIN list : Raises(list[l]) => list[l].call.wf # todo[j][k].call.wf
        BY <1>10, Zenon DEF FreshPlan
    <2>4. todo[j][k].call.wf \notin Asked'
        BY <1>8, <2>1, <2>3, Zenon
    <2>5. \A l \in DOMAIN rest : Raises(rest[l]) => todo[j][k].call.wf # rest[l].call.wf
        BY <1>6, <2>3, Zenon
    <2> QED
        BY <2>1, <2>2, <2>4, <2>5
<1>11. ASSUME NEW j \in Agents, NEW k \in DOMAIN todo'[j], Raises(todo'[j][k])
       PROVE  /\ todo'[j][k].call.wf \in Nat
              /\ todo'[j][k].call.wf < wfCounter'
              /\ todo'[j][k].call.wf \notin Asked'
              /\ \A l \in DOMAIN todo'[j] : Raises(todo'[j][l]) => k = l
    <2>1. CASE j = i
        BY <1>4, <1>9, <1>11, <2>1, Zenon
    <2>2. CASE j # i
        <3>1. todo'[j] = todo[j]
            BY <1>4, <2>2, Zenon
        <3>2. k \in DOMAIN todo[j] /\ Raises(todo[j][k])
            BY <1>11, <3>1
        <3> QED
            BY <1>10, <2>2, <3>1, <3>2
    <2> QED
        BY <2>1, <2>2
<1>12. ASSUME NEW j \in Agents, NEW h \in Agents, j # h,
              NEW k \in DOMAIN todo'[j], NEW l \in DOMAIN todo'[h],
              Raises(todo'[j][k]), Raises(todo'[h][l])
       PROVE  todo'[j][k].call.wf # todo'[h][l].call.wf
    <2>1. CASE j = i
        BY <1>4, <1>10, <1>12, <2>1
    <2>2. CASE h = i
        BY <1>4, <1>10, <1>12, <2>2
    <2>3. CASE j # i /\ h # i
        <3>1. todo'[j] = todo[j] /\ todo'[h] = todo[h]
            BY <1>4, <2>3
        <3> QED
            BY <1>1, <1>12, <3>1 DEF PlansApart
    <2> QED
        BY <2>1, <2>2, <2>3
<1> QED
    BY <1>3, <1>11, <1>12 DEF PlansApart, Raises

LEMMA AskedTyped ==
    ASSUME PlanTypeOK
    PROVE  Asked \subseteq Int
<1>1. /\ queue \in Seq(Dispute) /\ raw \in Seq(Entry)
      /\ inHand \in Dispute \cup {NoDispute}
    BY DEF PlanTypeOK
<1>2. inHand.wf \in Int
    BY <1>1 DEF Dispute, NoDispute, NoWf
<1>3. \A k \in DOMAIN queue : queue[k].wf \in Int
    <2>1. \A k \in DOMAIN queue : queue[k] \in Dispute
        BY <1>1
    <2> QED
        BY <2>1 DEF Dispute
<1>4. \A n \in DOMAIN raw : raw[n].call.wf \in Int
    <2>1. \A n \in DOMAIN raw : raw[n] \in Entry
        BY <1>1
    <2> QED
        BY <2>1 DEF Entry, Call
<1> QED
    BY <1>2, <1>3, <1>4 DEF Asked

LEMMA AgentAsks ==
    ASSUME PlannerInv, NEW i \in Agents, NEW list, NEW next \in 1 .. Len(list) + 1,
           AgentEmits(next, i, list), FreshPlan(i, list)
    PROVE  AskedOnce'
<1>1. PlanTypeOK /\ AgendaInOrder /\ AskedOnce
    BY DEF PlannerInv
<1>2. queue \in Seq(Dispute) /\ queue' \in Seq(Dispute) /\ Queues(next, list)
    BY <1>1, QueueStep DEF PlanTypeOK
<1>3. inHand' = inHand /\ wfCounter' \in Nat /\ wfCounter <= wfCounter'
    BY Zenon DEF AgentEmits
<1>4. i # ResolverProcess /\ Len(list) \in Nat /\ DOMAIN list = 1 .. Len(list)
    BY <1>1, CastTyped DEF FreshPlan
<1>5. \A n \in DOMAIN raw' : raw'[n].agent = ResolverProcess => n \in DOMAIN raw /\ raw'[n] = raw[n]
    <2> SUFFICES ASSUME NEW n \in DOMAIN raw', raw'[n].agent = ResolverProcess
                 PROVE  n \in DOMAIN raw /\ raw'[n] = raw[n]
        OBVIOUS
    <2>1. CASE n \in DOMAIN raw
        BY <2>1, AgentAdds
    <2>2. CASE n \notin DOMAIN raw
        <3>1. PICK k \in 1 .. next - 1 :
                  raw'[n] = [at |-> now', agent |-> i, call |-> list[k].call]
            BY <2>2, AgentAdds
        <3> QED
            BY <1>4, <3>1
    <2> QED
        BY <2>1, <2>2
<1>6. /\ \A k \in DOMAIN queue : queue[k].wf \in Asked
      /\ inHand.wf \in Asked
      /\ \A n \in DOMAIN raw : raw[n].agent = ResolverProcess => raw[n].call.wf \in Asked
    BY DEF Asked
<1>7. \A k \in DOMAIN queue' :
          \/ k \in DOMAIN queue /\ queue'[k] = queue[k]
          \/ k = Len(queue) + 1 /\ queue'[k].wf \notin Asked
    <2> SUFFICES ASSUME NEW k \in DOMAIN queue', k \notin DOMAIN queue
                 PROVE  k = Len(queue) + 1 /\ queue'[k].wf \notin Asked
        BY AgentAdds
    <2>1. k = Len(queue) + 1
        BY AgentAdds
    <2>2. PICK m \in 1 .. next - 1 :
            /\ Raises(list[m])
            /\ queue'[Len(queue) + 1] = [target |-> now' + cast.resolutionDelay,
                                         wf |-> list[m].call.wf]
        <3>1. queue' # queue
            OBVIOUS
        <3> QED
            BY <1>2, <3>1, Zenon DEF Queues
    <2>3. m \in DOMAIN list
        BY AgentAdds
    <2>4. list[m].call.wf \notin Asked
        BY <2>2, <2>3, Zenon DEF FreshPlan
    <2>5. queue'[k].wf = list[m].call.wf
        BY <2>1, <2>2
    <2> QED
        BY <2>1, <2>4, <2>5
<1>8. \A w \in Asked' : w < wfCounter'
    <2> SUFFICES ASSUME NEW w \in Asked'
                 PROVE  w < wfCounter'
        OBVIOUS
    <2>1. w \in Asked \/ \E m \in 1 .. next - 1 : Raises(list[m]) /\ list[m].call.wf = w
        BY AgentAsked
    <2>2. CASE w \in Asked
        <3>1. w < wfCounter
            BY <1>1, <2>2 DEF AskedOnce
        <3>2. w \in Int
            BY <1>1, <2>2, AskedTyped
        <3>3. wfCounter \in Nat
            BY <1>1 DEF PlanTypeOK
        <3> QED
            BY <1>3, <3>1, <3>2, <3>3
    <2>3. ASSUME NEW m \in 1 .. next - 1, Raises(list[m]), list[m].call.wf = w
          PROVE  w < wfCounter'
        <3>1. m \in DOMAIN list
            BY AgentAdds
        <3> QED
            BY <2>3, <3>1, Zenon DEF FreshPlan
    <2> QED
        BY <2>1, <2>2, <2>3
<1>9. ASSUME NEW j \in DOMAIN queue', NEW k \in DOMAIN queue', queue'[j].wf = queue'[k].wf
      PROVE  j = k
    BY <1>1, <1>6, <1>7, <1>9 DEF AskedOnce
<1>10. \A k \in DOMAIN queue' : queue'[k].wf # inHand.wf
    BY <1>1, <1>6, <1>7 DEF AskedOnce
<1>11. \A n \in DOMAIN raw' : raw'[n].agent = ResolverProcess =>
         /\ raw'[n].call.wf \in Nat
         /\ raw'[n].call.wf # inHand.wf
         /\ \A k \in DOMAIN queue' : raw'[n].call.wf # queue'[k].wf
         /\ \A m \in DOMAIN raw' :
              raw'[m].agent = ResolverProcess /\ raw'[m].call.wf = raw'[n].call.wf => m = n
    BY <1>1, <1>5, <1>6, <1>7 DEF AskedOnce
<1> QED
    BY <1>3, <1>8, <1>9, <1>10, <1>11 DEF AskedOnce

LEMMA AgentHolds ==
    ASSUME PlannerInv, NEW i \in Agents, NEW list, NEW next \in 1 .. Len(list) + 1,
           AgentEmits(next, i, list), FreshPlan(i, list)
    PROVE  DisputesHeld'
<1>1. PlanTypeOK /\ AgendaInOrder /\ DisputesHeld
    BY DEF PlannerInv
<1>2. queue \in Seq(Dispute) /\ queue' \in Seq(Dispute) /\ Queues(next, list)
    BY <1>1, QueueStep DEF PlanTypeOK
<1>3. inHand' = inHand /\ cast' = cast
    BY Zenon DEF AgentEmits
<1>4. Attended' <=> Attended
    BY <1>3 DEF Attended
<1> SUFFICES ASSUME Attended, NEW n \in DOMAIN raw', Raises(raw'[n])
             PROVE  Waits(raw[n])' \/ \E k \in DOMAIN raw' : AnsweredAt(n, k)'
    BY <1>4 DEF DisputesHeld, Raises
<1> DEFINE d == [target |-> raw'[n].at + cast.resolutionDelay, wf |-> raw'[n].call.wf]
<1>6. Waits(raw[n])' <=> inHand = d \/ \E k \in DOMAIN queue' : queue'[k] = d
    BY <1>3 DEF Waits, DisputeOf
<1>7. CASE n \in DOMAIN raw
    <2>1. raw'[n] = raw[n]
        BY <1>7, AgentAdds
    <2>2. Waits(raw[n]) \/ \E k \in DOMAIN raw : AnsweredAt(n, k)
        BY <1>1, <1>7, <2>1 DEF DisputesHeld
    <2>3. CASE Waits(raw[n])
        <3>1. inHand = d \/ \E k \in DOMAIN queue : queue[k] = d
            BY <2>1, <2>3 DEF Waits, DisputeOf
        <3>2. \A k \in DOMAIN queue : k \in DOMAIN queue' /\ queue'[k] = queue[k]
            BY AgentAdds
        <3> HIDE DEF d
        <3> QED
            BY <1>6, <3>1, <3>2, Zenon
    <2>4. ASSUME NEW k \in DOMAIN raw, AnsweredAt(n, k)
          PROVE  k \in DOMAIN raw' /\ AnsweredAt(n, k)'
        <3>1. k \in DOMAIN raw' /\ raw'[k] = raw[k]
            BY AgentAdds
        <3> QED
            BY <1>3, <2>1, <2>4, <3>1 DEF AnsweredAt, Late
    <2> QED
        BY <2>2, <2>3, <2>4
<1>8. CASE n \notin DOMAIN raw
    <2>1. PICK k \in 1 .. next - 1 :
              raw'[n] = [at |-> now', agent |-> i, call |-> list[k].call]
        BY <1>8, AgentAdds
    <2>2. /\ raw'[n].at = now' /\ raw'[n].call = list[k].call
          /\ Raises(list[k])
        BY <2>1 DEF Raises
    <2>3. PICK m \in 1 .. next - 1 :
            /\ Raises(list[m])
            /\ Len(queue') = Len(queue) + 1
            /\ queue'[Len(queue) + 1] = [target |-> now' + cast.resolutionDelay,
                                         wf |-> list[m].call.wf]
        BY <1>2, <2>2, Zenon DEF Queues
    <2>4. k \in DOMAIN list /\ m \in DOMAIN list
        BY AgentAdds
    <2>5. m = k
        BY <2>2, <2>3, <2>4, Zenon DEF FreshPlan
    <2>6. queue'[Len(queue) + 1] = d
        BY <2>2, <2>3, <2>5
    <2>7. Len(queue) + 1 \in DOMAIN queue'
        BY <1>2, <2>3
    <2> HIDE DEF d
    <2> QED
        BY <1>6, <2>6, <2>7, Zenon
<1> QED
    BY <1>7, <1>8

\* While a process is due the simulation is not over.
LEMMA DueIsNotOver ==
    ASSUME PlanTypeOK, NEW who, Due(who)
    PROVE  ~Over
<1>1. agenda \in Seq(Waiter) /\ agenda # <<>> /\ Head(agenda).at < cast.until
    BY DEF PlanTypeOK, Due
<1>2. 1 \in DOMAIN agenda /\ agenda[1] = Head(agenda) /\ agenda[1] \in Waiter
    BY <1>1
<1>3. agenda[1].at \in Nat /\ cast.until \in Nat
    BY <1>2, CastTyped DEF Waiter
<1>4. ~(agenda[1].at >= cast.until)
    BY <1>1, <1>2, <1>3
<1> QED
    BY <1>2, <1>4, Zenon DEF Over

LEMMA AgentStep ==
    ASSUME PlannerInv, NEW i \in Agents, NEW list, NEW next \in 1 .. Len(list) + 1,
           AgentEmits(next, i, list), FreshPlan(i, list), events' = events
    PROVE  PlannerInv'
<1>1. events = <<>>
    BY DueIsNotOver DEF PlannerInv, ExportedWhenOver, AgentEmits
<1>2. ExportedWhenOver'
    BY <1>1 DEF ExportedWhenOver
<1> QED
    BY <1>2, AgentTypes, AgentAgenda, AgentQueue, AgentLooks, AgentPlans, AgentAsks, AgentHolds
    DEF PlannerInv

\* An agent that starts plans about a new escrow.
LEMMA BeginStep ==
    ASSUME PlannerInv, NEW i \in Agents, Begin(i)
    PROVE  PlannerInv'
<1>1. PlanTypeOK /\ AgendaInOrder /\ PlansApart /\ AskedOnce
    BY DEF PlannerInv
<1>2. PICK list \in PlansOf(cast.agents[i], wfCounter) : Emit(i, list)
    BY Zenon DEF Begin
<1>3. /\ Due(i) /\ now' = Head(agenda).at
      /\ wfCounter' = wfCounter + (IF Creates(cast.agents[i]) THEN 1 ELSE 0)
      /\ cast' = cast /\ inHand' = inHand /\ events' = events
    BY DEF Begin
<1>4. /\ list \in Seq(Planned)
      /\ \A k \in DOMAIN list :
           Raises(list[k]) => list[k].call.wf = wfCounter /\ Creates(cast.agents[i])
      /\ \A k, l \in DOMAIN list : Raises(list[k]) /\ Raises(list[l]) => k = l
    BY <1>1, PlansAreOK DEF PlanOK
<1>5. now' \in Nat
    BY <1>1, <1>3, DueIsFirst
<1>6. PICK next \in 1 .. Len(list) + 1 : EmitsUpTo(next, i, list)
    BY <1>1, <1>2, <1>4, <1>5, EmitParts
<1>7. /\ wfCounter \in Nat /\ wfCounter' \in Nat /\ wfCounter <= wfCounter'
      /\ Creates(cast.agents[i]) => wfCounter < wfCounter'
    <2>1. wfCounter \in Nat
        BY <1>1 DEF PlanTypeOK
    <2>2. CASE Creates(cast.agents[i])
        <3>1. wfCounter' = wfCounter + 1
            BY <1>3, <2>2
        <3> QED
            BY <2>1, <3>1
    <2>3. CASE ~Creates(cast.agents[i])
        <3>1. wfCounter' = wfCounter
            BY <1>3, <2>1, <2>3
        <3> QED
            BY <2>1, <2>3, <3>1
    <2> QED
        BY <2>2, <2>3
<1>8. wfCounter \notin Asked
    BY <1>1, <1>7 DEF AskedOnce
<1>9. \A j \in Agents : \A l \in DOMAIN todo[j] :
          Raises(todo[j][l]) => wfCounter # todo[j][l].call.wf
    <2> SUFFICES ASSUME NEW j \in Agents, NEW l \in DOMAIN todo[j], Raises(todo[j][l])
                 PROVE  wfCounter # todo[j][l].call.wf
        OBVIOUS
    <2>1. todo[j][l].call.wf < wfCounter /\ todo[j][l].call.wf \in Nat
        BY <1>1, Zenon DEF PlansApart
    <2> QED
        BY <1>7, <2>1
<1>10. FreshPlan(i, list)
    BY <1>4, <1>7, <1>8, <1>9, Zenon DEF FreshPlan
<1>11. AgentEmits(next, i, list)
    BY <1>3, <1>6, <1>7, Zenon DEF AgentEmits
<1> QED
    BY <1>3, <1>10, <1>11, AgentStep

\* An agent that goes on has a plan of its own.
LEMMA ContinueStep ==
    ASSUME PlannerInv, NEW i \in Agents, Continue(i)
    PROVE  PlannerInv'
<1>1. PlanTypeOK /\ AgendaInOrder /\ PlansApart
    BY DEF PlannerInv
<1>2. /\ Due(i) /\ now' = Head(agenda).at /\ Emit(i, todo[i])
      /\ wfCounter' = wfCounter
      /\ cast' = cast /\ inHand' = inHand /\ events' = events
    BY DEF Continue
<1>3. wfCounter \in Nat /\ todo[i] \in Seq(Planned)
    BY <1>1 DEF PlanTypeOK
<1>4. now' \in Nat
    BY <1>1, <1>2, DueIsFirst
<1> DEFINE list == todo[i]
<1>5. list \in Seq(Planned) /\ Emit(i, list)
    BY <1>2, <1>3
<1>6. FreshPlan(i, list)
    <2>1. \A k \in DOMAIN list : Raises(list[k]) =>
             /\ list[k].call.wf \in Nat
             /\ list[k].call.wf < wfCounter
             /\ list[k].call.wf \notin Asked
             /\ \A l \in DOMAIN list : Raises(list[l]) => k = l
        BY <1>1, Zenon DEF PlansApart
    <2>2. \A k \in DOMAIN list : Raises(list[k]) =>
             \A j \in Agents : \A l \in DOMAIN todo[j] :
               j # i /\ Raises(todo[j][l]) => list[k].call.wf # todo[j][l].call.wf
        BY <1>1 DEF PlansApart
    <2> HIDE DEF list
    <2> QED
        BY <1>2, <1>5, <2>1, <2>2 DEF FreshPlan
<1>7. wfCounter' \in Nat /\ wfCounter <= wfCounter'
    BY <1>2, <1>3
<1>8. PICK x : x = list
    OBVIOUS
<1>9. FreshPlan(i, x) /\ x \in Seq(Planned) /\ Emit(i, x)
    BY <1>5, <1>6, <1>8
<1>10. PICK next \in 1 .. Len(x) + 1 : EmitsUpTo(next, i, x)
    BY <1>1, <1>4, <1>9, EmitParts
<1>11. AgentEmits(next, i, x)
    BY <1>2, <1>7, <1>10, Zenon DEF AgentEmits
<1> QED
    BY <1>2, <1>9, <1>11, AgentStep

-----------------------------------------------------------------------------
(* What the resolver does when it is resumed. *)

\* The disputes before the resolver, numbered: 0 is the one in hand.
FirstSlot == IF inHand = NoDispute THEN 1 ELSE 0

Slot(s) == IF s = 0 THEN inHand ELSE queue[s]

\* They are of different escrows, none of them answered, and in the order in which
\* they fall due.
LEMMA SlotsApart ==
    ASSUME PlanTypeOK, QueueInOrder, AskedOnce
    PROVE  /\ FirstSlot \in 0 .. 1 /\ Len(queue) \in Nat
           /\ \A s \in FirstSlot .. Len(queue) :
                /\ Slot(s) \in Dispute
                /\ Slot(s).target <= now + cast.resolutionDelay
                /\ Slot(s).wf \in Asked
                /\ \A n \in DOMAIN raw :
                     raw[n].agent = ResolverProcess => raw[n].call.wf # Slot(s).wf
           /\ \A s, u \in FirstSlot .. Len(queue) :
                /\ Slot(s).wf = Slot(u).wf => s = u
                /\ s <= u => Slot(s).target <= Slot(u).target
<1>1. /\ queue \in Seq(Dispute) /\ Len(queue) \in Nat /\ DOMAIN queue = 1 .. Len(queue)
      /\ inHand \in Dispute \cup {NoDispute}
    BY DEF PlanTypeOK
<1>2. FirstSlot \in 0 .. 1
    BY DEF FirstSlot
<1>3. ASSUME NEW s \in FirstSlot .. Len(queue)
      PROVE  \/ s = 0 /\ inHand # NoDispute /\ Slot(s) = inHand
             \/ s # 0 /\ s \in DOMAIN queue /\ Slot(s) = queue[s]
    BY <1>1, <1>2 DEF FirstSlot, Slot
<1>4. ASSUME NEW s \in FirstSlot .. Len(queue)
      PROVE  /\ Slot(s) \in Dispute
             /\ Slot(s).target <= now + cast.resolutionDelay
             /\ Slot(s).wf \in Asked
             /\ \A n \in DOMAIN raw :
                  raw[n].agent = ResolverProcess => raw[n].call.wf # Slot(s).wf
    <2>1. CASE s = 0
        <3>1. Slot(s) = inHand /\ inHand # NoDispute
            BY <1>3, <2>1
        <3> QED
            BY <1>1, <3>1 DEF QueueInOrder, AskedOnce, Asked
    <2>2. CASE s # 0
        <3>1. Slot(s) = queue[s] /\ s \in DOMAIN queue
            BY <1>3, <2>2
        <3>2. Slot(s) \in Dispute
            BY <1>1, <3>1
        <3>3. Slot(s).target <= now + cast.resolutionDelay
            BY <3>1 DEF QueueInOrder
        <3> QED
            BY <3>1, <3>2, <3>3 DEF AskedOnce, Asked
    <2> QED
        BY <2>1, <2>2
<1>5. ASSUME NEW s \in FirstSlot .. Len(queue), NEW u \in FirstSlot .. Len(queue)
      PROVE  Slot(s).wf = Slot(u).wf => s = u
    <2>1. CASE s = 0 \/ u = 0
        BY <1>3, <2>1 DEF AskedOnce
    <2>2. CASE s # 0 /\ u # 0
        BY <1>3, <2>2 DEF AskedOnce
    <2> QED
        BY <2>1, <2>2
<1>6. ASSUME NEW s \in FirstSlot .. Len(queue), NEW u \in FirstSlot .. Len(queue), s <= u
      PROVE  Slot(s).target <= Slot(u).target
    <2>1. s \in Int /\ u \in Int /\ 0 <= s
        BY <1>2
    <2>2. CASE s = 0 /\ u = 0
        <3>1. Slot(s) \in Dispute /\ Slot(u) = Slot(s)
            BY <1>4, <2>2
        <3> QED
            BY <3>1 DEF Dispute
    <2>3. CASE s = 0 /\ u # 0
        BY <1>3, <2>3 DEF QueueInOrder
    <2>4. CASE s # 0 /\ u # 0
        <3>1. s \in DOMAIN queue /\ u \in DOMAIN queue /\ Slot(s) = queue[s] /\ Slot(u) = queue[u]
            BY <1>3, <2>4
        <3> QED
            BY <1>6, <3>1 DEF QueueInOrder
    <2>5. ~(s # 0 /\ u = 0)
        BY <1>6, <2>1
    <2> QED
        BY <2>2, <2>3, <2>4, <2>5
<1> QED
    BY <1>1, <1>2, <1>4, <1>5, <1>6

\* The resolver answers the disputes before the next one that is not due, takes that
\* one in hand and waits for its time; when all are answered it waits for one unit.
AnswersUpTo(next) ==
    /\ raw' \in Seq(Entry)
    /\ Len(raw') = Len(raw) + next - FirstSlot
    /\ \A n \in 1 .. Len(raw) : raw'[n] = raw[n]
    /\ \A s \in FirstSlot .. next - 1 :
         raw'[Len(raw) + 1 - FirstSlot + s] =
             [at |-> now', agent |-> ResolverProcess, call |-> Resolve(Slot(s).wf, TRUE)]
    /\ queue' \in Seq(Dispute)
    /\ Len(queue') = IF next > Len(queue) THEN 0 ELSE Len(queue) - next
    /\ \A k \in 1 .. Len(queue) - next : queue'[k] = queue[next + k]
    /\ inHand' = IF next > Len(queue) THEN NoDispute ELSE queue[next]
    /\ agenda' = Waiting(Tail(agenda), ResolverProcess,
                         IF next > Len(queue) THEN now' + 1 ELSE queue[next].target)
    /\ \A k \in 1 .. next - 1 : queue[k].target <= now'
    /\ next <= Len(queue) => queue[next].target > now'

LEMMA ResolverParts ==
    ASSUME PlannerInv, Resolver
    PROVE  \E next \in 1 .. Len(queue) + 1 : AnswersUpTo(next)
<1>1. PlanTypeOK /\ AgendaInOrder /\ QueueInOrder /\ AskedOnce
    BY DEF PlannerInv
<1> DEFINE late == {k \in DOMAIN queue : queue[k].target > now'}
           next == FirstOf(late, queue)
           held == IF inHand = NoDispute THEN <<>> ELSE <<inHand>>
           answered == held \o SubSeq(queue, 1, next - 1)
           emitted == [k \in DOMAIN answered |->
                          Emitted(ResolverProcess, Resolve(answered[k].wf, TRUE))]
<1>2. /\ now' = Head(agenda).at /\ Due(ResolverProcess)
      /\ raw' = raw \o emitted
      /\ queue' = SubSeq(queue, next + 1, Len(queue))
      /\ inHand' = IF next > Len(queue) THEN NoDispute ELSE queue[next]
      /\ agenda' = Waiting(Tail(agenda), ResolverProcess,
                           IF next > Len(queue) THEN now' + 1 ELSE queue[next].target)
    BY Zenon DEF Resolver, InTurn
<1>3. now' \in Nat
    BY <1>1, <1>2, DueIsFirst
<1>4. /\ queue \in Seq(Dispute) /\ Len(queue) \in Nat /\ DOMAIN queue = 1 .. Len(queue)
      /\ inHand \in Dispute \cup {NoDispute}
      /\ \A k \in DOMAIN queue : queue[k] \in Dispute
    BY <1>1 DEF PlanTypeOK
<1>5. /\ next \in 1 .. Len(queue) + 1
      /\ \A k \in DOMAIN queue : k < next => k \notin late
      /\ next \in DOMAIN queue => next \in late
    <2>1. late \in SUBSET DOMAIN queue
        OBVIOUS
    <2> HIDE DEF late
    <2> QED
        BY <1>4, <2>1, FirstPlace
<1>6. /\ \A k \in 1 .. next - 1 : k \in DOMAIN queue /\ queue[k].target <= now'
      /\ next <= Len(queue) => queue[next].target > now'
    <2>1. \A k \in DOMAIN queue : queue[k].target \in Nat
        BY <1>4 DEF Dispute
    <2>2. /\ \A k \in DOMAIN queue : k < next => ~(queue[k].target > now')
          /\ next \in DOMAIN queue => queue[next].target > now'
        BY <1>5
    <2>3. /\ \A k \in 1 .. next - 1 : k \in DOMAIN queue /\ k < next
          /\ next <= Len(queue) => next \in DOMAIN queue
        <3> HIDE DEF next, late
        <3> QED
            BY <1>4, <1>5
    <2> HIDE DEF next, late
    <2> QED
        BY <1>3, <2>1, <2>2, <2>3
<1> HIDE DEF next, late
<1> DEFINE front == SubSeq(queue, 1, next - 1)
<1>7. /\ front \in Seq(Dispute) /\ Len(front) = next - 1
      /\ \A k \in 1 .. next - 1 : front[k] = queue[k]
    BY <1>4, <1>5, <1>6, SubSeqProperties
<1>8. /\ held \in Seq(Dispute) /\ Len(held) = 1 - FirstSlot
      /\ FirstSlot = 0 => held[1] = inHand
    BY <1>4 DEF FirstSlot
<1>9. FirstSlot \in 0 .. 1
    BY DEF FirstSlot
<1> HIDE DEF front, held
<1>10. /\ answered \in Seq(Dispute) /\ Len(answered) = next - FirstSlot
       /\ \A s \in FirstSlot .. next - 1 : answered[1 - FirstSlot + s] = Slot(s)
    <2>1. /\ answered \in Seq(Dispute) /\ Len(answered) = Len(held) + Len(front)
          /\ \A k \in 1 .. Len(held) + Len(front) :
               answered[k] = IF k <= Len(held) THEN held[k] ELSE front[k - Len(held)]
        BY <1>7, <1>8, ConcatProperties DEF front
    <2> HIDE DEF answered
    <2>2. next \in Nat /\ next > 0
        BY <1>4, <1>5
    <2>3. ASSUME NEW s \in FirstSlot .. next - 1
          PROVE  answered[1 - FirstSlot + s] = Slot(s)
        <3>1. CASE s = 0
            <4>1. FirstSlot = 0
                BY <1>9, <3>1
            <4>2. 1 \in 1 .. Len(held) + Len(front) /\ 1 <= Len(held)
                  /\ 1 - FirstSlot + s = 1
                BY <1>7, <1>8, <2>2, <3>1, <4>1
            <4> QED
                BY <1>8, <2>1, <3>1, <4>1, <4>2 DEF Slot
        <3>2. CASE s # 0
            <4> DEFINE x == 1 - FirstSlot + s
            <4>1. /\ s \in 1 .. next - 1
                  /\ x \in 1 .. Len(held) + Len(front)
                  /\ ~(x <= Len(held))
                  /\ x - Len(held) = s
                BY <1>7, <1>8, <1>9, <2>2, <3>2
            <4>2. answered[x] = front[s]
                <5> HIDE DEF x
                <5> QED
                    BY <2>1, <4>1, Zenon
            <4>3. front[s] = queue[s]
                BY <1>7, <4>1
            <4> QED
                BY <3>2, <4>2, <4>3 DEF Slot
        <3> QED
            BY <3>1, <3>2
    <2>4. Len(answered) = next - FirstSlot
        BY <1>7, <1>8, <1>9, <2>1, <2>2
    <2> QED
        BY <2>1, <2>3, <2>4
<1> HIDE DEF answered
<1>11. next \in Nat /\ next - FirstSlot \in Nat
    BY <1>4, <1>5, <1>9
<1>12. DOMAIN answered = 1 .. next - FirstSlot
    BY <1>10
<1>13. \A k \in 1 .. next - FirstSlot :
          Emitted(ResolverProcess, Resolve(answered[k].wf, TRUE)) \in Entry
    <2> SUFFICES ASSUME NEW k \in 1 .. next - FirstSlot
                 PROVE  Emitted(ResolverProcess, Resolve(answered[k].wf, TRUE)) \in Entry
        OBVIOUS
    <2>1. answered[k] \in Dispute
        BY <1>10, <1>12
    <2>2. answered[k].wf \in Int
        BY <2>1 DEF Dispute
    <2>3. Resolve(answered[k].wf, TRUE) \in Call
        BY <2>2, CallTyped
    <2> QED
        BY <1>3, <2>3 DEF Emitted, Entry, ResolverProcess
<1>14. /\ emitted \in Seq(Entry) /\ Len(emitted) = next - FirstSlot
       /\ \A k \in 1 .. next - FirstSlot :
            emitted[k] = [at |-> now', agent |-> ResolverProcess,
                          call |-> Resolve(answered[k].wf, TRUE)]
    <2>1. emitted = [k \in 1 .. next - FirstSlot |->
                        Emitted(ResolverProcess, Resolve(answered[k].wf, TRUE))]
        BY <1>12
    <2>2. emitted \in [1 .. next - FirstSlot -> Entry]
        BY <1>13, <2>1, Zenon
    <2>3. \A k \in 1 .. next - FirstSlot :
             emitted[k] = [at |-> now', agent |-> ResolverProcess,
                           call |-> Resolve(answered[k].wf, TRUE)]
        BY <2>1 DEF Emitted
    <2> HIDE DEF emitted
    <2>4. \A m \in Nat : emitted \in [1 .. m -> Entry] =>
                           emitted \in Seq(Entry) /\ Len(emitted) = m
        OBVIOUS
    <2> QED
        BY <1>11, <2>2, <2>3, <2>4, Zenon
<1> HIDE DEF emitted
<1>15. raw \in Seq(Entry) /\ Len(raw) \in Nat
    BY <1>1 DEF PlanTypeOK
<1>16. /\ raw' \in Seq(Entry)
       /\ Len(raw') = Len(raw) + Len(emitted)
       /\ \A n \in 1 .. Len(raw) + Len(emitted) :
            raw'[n] = IF n <= Len(raw) THEN raw[n] ELSE emitted[n - Len(raw)]
    BY <1>2, <1>14, <1>15, ConcatProperties
<1>17. Len(raw') = Len(raw) + next - FirstSlot
    BY <1>9, <1>11, <1>14, <1>15, <1>16
<1>18. \A n \in 1 .. Len(raw) : raw'[n] = raw[n]
    BY <1>11, <1>14, <1>15, <1>16
<1>19. ASSUME NEW s \in FirstSlot .. next - 1
       PROVE  raw'[Len(raw) + 1 - FirstSlot + s] =
                  [at |-> now', agent |-> ResolverProcess, call |-> Resolve(Slot(s).wf, TRUE)]
    <2> DEFINE n == Len(raw) + 1 - FirstSlot + s
               k == 1 - FirstSlot + s
    <2>1. k \in 1 .. next - FirstSlot
        BY <1>9, <1>11
    <2>2. n \in 1 .. Len(raw) + Len(emitted)
        <3>1. Len(emitted) = next - FirstSlot
            BY <1>14
        <3> QED
            BY <1>9, <1>11, <1>15, <3>1
    <2>3. ~(n <= Len(raw)) /\ n - Len(raw) = k
        BY <1>9, <1>15
    <2> HIDE DEF n
    <2>4. raw'[n] = emitted[n - Len(raw)]
        BY <1>16, <2>2, <2>3, Zenon
    <2>5. raw'[n] = emitted[k]
        BY <2>3, <2>4, Zenon
    <2>6. answered[k] = Slot(s)
        BY <1>10
    <2> HIDE DEF k
    <2> QED
        BY <1>14, <2>1, <2>5, <2>6 DEF n
<1>20. /\ queue' \in Seq(Dispute)
       /\ Len(queue') = IF next > Len(queue) THEN 0 ELSE Len(queue) - next
       /\ \A k \in 1 .. Len(queue) - next : queue'[k] = queue[next + k]
    <2>1. \A k \in next + 1 .. Len(queue) : queue[k] \in Dispute
        BY <1>4, <1>11
    <2>2. /\ queue' \in Seq(Dispute)
          /\ Len(queue') = IF next + 1 <= Len(queue) THEN Len(queue) - (next + 1) + 1 ELSE 0
          /\ \A k \in 1 .. Len(queue) - (next + 1) + 1 : queue'[k] = queue[next + 1 + k - 1]
        BY <1>2, <1>4, <1>11, <2>1, SubSeqProperties
    <2>3. \A k \in 1 .. Len(queue) - next :
             k \in 1 .. Len(queue) - (next + 1) + 1 /\ next + 1 + k - 1 = next + k
        BY <1>4, <1>11
    <2>4. Len(queue') = IF next > Len(queue) THEN 0 ELSE Len(queue) - next
        <3>1. \A a, b \in Nat : (IF a + 1 <= b THEN b - (a + 1) + 1 ELSE 0)
                                = (IF a > b THEN 0 ELSE b - a)
            OBVIOUS
        <3> QED
            BY <1>4, <1>11, <2>2, <3>1, Zenon
    <2>5. ASSUME NEW k \in 1 .. Len(queue) - next
          PROVE  queue'[k] = queue[next + k]
        <3>1. queue'[k] = queue[next + 1 + k - 1]
            BY <2>2, <2>3, Zenon
        <3> QED
            BY <2>3, <3>1, Zenon
    <2> QED
        BY <2>2, <2>4, <2>5
<1> QED
    BY <1>2, <1>5, <1>6, <1>16, <1>17, <1>18, <1>19, <1>20 DEF AnswersUpTo

ResolverGoes(next) ==
    /\ Due(ResolverProcess)
    /\ now' = Head(agenda).at
    /\ AnswersUpTo(next)
    /\ UNCHANGED <<cast, todo, wfCounter, events>>

\* Where the answer to a dispute is emitted.
AnswerOf(s) == Len(raw) + 1 - FirstSlot + s

LEMMA AnswersApart ==
    ASSUME PlanTypeOK
    PROVE  \A s, u \in Nat : AnswerOf(s) = AnswerOf(u) => s = u
<1>1. FirstSlot \in 0 .. 1
    BY DEF FirstSlot
<1>2. Len(raw) \in Nat
    BY DEF PlanTypeOK
<1> QED
    BY <1>1, <1>2 DEF AnswerOf

\* What was emitted stays; the disputes up to the next are answered, the next is in
\* hand, and those after it are the queue.
LEMMA ResolverAdds ==
    ASSUME PlannerInv, NEW next \in 1 .. Len(queue) + 1, ResolverGoes(next)
    PROVE  /\ \A n \in DOMAIN raw : n \in DOMAIN raw' /\ raw'[n] = raw[n]
           /\ \A n \in DOMAIN raw' :
                n \in DOMAIN raw \/ \E s \in FirstSlot .. next - 1 : n = AnswerOf(s)
           /\ \A s \in FirstSlot .. next - 1 :
                /\ s \in FirstSlot .. Len(queue)
                /\ AnswerOf(s) \in DOMAIN raw'
                /\ \A n \in DOMAIN raw : n < AnswerOf(s)
                /\ raw'[AnswerOf(s)] = [at |-> now', agent |-> ResolverProcess,
                                        call |-> Resolve(Slot(s).wf, TRUE)]
           /\ next \in FirstSlot .. Len(queue) + 1
           /\ inHand' = IF next > Len(queue) THEN NoDispute ELSE Slot(next)
           /\ \A k \in DOMAIN queue' : /\ next + k \in FirstSlot .. Len(queue)
                                       /\ queue'[k] = Slot(next + k)
           /\ \A s \in next + 1 .. Len(queue) : /\ s - next \in DOMAIN queue'
                                                /\ queue'[s - next] = Slot(s)
<1>1. PlanTypeOK
    BY DEF PlannerInv
<1>2. /\ raw' \in Seq(Entry)
      /\ Len(raw') = Len(raw) + next - FirstSlot
      /\ \A n \in 1 .. Len(raw) : raw'[n] = raw[n]
      /\ \A s \in FirstSlot .. next - 1 :
           raw'[Len(raw) + 1 - FirstSlot + s] =
               [at |-> now', agent |-> ResolverProcess, call |-> Resolve(Slot(s).wf, TRUE)]
    BY Zenon DEF ResolverGoes, AnswersUpTo
<1>3. /\ queue' \in Seq(Dispute)
      /\ Len(queue') = IF next > Len(queue) THEN 0 ELSE Len(queue) - next
      /\ \A k \in 1 .. Len(queue) - next : queue'[k] = queue[next + k]
      /\ inHand' = IF next > Len(queue) THEN NoDispute ELSE queue[next]
    BY Zenon DEF ResolverGoes, AnswersUpTo
<1>4. FirstSlot \in 0 .. 1
    BY DEF FirstSlot
<1>5. /\ Len(raw) \in Nat /\ DOMAIN raw = 1 .. Len(raw)
      /\ DOMAIN raw' = 1 .. Len(raw')
      /\ Len(queue) \in Nat /\ DOMAIN queue' = 1 .. Len(queue')
    BY <1>1, <1>2, <1>3 DEF PlanTypeOK
<1>6. next \in Nat /\ next > 0 /\ next <= Len(queue) + 1
    BY <1>5
<1>7. DOMAIN raw' = 1 .. Len(raw) + next - FirstSlot
    BY <1>2, <1>5
<1>8. ASSUME NEW n \in DOMAIN raw
      PROVE  n \in DOMAIN raw' /\ raw'[n] = raw[n]
    <2>1. n \in 1 .. Len(raw) + next - FirstSlot
        BY <1>4, <1>5, <1>6
    <2> QED
        BY <1>2, <1>5, <1>7, <2>1
<1>9. ASSUME NEW n \in DOMAIN raw', n \notin DOMAIN raw
      PROVE  \E s \in FirstSlot .. next - 1 : n = AnswerOf(s)
    <2>1. n \in 1 .. Len(raw) + next - FirstSlot /\ n \notin 1 .. Len(raw)
        BY <1>5, <1>7, <1>9, Zenon
    <2>2. PICK l \in Nat, f \in 0 .. 1 : l = Len(raw) /\ f = FirstSlot
        BY <1>4, <1>5
    <2>3. next \in Nat
        BY <1>6
    <2>4. n \in 1 .. l + next - f /\ n \notin 1 .. l
        BY <2>1, <2>2
    <2> DEFINE r == n - l - 1 + f
    <2>5. n \in Int /\ l + 1 <= n /\ n <= l + next - f
        BY <2>3, <2>4
    <2>6. r \in f .. next - 1
        BY <2>3, <2>5
    <2>7. n = l + 1 - f + r
        BY <2>5
    <2> QED
        BY <2>2, <2>6, <2>7 DEF AnswerOf
<1>10. ASSUME NEW s \in FirstSlot .. next - 1
       PROVE  /\ s \in FirstSlot .. Len(queue)
              /\ AnswerOf(s) \in DOMAIN raw'
              /\ \A n \in DOMAIN raw : n < AnswerOf(s)
              /\ raw'[AnswerOf(s)] = [at |-> now', agent |-> ResolverProcess,
                                      call |-> Resolve(Slot(s).wf, TRUE)]
    <2>1. s \in FirstSlot .. Len(queue)
        BY <1>4, <1>5, <1>6
    <2>2. AnswerOf(s) \in 1 .. Len(raw) + next - FirstSlot
        BY <1>4, <1>5, <1>6 DEF AnswerOf
    <2>3. \A n \in 1 .. Len(raw) : n < AnswerOf(s)
        BY <1>4, <1>5, <1>6 DEF AnswerOf
    <2>4. AnswerOf(s) \in DOMAIN raw'
        BY <1>7, <2>2, Zenon
    <2>5. \A n \in DOMAIN raw : n < AnswerOf(s)
        BY <1>5, <2>3, Zenon
    <2>6. raw'[AnswerOf(s)] = [at |-> now', agent |-> ResolverProcess,
                               call |-> Resolve(Slot(s).wf, TRUE)]
        BY <1>2, Zenon DEF AnswerOf
    <2> QED
        BY <2>1, <2>4, <2>5, <2>6, Zenon
<1>11. next \in FirstSlot .. Len(queue) + 1
    BY <1>4, <1>5, <1>6
<1>12. inHand' = IF next > Len(queue) THEN NoDispute ELSE Slot(next)
    BY <1>3, <1>6 DEF Slot
<1>13. ASSUME NEW k \in DOMAIN queue'
       PROVE  next + k \in FirstSlot .. Len(queue) /\ queue'[k] = Slot(next + k)
    <2>1. k \in 1 .. Len(queue) - next
        <3>1. CASE next > Len(queue)
            BY <1>3, <1>5, <3>1
        <3>2. CASE ~(next > Len(queue))
            BY <1>3, <1>5, <3>2
        <3> QED
            BY <3>1, <3>2
    <2>2. next + k \in FirstSlot .. Len(queue) /\ next + k # 0
        BY <1>4, <1>5, <1>6, <2>1
    <2> QED
        BY <1>3, <2>1, <2>2 DEF Slot
<1>14. ASSUME NEW s \in next + 1 .. Len(queue)
       PROVE  s - next \in DOMAIN queue' /\ queue'[s - next] = Slot(s)
    <2> DEFINE k == s - next
    <2>1. k \in 1 .. Len(queue) - next /\ next + k = s /\ ~(next > Len(queue)) /\ s # 0
        BY <1>5, <1>6
    <2> HIDE DEF k
    <2>2. Len(queue') = Len(queue) - next
        BY <1>3, <2>1, Zenon
    <2>3. k \in DOMAIN queue'
        BY <1>5, <2>1, <2>2, Zenon
    <2>4. queue'[k] = Slot(s)
        BY <1>3, <2>1, Zenon DEF Slot
    <2> QED
        BY <2>3, <2>4 DEF k
<1> QED
    BY <1>8, <1>9, <1>10, <1>11, <1>12, <1>13, <1>14, Zenon

LEMMA ResolverTypes ==
    ASSUME PlannerInv, NEW next \in 1 .. Len(queue) + 1, ResolverGoes(next)
    PROVE  /\ PlanTypeOK'
           /\ AgendaInOrder'
           /\ now' \in Nat /\ now <= now'
<1>1. PlanTypeOK /\ AgendaInOrder /\ QueueInOrder /\ AskedOnce
    BY DEF PlannerInv
<1>2. /\ now' = Head(agenda).at /\ Due(ResolverProcess)
      /\ cast' = cast /\ todo' = todo /\ wfCounter' = wfCounter
    BY Zenon DEF ResolverGoes
<1>3. /\ raw' \in Seq(Entry)
      /\ queue' \in Seq(Dispute)
      /\ inHand' = IF next > Len(queue) THEN NoDispute ELSE queue[next]
      /\ agenda' = Waiting(Tail(agenda), ResolverProcess,
                           IF next > Len(queue) THEN now' + 1 ELSE queue[next].target)
      /\ next <= Len(queue) => queue[next].target > now'
    BY Zenon DEF ResolverGoes, AnswersUpTo
<1>4. /\ now' \in Nat /\ now <= now' /\ Tail(agenda) \in Seq(Waiter)
      /\ InOrder(Tail(agenda)) /\ NotBefore(Tail(agenda), now')
    BY <1>1, <1>2, DueIsFirst
<1>5. next <= Len(queue) => queue[next] \in Dispute
    BY <1>1 DEF PlanTypeOK
<1>6. next \in Nat /\ Len(queue) \in Nat
    BY <1>1 DEF PlanTypeOK
<1>7. inHand' \in Dispute \cup {NoDispute}
    BY <1>3, <1>5, <1>6
<1> DEFINE t == IF next > Len(queue) THEN now' + 1 ELSE queue[next].target
<1>8. t \in Nat /\ now' <= t
    <2>1. CASE next > Len(queue)
        <3>1. t = now' + 1
            BY <2>1
        <3>2. \A x \in Nat : x + 1 \in Nat /\ x <= x + 1
            OBVIOUS
        <3> HIDE DEF t
        <3> QED
            BY <1>4, <3>1, <3>2, Zenon
    <2>2. CASE ~(next > Len(queue))
        <3>1. queue[next] \in Dispute /\ queue[next].target > now' /\ t = queue[next].target
            BY <1>3, <1>5, <1>6, <2>2
        <3>2. queue[next].target \in Nat
            BY <3>1 DEF Dispute
        <3> HIDE DEF t
        <3> QED
            BY <1>4, <3>1, <3>2
    <2> QED
        BY <2>1, <2>2
<1>9. agenda' = Waiting(Tail(agenda), ResolverProcess, t)
    BY <1>3
<1> HIDE DEF t
<1>10. ResolverProcess \in Nat
    BY DEF ResolverProcess
<1> DEFINE b == now'
<1>11. b \in Nat /\ b <= t /\ NotBefore(Tail(agenda), b)
    BY <1>4, <1>8
<1>12. InOrder(agenda') /\ NotBefore(agenda', b)
    <2> HIDE DEF b
    <2> QED
        BY <1>4, <1>8, <1>9, <1>10, <1>11, WaitingInOrder
<1>13. AgendaInOrder'
    BY <1>12 DEF AgendaInOrder
<1>14. agenda' \in Seq(Waiter)
    <2>1. \E p \in 1 .. Len(Tail(agenda)) + 1 :
              EntersAt(p, agenda', Tail(agenda), ResolverProcess, t)
        BY <1>4, <1>8, <1>9, <1>10, WaitingPlaces
    <2> QED
        BY <2>1, Zenon DEF EntersAt
<1>15. Agents' = Agents
    BY <1>2 DEF Agents
<1>16. PlanTypeOK'
    BY <1>1, <1>2, <1>3, <1>4, <1>7, <1>14, <1>15 DEF PlanTypeOK
<1> QED
    BY <1>4, <1>13, <1>16

LEMMA ResolverQueue ==
    ASSUME PlannerInv, NEW next \in 1 .. Len(queue) + 1, ResolverGoes(next)
    PROVE  QueueInOrder'
<1>1. PlanTypeOK /\ QueueInOrder /\ AskedOnce /\ PlanTypeOK'
    BY ResolverTypes DEF PlannerInv
<1>2. now \in Nat /\ now' \in Nat /\ now <= now' /\ cast' = cast
    BY <1>1, ResolverTypes, Zenon DEF ResolverGoes, PlanTypeOK
<1>3. cast.resolutionDelay \in Nat
    BY <1>1, CastTyped
<1>4. \A s \in FirstSlot .. Len(queue) :
        /\ Slot(s).target \in Nat
        /\ Slot(s).target <= now + cast.resolutionDelay
    <2>1. \A s \in FirstSlot .. Len(queue) :
            Slot(s) \in Dispute /\ Slot(s).target <= now + cast.resolutionDelay
        BY <1>1, SlotsApart, Zenon
    <2>2. \A d \in Dispute : d.target \in Nat
        BY DEF Dispute
    <2> QED
        BY <2>1, <2>2, Zenon
<1>5. \A s \in FirstSlot .. Len(queue) : Slot(s).target <= now' + cast'.resolutionDelay
    <2>1. \A x, a, b, d \in Nat : x <= a + d /\ a <= b => x <= b + d
        OBVIOUS
    <2>2. \A s \in FirstSlot .. Len(queue) : Slot(s).target <= now' + cast.resolutionDelay
        BY <1>2, <1>3, <1>4, <2>1, Zenon
    <2> QED
        BY <1>2, <2>2, Zenon
<1>6. \A s, u \in FirstSlot .. Len(queue) : s <= u => Slot(s).target <= Slot(u).target
    BY <1>1, SlotsApart, Zenon
<1>7. /\ inHand' = IF next > Len(queue) THEN NoDispute ELSE Slot(next)
      /\ \A k \in DOMAIN queue' : /\ next + k \in FirstSlot .. Len(queue)
                                  /\ queue'[k] = Slot(next + k)
      /\ next \in FirstSlot .. Len(queue) + 1
    BY ResolverAdds, Zenon
<1>8. /\ next \in Nat /\ FirstSlot \in Nat /\ Len(queue) \in Nat
      /\ \A k \in DOMAIN queue' : k \in Nat
    BY <1>1, SlotsApart DEF PlanTypeOK
<1>9. \A j, k \in DOMAIN queue' : j <= k => queue'[j].target <= queue'[k].target
    <2>1. \A j, k \in DOMAIN queue' : j <= k => next + j <= next + k
        BY <1>8
    <2> QED
        BY <1>6, <1>7, <2>1, Zenon
<1>10. /\ inHand'.target <= now' + cast'.resolutionDelay
       /\ \A k \in DOMAIN queue' : inHand'.target <= queue'[k].target
    <2>1. CASE next > Len(queue)
        <3>1. inHand'.target = -1
            BY <1>7, <2>1 DEF NoDispute
        <3>2. \A x \in Nat : -1 <= x
            OBVIOUS
        <3>3. now' + cast'.resolutionDelay \in Nat
            BY <1>2, <1>3
        <3>4. \A k \in DOMAIN queue' : queue'[k].target \in Nat
            BY <1>4, <1>7, Zenon
        <3> QED
            BY <3>1, <3>2, <3>3, <3>4, Zenon
    <2>2. CASE ~(next > Len(queue))
        <3>1. next \in FirstSlot .. Len(queue) /\ \A k \in DOMAIN queue' : next <= next + k
            BY <1>7, <1>8, <2>2
        <3> QED
            BY <1>5, <1>6, <1>7, <2>2, <3>1, Zenon
    <2> QED
        BY <2>1, <2>2, Zenon
<1>11. \A k \in DOMAIN queue' : queue'[k].target <= now' + cast'.resolutionDelay
    BY <1>5, <1>7, Zenon
<1> QED
    BY <1>9, <1>10, <1>11, Zenon DEF QueueInOrder

\* The time the resolver had waited for has come.
LEMMA ResolverTime ==
    ASSUME PlannerInv, NEW next \in 1 .. Len(queue) + 1, ResolverGoes(next), Attended
    PROVE  /\ inHand # NoDispute => now' = inHand.target
           /\ inHand = NoDispute =>
                \A k \in DOMAIN queue : now' + cast.resolutionDelay <= queue[k].target + 1
           /\ \A k \in DOMAIN Tail(agenda) : Tail(agenda)[k].who # ResolverProcess
<1>1. PlanTypeOK /\ AgendaInOrder /\ ResolverLooks
    BY DEF PlannerInv
<1>2. Due(ResolverProcess) /\ now' = Head(agenda).at
    BY DEF ResolverGoes
<1>3. agenda \in Seq(Waiter) /\ agenda # <<>> /\ Head(agenda).who = ResolverProcess
    BY <1>1, <1>2, DueIsFirst, Zenon
<1>4. PICK t \in Nat :
        /\ WaitsOnce(agenda, ResolverProcess, t)
        /\ inHand # NoDispute => t = inHand.target
        /\ inHand = NoDispute =>
             \A k \in DOMAIN queue : t + cast.resolutionDelay <= queue[k].target + 1
    BY <1>1, Zenon DEF ResolverLooks
<1>5. ResolverProcess \in Nat
    BY DEF ResolverProcess
<1>6. /\ Head(agenda).at = t
      /\ \A k \in DOMAIN Tail(agenda) : Tail(agenda)[k].who # ResolverProcess
    BY <1>3, <1>4, <1>5, TailWaits, Zenon
<1> QED
    BY <1>2, <1>4, <1>6, Zenon

LEMMA ResolverLooksAgain ==
    ASSUME PlannerInv, NEW next \in 1 .. Len(queue) + 1, ResolverGoes(next)
    PROVE  ResolverLooks'
<1> SUFFICES ASSUME Attended'
             PROVE  ResolverLooks'
    BY DEF ResolverLooks
<1>1. PlanTypeOK /\ AgendaInOrder /\ PlanTypeOK'
    BY ResolverTypes DEF PlannerInv
<1>2. cast' = cast /\ Due(ResolverProcess) /\ now' \in Nat
    BY ResolverTypes, Zenon DEF ResolverGoes
<1>3. Attended
    BY <1>2 DEF Attended
<1>4. \A k \in DOMAIN Tail(agenda) : Tail(agenda)[k].who # ResolverProcess
    BY <1>3, ResolverTime, Zenon
<1>5. Tail(agenda) \in Seq(Waiter)
    BY <1>1, <1>2, DueIsFirst, Zenon
<1>6. /\ agenda' = Waiting(Tail(agenda), ResolverProcess,
                           IF next > Len(queue) THEN now' + 1 ELSE queue[next].target)
      /\ inHand' = IF next > Len(queue) THEN NoDispute ELSE queue[next]
    BY Zenon DEF ResolverGoes, AnswersUpTo
<1>7. ResolverProcess \in Nat
    BY DEF ResolverProcess
<1>8. Len(queue) \in Nat /\ \A k \in DOMAIN queue' : k \in Nat \ {0}
    BY <1>1 DEF PlanTypeOK
<1>9. CASE next > Len(queue)
    <2>1. now' + 1 \in Nat
        <3>1. \A x \in Nat : x + 1 \in Nat
            OBVIOUS
        <3> QED
            BY <1>2, <3>1, Zenon
    <2>2. WaitsOnce(agenda', ResolverProcess, now' + 1)
        BY <1>4, <1>5, <1>6, <1>7, <1>9, <2>1, WaitingOnce, Zenon
    <2>3. inHand' = NoDispute
        BY <1>6, <1>9
    <2>4. DOMAIN queue' = {}
        <3>1. \A k \in DOMAIN queue' : next + k \in FirstSlot .. Len(queue)
            BY ResolverAdds, Zenon
        <3>2. \A k \in Nat \ {0} : next + k \notin FirstSlot .. Len(queue)
            BY <1>8, <1>9, <1>1, SlotsApart
        <3> QED
            BY <1>8, <3>1, <3>2, Zenon
    <2>5. now' + 1 <= now' + 1
        BY <2>1
    <2> QED
        BY <2>1, <2>2, <2>3, <2>4, <2>5, Zenon DEF ResolverLooks
<1>10. CASE ~(next > Len(queue))
    <2>1. queue[next] \in Dispute
        BY <1>1, <1>8, <1>10 DEF PlanTypeOK
    <2>2. queue[next].target \in Nat /\ queue[next] # NoDispute
        BY <2>1 DEF Dispute, NoDispute
    <2>3. inHand' = queue[next] /\ inHand' # NoDispute
        BY <1>6, <1>10, <2>2, Zenon
    <2>4. WaitsOnce(agenda', ResolverProcess, queue[next].target)
        BY <1>4, <1>5, <1>6, <1>7, <1>10, <2>2, WaitingOnce, Zenon
    <2>5. PICK t \in Nat : t = queue[next].target
        BY <2>2
    <2> QED
        BY <2>3, <2>4, <2>5, Zenon DEF ResolverLooks
<1> QED
    BY <1>9, <1>10

\* What an action the resolver emitted answers.
LEMMA ResolverAnswers ==
    ASSUME PlannerInv, NEW next \in 1 .. Len(queue) + 1, ResolverGoes(next), NEW n \in DOMAIN raw'
    PROVE  \/ n \in DOMAIN raw /\ raw'[n] = raw[n]
           \/ \E s \in FirstSlot .. next - 1 : /\ n = AnswerOf(s)
                                               /\ s \in FirstSlot .. Len(queue)
                                               /\ raw'[n].call.wf = Slot(s).wf
                                               /\ ~(raw'[n].call.action = "raise_dispute")
<1>1. PlanTypeOK /\ QueueInOrder /\ AskedOnce
    BY DEF PlannerInv
<1>2. CASE n \in DOMAIN raw
    BY <1>2, ResolverAdds, Zenon
<1>3. CASE n \notin DOMAIN raw
    <2>1. PICK s \in FirstSlot .. next - 1 : n = AnswerOf(s)
        BY <1>3, ResolverAdds, Zenon
    <2>2. /\ s \in FirstSlot .. Len(queue)
          /\ raw'[n] = [at |-> now', agent |-> ResolverProcess,
                        call |-> Resolve(Slot(s).wf, TRUE)]
        BY <2>1, ResolverAdds, Zenon
    <2>3. raw'[n].call = Resolve(Slot(s).wf, TRUE)
        BY <2>2
    <2>4. Slot(s) \in Dispute
        BY <1>1, <2>2, SlotsApart, Zenon
    <2>5. Slot(s).wf \in Int
        BY <2>4 DEF Dispute
    <2>6. Resolve(Slot(s).wf, TRUE).wf = Slot(s).wf
          /\ Resolve(Slot(s).wf, TRUE).action = "execute_resolution"
        BY <2>5, CallTyped
    <2>7. raw'[n].call.wf = Slot(s).wf /\ ~(raw'[n].call.action = "raise_dispute")
        BY <2>3, <2>6
    <2> QED
        BY <2>1, <2>2, <2>7, Zenon
<1> QED
    BY <1>2, <1>3

\* No escrow is asked about that was not before.
LEMMA ResolverAsked ==
    ASSUME PlannerInv, NEW next \in 1 .. Len(queue) + 1, ResolverGoes(next), NEW w \in Asked'
    PROVE  w \in Asked \/ w = NoWf
<1>1. PlanTypeOK /\ QueueInOrder /\ AskedOnce
    BY DEF PlannerInv
<1>2. \A s \in FirstSlot .. Len(queue) : Slot(s).wf \in Asked
    BY <1>1, SlotsApart, Zenon
<1>3. \/ w = inHand'.wf
      \/ \E k \in DOMAIN queue' : w = queue'[k].wf
      \/ \E n \in DOMAIN raw' : raw'[n].agent = ResolverProcess /\ w = raw'[n].call.wf
    BY DEF Asked
<1>4. CASE w = inHand'.wf
    <2>1. CASE next > Len(queue)
        <3>1. inHand' = NoDispute
            BY <2>1, ResolverAdds
        <3> QED
            BY <1>4, <3>1 DEF NoDispute
    <2>2. CASE ~(next > Len(queue))
        <3>1. inHand' = Slot(next) /\ next \in FirstSlot .. Len(queue) + 1
            BY <2>2, ResolverAdds, Zenon
        <3>2. next \in FirstSlot .. Len(queue)
            BY <1>1, <2>2, <3>1, SlotsApart
        <3> QED
            BY <1>2, <1>4, <3>1, <3>2, Zenon
    <2> QED
        BY <2>1, <2>2
<1>5. ASSUME NEW k \in DOMAIN queue', w = queue'[k].wf
      PROVE  w \in Asked
    <2>1. next + k \in FirstSlot .. Len(queue) /\ queue'[k] = Slot(next + k)
        BY ResolverAdds, Zenon
    <2>2. Slot(next + k).wf \in Asked
        BY <1>2, <2>1, Zenon
    <2> QED
        BY <1>5, <2>1, <2>2, Zenon
<1>6. ASSUME NEW n \in DOMAIN raw', raw'[n].agent = ResolverProcess, w = raw'[n].call.wf
      PROVE  w \in Asked
    <2>1. CASE n \in DOMAIN raw /\ raw'[n] = raw[n]
        BY <1>6, <2>1 DEF Asked
    <2>2. CASE \E s \in FirstSlot .. Len(queue) : raw'[n].call.wf = Slot(s).wf
        BY <1>2, <1>6, <2>2, Zenon
    <2> QED
        BY <2>1, <2>2, ResolverAnswers, Zenon
<1> QED
    BY <1>3, <1>4, <1>5, <1>6, Zenon

LEMMA ResolverPlans ==
    ASSUME PlannerInv, NEW next \in 1 .. Len(queue) + 1, ResolverGoes(next)
    PROVE  PlansApart'
<1>1. PlansApart
    BY DEF PlannerInv
<1>2. cast' = cast /\ todo' = todo /\ wfCounter' = wfCounter
    BY Zenon DEF ResolverGoes
<1>3. \A w \in Nat : w \notin Asked => w \notin Asked'
    <2>1. \A w \in Nat : w # NoWf
        BY DEF NoWf
    <2>2. ASSUME NEW w \in Asked'
          PROVE  w \in Asked \/ w = NoWf
        BY ResolverAsked
    <2> QED
        BY <2>1, <2>2, Zenon
<1>4. Agents' = Agents
    BY <1>2 DEF Agents
<1> QED
    BY <1>1, <1>2, <1>3, <1>4 DEF PlansApart, Raises

\* The next dispute in hand and those in the queue after it are some of the disputes
\* before the resolver.
LEMMA ResolverKeeps ==
    ASSUME PlannerInv, NEW next \in 1 .. Len(queue) + 1, ResolverGoes(next)
    PROVE  /\ \/ inHand' = NoDispute
              \/ next \in FirstSlot .. Len(queue) /\ inHand' = Slot(next)
           /\ \A k \in DOMAIN queue' : /\ next + k \in FirstSlot .. Len(queue)
                                       /\ queue'[k] = Slot(next + k)
                                       /\ next + k # next
                                       /\ \A s \in FirstSlot .. next - 1 : s # next + k
           /\ \A j, k \in DOMAIN queue' : next + j = next + k => j = k
           /\ \A s \in FirstSlot .. next - 1 : s # next /\ s \in Nat
<1>1. PlanTypeOK /\ QueueInOrder /\ AskedOnce /\ PlanTypeOK'
    BY ResolverTypes DEF PlannerInv
<1>2. /\ next \in Nat /\ FirstSlot \in Nat /\ Len(queue) \in Nat
      /\ \A k \in DOMAIN queue' : k \in Nat \ {0}
    BY <1>1, SlotsApart DEF PlanTypeOK
<1>3. \A k \in DOMAIN queue' : next + k # next /\ \A s \in FirstSlot .. next - 1 : s # next + k
    BY <1>2
<1>4. \A j, k \in DOMAIN queue' : next + j = next + k => j = k
    BY <1>2
<1>5. \A s \in FirstSlot .. next - 1 : s # next /\ s \in Nat
    BY <1>2
<1>6. \/ inHand' = NoDispute
      \/ next \in FirstSlot .. Len(queue) /\ inHand' = Slot(next)
    <2>1. CASE next > Len(queue)
        BY <2>1, ResolverAdds
    <2>2. CASE ~(next > Len(queue))
        <3>1. inHand' = Slot(next) /\ next \in FirstSlot .. Len(queue) + 1
            BY <2>2, ResolverAdds, Zenon
        <3>2. next \in FirstSlot .. Len(queue)
            BY <1>2, <2>2, <3>1
        <3> QED
            BY <3>1, <3>2
    <2> QED
        BY <2>1, <2>2
<1>7. \A k \in DOMAIN queue' : next + k \in FirstSlot .. Len(queue) /\ queue'[k] = Slot(next + k)
    BY ResolverAdds, Zenon
<1> QED
    BY <1>3, <1>4, <1>5, <1>6, <1>7, Zenon

LEMMA ResolverAsks ==
    ASSUME PlannerInv, NEW next \in 1 .. Len(queue) + 1, ResolverGoes(next)
    PROVE  AskedOnce'
<1>1. PlanTypeOK /\ QueueInOrder /\ AskedOnce
    BY DEF PlannerInv
<1>2. /\ \A s \in FirstSlot .. Len(queue) :
           /\ Slot(s).wf \in Nat
           /\ \A n \in DOMAIN raw :
                raw[n].agent = ResolverProcess => raw[n].call.wf # Slot(s).wf
      /\ \A s, u \in FirstSlot .. Len(queue) : Slot(s).wf = Slot(u).wf => s = u
    <2>1. \A s \in FirstSlot .. Len(queue) : Slot(s) \in Dispute
        BY <1>1, SlotsApart, Zenon
    <2>2. \A d \in Dispute : d.wf \in Nat
        BY DEF Dispute
    <2> QED
        BY <1>1, <2>1, <2>2, SlotsApart, Zenon
<1>3. /\ \/ inHand' = NoDispute
         \/ next \in FirstSlot .. Len(queue) /\ inHand' = Slot(next)
      /\ \A k \in DOMAIN queue' : /\ next + k \in FirstSlot .. Len(queue)
                                  /\ queue'[k] = Slot(next + k)
                                  /\ next + k # next
                                  /\ \A s \in FirstSlot .. next - 1 : s # next + k
      /\ \A j, k \in DOMAIN queue' : next + j = next + k => j = k
      /\ \A s \in FirstSlot .. next - 1 : s # next /\ s \in Nat
    BY ResolverKeeps, Zenon
<1>4. NoDispute.wf \notin Nat
    BY DEF NoDispute, NoWf
<1>5. \A w \in Asked' : w < wfCounter'
    <2> SUFFICES ASSUME NEW w \in Asked'
                 PROVE  w < wfCounter'
        OBVIOUS
    <2>1. w \in Asked \/ w = NoWf
        BY ResolverAsked
    <2>2. wfCounter' = wfCounter /\ wfCounter \in Nat
        BY <1>1, Zenon DEF ResolverGoes, PlanTypeOK
    <2>3. NoWf < wfCounter
        BY <2>2 DEF NoWf
    <2>4. \A v \in Asked : v < wfCounter
        BY <1>1, Zenon DEF AskedOnce
    <2> QED
        BY <2>1, <2>2, <2>3, <2>4, Zenon
<1>6. \A j, k \in DOMAIN queue' : queue'[j].wf = queue'[k].wf => j = k
    <2> SUFFICES ASSUME NEW j \in DOMAIN queue', NEW k \in DOMAIN queue',
                        queue'[j].wf = queue'[k].wf
                 PROVE  j = k
        OBVIOUS
    <2>1. Slot(next + j).wf = Slot(next + k).wf
        BY <1>3, Zenon
    <2>2. next + j = next + k
        BY <1>2, <1>3, <2>1, Zenon
    <2> QED
        BY <1>3, <2>2, Zenon
<1>7. \A s \in FirstSlot .. Len(queue) : s # next => Slot(s).wf # inHand'.wf
    <2> SUFFICES ASSUME NEW s \in FirstSlot .. Len(queue), s # next
                 PROVE  Slot(s).wf # inHand'.wf
        OBVIOUS
    <2>1. CASE inHand' = NoDispute
        <3>1. inHand'.wf \notin Nat
            BY <1>4, <2>1, Zenon
        <3> QED
            BY <1>2, <3>1, Zenon
    <2>2. CASE next \in FirstSlot .. Len(queue) /\ inHand' = Slot(next)
        <3>1. Slot(s).wf # Slot(next).wf
            BY <1>2, <2>2, Zenon
        <3> QED
            BY <2>2, <3>1, Zenon
    <2> QED
        BY <1>3, <2>1, <2>2, Zenon
<1>8. \A k \in DOMAIN queue' : queue'[k].wf # inHand'.wf
    <2> SUFFICES ASSUME NEW k \in DOMAIN queue'
                 PROVE  queue'[k].wf # inHand'.wf
        OBVIOUS
    <2>1. /\ next + k \in FirstSlot .. Len(queue)
          /\ queue'[k] = Slot(next + k)
          /\ next + k # next
        BY <1>3, Zenon
    <2>2. Slot(next + k).wf # inHand'.wf
        BY <1>7, <2>1, Zenon
    <2> QED
        BY <2>1, <2>2, Zenon
<1>9. ASSUME NEW n \in DOMAIN raw', raw'[n].agent = ResolverProcess
      PROVE  /\ raw'[n].call.wf \in Nat
             /\ raw'[n].call.wf # inHand'.wf
             /\ \A k \in DOMAIN queue' : raw'[n].call.wf # queue'[k].wf
             /\ \A m \in DOMAIN raw' :
                  raw'[m].agent = ResolverProcess /\ raw'[m].call.wf = raw'[n].call.wf => m = n
    <2>1. CASE n \in DOMAIN raw /\ raw'[n] = raw[n]
        <3>1. /\ raw[n].agent = ResolverProcess
              /\ raw[n].call.wf \in Nat
              /\ \A m \in DOMAIN raw :
                   raw[m].agent = ResolverProcess /\ raw[m].call.wf = raw[n].call.wf => m = n
            BY <1>1, <1>9, <2>1 DEF AskedOnce
        <3>2. \A s \in FirstSlot .. Len(queue) : raw[n].call.wf # Slot(s).wf
            BY <1>2, <2>1, <3>1, Zenon
        <3>3. raw[n].call.wf # inHand'.wf
            <4>1. CASE inHand' = NoDispute
                BY <1>4, <3>1, <4>1
            <4>2. CASE next \in FirstSlot .. Len(queue) /\ inHand' = Slot(next)
                BY <3>2, <4>2
            <4> QED
                BY <1>3, <4>1, <4>2
        <3>4. ASSUME NEW k \in DOMAIN queue'
              PROVE  raw[n].call.wf # queue'[k].wf
            <4>1. next + k \in FirstSlot .. Len(queue) /\ queue'[k] = Slot(next + k)
                BY <1>3, Zenon
            <4>2. raw[n].call.wf # Slot(next + k).wf
                BY <3>2, <4>1, Zenon
            <4> QED
                BY <4>1, <4>2, Zenon
        <3>5. ASSUME NEW m \in DOMAIN raw',
                     raw'[m].agent = ResolverProcess, raw'[m].call.wf = raw[n].call.wf
              PROVE  m = n
            <4>1. CASE m \in DOMAIN raw /\ raw'[m] = raw[m]
                BY <3>1, <3>5, <4>1
            <4>2. CASE \E s \in FirstSlot .. Len(queue) : raw'[m].call.wf = Slot(s).wf
                BY <3>2, <3>5, <4>2
            <4> QED
                BY <4>1, <4>2, ResolverAnswers, Zenon
        <3> QED
            BY <2>1, <3>1, <3>3, <3>4, <3>5, Zenon
    <2>2. ASSUME NEW s \in FirstSlot .. next - 1, n = AnswerOf(s),
                 s \in FirstSlot .. Len(queue), raw'[n].call.wf = Slot(s).wf
          PROVE  /\ raw'[n].call.wf \in Nat
                 /\ raw'[n].call.wf # inHand'.wf
                 /\ \A k \in DOMAIN queue' : raw'[n].call.wf # queue'[k].wf
                 /\ \A m \in DOMAIN raw' :
                      raw'[m].agent = ResolverProcess /\ raw'[m].call.wf = raw'[n].call.wf
                          => m = n
        <3>1. Slot(s).wf \in Nat
            BY <1>2, <2>2, Zenon
        <3>2. Slot(s).wf # inHand'.wf
            BY <1>3, <1>7, <2>2, Zenon
        <3>3. ASSUME NEW k \in DOMAIN queue'
              PROVE  Slot(s).wf # queue'[k].wf
            <4>1. /\ next + k \in FirstSlot .. Len(queue)
                  /\ queue'[k] = Slot(next + k)
                  /\ s # next + k
                BY <1>3, Zenon
            <4>2. Slot(s).wf # Slot(next + k).wf
                BY <1>2, <2>2, <4>1, Zenon
            <4> QED
                BY <4>1, <4>2, Zenon
        <3>4. ASSUME NEW m \in DOMAIN raw',
                     raw'[m].agent = ResolverProcess, raw'[m].call.wf = Slot(s).wf
              PROVE  m = n
            <4>1. CASE m \in DOMAIN raw /\ raw'[m] = raw[m]
                BY <1>2, <2>2, <3>4, <4>1
            <4>2. ASSUME NEW u \in FirstSlot .. Len(queue),
                         m = AnswerOf(u), raw'[m].call.wf = Slot(u).wf
                  PROVE  m = n
                <5>1. u = s
                    BY <1>2, <2>2, <3>4, <4>2
                <5> QED
                    BY <2>2, <4>2, <5>1
            <4> QED
                BY <4>1, <4>2, ResolverAnswers, Zenon
        <3> QED
            BY <2>2, <3>1, <3>2, <3>3, <3>4, Zenon
    <2> QED
        BY <2>1, <2>2, ResolverAnswers, Zenon
<1> QED
    BY <1>5, <1>6, <1>8, <1>9 DEF AskedOnce

LEMMA LateTyped ==
    ASSUME NEW d \in Nat
    PROVE  /\ Max({d, 1}) \in Nat
           /\ d <= Max({d, 1}) /\ 1 <= Max({d, 1})
<1> DEFINE m == IF d >= 1 THEN d ELSE 1
<1>1. m \in {d, 1} /\ \A y \in {d, 1} : m >= y
    OBVIOUS
<1>2. Max({d, 1}) \in {d, 1} /\ \A y \in {d, 1} : Max({d, 1}) >= y
    <2> HIDE DEF m
    <2> QED
        BY <1>1, Zenon DEF Max
<1>3. Max({d, 1}) \in Nat
    BY <1>2
<1> QED
    BY <1>2, <1>3

\* An answered dispute is answered its delay after it was raised, or, if the resolver
\* was not waiting for a dispute, when it looks, at most one unit after it was raised.
LEMMA ResolverAnswersInTime ==
    ASSUME PlannerInv, NEW next \in 1 .. Len(queue) + 1, ResolverGoes(next), Attended,
           NEW s \in FirstSlot .. next - 1, NEW x \in Nat,
           Slot(s).target = x + cast.resolutionDelay
    PROVE  now' \in x + cast.resolutionDelay .. x + Max({cast.resolutionDelay, 1})
<1>1. PlanTypeOK /\ QueueInOrder /\ AskedOnce
    BY DEF PlannerInv
<1>2. PICK d \in Nat : d = cast.resolutionDelay
    BY <1>1, CastTyped
<1>3. Max({d, 1}) \in Nat /\ d <= Max({d, 1}) /\ 1 <= Max({d, 1})
    BY LateTyped
<1>4. now' \in Nat
    BY ResolverTypes
<1>5. FirstSlot \in 0 .. 1 /\ Len(queue) \in Nat /\ s \in FirstSlot .. Len(queue)
    BY <1>1, SlotsApart, ResolverAdds, Zenon
<1>6. DOMAIN queue = 1 .. Len(queue)
    BY <1>1 DEF PlanTypeOK
<1>7. x + d <= now'
    <2>1. CASE s = 0
        <3>1. inHand # NoDispute
            BY <1>5, <2>1 DEF FirstSlot
        <3>2. now' = inHand.target
            BY <3>1, ResolverTime, Zenon
        <3>3. now' = x + d
            BY <1>2, <2>1, <3>2 DEF Slot
        <3> HIDE DEF Slot
        <3>4. \A y \in Nat : y <= y
            OBVIOUS
        <3> QED
            BY <1>4, <3>3, <3>4, Zenon
    <2>2. CASE s # 0
        <3>1. s \in 1 .. next - 1
            BY <1>5, <2>2
        <3>2. queue[s].target <= now'
            BY <3>1, Zenon DEF ResolverGoes, AnswersUpTo
        <3>3. queue[s].target = x + d
            BY <1>2, <2>2 DEF Slot
        <3> QED
            BY <3>2, <3>3, Zenon
    <2> QED
        BY <2>1, <2>2
<1>8. now' <= x + Max({d, 1})
    <2>1. CASE inHand # NoDispute
        <3>1. now' = inHand.target
            BY <2>1, ResolverTime, Zenon
        <3>2. inHand.target <= Slot(s).target
            <4>1. 0 \in FirstSlot .. Len(queue) /\ 0 <= s
                BY <1>5, <2>1 DEF FirstSlot
            <4>2. Slot(0).target <= Slot(s).target
                BY <1>1, <1>5, <4>1, SlotsApart, Zenon
            <4> QED
                BY <4>2 DEF Slot
        <3>3. now' <= x + d
            BY <1>2, <3>1, <3>2, Zenon
        <3>4. \A n, m \in Nat : n <= x + d /\ d <= m => n <= x + m
            BY <1>2
        <3> QED
            BY <1>3, <1>4, <3>3, <3>4, Zenon
    <2>2. CASE inHand = NoDispute
        <3>1. s \in DOMAIN queue /\ s # 0
            BY <1>5, <1>6, <2>2 DEF FirstSlot
        <3>2. now' + cast.resolutionDelay <= queue[s].target + 1
            BY <2>2, <3>1, ResolverTime, Zenon
        <3>3. queue[s].target = x + d
            BY <1>2, <3>1 DEF Slot
        <3>4. now' + d <= x + d + 1
            BY <1>2, <3>2, <3>3, Zenon
        <3>5. \A n, m \in Nat : n + d <= x + d + 1 /\ 1 <= m => n <= x + m
            BY <1>2
        <3> QED
            BY <1>3, <1>4, <3>4, <3>5, Zenon
    <2> QED
        BY <2>1, <2>2
<1>9. \A n, m \in Nat : x + d <= n /\ n <= x + m => n \in x + d .. x + m
    BY <1>2
<1> QED
    BY <1>2, <1>3, <1>4, <1>7, <1>8, <1>9, Zenon

LEMMA ResolverHolds ==
    ASSUME PlannerInv, NEW next \in 1 .. Len(queue) + 1, ResolverGoes(next)
    PROVE  DisputesHeld'
<1>1. PlanTypeOK /\ QueueInOrder /\ AskedOnce /\ DisputesHeld
    BY DEF PlannerInv
<1>2. cast' = cast
    BY Zenon DEF ResolverGoes
<1>3. Attended' <=> Attended
    BY <1>2 DEF Attended
<1> SUFFICES ASSUME Attended, NEW n \in DOMAIN raw', Raises(raw'[n])
             PROVE  Waits(raw[n])' \/ \E k \in DOMAIN raw' : AnsweredAt(n, k)'
    BY <1>3 DEF DisputesHeld, Raises
<1>4. n \in DOMAIN raw /\ raw'[n] = raw[n]
    BY ResolverAnswers, Zenon DEF Raises
<1>5. raw[n] \in Entry
    BY <1>1, <1>4 DEF PlanTypeOK
<1>6. raw[n].at \in Nat
    BY <1>5 DEF Entry
<1> DEFINE d == [target |-> raw[n].at + cast.resolutionDelay, wf |-> raw[n].call.wf]
<1>7. d.target = raw[n].at + cast.resolutionDelay /\ d.wf = raw[n].call.wf
    OBVIOUS
<1>8. Waits(raw[n])' <=> inHand' = d \/ \E k \in DOMAIN queue' : queue'[k] = d
    BY <1>2, <1>4 DEF Waits, DisputeOf
<1>9. Waits(raw[n]) \/ \E k \in DOMAIN raw : AnsweredAt(n, k)
    BY <1>1, <1>4 DEF DisputesHeld
<1>10. ASSUME NEW k \in DOMAIN raw, AnsweredAt(n, k)
       PROVE  k \in DOMAIN raw' /\ AnsweredAt(n, k)'
    <2>1. k \in DOMAIN raw' /\ raw'[k] = raw[k]
        BY ResolverAdds
    <2> QED
        BY <1>2, <1>4, <1>10, <2>1 DEF AnsweredAt, Late
<1>11. d # NoDispute
    <2>1. cast.resolutionDelay \in Nat
        BY <1>1, CastTyped
    <2>2. raw[n].at + cast.resolutionDelay # -1
        BY <1>6, <2>1
    <2> QED
        BY <1>7, <2>2 DEF NoDispute
<1>12. /\ FirstSlot \in 0 .. 1 /\ Len(queue) \in Nat
       /\ next \in FirstSlot .. Len(queue) + 1
       /\ DOMAIN queue = 1 .. Len(queue)
    <2>1. DOMAIN queue = 1 .. Len(queue)
        BY <1>1 DEF PlanTypeOK
    <2> QED
        BY <1>1, <2>1, SlotsApart, ResolverAdds, Zenon
<1>13. ASSUME Waits(raw[n])
       PROVE  \E s \in FirstSlot .. Len(queue) : Slot(s) = d
    <2>1. inHand = d \/ \E k \in DOMAIN queue : queue[k] = d
        BY <1>13 DEF Waits, DisputeOf
    <2> HIDE DEF d
    <2>2. CASE inHand = d
        <3>1. FirstSlot = 0
            BY <1>11, <2>2 DEF FirstSlot
        <3>2. 0 \in FirstSlot .. Len(queue)
            BY <1>12, <3>1
        <3>3. Slot(0) = d
            BY <2>2 DEF Slot
        <3> QED
            BY <3>2, <3>3, Zenon
    <2>3. ASSUME NEW k \in DOMAIN queue, queue[k] = d
          PROVE  k \in FirstSlot .. Len(queue) /\ Slot(k) = d
        <3>1. k \in FirstSlot .. Len(queue) /\ k # 0
            BY <1>12
        <3> QED
            BY <2>3, <3>1 DEF Slot
    <2> QED
        BY <2>1, <2>2, <2>3, Zenon
<1>14. ASSUME NEW s \in FirstSlot .. Len(queue), Slot(s) = d
       PROVE  Waits(raw[n])' \/ \E k \in DOMAIN raw' : AnsweredAt(n, k)'
    <2>1. CASE s \in FirstSlot .. next - 1
        <3>1. PICK k \in DOMAIN raw' :
                /\ \A m \in DOMAIN raw : m < k
                /\ raw'[k] = [at |-> now', agent |-> ResolverProcess,
                              call |-> Resolve(Slot(s).wf, TRUE)]
            BY <2>1, ResolverAdds, Zenon
        <3>2. n < k
            BY <1>4, <3>1, Zenon
        <3>3. Slot(s).target = raw[n].at + cast.resolutionDelay /\ Slot(s).wf = raw[n].call.wf
            BY <1>14
        <3>4. now' \in raw[n].at + cast.resolutionDelay
                         .. raw[n].at + Max({cast.resolutionDelay, 1})
            BY <1>6, <2>1, <3>3, ResolverAnswersInTime
        <3>5. Slot(s) \in Dispute
            BY <1>1, <1>14, SlotsApart, Zenon
        <3>6. Slot(s).wf \in Int
            BY <3>5 DEF Dispute
        <3>7. Resolve(Slot(s).wf, TRUE).wf = Slot(s).wf
            BY <3>6, CallTyped
        <3>8. /\ raw'[k].at = now' /\ raw'[k].agent = ResolverProcess
              /\ raw'[k].call.wf = raw[n].call.wf
            <4>1. /\ raw'[k].at = now' /\ raw'[k].agent = ResolverProcess
                  /\ raw'[k].call = Resolve(Slot(s).wf, TRUE)
                BY <3>1
            <4> QED
                BY <3>3, <3>7, <4>1, Zenon
        <3>9. k \in Nat /\ n \in Nat
            BY <1>1, <1>4, <3>1, ResolverTypes DEF PlanTypeOK
        <3>10. k > n
            BY <3>2, <3>9
        <3>11. AnsweredAt(n, k)'
            BY <1>2, <1>4, <3>4, <3>8, <3>10, Zenon DEF AnsweredAt, Late
        <3> QED
            BY <3>11
    <2>2. CASE s = next
        <3>1. ~(next > Len(queue))
            BY <1>12, <2>2
        <3>2. inHand' = Slot(next)
            BY <3>1, ResolverAdds, Zenon
        <3> QED
            BY <1>8, <1>14, <2>2, <3>2
    <2>3. CASE s \in next + 1 .. Len(queue)
        <3>1. s - next \in DOMAIN queue' /\ queue'[s - next] = Slot(s)
            BY <2>3, ResolverAdds, Zenon
        <3> QED
            BY <1>8, <1>14, <3>1
    <2>4. s \in FirstSlot .. next - 1 \/ s = next \/ s \in next + 1 .. Len(queue)
        BY <1>12
    <2> QED
        BY <2>1, <2>2, <2>3, <2>4
<1> QED
    BY <1>9, <1>10, <1>13, <1>14, Zenon

LEMMA ResolverStep ==
    ASSUME PlannerInv, Resolver
    PROVE  PlannerInv'
<1>1. PICK next \in 1 .. Len(queue) + 1 : AnswersUpTo(next)
    BY ResolverParts
<1>2. ResolverGoes(next)
    BY <1>1 DEF Resolver, ResolverGoes
<1>3. events = <<>>
    BY <1>2, DueIsNotOver DEF PlannerInv, ExportedWhenOver, ResolverGoes
<1>4. ExportedWhenOver'
    BY <1>2, <1>3 DEF ExportedWhenOver, ResolverGoes
<1> QED
    BY <1>2, <1>4, ResolverTypes, ResolverQueue, ResolverLooksAgain, ResolverPlans,
       ResolverAsks, ResolverHolds
    DEF PlannerInv

\* The resolver never gives up in a simulation that ends before the safety exit.
LEMMA GivesUpStep ==
    ASSUME PlannerInv, ResolverGivesUp
    PROVE  PlannerInv'
<1>1. PlanTypeOK /\ AgendaInOrder /\ QueueInOrder /\ PlansApart /\ AskedOnce
    BY DEF PlannerInv
<1>2. /\ Due(ResolverProcess) /\ now' = Head(agenda).at /\ now' > SafetyExit
      /\ agenda' = Tail(agenda)
      /\ cast' = cast /\ todo' = todo /\ wfCounter' = wfCounter /\ queue' = queue
      /\ inHand' = inHand /\ raw' = raw /\ events' = events
    BY DEF ResolverGivesUp
<1>3. /\ now' \in Nat /\ now <= now' /\ now' < cast.until
      /\ agenda' \in Seq(Waiter) /\ InOrder(agenda') /\ NotBefore(Tail(agenda), Head(agenda).at)
    BY <1>1, <1>2, DueIsFirst, Zenon
<1>4. ~Attended'
    <2>1. SafetyExit \in Nat /\ cast.until \in Nat
        BY <1>1, CastTyped, SafetyExitAssumption
    <2>2. \A a, b, c \in Nat : a > b /\ a < c => ~(c <= b)
        OBVIOUS
    <2>3. ~(cast.until <= SafetyExit)
        BY <1>2, <1>3, <2>1, <2>2, Zenon
    <2> QED
        BY <1>2, <2>3, Zenon DEF Attended
<1>5. Agents' = Agents /\ Asked' = Asked
    BY <1>2 DEF Agents, Asked
<1>6. PlanTypeOK'
    BY <1>1, <1>2, <1>3, <1>5 DEF PlanTypeOK
<1>7. AgendaInOrder'
    <2>1. NotBefore(agenda', now')
        BY <1>2, <1>3, Zenon DEF NotBefore
    <2> QED
        BY <1>3, <2>1, Zenon DEF AgendaInOrder
<1>8. QueueInOrder'
    <2>1. \A x \in Int : \A a, b, d \in Nat : x <= a + d /\ a <= b => x <= b + d
        OBVIOUS
    <2>2. now \in Nat /\ cast.resolutionDelay \in Nat
        BY <1>1, CastTyped DEF PlanTypeOK
    <2>3. inHand.target \in Int /\ \A k \in DOMAIN queue : queue[k].target \in Int
        <3>1. inHand \in Dispute \cup {NoDispute} /\ \A k \in DOMAIN queue : queue[k] \in Dispute
            BY <1>1 DEF PlanTypeOK
        <3> QED
            BY <3>1 DEF Dispute, NoDispute
    <2>4. /\ inHand.target <= now' + cast.resolutionDelay
          /\ \A k \in DOMAIN queue : queue[k].target <= now' + cast.resolutionDelay
        BY <1>1, <1>3, <2>1, <2>2, <2>3, Zenon DEF QueueInOrder
    <2> QED
        BY <1>1, <1>2, <2>4 DEF QueueInOrder
<1>9. ResolverLooks' /\ DisputesHeld'
    BY <1>4 DEF ResolverLooks, DisputesHeld
<1>10. PlansApart' /\ AskedOnce'
    BY <1>1, <1>2, <1>5 DEF PlansApart, AskedOnce, Raises
<1>11. ExportedWhenOver'
    <2>1. events = <<>>
        BY <1>2, DueIsNotOver DEF PlannerInv, ExportedWhenOver
    <2> QED
        BY <1>2, <2>1 DEF ExportedWhenOver
<1> QED
    BY <1>6, <1>7, <1>8, <1>9, <1>10, <1>11 DEF PlannerInv

\* Exporting the events, and whatever the replay does, changes nothing else.
LEMMA OtherStep ==
    ASSUME PlannerInv, events' # <<>> => events' = events \/ Over,
           UNCHANGED <<cast, now, agenda, todo, wfCounter, queue, inHand, raw>>
    PROVE  PlannerInv'
<1>1. /\ cast' = cast /\ now' = now /\ agenda' = agenda /\ todo' = todo
      /\ wfCounter' = wfCounter /\ queue' = queue /\ inHand' = inHand /\ raw' = raw
    OBVIOUS
<1>2. Agents' = Agents /\ Asked' = Asked /\ (Over' <=> Over) /\ (Attended' <=> Attended)
    BY <1>1 DEF Agents, Asked, Over, Attended
<1>3. PlanTypeOK'
    BY <1>1, <1>2 DEF PlannerInv, PlanTypeOK
<1>4. AgendaInOrder' /\ QueueInOrder'
    BY <1>1 DEF PlannerInv, AgendaInOrder, QueueInOrder
<1>5. ResolverLooks'
    BY <1>1, <1>2 DEF PlannerInv, ResolverLooks
<1>6. PlansApart' /\ AskedOnce'
    BY <1>1, <1>2 DEF PlannerInv, PlansApart, AskedOnce, Raises
<1>7. DisputesHeld'
    <2>1. \A n \in DOMAIN raw : Waits(raw[n])' <=> Waits(raw[n])
        BY <1>1 DEF Waits, DisputeOf
    <2>2. \A n, k \in DOMAIN raw : AnsweredAt(n, k)' <=> AnsweredAt(n, k)
        BY <1>1 DEF AnsweredAt, Late
    <2> QED
        BY <1>1, <1>2, <2>1, <2>2 DEF PlannerInv, DisputesHeld, Raises
<1>8. ExportedWhenOver'
    BY <1>2 DEF PlannerInv, ExportedWhenOver
<1> QED
    BY <1>3, <1>4, <1>5, <1>6, <1>7, <1>8 DEF PlannerInv

-----------------------------------------------------------------------------
(* The theorems. *)

\* At the start the agents wait, in their order, and after them the resolver.
LEMMA FirstAgenda ==
    ASSUME PlannerInit
    PROVE  /\ agenda \in Seq(Waiter)
           /\ \A k \in DOMAIN agenda : agenda[k].at = 0
           /\ \A j, k \in DOMAIN agenda : agenda[j].who = agenda[k].who => j = k
           /\ cast.resolving => WaitsOnce(agenda, ResolverProcess, 0)
<1> DEFINE N == Len(cast.agents)
           ags == [i \in 1 .. N |-> [who |-> i, at |-> 0]]
           res == IF cast.resolving THEN <<[who |-> ResolverProcess, at |-> 0]>> ELSE <<>>
<1>1. N \in Nat
    BY CastsAssumption DEF PlannerInit, Cast
<1>2. agenda = ags \o res
    BY DEF PlannerInit
<1> HIDE DEF N
<1>3. ags \in Seq(Waiter) /\ Len(ags) = N /\ \A k \in 1 .. N : ags[k] = [who |-> k, at |-> 0]
    <2>1. \A i \in 1 .. N : [who |-> i, at |-> 0] \in Waiter
        BY <1>1 DEF Waiter
    <2> QED
        BY <1>1, <2>1
<1>4. /\ res \in Seq(Waiter) /\ Len(res) = IF cast.resolving THEN 1 ELSE 0
      /\ cast.resolving => res[1] = [who |-> ResolverProcess, at |-> 0]
    <2> DEFINE x == [who |-> ResolverProcess, at |-> 0]
    <2>1. x \in Waiter
        BY DEF Waiter, ResolverProcess
    <2> HIDE DEF x
    <2>2. CASE cast.resolving
        <3>1. res = <<x>>
            BY <2>2 DEF x
        <3>2. <<x>> \in Seq(Waiter) /\ Len(<<x>>) = 1 /\ <<x>>[1] = x
            BY <2>1
        <3> QED
            BY <2>2, <3>1, <3>2, Zenon DEF x
    <2>3. CASE ~cast.resolving
        <3>1. res = <<>>
            BY <2>3
        <3>2. <<>> \in Seq(Waiter) /\ Len(<<>>) = 0
            OBVIOUS
        <3> HIDE DEF res
        <3> QED
            BY <2>3, <3>1, <3>2
    <2> QED
        BY <2>2, <2>3
<1> HIDE DEF ags, res
<1>5. /\ agenda \in Seq(Waiter) /\ Len(agenda) = Len(ags) + Len(res)
      /\ \A k \in 1 .. Len(ags) + Len(res) :
           agenda[k] = IF k <= Len(ags) THEN ags[k] ELSE res[k - Len(ags)]
    BY <1>2, <1>3, <1>4, ConcatProperties
<1>6. DOMAIN agenda = 1 .. N + Len(res)
    BY <1>3, <1>5
<1>7. \A k \in DOMAIN agenda :
        \/ k \in 1 .. N /\ agenda[k] = [who |-> k, at |-> 0]
        \/ /\ cast.resolving /\ k = N + 1
           /\ agenda[k] = [who |-> ResolverProcess, at |-> 0]
    <2> SUFFICES ASSUME NEW k \in DOMAIN agenda
                 PROVE  \/ k \in 1 .. N /\ agenda[k] = [who |-> k, at |-> 0]
                        \/ /\ cast.resolving /\ k = N + 1
                           /\ agenda[k] = [who |-> ResolverProcess, at |-> 0]
        OBVIOUS
    <2>1. CASE k <= N
        BY <1>1, <1>3, <1>4, <1>5, <1>6, <2>1
    <2>2. CASE ~(k <= N)
        <3>1. cast.resolving /\ k = N + 1 /\ k - N = 1 /\ k \in 1 .. N + Len(res)
            BY <1>1, <1>4, <1>6, <2>2
        <3> QED
            BY <1>3, <1>4, <1>5, <2>2, <3>1
    <2> QED
        BY <2>1, <2>2
<1>8. \A k \in DOMAIN agenda : agenda[k].at = 0
    BY <1>7
<1>9. ASSUME cast.resolving
      PROVE  WaitsOnce(agenda, ResolverProcess, 0)
    <2>1. N + 1 \in DOMAIN agenda /\ N + 1 \notin 1 .. N
        BY <1>1, <1>4, <1>6, <1>9
    <2>2. agenda[N + 1] = [who |-> ResolverProcess, at |-> 0]
        BY <1>7, <2>1
    <2>3. \A k \in DOMAIN agenda : agenda[k].who = ResolverProcess => k = N + 1
        BY <1>1, <1>7 DEF ResolverProcess
    <2> QED
        BY <2>1, <2>2, <2>3, Zenon DEF WaitsOnce
<1>10. \A j, k \in DOMAIN agenda : agenda[j].who = agenda[k].who => j = k
    <2>1. \A k \in DOMAIN agenda :
            \/ k \in 1 .. N /\ agenda[k].who = k
            \/ k = N + 1 /\ agenda[k].who = ResolverProcess
        BY <1>7
    <2> QED
        BY <1>1, <2>1 DEF ResolverProcess
<1> QED
    BY <1>5, <1>8, <1>9, <1>10

LEMMA PlannerInitHolds ==
    ASSUME PlannerInit
    PROVE  PlannerInv
<1>1. /\ cast \in Cast /\ now = 0
      /\ todo = [i \in 1 .. Len(cast.agents) |-> <<>>]
      /\ wfCounter = 0 /\ queue = <<>> /\ inHand = NoDispute /\ raw = <<>> /\ events = <<>>
    BY CastsAssumption DEF PlannerInit
<1>2. Agents = 1 .. Len(cast.agents) /\ cast.resolutionDelay \in Nat
    BY <1>1 DEF Agents, Cast
<1>3. /\ agenda \in Seq(Waiter)
      /\ \A k \in DOMAIN agenda : agenda[k].at = 0
      /\ cast.resolving => WaitsOnce(agenda, ResolverProcess, 0)
    BY FirstAgenda
<1>4. PlanTypeOK
    BY <1>1, <1>2, <1>3 DEF PlanTypeOK
<1>5. AgendaInOrder
    BY <1>1, <1>3 DEF AgendaInOrder, InOrder, NotBefore
<1>6. QueueInOrder
    BY <1>1, <1>2 DEF QueueInOrder, NoDispute
<1>7. ResolverLooks
    <2>1. 0 \in Nat /\ 0 <= 0 + 1
        OBVIOUS
    <2>2. DOMAIN queue = {}
        BY <1>1
    <2> QED
        BY <1>1, <1>3, <2>1, <2>2, Zenon DEF ResolverLooks, Attended
<1>8. PlansApart
    <2>1. \A i \in Agents : DOMAIN todo[i] = {}
        BY <1>1, <1>2
    <2> QED
        BY <2>1, Zenon DEF PlansApart
<1>9. DOMAIN queue = {} /\ DOMAIN raw = {}
    BY <1>1
<1>10. AskedOnce
    <2>1. Asked = {NoWf}
        BY <1>1, <1>9 DEF Asked, NoDispute
    <2>2. NoWf < wfCounter
        BY <1>1 DEF NoWf
    <2> QED
        BY <1>9, <2>1, <2>2, Zenon DEF AskedOnce
<1>11. DisputesHeld /\ ExportedWhenOver
    BY <1>1, <1>9 DEF DisputesHeld, ExportedWhenOver
<1> QED
    BY <1>4, <1>5, <1>6, <1>7, <1>8, <1>10, <1>11 DEF PlannerInv

LEMMA PlannerStep ==
    ASSUME PlannerInv, PlannerNext
    PROVE  PlannerInv'
<1>1. DOMAIN todo = Agents
    BY DEF PlannerInv, PlanTypeOK
<1>2. CASE \E i \in DOMAIN todo : Begin(i) \/ Continue(i)
    BY <1>1, <1>2, BeginStep, ContinueStep
<1>3. CASE Resolver
    BY <1>3, ResolverStep
<1>4. CASE ResolverGivesUp
    BY <1>4, GivesUpStep
<1>5. CASE Export
    BY <1>5, OtherStep DEF Export
<1> QED
    BY <1>2, <1>3, <1>4, <1>5 DEF PlannerNext

LEMMA ReplayStep ==
    ASSUME PlannerInv, [ReplayNext]_replayVars
    PROVE  PlannerInv'
<1>1. CASE Planning
    BY <1>1, PlannerStep DEF Planning
<1>2. CASE UNCHANGED planVars
    BY <1>2, OtherStep DEF planVars
<1>3. Planning \/ UNCHANGED planVars
    <2>1. CASE Take
        BY <2>1 DEF Take
    <2>2. CASE Accepted
        BY <2>2 DEF Accepted, Answered
    <2>3. CASE Refused
        BY <2>3 DEF Refused, Answered
    <2>4. CASE Halted
        BY <2>4 DEF Halted, Answered
    <2>5. CASE Finish
        BY <2>5 DEF Finish
    <2>6. CASE UNCHANGED replayVars
        BY <2>6 DEF replayVars
    <2> QED
        BY <2>1, <2>2, <2>3, <2>4, <2>5, <2>6 DEF ReplayNext
<1> QED
    BY <1>1, <1>2, <1>3

\* Every state of a generated scenario's simulation and replay satisfies it.
THEOREM PlannerInvAlways == ReplaySpec => []PlannerInv
<1>1. ReplayInit => PlannerInv
    BY PlannerInitHolds DEF ReplayInit
<1>2. PlannerInv /\ [ReplayNext]_replayVars => PlannerInv'
    BY ReplayStep
<1> QED
    BY <1>1, <1>2, PTL DEF ReplaySpec

\* When the simulation is over, the resolver waits for a time that has not come; a
\* dispute still before it would be due later than the end.
LEMMA HeldIsAnswered ==
    ASSUME PlannerInv, events # <<>>, Attended, NEW n \in DOMAIN raw, Raises(raw[n]),
           Late(raw[n]) < cast.until
    PROVE  \E k \in DOMAIN raw : AnsweredAt(n, k)
<1>1. PlanTypeOK /\ QueueInOrder /\ ResolverLooks /\ DisputesHeld /\ Over
    BY DEF PlannerInv, ExportedWhenOver
<1>2. PICK t \in Nat :
        /\ WaitsOnce(agenda, ResolverProcess, t)
        /\ inHand # NoDispute => t = inHand.target
        /\ inHand = NoDispute =>
             \A k \in DOMAIN queue : t + cast.resolutionDelay <= queue[k].target + 1
    BY <1>1, Zenon DEF ResolverLooks
<1>3. t >= cast.until
    <2>1. PICK r \in DOMAIN agenda : agenda[r] = [who |-> ResolverProcess, at |-> t]
        BY <1>2, Zenon DEF WaitsOnce
    <2>2. agenda[r].at = t
        BY <2>1
    <2> QED
        BY <1>1, <2>2 DEF Over
<1>4. PICK d \in Nat : d = cast.resolutionDelay
    BY <1>1, CastTyped
<1>5. Max({d, 1}) \in Nat /\ d <= Max({d, 1}) /\ 1 <= Max({d, 1})
    BY LateTyped
<1>6. raw[n] \in Entry
    BY <1>1 DEF PlanTypeOK
<1>7. PICK x \in Nat : x = raw[n].at
    BY <1>6 DEF Entry
<1>8. cast.until \in Nat
    BY <1>1, CastTyped
<1>9. x + Max({d, 1}) < cast.until
    BY <1>4, <1>7 DEF Late
<1>10. x + d < t /\ x + 1 < t
    <2>1. \A m, u \in Nat : x + m < u /\ t >= u /\ d <= m /\ 1 <= m => x + d < t /\ x + 1 < t
        BY <1>2, <1>4, <1>7
    <2> QED
        BY <1>3, <1>5, <1>8, <1>9, <2>1, Zenon
<1>11. DisputeOf(raw[n]).target = x + d
    BY <1>4, <1>7 DEF DisputeOf
<1>12. \A y, z \in Nat : y <= z /\ z < y => FALSE
    OBVIOUS
<1>13. inHand # DisputeOf(raw[n])
    <2> SUFFICES ASSUME inHand = DisputeOf(raw[n])
                 PROVE  FALSE
        OBVIOUS
    <2>1. inHand.target = x + d
        BY <1>11
    <2>2. inHand # NoDispute
        BY <1>4, <1>7, <2>1 DEF NoDispute
    <2>3. t = x + d
        BY <1>2, <2>1, <2>2, Zenon
    <2> QED
        BY <1>4, <1>7, <1>10, <2>3
<1>14. \A k \in DOMAIN queue : queue[k] # DisputeOf(raw[n])
    <2> SUFFICES ASSUME NEW k \in DOMAIN queue, queue[k] = DisputeOf(raw[n])
                 PROVE  FALSE
        OBVIOUS
    <2>1. queue[k].target = x + d
        BY <1>11
    <2>2. CASE inHand # NoDispute
        <3>1. t = inHand.target
            BY <1>2, <2>2, Zenon
        <3>2. inHand.target <= queue[k].target
            BY <1>1, Zenon DEF QueueInOrder
        <3>3. t <= x + d
            BY <2>1, <3>1, <3>2, Zenon
        <3> QED
            BY <1>4, <1>7, <1>10, <3>3
    <2>3. CASE inHand = NoDispute
        <3>1. t + d <= x + d + 1
            BY <1>2, <1>4, <2>1, <2>3, Zenon
        <3> QED
            BY <1>4, <1>7, <1>10, <3>1
    <2> QED
        BY <2>2, <2>3
<1>15. Waits(raw[n]) \/ \E k \in DOMAIN raw : AnsweredAt(n, k)
    BY <1>1 DEF DisputesHeld
<1> QED
    BY <1>13, <1>14, <1>15, Zenon DEF Waits

\* Every dispute that can be answered before the end is answered once, its delay later
\* and at the latest at the resolver's next look, however many disputes wait before it.
THEOREM DisputesAlwaysAnswered == ReplaySpec => []DisputesAnswered
<1>1. PlannerInv => DisputesAnswered
    <2> SUFFICES ASSUME PlannerInv, events # <<>>, Attended, NEW n \in DOMAIN raw,
                        Raises(raw[n]), Late(raw[n]) < cast.until
                 PROVE  \E k \in DOMAIN raw :
                          /\ AnsweredAt(n, k)
                          /\ \A j \in DOMAIN raw \ {k} :
                               raw[j].agent = ResolverProcess => raw[j].call.wf # raw[n].call.wf
        BY Zenon DEF DisputesAnswered, Attended, Raises, Late, AnsweredAt
    <2>1. PICK k \in DOMAIN raw : AnsweredAt(n, k)
        BY HeldIsAnswered
    <2>2. raw[k].agent = ResolverProcess /\ raw[k].call.wf = raw[n].call.wf
        BY <2>1 DEF AnsweredAt
    <2>3. \A j \in DOMAIN raw :
            raw[j].agent = ResolverProcess /\ raw[j].call.wf = raw[k].call.wf => j = k
        BY <2>2, Zenon DEF PlannerInv, AskedOnce
    <2>4. \A j \in DOMAIN raw \ {k} :
            raw[j].agent = ResolverProcess => raw[j].call.wf # raw[n].call.wf
        BY <2>2, <2>3
    <2> QED
        BY <2>1, <2>4
<1> QED
    BY <1>1, PlannerInvAlways, PTL

-----------------------------------------------------------------------------
(* The ids the counter predicts, and the escrows the replay makes.           *)

IsCreation(e) == e.call.action = "create_escrow"

\* What an agent sends, by its kind.
AgentCall(i, call) ==
    IF Creates(cast.agents[i])
    THEN \/ call.action = "create_escrow" /\ call.to \in Addr /\ call.wf = NoWf
         \/ call.action \in {"release", "raise_dispute", "auto_cancel_disputed"}
    ELSE call.action = "execute_resolution"

CallsOfTheirKind ==
    /\ \A n \in DOMAIN raw :
         \/ raw[n].agent = ResolverProcess /\ raw[n].call.action = "execute_resolution"
         \/ raw[n].agent \in Agents /\ AgentCall(raw[n].agent, raw[n].call)
    /\ \A i \in Agents : \A k \in DOMAIN todo[i] :
         AgentCall(i, todo[i][k].call) /\ ~IsCreation(todo[i][k])

\* Every process waits for one time.
WaitsApart(ag) == \A j, k \in DOMAIN ag : ag[j].who = ag[k].who => j = k

\* An agent that waits and has nothing left of a plan has not begun.
BegunOnce ==
    /\ WaitsApart(agenda)
    /\ \A k \in DOMAIN agenda : \A i \in Agents :
         agenda[k].who = i /\ todo[i] = <<>> => \A n \in DOMAIN raw : raw[n].agent # i

EmittedInOrder ==
    /\ \A m, n \in DOMAIN raw : m <= n => raw[m].at <= raw[n].at
    /\ \A n \in DOMAIN raw : raw[n].at <= now

\* The events are the emitted actions, in the order in which they were emitted.
SameEvents ==
    /\ DOMAIN events = DOMAIN raw /\ Len(events) = Len(raw)
    /\ \A n \in DOMAIN raw : /\ events[n].agent = raw[n].agent
                             /\ events[n].call = raw[n].call
                             /\ events[n].at \in Nat

Exported == events # <<>> => SameEvents

\* made[k] is the place of the action that creates the escrow predicted to be k; all
\* that its agent does besides is about k.
Predicts(made) ==
    /\ made \in [0 .. wfCounter - 1 -> DOMAIN raw]
    /\ \A j, k \in 0 .. wfCounter - 1 : j < k => made[j] < made[k]
    /\ \A n \in DOMAIN raw : IsCreation(raw[n]) <=> \E k \in 0 .. wfCounter - 1 : made[k] = n
    /\ \A k \in 0 .. wfCounter - 1 : \A n \in DOMAIN raw :
         raw[n].agent = raw[made[k]].agent => n = made[k] \/ raw[n].call.wf = k
    /\ \A k \in 0 .. wfCounter - 1 : \A i \in Agents : \A l \in DOMAIN todo[i] :
         i = raw[made[k]].agent => todo[i][l].call.wf = k

EventsInv == CallsOfTheirKind /\ BegunOnce /\ EmittedInOrder /\ Exported

-----------------------------------------------------------------------------
(* The inductive invariant of the replay.                                    *)

\* Every creation replayed so far was accepted.
CreationsAccepted ==
    \A n \in DOMAIN results : IsCreation(events[n]) => results[n] = "ok"

Replies == {"ok", "rejected", "invariant_violated"}

\* The escrows that exist are those predicted by the creations replayed.
Fulfils(made) ==
    CreationsAccepted =>
        \A w \in Workflows :
            /\ Exists(w) <=> w < wfCounter /\ made[w] <= Len(results)
            /\ Exists(w) => transfers[w].from = Sender(raw[made[w]])

WorldKept ==
    /\ TypeInv
    /\ BlockTime \in Nat
    /\ results \in Seq(Replies)
    /\ Len(results) <= Len(events)
    /\ taken => events # <<>> /\ Len(results) < Len(events)
    /\ \A w \in Workflows : Exists(w) => customResolver[w] = cast.resolver

\* An agent that takes a guess at a verdict and is not the resolver.
Outsider(e) == Strategy(e) = "AttackingResolver" /\ Sender(e) # cast.resolver

OutsidersOut == \A n \in DOMAIN results : Outsider(events[n]) => results[n] # "ok"

ReplayInv ==
    /\ PlannerInv
    /\ EventsInv
    /\ WorldKept
    /\ OutsidersOut
    /\ \E made : Predicts(made) /\ Fulfils(made)

-----------------------------------------------------------------------------
(* The plans, by the kind of the agent. *)

LEMMA AgentTyped ==
    ASSUME PlanTypeOK, NEW i \in Agents
    PROVE  /\ cast.agents[i].strategy \in {"HonestBuyer", "AttackingBuyer", "AttackingResolver",
                                           "GriefingBuyer", "OpportunisticBuyer"}
           /\ cast.agents[i].addr \in Addr /\ cast.agents[i].to \in Addr
           /\ cast.agents[i].amount \in Nat /\ cast.agents[i].delay \in Nat
           /\ cast.resolver \in Addr /\ cast.maxDispute \in Nat
<1> DEFINE S == [ strategy : {"HonestBuyer", "AttackingBuyer", "AttackingResolver",
                              "GriefingBuyer", "OpportunisticBuyer"},
                  addr : Addr, to : Addr, amount : Nat, delay : Nat ]
<1>1. cast.agents \in Seq(S) /\ cast.resolver \in Addr /\ cast.maxDispute \in Nat
    BY DEF PlanTypeOK, Cast
<1> HIDE DEF S
<1>2. cast.agents[i] \in S
    BY <1>1 DEF Agents
<1> QED
    BY <1>1, <1>2 DEF S

\* A plan creates one escrow, at once, and is about that one besides; that of an agent
\* that creates none guesses at a verdict.
PlanOfKind(list, i) ==
    /\ list \in Seq(Planned)
    /\ 1 \in DOMAIN list
    /\ \A k \in DOMAIN list : AgentCall(i, list[k].call)
    /\ \A k \in DOMAIN list : IsCreation(list[k]) <=> k = 1 /\ Creates(cast.agents[i])
    /\ Creates(cast.agents[i]) =>
         /\ list[1].delay = 0
         /\ \A k \in DOMAIN list : k # 1 => list[k].call.wf = wfCounter

LEMMA CreationOfKind ==
    ASSUME PlanTypeOK, NEW i \in Agents, Creates(cast.agents[i])
    PROVE  LET first == Creation(cast.agents[i])
           IN  /\ first \in Planned /\ first.delay = 0
               /\ IsCreation(first) /\ AgentCall(i, first.call)
<1> DEFINE c == cast.agents[i]
           first == Creation(c)
           call == [NoCall EXCEPT !.action = "create_escrow", !.to = c.to,
                                  !.amount = c.amount]
<1>1. c.to \in Addr /\ c.amount \in Nat
    BY AgentTyped
<1>2. NoCall \in Call
    BY CallTyped
<1>3. PICK d \in Call, to \in Addr, amount \in Nat : d = NoCall /\ to = c.to /\ amount = c.amount
    BY <1>1, <1>2
<1>4. call \in Call /\ call.action = "create_escrow" /\ call.to = c.to /\ call.wf = NoCall.wf
    <2>1. call = [d EXCEPT !.action = "create_escrow", !.to = to, !.amount = amount]
        BY <1>3
    <2> HIDE DEF call
    <2>2. call \in Call /\ call.action = "create_escrow" /\ call.to = to /\ call.wf = d.wf
        BY <2>1 DEF Call, Actions, OptAddr
    <2> QED
        BY <1>3, <2>2
<1>10. NoCall.wf = NoWf
    BY DEF NoCall
<1>5. first = [delay |-> 0, call |-> call]
    BY DEF Creation, After
<1> HIDE DEF first, call
<1>6. first \in Planned /\ first.delay = 0 /\ first.call = call
    BY <1>4, <1>5 DEF Planned
<1>7. call.to \in Addr
    BY <1>1, <1>4
<1> HIDE DEF c
<1>8. IsCreation(first)
    BY <1>4, <1>6 DEF IsCreation
<1>9. AgentCall(i, first.call)
    BY <1>4, <1>6, <1>7, <1>10 DEF AgentCall
<1> QED
    BY <1>6, <1>8, <1>9 DEF first, c

\* An action after the creation.
LEMMA LaterOfKind ==
    ASSUME PlanTypeOK, NEW i \in Agents, Creates(cast.agents[i]), NEW d \in Nat,
           NEW action \in {"release", "raise_dispute", "auto_cancel_disputed"}
    PROVE  LET a == After(d, On(action, wfCounter))
           IN  /\ a \in Planned /\ a.call.wf = wfCounter
               /\ ~IsCreation(a) /\ AgentCall(i, a.call)
<1> DEFINE a == After(d, On(action, wfCounter))
<1>1. wfCounter \in Int /\ action \in Actions
    BY DEF PlanTypeOK, Actions
<1>2. /\ On(action, wfCounter) \in Call /\ On(action, wfCounter).action = action
      /\ On(action, wfCounter).wf = wfCounter
    BY <1>1, CallTyped
<1>3. a \in Planned /\ a.call = On(action, wfCounter)
    BY <1>2 DEF After, Planned
<1>4. action # "create_escrow"
    OBVIOUS
<1> HIDE DEF a
<1> QED
    BY <1>2, <1>3, <1>4 DEF IsCreation, AgentCall, a

LEMMA TwoStepKind ==
    ASSUME PlanTypeOK, NEW i \in Agents, Creates(cast.agents[i]), NEW d \in Nat,
           NEW action \in {"release", "raise_dispute", "auto_cancel_disputed"}
    PROVE  PlanOfKind(<<Creation(cast.agents[i]), After(d, On(action, wfCounter))>>, i)
<1> DEFINE first == Creation(cast.agents[i])
           a == After(d, On(action, wfCounter))
           list == <<first, a>>
<1>1. /\ first \in Planned /\ first.delay = 0
      /\ IsCreation(first) /\ AgentCall(i, first.call)
    BY CreationOfKind, Zenon
<1>2. /\ a \in Planned /\ a.call.wf = wfCounter
      /\ ~IsCreation(a) /\ AgentCall(i, a.call)
    BY LaterOfKind, Zenon
<1> HIDE DEF first, a
<1>3. list \in Seq(Planned) /\ DOMAIN list = {1, 2} /\ list[1] = first /\ list[2] = a
    BY <1>1, <1>2
<1> HIDE DEF list
<1>4. \A k \in DOMAIN list : k = 1 \/ (k = 2 /\ 2 # 1)
    BY <1>3
<1>5. PlanOfKind(list, i)
    BY <1>1, <1>2, <1>3, <1>4, Zenon DEF PlanOfKind
<1> QED
    BY <1>5 DEF list, first, a

LEMMA PlansOfTheirKind ==
    ASSUME PlanTypeOK, NEW i \in Agents, NEW list \in PlansOf(cast.agents[i], wfCounter)
    PROVE  PlanOfKind(list, i)
<1> DEFINE c == cast.agents[i]
           first == Creation(c)
<1>1. /\ c.strategy \in {"HonestBuyer", "AttackingBuyer", "AttackingResolver",
                         "GriefingBuyer", "OpportunisticBuyer"}
      /\ c.delay \in Nat /\ cast.maxDispute \in Nat /\ wfCounter \in Nat
    BY AgentTyped DEF PlanTypeOK
<1>2. list \in PlansOf(c, wfCounter)
    OBVIOUS
<1> HIDE DEF c, first
<1>3. CASE c.strategy = "HonestBuyer"
    <2>1. list = <<first, After(c.delay, On("release", wfCounter))>>
        BY <1>2, <1>3 DEF PlansOf, HonestBuyerPlans, first
    <2>2. Creates(cast.agents[i])
        BY <1>3 DEF Creates, c
    <2> QED
        BY <1>1, <2>1, <2>2, TwoStepKind DEF first, c
<1>4. CASE c.strategy = "AttackingBuyer"
    <2>1. list = <<first, After(c.delay, On("raise_dispute", wfCounter))>>
        BY <1>2, <1>4 DEF PlansOf, AttackingBuyerPlans, first
    <2>2. Creates(cast.agents[i])
        BY <1>4 DEF Creates, c
    <2> QED
        BY <1>1, <2>1, <2>2, TwoStepKind DEF first, c
<1>5. CASE c.strategy = "OpportunisticBuyer"
    <2>1. PICK choice \in {"raise_dispute", "release"} :
              list = <<first, After(c.delay, On(choice, wfCounter))>>
        BY <1>2, <1>5 DEF PlansOf, OpportunisticBuyerPlans, first
    <2>2. Creates(cast.agents[i])
        BY <1>5 DEF Creates, c
    <2> QED
        BY <1>1, <2>1, <2>2, TwoStepKind DEF first, c
<1>6. CASE c.strategy = "AttackingResolver"
    <2> DEFINE target == IF wfCounter > 0 THEN wfCounter - 1 ELSE 0
    <2>1. PICK b \in BOOLEAN : list = <<After(2, Resolve(target, b))>>
        BY <1>2, <1>6 DEF PlansOf, AttackingResolverPlans
    <2>2. target \in Int
        BY <1>1
    <2> HIDE DEF target
    <2>3. Resolve(target, b) \in Call /\ Resolve(target, b).action = "execute_resolution"
        BY <2>2, CallTyped
    <2> DEFINE a == After(2, Resolve(target, b))
    <2>4. a \in Planned /\ a.call = Resolve(target, b)
        BY <2>3 DEF After, Planned
    <2>5. ~Creates(cast.agents[i])
        BY <1>6 DEF Creates, c
    <2>6. ~IsCreation(a) /\ AgentCall(i, a.call)
        BY <2>3, <2>4, <2>5 DEF IsCreation, AgentCall
    <2>7. list = <<a>>
        BY <2>1
    <2> HIDE DEF a
    <2>8. list \in Seq(Planned) /\ DOMAIN list = {1} /\ list[1] = a
        BY <2>4, <2>7
    <2> QED
        BY <2>5, <2>6, <2>8 DEF PlanOfKind
<1>7. CASE c.strategy = "GriefingBuyer"
    <2> DEFINE a == After(1, On("raise_dispute", wfCounter))
               b == After(cast.maxDispute + 1, On("auto_cancel_disputed", wfCounter))
    <2>1. list = <<first, a, b>>
        BY <1>2, <1>7 DEF PlansOf, GriefingBuyerPlans, first
    <2>2. Creates(cast.agents[i])
        BY <1>7 DEF Creates, c
    <2>3. cast.maxDispute + 1 \in Nat /\ 1 \in Nat
        BY <1>1
    <2>4. /\ first \in Planned /\ first.delay = 0
          /\ IsCreation(first) /\ AgentCall(i, first.call)
        BY <2>2, CreationOfKind, Zenon DEF first, c
    <2>5. /\ a \in Planned /\ a.call.wf = wfCounter
          /\ ~IsCreation(a) /\ AgentCall(i, a.call)
        BY <2>2, <2>3, LaterOfKind
    <2>6. /\ b \in Planned /\ b.call.wf = wfCounter
          /\ ~IsCreation(b) /\ AgentCall(i, b.call)
        BY <2>2, <2>3, LaterOfKind
    <2> HIDE DEF a, b
    <2>7. list \in Seq(Planned) /\ DOMAIN list = {1, 2, 3}
          /\ list[1] = first /\ list[2] = a /\ list[3] = b
        BY <2>1, <2>4, <2>5, <2>6
    <2>8. \A k \in DOMAIN list : k = 1 \/ (k = 2 /\ 2 # 1) \/ (k = 3 /\ 3 # 1)
        BY <2>7
    <2> QED
        BY <2>2, <2>4, <2>5, <2>6, <2>7, <2>8, Zenon DEF PlanOfKind
<1> QED
    BY <1>1, <1>3, <1>4, <1>5, <1>6, <1>7

-----------------------------------------------------------------------------
(* The order of the events, and the processes that wait. *)

\* What was emitted in the order of time is exported in the order it was emitted.
LEMMA ByTimeKeeps ==
    ASSUME NEW s \in Seq(Entry), \A m, n \in DOMAIN s : m <= n => s[m].at <= s[n].at
    PROVE  ByTime(s) = [k \in DOMAIN s |-> s[k]]
<1> DEFINE before(i) == {j \in DOMAIN s : s[j].at < s[i].at
                                         \/ (s[j].at = s[i].at /\ j < i)}
<1>1. DOMAIN s = 1 .. Len(s) /\ Len(s) \in Nat
    BY LenProperties
<1>2. \A n \in DOMAIN s : s[n].at \in Nat
    <2>1. \A n \in DOMAIN s : s[n] \in Entry
        OBVIOUS
    <2> QED
        BY <2>1 DEF Entry
<1>3. \A i \in DOMAIN s : before(i) = 1 .. i - 1
    <2> SUFFICES ASSUME NEW i \in DOMAIN s, NEW j
                 PROVE  j \in before(i) <=> j \in 1 .. i - 1
        OBVIOUS
    <2>1. CASE j \in DOMAIN s
        <3>1. j < i \/ i <= j
            BY <1>1, <2>1
        <3>2. CASE j < i
            <4>1. s[j].at <= s[i].at /\ j \in 1 .. i - 1
                BY <1>1, <2>1, <3>2
            <4> QED
                BY <1>2, <2>1, <3>2, <4>1
        <3>3. CASE i <= j
            <4>1. s[i].at <= s[j].at /\ j \notin 1 .. i - 1 /\ ~(j < i)
                BY <1>1, <2>1, <3>3
            <4> QED
                BY <1>2, <2>1, <4>1
        <3> QED
            BY <3>1, <3>2, <3>3
    <2>2. CASE j \notin DOMAIN s
        BY <1>1, <2>2
    <2> QED
        BY <2>1, <2>2
<1>4. \A i \in DOMAIN s : Cardinality(before(i)) = i - 1
    <2> SUFFICES ASSUME NEW i \in DOMAIN s
                 PROVE  Cardinality(before(i)) = i - 1
        OBVIOUS
    <2>1. i \in Int /\ i - 1 \in Int /\ ~(1 > i - 1 + 1) /\ (1 > i - 1 => i - 1 = 0)
          /\ i - 1 - 1 + 1 = i - 1
        BY <1>1
    <2>2. Cardinality(1 .. i - 1) = i - 1
        BY <2>1, FS_Interval
    <2> QED
        BY <1>3, <2>2
<1>5. ASSUME NEW k \in DOMAIN s
      PROVE  (CHOOSE i \in DOMAIN s : Cardinality(before(i)) = k - 1) = k
    <2>1. \A i \in DOMAIN s : Cardinality(before(i)) = k - 1 <=> i = k
        BY <1>1, <1>4
    <2> HIDE DEF before
    <2>2. \E i \in DOMAIN s : Cardinality(before(i)) = k - 1
        BY <2>1
    <2>3. (CHOOSE i \in DOMAIN s : Cardinality(before(i)) = k - 1) \in DOMAIN s
          /\ Cardinality(before(CHOOSE i \in DOMAIN s : Cardinality(before(i)) = k - 1)) = k - 1
        BY <2>2
    <2> QED
        BY <2>1, <2>3
<1> DEFINE place(k) == CHOOSE i \in DOMAIN s : Cardinality(before(i)) = k - 1
<1>6. \A k \in DOMAIN s : place(k) = k
    BY <1>5
<1>7. ByTime(s) = [k \in DOMAIN s |-> s[place(k)]]
    BY Zenon DEF ByTime
<1> HIDE DEF place
<1> QED
    BY <1>6, <1>7

\* The other processes than the one that is resumed.
LEMMA TailApart ==
    ASSUME NEW ag \in Seq(Waiter), ag # <<>>, WaitsApart(ag)
    PROVE  /\ WaitsApart(Tail(ag))
           /\ \A k \in DOMAIN Tail(ag) : /\ Tail(ag)[k].who # Head(ag).who
                                         /\ \E j \in DOMAIN ag : Tail(ag)[k] = ag[j]
<1>1. /\ Tail(ag) \in Seq(Waiter) /\ Len(Tail(ag)) = Len(ag) - 1
      /\ \A k \in 1 .. Len(Tail(ag)) : Tail(ag)[k] = ag[k + 1]
      /\ Head(ag) = ag[1]
    BY HeadTailProperties
<1> DEFINE t == Tail(ag)
<1>2. /\ DOMAIN ag = 1 .. Len(ag) /\ Len(ag) \in Nat /\ Len(ag) > 0
      /\ DOMAIN t = 1 .. Len(ag) - 1
    BY <1>1, EmptySeq
<1> HIDE DEF t
<1>3. \A k \in DOMAIN t : k + 1 \in DOMAIN ag /\ k + 1 # 1 /\ t[k] = ag[k + 1] /\ 1 \in DOMAIN ag
    BY <1>1, <1>2 DEF t
<1>4. \A j, k \in DOMAIN t : j + 1 = k + 1 => j = k
    BY <1>2
<1>5. WaitsApart(t)
    BY <1>3, <1>4 DEF WaitsApart
<1>6. \A k \in DOMAIN t : t[k].who # ag[1].who /\ \E j \in DOMAIN ag : t[k] = ag[j]
    BY <1>3 DEF WaitsApart
<1> QED
    BY <1>1, <1>5, <1>6 DEF t

\* A process that did not wait joins them.
LEMMA WaitingApart ==
    ASSUME NEW ag \in Seq(Waiter), NEW w \in Nat, NEW t \in Nat, WaitsApart(ag),
           \A k \in DOMAIN ag : ag[k].who # w
    PROVE  /\ WaitsApart(Waiting(ag, w, t))
           /\ \A k \in DOMAIN Waiting(ag, w, t) :
                \/ Waiting(ag, w, t)[k].who = w
                \/ \E j \in DOMAIN ag : Waiting(ag, w, t)[k] = ag[j]
<1> DEFINE new == Waiting(ag, w, t)
<1>0. PICK p \in 1 .. Len(ag) + 1 : EntersAt(p, new, ag, w, t)
    BY WaitingPlaces, Zenon
<1> HIDE DEF new
<1>1. /\ new \in Seq(Waiter)
      /\ Len(new) = Len(ag) + 1
      /\ new[p] = [who |-> w, at |-> t]
      /\ \A k \in 1 .. Len(ag) : k < p => new[k] = ag[k]
      /\ \A k \in p + 1 .. Len(ag) + 1 : new[k] = ag[k - 1]
    BY <1>0, Zenon DEF EntersAt
<1>2. /\ DOMAIN ag = 1 .. Len(ag) /\ Len(ag) \in Nat
      /\ DOMAIN new = 1 .. Len(ag) + 1
    BY <1>1
<1> DEFINE old(k) == IF k < p THEN k ELSE k - 1
<1>3. new[p].who = w
    BY <1>1
<1>4. \A k \in DOMAIN new : k # p => old(k) \in DOMAIN ag /\ new[k] = ag[old(k)]
    BY <1>1, <1>2
<1>5. \A j, k \in DOMAIN new : j # p /\ k # p /\ old(j) = old(k) => j = k
    BY <1>2
<1> HIDE DEF old
<1>6. \A k \in DOMAIN new : k # p => new[k].who # w
    BY <1>4
<1>7. ASSUME NEW j \in DOMAIN new, NEW k \in DOMAIN new, new[j].who = new[k].who
      PROVE  j = k
    <2>1. CASE j = p \/ k = p
        BY <1>3, <1>6, <1>7, <2>1
    <2>2. CASE j # p /\ k # p
        <3>1. old(j) = old(k)
            BY <1>4, <1>7, <2>2 DEF WaitsApart
        <3> QED
            BY <1>5, <2>2, <3>1
    <2> QED
        BY <2>1, <2>2
<1> QED
    BY <1>3, <1>4, <1>7 DEF WaitsApart, new

\* What a process emits comes after what was emitted.
Emits(who) ==
    /\ raw' \in Seq(Entry)
    /\ \A n \in DOMAIN raw : n \in DOMAIN raw' /\ raw'[n] = raw[n]
    /\ \A n \in DOMAIN raw' : n \notin DOMAIN raw => raw'[n].at = now' /\ raw'[n].agent = who

LEMMA OrderKept ==
    ASSUME PlanTypeOK, EmittedInOrder, now' \in Nat, now <= now', NEW who, Emits(who)
    PROVE  EmittedInOrder'
<1>1. /\ raw \in Seq(Entry) /\ raw' \in Seq(Entry) /\ now \in Nat
      /\ \A n \in DOMAIN raw : n \in DOMAIN raw' /\ raw'[n] = raw[n]
      /\ \A n \in DOMAIN raw' : n \notin DOMAIN raw => raw'[n].at = now'
    BY DEF PlanTypeOK, Emits
<1>2. /\ DOMAIN raw = 1 .. Len(raw) /\ Len(raw) \in Nat
      /\ DOMAIN raw' = 1 .. Len(raw') /\ Len(raw') \in Nat
    BY <1>1, LenProperties
<1>3. \A n \in DOMAIN raw : raw[n].at \in Nat
    <2>1. \A n \in DOMAIN raw : raw[n] \in Entry
        BY <1>1
    <2> QED
        BY <2>1 DEF Entry
<1>4. PICK t \in Nat : t = now'
    OBVIOUS
<1>5. \A x \in Nat : x <= now => x <= t
    BY <1>1, <1>4
<1>6. \A n \in DOMAIN raw' : raw'[n].at <= t /\ (n \notin DOMAIN raw => raw'[n].at = t)
    BY <1>1, <1>3, <1>4, <1>5 DEF EmittedInOrder
<1>7. \A m, n \in DOMAIN raw' : m <= n /\ n \in DOMAIN raw => m \in DOMAIN raw
    BY <1>2
<1>8. ASSUME NEW m \in DOMAIN raw', NEW n \in DOMAIN raw', m <= n
      PROVE  raw'[m].at <= raw'[n].at
    <2>1. CASE n \in DOMAIN raw
        <3>1. m \in DOMAIN raw
            BY <1>7, <1>8, <2>1
        <3> QED
            BY <1>1, <1>8, <2>1, <3>1 DEF EmittedInOrder
    <2>2. CASE n \notin DOMAIN raw
        BY <1>6, <2>2
    <2> QED
        BY <2>1, <2>2
<1> QED
    BY <1>4, <1>6, <1>8 DEF EmittedInOrder

-----------------------------------------------------------------------------
(* What a process does to what was emitted and to what is planned. *)

\* The process emits calls of C, and has calls of C left; the others' plans stay.
Follows(who, C) ==
    /\ Emits(who)
    /\ \A n \in DOMAIN raw' : n \notin DOMAIN raw => raw'[n].call \in C
    /\ \A j \in Agents : \A l \in DOMAIN todo'[j] :
         \/ j = who /\ todo'[j][l].call \in C
         \/ l \in DOMAIN todo[j] /\ todo'[j][l] = todo[j][l]
    /\ cast' = cast

LEMMA KindsKept ==
    ASSUME CallsOfTheirKind, NEW who, NEW C, Follows(who, C),
           \/ who = ResolverProcess /\ \A c \in C : c.action = "execute_resolution"
           \/ who \in Agents /\ \A c \in C : AgentCall(who, c),
           \A j \in Agents : \A l \in DOMAIN todo'[j] :
               j = who /\ l \in DOMAIN todo'[j] => ~IsCreation(todo'[j][l]),
           ResolverProcess \notin Agents
    PROVE  CallsOfTheirKind'
<1>1. /\ Agents' = Agents
      /\ \A j : \A c : AgentCall(j, c)' <=> AgentCall(j, c)
    BY DEF Follows, Agents, AgentCall
<1>2. ASSUME NEW n \in DOMAIN raw'
      PROVE  \/ raw'[n].agent = ResolverProcess /\ raw'[n].call.action = "execute_resolution"
             \/ raw'[n].agent \in Agents /\ AgentCall(raw'[n].agent, raw'[n].call)
    <2>1. CASE n \in DOMAIN raw
        <3>1. raw'[n] = raw[n]
            BY <2>1, Zenon DEF Follows, Emits
        <3> QED
            BY <2>1, <3>1 DEF CallsOfTheirKind
    <2>2. CASE n \notin DOMAIN raw
        <3>1. raw'[n].agent = who /\ raw'[n].call \in C
            BY <2>2, Zenon DEF Follows, Emits
        <3> QED
            BY <3>1
    <2> QED
        BY <2>1, <2>2
<1>3. ASSUME NEW j \in Agents, NEW l \in DOMAIN todo'[j]
      PROVE  AgentCall(j, todo'[j][l].call) /\ ~IsCreation(todo'[j][l])
    <2>1. CASE j = who /\ todo'[j][l].call \in C
        BY <2>1
    <2>2. CASE l \in DOMAIN todo[j] /\ todo'[j][l] = todo[j][l]
        BY <2>2 DEF CallsOfTheirKind
    <2> QED
        BY <2>1, <2>2, Zenon DEF Follows
<1> QED
    BY <1>1, <1>2, <1>3, Zenon DEF CallsOfTheirKind, IsCreation

\* A process that creates no escrow changes no id.
LEMMA PredictionsKept ==
    ASSUME NEW made, Predicts(made), NEW who, NEW C, Follows(who, C),
           wfCounter' = wfCounter,
           \A c \in C : c.action # "create_escrow",
           \A k \in 0 .. wfCounter - 1 : raw[made[k]].agent = who => \A c \in C : c.wf = k
    PROVE  Predicts(made)'
<1> DEFINE Ids == 0 .. wfCounter - 1
<1>1. /\ made \in [Ids -> DOMAIN raw]
      /\ \A j, k \in Ids : j < k => made[j] < made[k]
      /\ \A n \in DOMAIN raw : IsCreation(raw[n]) <=> \E k \in Ids : made[k] = n
      /\ \A k \in Ids : \A n \in DOMAIN raw :
           raw[n].agent = raw[made[k]].agent => n = made[k] \/ raw[n].call.wf = k
      /\ \A k \in Ids : \A i \in Agents : \A l \in DOMAIN todo[i] :
           i = raw[made[k]].agent => todo[i][l].call.wf = k
    BY Zenon DEF Predicts
<1>2. /\ \A n \in DOMAIN raw : n \in DOMAIN raw' /\ raw'[n] = raw[n]
      /\ \A n \in DOMAIN raw' : n \notin DOMAIN raw => raw'[n].agent = who /\ raw'[n].call \in C
      /\ \A j \in Agents : \A l \in DOMAIN todo'[j] :
           \/ j = who /\ todo'[j][l].call \in C
           \/ l \in DOMAIN todo[j] /\ todo'[j][l] = todo[j][l]
      /\ Agents' = Agents
    BY DEF Follows, Emits, Agents
<1>3. \A k \in Ids : raw[made[k]].agent = who => \A c \in C : c.wf = k
    OBVIOUS
<1>4. 0 .. wfCounter' - 1 = Ids
    OBVIOUS
<1> HIDE DEF Ids
<1>5. \A k \in Ids : made[k] \in DOMAIN raw /\ raw'[made[k]] = raw[made[k]]
    BY <1>1, <1>2
<1>6. made \in [Ids -> DOMAIN raw']
    BY <1>1, <1>2
<1>7. ASSUME NEW n \in DOMAIN raw'
      PROVE  IsCreation(raw'[n]) <=> \E k \in Ids : made[k] = n
    <2>1. CASE n \in DOMAIN raw
        BY <1>1, <1>2, <2>1
    <2>2. CASE n \notin DOMAIN raw
        BY <1>2, <1>5, <2>2 DEF IsCreation
    <2> QED
        BY <2>1, <2>2
<1>8. ASSUME NEW k \in Ids, NEW n \in DOMAIN raw', raw'[n].agent = raw'[made[k]].agent
      PROVE  n = made[k] \/ raw'[n].call.wf = k
    <2>1. CASE n \in DOMAIN raw
        BY <1>1, <1>2, <1>5, <1>8, <2>1
    <2>2. CASE n \notin DOMAIN raw
        BY <1>2, <1>3, <1>5, <1>8, <2>2
    <2> QED
        BY <2>1, <2>2
<1>9. ASSUME NEW k \in Ids, NEW i \in Agents, NEW l \in DOMAIN todo'[i],
             i = raw'[made[k]].agent
      PROVE  todo'[i][l].call.wf = k
    <2>1. i = raw[made[k]].agent
        BY <1>5, <1>9
    <2>2. CASE i = who /\ todo'[i][l].call \in C
        BY <1>3, <2>1, <2>2
    <2>3. CASE l \in DOMAIN todo[i] /\ todo'[i][l] = todo[i][l]
        BY <1>1, <2>1, <2>3
    <2> QED
        BY <1>2, <2>2, <2>3, Zenon
<1> QED
    BY <1>1, <1>2, <1>4, <1>6, <1>7, <1>8, <1>9 DEF Predicts, IsCreation

\* A process that creates an escrow, having emitted nothing before, is the next.
LEMMA PredictionAdded ==
    ASSUME PlanTypeOK, NEW made, Predicts(made), NEW who, NEW C, NEW first, Emits(who),
           wfCounter' = wfCounter + 1,
           \A n \in DOMAIN raw : raw[n].agent # who,
           first \in DOMAIN raw', first \notin DOMAIN raw, IsCreation(raw'[first]),
           \A n \in DOMAIN raw' : n \notin DOMAIN raw /\ n # first => raw'[n].call \in C,
           \A j \in Agents : \A l \in DOMAIN todo'[j] :
             \/ j = who /\ todo'[j][l].call \in C
             \/ j # who /\ l \in DOMAIN todo[j] /\ todo'[j][l] = todo[j][l],
           cast' = cast,
           \A c \in C : c.action # "create_escrow" /\ c.wf = wfCounter
    PROVE  \E m : Predicts(m)'
<1> DEFINE Ids == 0 .. wfCounter - 1
           NewIds == 0 .. wfCounter' - 1
           m == [k \in NewIds |-> IF k = wfCounter THEN first ELSE made[k]]
<1>1. /\ made \in [Ids -> DOMAIN raw]
      /\ \A j, k \in Ids : j < k => made[j] < made[k]
      /\ \A n \in DOMAIN raw : IsCreation(raw[n]) <=> \E k \in Ids : made[k] = n
      /\ \A k \in Ids : \A n \in DOMAIN raw :
           raw[n].agent = raw[made[k]].agent => n = made[k] \/ raw[n].call.wf = k
      /\ \A k \in Ids : \A i \in Agents : \A l \in DOMAIN todo[i] :
           i = raw[made[k]].agent => todo[i][l].call.wf = k
    BY Zenon DEF Predicts
<1>2. /\ raw' \in Seq(Entry)
      /\ \A n \in DOMAIN raw : n \in DOMAIN raw' /\ raw'[n] = raw[n]
      /\ \A n \in DOMAIN raw' : n \notin DOMAIN raw => raw'[n].agent = who
      /\ Agents' = Agents
    BY DEF Emits, Agents
<1>3. /\ wfCounter \in NewIds /\ wfCounter \notin Ids
      /\ \A k \in NewIds : k # wfCounter => k \in Ids
      /\ \A k \in Ids : k \in NewIds /\ k # wfCounter
      /\ \A j, k \in NewIds : j < k => j \in Ids
    BY DEF PlanTypeOK
<1>4. \A n \in DOMAIN raw : n < first
    <2>1. /\ DOMAIN raw = 1 .. Len(raw) /\ Len(raw) \in Nat
          /\ DOMAIN raw' = 1 .. Len(raw') /\ Len(raw') \in Nat
        BY <1>2, LenProperties DEF PlanTypeOK
    <2> QED
        BY <2>1
<1> HIDE DEF Ids, NewIds
<1>5. /\ DOMAIN m = NewIds /\ m[wfCounter] = first
      /\ \A k \in Ids : m[k] = made[k] /\ made[k] \in DOMAIN raw /\ raw'[made[k]] = raw[made[k]]
    BY <1>1, <1>2, <1>3
<1>6. m \in [NewIds -> DOMAIN raw']
    BY <1>1, <1>2, <1>3
<1> HIDE DEF m
<1>7. ASSUME NEW j \in NewIds, NEW k \in NewIds, j < k
      PROVE  m[j] < m[k]
    <2>1. j \in Ids
        BY <1>3, <1>7
    <2>2. CASE k = wfCounter
        BY <1>4, <1>5, <2>1, <2>2
    <2>3. CASE k # wfCounter
        BY <1>1, <1>3, <1>5, <1>7, <2>1, <2>3
    <2> QED
        BY <2>2, <2>3
<1>8. ASSUME NEW n \in DOMAIN raw'
      PROVE  IsCreation(raw'[n]) <=> \E k \in NewIds : m[k] = n
    <2>1. CASE n \in DOMAIN raw
        BY <1>1, <1>2, <1>3, <1>5, <2>1
    <2>2. CASE n = first
        BY <1>3, <1>5, <2>2
    <2>3. CASE n \notin DOMAIN raw /\ n # first
        <3>1. ~IsCreation(raw'[n])
            BY <2>3 DEF IsCreation
        <3>2. \A k \in NewIds : m[k] # n
            BY <1>3, <1>5, <2>3
        <3> QED
            BY <3>1, <3>2
    <2> QED
        BY <2>1, <2>2, <2>3
<1>9. ASSUME NEW k \in NewIds, NEW n \in DOMAIN raw', raw'[n].agent = raw'[m[k]].agent
      PROVE  n = m[k] \/ raw'[n].call.wf = k
    <2>1. CASE k = wfCounter
        <3>1. raw'[n].agent = who
            BY <1>2, <1>5, <1>9, <2>1
        <3>2. n \notin DOMAIN raw
            BY <1>2, <3>1
        <3> QED
            BY <1>5, <2>1, <3>2
    <2>2. CASE k # wfCounter
        <3>1. k \in Ids
            BY <1>3, <2>2
        <3>2. raw'[n].agent = raw[made[k]].agent
            BY <1>5, <1>9, <3>1
        <3>3. n \in DOMAIN raw
            BY <1>2, <1>5, <3>1, <3>2
        <3> QED
            BY <1>1, <1>2, <1>5, <3>1, <3>2, <3>3
    <2> QED
        BY <2>1, <2>2
<1>10. ASSUME NEW k \in NewIds, NEW i \in Agents, NEW l \in DOMAIN todo'[i],
              i = raw'[m[k]].agent
       PROVE  todo'[i][l].call.wf = k
    <2>1. CASE k = wfCounter
        <3>1. i = who
            BY <1>2, <1>5, <1>10, <2>1
        <3> QED
            BY <2>1, <3>1
    <2>2. CASE k # wfCounter
        <3>1. k \in Ids
            BY <1>3, <2>2
        <3>2. i = raw[made[k]].agent
            BY <1>5, <1>10, <3>1
        <3>3. i # who
            BY <1>5, <3>1, <3>2
        <3>4. l \in DOMAIN todo[i] /\ todo'[i][l] = todo[i][l]
            BY <3>3
        <3> QED
            BY <1>1, <3>1, <3>2, <3>4
    <2> QED
        BY <2>1, <2>2
<1>11. PICK f : f = m
    OBVIOUS
<1>12. f \in [NewIds -> DOMAIN raw']
    BY <1>6, <1>11
<1>13. \A j, k \in NewIds : j < k => f[j] < f[k]
    BY <1>7, <1>11
<1>14. \A n \in DOMAIN raw' : IsCreation(raw'[n]) <=> \E k \in NewIds : f[k] = n
    BY <1>8, <1>11
<1>15. \A k \in NewIds : \A n \in DOMAIN raw' :
         raw'[n].agent = raw'[f[k]].agent => n = f[k] \/ raw'[n].call.wf = k
    BY <1>9, <1>11
<1>16. \A k \in NewIds : \A i \in Agents' : \A l \in DOMAIN todo'[i] :
         i = raw'[f[k]].agent => todo'[i][l].call.wf = k
    BY <1>2, <1>10, <1>11
<1>17. Predicts(f)'
    BY <1>12, <1>13, <1>14, <1>15, <1>16, Zenon DEF Predicts, IsCreation, NewIds
<1> QED
    BY <1>17, Zenon

-----------------------------------------------------------------------------
(* The generator's steps. *)

\* The process that is resumed goes on with a plan or stops waiting.
LEMMA BegunKept ==
    ASSUME BegunOnce, NEW who, Emits(who), Agents' = Agents, WaitsApart(agenda'),
           \A k \in DOMAIN agenda' :
             \/ agenda'[k].who = who /\ (who \in Agents => todo'[who] # <<>>)
             \/ \E j \in DOMAIN agenda : agenda'[k] = agenda[j] /\ agenda[j].who # who,
           \A j \in Agents : j # who /\ todo'[j] = <<>> => todo[j] = <<>>
    PROVE  BegunOnce'
<1>1. ASSUME NEW k \in DOMAIN agenda', NEW i \in Agents, agenda'[k].who = i, todo'[i] = <<>>,
             NEW n \in DOMAIN raw'
      PROVE  raw'[n].agent # i
    <2>1. i # who
        BY <1>1
    <2>2. PICK j \in DOMAIN agenda : agenda'[k] = agenda[j]
        BY <1>1, <2>1
    <2>3. \A m \in DOMAIN raw : raw[m].agent # i
        BY <1>1, <2>1, <2>2 DEF BegunOnce
    <2> QED
        BY <2>1, <2>3 DEF Emits
<1> QED
    BY <1>1 DEF BegunOnce

\* What an agent that is resumed does.
AgentGoes(next, i, list) ==
    /\ EmitsUpTo(next, i, list)
    /\ Emits(i)
    /\ \A k \in 1 .. next - 1 : k \in DOMAIN list
    /\ \A n \in DOMAIN raw' : n \notin DOMAIN raw =>
         \E k \in 1 .. next - 1 : n = Len(raw) + k /\ raw'[n].call = list[k].call
    /\ \A k \in 1 .. next - 1 : /\ Len(raw) + k \in DOMAIN raw' \ DOMAIN raw
                                /\ raw'[Len(raw) + k].call = list[k].call
    /\ \A l \in DOMAIN todo'[i] : \E k \in DOMAIN list : k >= next /\ todo'[i][l] = list[k]
    /\ \A j \in Agents : j # i => todo'[j] = todo[j]

LEMMA EmitGoes ==
    ASSUME PlanTypeOK, NEW i \in Agents, NEW list \in Seq(Planned), now' \in Nat, Emit(i, list)
    PROVE  \E next \in 1 .. Len(list) + 1 : AgentGoes(next, i, list)
<1>1. PICK next \in 1 .. Len(list) + 1 : EmitsUpTo(next, i, list)
    BY EmitParts
<1> DEFINE rest == SubSeq(list, next, Len(list))
<1>2. /\ raw' \in Seq(Entry)
      /\ Len(raw') = Len(raw) + next - 1
      /\ \A n \in 1 .. Len(raw) : raw'[n] = raw[n]
      /\ \A k \in 1 .. next - 1 :
           raw'[Len(raw) + k] = [at |-> now', agent |-> i, call |-> list[k].call]
      /\ rest \in Seq(Planned)
      /\ Len(rest) = Len(list) - next + 1
      /\ \A k \in 1 .. Len(list) - next + 1 : rest[k] = list[next + k - 1]
      /\ todo' = [todo EXCEPT ![i] = rest]
    BY <1>1, Zenon DEF EmitsUpTo
<1> HIDE DEF rest
<1>3. /\ DOMAIN raw = 1 .. Len(raw) /\ Len(raw) \in Nat
      /\ DOMAIN raw' = 1 .. Len(raw')
      /\ DOMAIN list = 1 .. Len(list) /\ Len(list) \in Nat
      /\ DOMAIN rest = 1 .. Len(rest)
    <2>1. raw \in Seq(Entry)
        BY DEF PlanTypeOK
    <2> QED
        BY <1>2, <2>1, LenProperties, Zenon
<1>4. \A k \in 1 .. next - 1 : k \in DOMAIN list /\ Len(raw) + k \in DOMAIN raw' \ DOMAIN raw
    BY <1>2, <1>3
<1>5. \A k \in 1 .. next - 1 : /\ raw'[Len(raw) + k].call = list[k].call
                               /\ raw'[Len(raw) + k].at = now'
                               /\ raw'[Len(raw) + k].agent = i
    <2> SUFFICES ASSUME NEW k \in 1 .. next - 1
                 PROVE  /\ raw'[Len(raw) + k].call = list[k].call
                        /\ raw'[Len(raw) + k].at = now'
                        /\ raw'[Len(raw) + k].agent = i
        OBVIOUS
    <2>1. raw'[Len(raw) + k] = [at |-> now', agent |-> i, call |-> list[k].call]
        BY <1>2, Zenon
    <2> QED
        BY <2>1
<1>6. \A n \in DOMAIN raw' : n \notin DOMAIN raw => \E k \in 1 .. next - 1 : n = Len(raw) + k
    <2> SUFFICES ASSUME NEW n \in DOMAIN raw', n \notin DOMAIN raw
                 PROVE  \E k \in 1 .. next - 1 : n = Len(raw) + k
        OBVIOUS
    <2>1. n - Len(raw) \in 1 .. next - 1 /\ n = Len(raw) + (n - Len(raw))
        BY <1>2, <1>3
    <2> QED
        BY <2>1
<1>7. \A n \in DOMAIN raw : n \in DOMAIN raw' /\ raw'[n] = raw[n]
    BY <1>2, <1>3
<1>8. Emits(i)
    <2>1. \A n \in DOMAIN raw' : n \notin DOMAIN raw => raw'[n].at = now' /\ raw'[n].agent = i
        BY <1>5, <1>6
    <2> QED
        BY <1>2, <1>7, <2>1, Zenon DEF Emits
<1>9. todo'[i] = rest /\ \A j \in Agents : j # i => todo'[j] = todo[j]
    BY <1>2 DEF PlanTypeOK
<1>10. ASSUME NEW l \in DOMAIN rest
       PROVE  \E k \in DOMAIN list : k >= next /\ rest[l] = list[k]
    <2>1. l \in 1 .. Len(list) - next + 1
        BY <1>2, <1>3
    <2>2. next + l - 1 \in DOMAIN list /\ next + l - 1 >= next
        BY <1>3, <2>1
    <2> QED
        BY <1>2, <2>1, <2>2
<1>11. \A n \in DOMAIN raw' : n \notin DOMAIN raw =>
         \E k \in 1 .. next - 1 : n = Len(raw) + k /\ raw'[n].call = list[k].call
    BY <1>5, <1>6
<1> QED
    BY <1>1, <1>4, <1>5, <1>8, <1>9, <1>10, <1>11, Zenon DEF AgentGoes

LEMMA AgentWaits ==
    ASSUME PlannerInv, BegunOnce, NEW i \in Agents, NEW list \in Seq(Planned),
           NEW next \in 1 .. Len(list) + 1, AgentGoes(next, i, list), Due(i), cast' = cast,
           now' = Head(agenda).at
    PROVE  BegunOnce'
<1>1. PlanTypeOK /\ AgendaInOrder
    BY DEF PlannerInv
<1>2. /\ agenda \in Seq(Waiter) /\ agenda # <<>> /\ Head(agenda).who = i
      /\ Tail(agenda) \in Seq(Waiter) /\ i \in Nat /\ WaitsApart(agenda)
    BY <1>1, DueIsFirst, CastTyped DEF BegunOnce
<1> DEFINE tail == Tail(agenda)
           rest == SubSeq(list, next, Len(list))
<1>3. /\ WaitsApart(tail)
      /\ \A k \in DOMAIN tail : tail[k].who # i /\ \E j \in DOMAIN agenda : tail[k] = agenda[j]
    BY <1>2, TailApart
<1>4. /\ \/ rest = <<>> /\ agenda' = tail
         \/ rest # <<>> /\ \E t \in Nat : agenda' = Waiting(tail, i, t)
      /\ todo' = [todo EXCEPT ![i] = rest]
      /\ Emits(i)
      /\ \A j \in Agents : j # i => todo'[j] = todo[j]
    BY Zenon DEF AgentGoes, EmitsUpTo
<1> HIDE DEF rest, tail
<1>5. todo'[i] = rest /\ Agents' = Agents
    BY <1>1, <1>4 DEF PlanTypeOK, Agents
<1>6. CASE agenda' = tail
    BY <1>3, <1>4, <1>5, <1>6, BegunKept
<1>7. CASE rest # <<>> /\ \E t \in Nat : agenda' = Waiting(tail, i, t)
    <2>1. PICK t \in Nat : agenda' = Waiting(tail, i, t)
        BY <1>7
    <2>2. tail \in Seq(Waiter)
        BY <1>2 DEF tail
    <2>3. /\ WaitsApart(agenda')
          /\ \A k \in DOMAIN agenda' :
               agenda'[k].who = i \/ \E j \in DOMAIN tail : agenda'[k] = tail[j]
        BY <1>2, <1>3, <2>1, <2>2, WaitingApart
    <2>4. \A k \in DOMAIN agenda' :
             \/ agenda'[k].who = i
             \/ \E j \in DOMAIN agenda : agenda'[k] = agenda[j] /\ agenda[j].who # i
        BY <1>3, <2>3
    <2> QED
        BY <1>4, <1>5, <1>7, <2>3, <2>4, BegunKept
<1> QED
    BY <1>4, <1>6, <1>7

\* Nothing is exported yet.
LEMMA NotExportedYet ==
    ASSUME PlannerInv, NEW who, Due(who), events' = events
    PROVE  events = <<>> /\ Exported'
<1>1. events = <<>>
    BY DueIsNotOver DEF PlannerInv, ExportedWhenOver
<1> QED
    BY <1>1 DEF Exported

LEMMA ContinueEvents ==
    ASSUME PlannerInv, EventsInv, NEW made, Predicts(made), NEW i \in Agents, Continue(i)
    PROVE  EventsInv' /\ Predicts(made)' /\ events = <<>>
<1>1. PlanTypeOK /\ AgendaInOrder /\ CallsOfTheirKind /\ BegunOnce /\ EmittedInOrder
    BY DEF PlannerInv, EventsInv
<1>2. /\ Due(i) /\ now' = Head(agenda).at /\ Emit(i, todo[i])
      /\ wfCounter' = wfCounter /\ cast' = cast /\ events' = events
    BY DEF Continue
<1>3. now' \in Nat /\ now <= now' /\ todo[i] \in Seq(Planned)
    BY <1>1, <1>2, DueIsFirst DEF PlanTypeOK
<1>4. PICK list \in Seq(Planned) : list = todo[i]
    BY <1>3
<1>5. PICK next \in 1 .. Len(list) + 1 : AgentGoes(next, i, list)
    BY <1>1, <1>2, <1>3, <1>4, EmitGoes
<1> DEFINE C == {list[k].call : k \in DOMAIN list}
<1>6. /\ Emits(i)
      /\ \A k \in 1 .. next - 1 : k \in DOMAIN list
      /\ \A n \in DOMAIN raw' : n \notin DOMAIN raw =>
           \E k \in 1 .. next - 1 : raw'[n].call = list[k].call
      /\ \A l \in DOMAIN todo'[i] : \E k \in DOMAIN list : todo'[i][l] = list[k]
      /\ \A j \in Agents : j # i => todo'[j] = todo[j]
    BY <1>5 DEF AgentGoes
<1>7. \A k \in DOMAIN list : AgentCall(i, list[k].call) /\ ~IsCreation(list[k])
    BY <1>1, <1>4 DEF CallsOfTheirKind
<1>8. Follows(i, C)
    BY <1>2, <1>6 DEF Follows
<1>9. \A c \in C : AgentCall(i, c) /\ c.action # "create_escrow"
    BY <1>7 DEF IsCreation
<1>10. \A l \in DOMAIN todo'[i] : ~IsCreation(todo'[i][l])
    BY <1>6, <1>7
<1>11. \A k \in 0 .. wfCounter - 1 : raw[made[k]].agent = i => \A c \in C : c.wf = k
    <2>1. \A k \in 0 .. wfCounter - 1 :
             raw[made[k]].agent = i => \A l \in DOMAIN todo[i] : todo[i][l].call.wf = k
        BY DEF Predicts
    <2> SUFFICES ASSUME NEW k \in 0 .. wfCounter - 1, raw[made[k]].agent = i, NEW c \in C
                 PROVE  c.wf = k
        OBVIOUS
    <2>2. PICK l \in DOMAIN list : c = list[l].call
        OBVIOUS
    <2>3. \A m \in DOMAIN todo[i] : todo[i][m].call.wf = k
        BY <2>1
    <2> QED
        BY <1>4, <2>2, <2>3
<1> HIDE DEF C
<1>12. CallsOfTheirKind'
    BY <1>1, <1>8, <1>9, <1>10, CastTyped, KindsKept
<1>13. Predicts(made)'
    BY <1>2, <1>8, <1>9, <1>11, PredictionsKept
<1>14. BegunOnce' /\ EmittedInOrder'
    BY <1>1, <1>2, <1>3, <1>5, <1>6, AgentWaits, OrderKept
<1>15. Exported' /\ events = <<>>
    BY <1>2, NotExportedYet
<1> QED
    BY <1>12, <1>13, <1>14, <1>15 DEF EventsInv

LEMMA BeginEvents ==
    ASSUME PlannerInv, EventsInv, NEW made, Predicts(made), NEW i \in Agents, Begin(i)
    PROVE  EventsInv' /\ (\E m : Predicts(m)') /\ events = <<>>
<1>1. PlanTypeOK /\ AgendaInOrder /\ CallsOfTheirKind /\ BegunOnce /\ EmittedInOrder
    BY DEF PlannerInv, EventsInv
<1>2. /\ Due(i) /\ now' = Head(agenda).at /\ todo[i] = <<>>
      /\ wfCounter' = wfCounter + (IF Creates(cast.agents[i]) THEN 1 ELSE 0)
      /\ cast' = cast /\ events' = events
    BY DEF Begin
<1>3. now' \in Nat /\ now <= now' /\ wfCounter \in Nat
    BY <1>1, <1>2, DueIsFirst DEF PlanTypeOK
<1>4. PICK list \in PlansOf(cast.agents[i], wfCounter) : Emit(i, list)
    BY Zenon DEF Begin
<1>5. PlanOfKind(list, i)
    BY <1>1, PlansOfTheirKind
<1>6. /\ list \in Seq(Planned) /\ 1 \in DOMAIN list
      /\ \A k \in DOMAIN list : AgentCall(i, list[k].call)
      /\ \A k \in DOMAIN list : IsCreation(list[k]) <=> k = 1 /\ Creates(cast.agents[i])
      /\ Creates(cast.agents[i]) =>
           /\ list[1].delay = 0
           /\ \A k \in DOMAIN list : k # 1 => list[k].call.wf = wfCounter
    BY <1>5, Zenon DEF PlanOfKind
<1>7. PICK next \in 1 .. Len(list) + 1 : AgentGoes(next, i, list)
    BY <1>1, <1>3, <1>4, <1>6, EmitGoes
<1>8. /\ Emits(i)
      /\ \A k \in 1 .. next - 1 : k \in DOMAIN list
      /\ \A n \in DOMAIN raw' : n \notin DOMAIN raw =>
           \E k \in 1 .. next - 1 : n = Len(raw) + k /\ raw'[n].call = list[k].call
      /\ \A k \in 1 .. next - 1 : /\ Len(raw) + k \in DOMAIN raw' \ DOMAIN raw
                                  /\ raw'[Len(raw) + k].call = list[k].call
      /\ \A l \in DOMAIN todo'[i] : \E k \in DOMAIN list : k >= next /\ todo'[i][l] = list[k]
      /\ \A j \in Agents : j # i => todo'[j] = todo[j]
    BY <1>7, Zenon DEF AgentGoes
<1>9. BegunOnce' /\ EmittedInOrder'
    BY <1>1, <1>2, <1>3, <1>6, <1>7, <1>8, AgentWaits, OrderKept
<1>10. Exported' /\ events = <<>>
    BY <1>2, NotExportedYet
<1>11. Creates(cast.agents[i]) => next > 1
    <2> SUFFICES ASSUME Creates(cast.agents[i]), next = 1
                 PROVE  FALSE
        BY <1>6
    <2>1. next <= Len(list)
        BY <1>6
    <2>2. list[next].delay > now'
        BY <1>7, <2>1, Zenon DEF AgentGoes, EmitsUpTo
    <2> QED
        BY <1>3, <1>6, <2>2
<1> DEFINE C == {list[k].call : k \in DOMAIN list}
<1>12. Follows(i, C)
    BY <1>2, <1>8 DEF Follows
<1>13. \A c \in C : AgentCall(i, c)
    BY <1>6
<1>14. \A l \in DOMAIN todo'[i] : ~IsCreation(todo'[i][l])
    <2> SUFFICES ASSUME NEW l \in DOMAIN todo'[i]
                 PROVE  ~IsCreation(todo'[i][l])
        OBVIOUS
    <2>1. PICK k \in DOMAIN list : k >= next /\ todo'[i][l] = list[k]
        BY <1>8
    <2>2. Creates(cast.agents[i]) => k # 1
        BY <1>6, <1>11, <2>1
    <2> QED
        BY <1>6, <2>1, <2>2
<1>15. CallsOfTheirKind'
    <2> HIDE DEF C
    <2> QED
        BY <1>1, <1>12, <1>13, <1>14, CastTyped, KindsKept
<1>16. \A n \in DOMAIN raw : raw[n].agent # i
    <2>1. 1 \in DOMAIN agenda /\ agenda[1].who = i
        BY <1>1, <1>2, DueIsFirst
    <2> QED
        BY <1>1, <1>2, <2>1 DEF BegunOnce
<1>17. CASE ~Creates(cast.agents[i])
    <2>1. wfCounter' = wfCounter
        BY <1>2, <1>3, <1>17
    <2>2. \A c \in C : c.action # "create_escrow"
        BY <1>6, <1>17 DEF IsCreation
    <2>3. \A k \in 0 .. wfCounter - 1 : raw[made[k]].agent # i
        BY <1>16, Zenon DEF Predicts
    <2> HIDE DEF C
    <2>4. Predicts(made)'
        BY <1>12, <2>1, <2>2, <2>3, PredictionsKept
    <2> QED
        BY <1>9, <1>10, <1>15, <2>4, Zenon DEF EventsInv
<1>18. CASE Creates(cast.agents[i])
    <2> DEFINE D == {list[k].call : k \in DOMAIN list \ {1}}
               first == Len(raw) + 1
    <2>1. wfCounter' = wfCounter + 1
        BY <1>2, <1>18
    <2>2. 1 \in 1 .. next - 1
        BY <1>6, <1>11, <1>18
    <2>3. /\ first \in DOMAIN raw' /\ first \notin DOMAIN raw
          /\ IsCreation(raw'[first])
        BY <1>6, <1>8, <1>18, <2>2 DEF IsCreation
    <2>4. \A n \in DOMAIN raw' : n \notin DOMAIN raw /\ n # first => raw'[n].call \in D
        BY <1>8
    <2>5. ASSUME NEW l \in DOMAIN todo'[i]
          PROVE  todo'[i][l].call \in D
        <3>1. PICK k \in DOMAIN list : k >= next /\ todo'[i][l] = list[k]
            BY <1>8
        <3>2. k # 1
            BY <1>6, <1>11, <1>18, <3>1
        <3> QED
            BY <3>1, <3>2
    <2>6. \A c \in D : c.action # "create_escrow" /\ c.wf = wfCounter
        BY <1>6, <1>18 DEF IsCreation
    <2> HIDE DEF D, first
    <2>7. \A j \in Agents : \A l \in DOMAIN todo'[j] :
            \/ j = i /\ todo'[j][l].call \in D
            \/ j # i /\ l \in DOMAIN todo[j] /\ todo'[j][l] = todo[j][l]
        BY <1>8, <2>5
    <2>8. \E m : Predicts(m)'
        BY <1>1, <1>2, <1>8, <1>16, <2>1, <2>3, <2>4, <2>6, <2>7, PredictionAdded
    <2> QED
        BY <1>9, <1>10, <1>15, <2>8, Zenon DEF EventsInv
<1> QED
    BY <1>17, <1>18

LEMMA ResolverEvents ==
    ASSUME PlannerInv, EventsInv, NEW made, Predicts(made), Resolver
    PROVE  EventsInv' /\ Predicts(made)' /\ events = <<>>
<1>1. PlanTypeOK /\ AgendaInOrder /\ CallsOfTheirKind /\ BegunOnce /\ EmittedInOrder
    BY DEF PlannerInv, EventsInv
<1>2. PICK next \in 1 .. Len(queue) + 1 : AnswersUpTo(next)
    BY ResolverParts
<1>3. ResolverGoes(next)
    BY <1>2, Zenon DEF Resolver, ResolverGoes
<1>4. /\ Due(ResolverProcess) /\ now' = Head(agenda).at
      /\ cast' = cast /\ todo' = todo /\ wfCounter' = wfCounter /\ events' = events
    BY <1>3 DEF ResolverGoes
<1>5. now' \in Nat /\ now <= now' /\ PlanTypeOK'
    BY <1>3, ResolverTypes
<1>6. /\ \A n \in DOMAIN raw : n \in DOMAIN raw' /\ raw'[n] = raw[n]
      /\ \A n \in DOMAIN raw' :
           n \in DOMAIN raw \/ \E s \in FirstSlot .. next - 1 : n = AnswerOf(s)
      /\ \A s \in FirstSlot .. next - 1 :
           raw'[AnswerOf(s)] = [at |-> now', agent |-> ResolverProcess,
                                call |-> Resolve(Slot(s).wf, TRUE)]
    BY <1>3, ResolverAdds, Zenon
<1> DEFINE C == {Resolve(Slot(s).wf, TRUE) : s \in FirstSlot .. next - 1}
<1>7. \A c \in C : c.action = "execute_resolution"
    BY DEF Resolve, On, NoCall
<1>8. ASSUME NEW n \in DOMAIN raw', n \notin DOMAIN raw
      PROVE  raw'[n].at = now' /\ raw'[n].agent = ResolverProcess /\ raw'[n].call \in C
    <2>1. PICK s \in FirstSlot .. next - 1 : n = AnswerOf(s)
        BY <1>6, <1>8
    <2>2. raw'[n] = [at |-> now', agent |-> ResolverProcess, call |-> Resolve(Slot(s).wf, TRUE)]
        BY <1>6, <2>1
    <2>3. PICK c \in C : c = Resolve(Slot(s).wf, TRUE)
        OBVIOUS
    <2> HIDE DEF C
    <2>4. PICK t : t = now'
        OBVIOUS
    <2>5. raw'[n] = [at |-> t, agent |-> ResolverProcess, call |-> c]
        BY <2>2, <2>3, <2>4
    <2>6. raw'[n].at = t /\ raw'[n].agent = ResolverProcess /\ raw'[n].call = c
        BY <2>5
    <2> QED
        BY <2>3, <2>4, <2>6
<1> HIDE DEF C
<1>9. raw' \in Seq(Entry)
    BY <1>5 DEF PlanTypeOK
<1>10. Emits(ResolverProcess)
    BY <1>6, <1>8, <1>9, Zenon DEF Emits
<1>11. Follows(ResolverProcess, C)
    BY <1>4, <1>8, <1>10, Zenon DEF Follows
<1>12. ResolverProcess \notin Agents /\ ResolverProcess \in Nat /\ Agents' = Agents
    BY <1>1, <1>4, CastTyped DEF ResolverProcess, Agents
<1>13. CallsOfTheirKind'
    BY <1>1, <1>7, <1>11, <1>12, KindsKept
<1>14. Predicts(made)'
    <2>1. \A k \in 0 .. wfCounter - 1 : raw[made[k]].agent # ResolverProcess
        <3> SUFFICES ASSUME NEW k \in 0 .. wfCounter - 1
                     PROVE  raw[made[k]].agent # ResolverProcess
            OBVIOUS
        <3>1. made[k] \in DOMAIN raw /\ IsCreation(raw[made[k]])
            BY DEF Predicts
        <3>2. raw[made[k]].call.action # "execute_resolution"
            BY <3>1 DEF IsCreation
        <3>3. raw[made[k]].agent \in Agents
            BY <1>1, <3>1, <3>2, Zenon DEF CallsOfTheirKind
        <3> QED
            BY <1>12, <3>3
    <2>2. \A c \in C : c.action # "create_escrow"
        BY <1>7
    <2> QED
        BY <1>4, <1>11, <2>1, <2>2, PredictionsKept
<1>15. BegunOnce'
    <2> DEFINE tail == Tail(agenda)
               t == IF next > Len(queue) THEN now' + 1 ELSE queue[next].target
    <2>1. /\ agenda \in Seq(Waiter) /\ agenda # <<>> /\ Head(agenda).who = ResolverProcess
          /\ tail \in Seq(Waiter) /\ WaitsApart(agenda)
        BY <1>1, <1>4, DueIsFirst DEF BegunOnce
    <2>2. /\ WaitsApart(tail)
          /\ \A k \in DOMAIN tail : /\ tail[k].who # ResolverProcess
                                    /\ \E j \in DOMAIN agenda : tail[k] = agenda[j]
        BY <2>1, TailApart
    <2>3. t \in Nat
        <3>1. now' + 1 \in Nat
            <4>1. \A a \in Nat : a + 1 \in Nat
                OBVIOUS
            <4> QED
                BY <1>5, <4>1, Zenon
        <3>2. ~(next > Len(queue)) => queue[next].target \in Nat
            <4>1. queue \in Seq(Dispute)
                BY <1>1 DEF PlanTypeOK
            <4>2. ~(next > Len(queue)) => next \in DOMAIN queue
                BY <4>1
            <4>3. \A k \in DOMAIN queue : queue[k] \in Dispute
                BY <4>1
            <4> QED
                BY <4>2, <4>3 DEF Dispute
        <3> QED
            BY <3>1, <3>2
    <2>4. agenda' = Waiting(tail, ResolverProcess, t)
        BY <1>2, Zenon DEF AnswersUpTo
    <2> HIDE DEF tail, t
    <2>5. /\ WaitsApart(agenda')
          /\ \A k \in DOMAIN agenda' :
               agenda'[k].who = ResolverProcess \/ \E j \in DOMAIN tail : agenda'[k] = tail[j]
        BY <1>12, <2>1, <2>2, <2>3, <2>4, WaitingApart
    <2>6. \A k \in DOMAIN agenda' :
             \/ agenda'[k].who = ResolverProcess
             \/ \E j \in DOMAIN agenda : agenda'[k] = agenda[j] /\ agenda[j].who # ResolverProcess
        BY <2>2, <2>5
    <2> QED
        BY <1>1, <1>4, <1>10, <1>12, <2>5, <2>6, BegunKept
<1>16. EmittedInOrder'
    BY <1>1, <1>5, <1>10, OrderKept
<1>17. Exported' /\ events = <<>>
    BY <1>4, NotExportedYet
<1> QED
    BY <1>13, <1>14, <1>15, <1>16, <1>17, Zenon DEF EventsInv

LEMMA GivesUpEvents ==
    ASSUME PlannerInv, EventsInv, NEW made, Predicts(made), ResolverGivesUp
    PROVE  EventsInv' /\ Predicts(made)' /\ events = <<>>
<1>1. PlanTypeOK /\ AgendaInOrder /\ CallsOfTheirKind /\ BegunOnce /\ EmittedInOrder
    BY DEF PlannerInv, EventsInv
<1>2. /\ Due(ResolverProcess) /\ now' = Head(agenda).at /\ agenda' = Tail(agenda)
      /\ cast' = cast /\ todo' = todo /\ wfCounter' = wfCounter /\ raw' = raw
      /\ events' = events
    BY DEF ResolverGivesUp
<1>3. /\ now' \in Nat /\ now <= now' /\ ResolverProcess \notin Agents /\ Agents' = Agents
      /\ agenda \in Seq(Waiter) /\ agenda # <<>> /\ Head(agenda).who = ResolverProcess
    BY <1>1, <1>2, DueIsFirst, CastTyped DEF Agents
<1>4. Emits(ResolverProcess)
    BY <1>1, <1>2 DEF Emits, PlanTypeOK
<1>5. Follows(ResolverProcess, {})
    BY <1>2, <1>4 DEF Follows
<1>6. CallsOfTheirKind' /\ Predicts(made)'
    BY <1>1, <1>2, <1>3, <1>5, KindsKept, PredictionsKept
<1>7. BegunOnce'
    <2> DEFINE tail == Tail(agenda)
    <2>1. /\ WaitsApart(tail)
          /\ \A k \in DOMAIN tail : /\ tail[k].who # ResolverProcess
                                    /\ \E j \in DOMAIN agenda : tail[k] = agenda[j]
        BY <1>1, <1>3, TailApart DEF BegunOnce
    <2>2. agenda' = tail
        BY <1>2
    <2> HIDE DEF tail
    <2>3. WaitsApart(agenda')
        BY <2>1, <2>2
    <2>4. \A k \in DOMAIN agenda' :
             \E j \in DOMAIN agenda : agenda'[k] = agenda[j] /\ agenda[j].who # ResolverProcess
        BY <2>1, <2>2
    <2>5. \A j \in Agents : j # ResolverProcess /\ todo'[j] = <<>> => todo[j] = <<>>
        BY <1>2
    <2> QED
        BY <1>1, <1>3, <1>4, <2>3, <2>4, <2>5, BegunKept
<1>8. EmittedInOrder'
    BY <1>1, <1>3, <1>4, OrderKept
<1>9. Exported' /\ events = <<>>
    BY <1>2, NotExportedYet
<1> QED
    BY <1>6, <1>7, <1>8, <1>9, Zenon DEF EventsInv

LEMMA EmittedKept ==
    ASSUME CallsOfTheirKind, BegunOnce, EmittedInOrder, NEW made, Predicts(made),
           UNCHANGED <<cast, now, agenda, todo, wfCounter, raw>>
    PROVE  CallsOfTheirKind' /\ BegunOnce' /\ EmittedInOrder' /\ Predicts(made)'
<1>1. /\ cast' = cast /\ now' = now /\ agenda' = agenda /\ todo' = todo
      /\ wfCounter' = wfCounter /\ raw' = raw
    OBVIOUS
<1>2. Agents' = Agents /\ \A i, c : AgentCall(i, c)' <=> AgentCall(i, c)
    BY <1>1 DEF Agents, AgentCall
<1>3. CallsOfTheirKind'
    BY <1>1, <1>2 DEF CallsOfTheirKind, IsCreation
<1>4. BegunOnce' /\ EmittedInOrder'
    BY <1>1, <1>2 DEF BegunOnce, WaitsApart, EmittedInOrder
<1>5. Predicts(made)'
    BY <1>1, <1>2 DEF Predicts, IsCreation
<1> QED
    BY <1>3, <1>4, <1>5

LEMMA ExportEvents ==
    ASSUME PlannerInv, EventsInv, NEW made, Predicts(made), Export, BlockTime \in Nat
    PROVE  EventsInv' /\ Predicts(made)' /\ events = <<>>
<1>1. /\ PlanTypeOK /\ CallsOfTheirKind /\ BegunOnce /\ EmittedInOrder
      /\ events = <<>> /\ raw' = raw
      /\ UNCHANGED <<cast, now, agenda, todo, wfCounter, raw>>
    BY DEF PlannerInv, EventsInv, Export
<1>2. raw \in Seq(Entry)
    BY <1>1 DEF PlanTypeOK
<1>3. ByTime(raw) = [k \in DOMAIN raw |-> raw[k]]
    BY <1>1, <1>2, ByTimeKeeps DEF EmittedInOrder
<1> DEFINE sorted == ByTime(raw)
<1>4. events' = [k \in DOMAIN sorted |-> [sorted[k] EXCEPT !.at = BlockTime + @]]
    BY Zenon DEF Export
<1>5. DOMAIN sorted = DOMAIN raw /\ \A k \in DOMAIN raw : sorted[k] = raw[k]
    BY <1>3
<1> HIDE DEF sorted
<1>6. events' = [k \in DOMAIN raw |-> [raw[k] EXCEPT !.at = BlockTime + @]]
    BY <1>4, <1>5
<1>7. DOMAIN events' = DOMAIN raw /\ Len(events') = Len(raw)
    <2>1. DOMAIN raw = 1 .. Len(raw) /\ Len(raw) \in Nat
        BY <1>2, LenProperties
    <2>2. events' = [k \in 1 .. Len(raw) |-> [raw[k] EXCEPT !.at = BlockTime + @]]
        BY <1>6, <2>1, Zenon
    <2> QED
        BY <2>1, <2>2
<1>8. ASSUME NEW n \in DOMAIN raw
      PROVE  /\ events'[n].agent = raw[n].agent /\ events'[n].call = raw[n].call
             /\ events'[n].at \in Nat
    <2>1. raw[n] \in Entry
        BY <1>2
    <2>2. PICK e \in Entry : e = raw[n]
        BY <2>1
    <2>3. events'[n] = [e EXCEPT !.at = BlockTime + @]
        BY <1>6, <2>2
    <2>4. e.at \in Nat
        BY DEF Entry
    <2>5. BlockTime + e.at \in Nat
        BY <2>4
    <2>6. PICK t \in Nat : t = BlockTime + e.at
        BY <2>5
    <2>7. events'[n] = [e EXCEPT !.at = t]
        BY <2>3, <2>6
    <2>8. events'[n].agent = e.agent /\ events'[n].call = e.call /\ events'[n].at = t
        BY <2>7 DEF Entry
    <2> QED
        BY <2>2, <2>6, <2>8
<1>9. Exported'
    BY <1>1, <1>7, <1>8 DEF Exported, SameEvents
<1>10. CallsOfTheirKind' /\ BegunOnce' /\ EmittedInOrder' /\ Predicts(made)'
    BY <1>1, EmittedKept
<1> QED
    BY <1>1, <1>9, <1>10 DEF EventsInv

LEMMA PlannerEvents ==
    ASSUME PlannerInv, EventsInv, NEW made, Predicts(made), PlannerNext, BlockTime \in Nat
    PROVE  EventsInv' /\ (\E m : Predicts(m)') /\ events = <<>>
<1>1. DOMAIN todo = Agents
    BY DEF PlannerInv, PlanTypeOK
<1>2. ASSUME NEW i \in Agents, Begin(i)
      PROVE  EventsInv' /\ (\E m : Predicts(m)') /\ events = <<>>
    BY <1>2, BeginEvents
<1>3. ASSUME NEW i \in Agents, Continue(i)
      PROVE  EventsInv' /\ (\E m : Predicts(m)') /\ events = <<>>
    BY <1>3, ContinueEvents, Zenon
<1>4. CASE Resolver
    BY <1>4, ResolverEvents, Zenon
<1>5. CASE ResolverGivesUp
    BY <1>5, GivesUpEvents, Zenon
<1>6. CASE Export
    BY <1>6, ExportEvents, Zenon
<1> QED
    BY <1>1, <1>2, <1>3, <1>4, <1>5, <1>6, Zenon DEF PlannerNext

-----------------------------------------------------------------------------
(* What the actions of a plan do to who owns an escrow.                      *)

SameOwners ==
    /\ customResolver' = customResolver
    /\ \A v \in Workflows : /\ Exists(v)' <=> Exists(v)
                            /\ transfers'[v].from = transfers[v].from

LEMMA OwnersSame ==
    UNCHANGED <<transfers, customResolver>> => SameOwners
BY DEF SameOwners, Exists

LEMMA ChangedOwners ==
    ASSUME TypeInv, NEW w \in Workflows, Exists(w), NEW x \in Transfer,
           x.state # "none", x.from = transfers[w].from,
           transfers' = [transfers EXCEPT ![w] = x], customResolver' = customResolver
    PROVE  SameOwners
<1>1. transfers \in [Workflows -> Transfer]
    BY DEF TypeInv, EscrowType
<1>2. \A v \in Workflows : transfers'[v] = IF v = w THEN x ELSE transfers[v]
    BY <1>1
<1>3. \A v \in Workflows : /\ Exists(v)' <=> Exists(v)
                           /\ transfers'[v].from = transfers[v].from
    BY <1>2 DEF Exists
<1> QED
    BY <1>3 DEF SameOwners

LEMMA FinalizedOwners ==
    ASSUME TypeInv, NEW w \in Workflows, Exists(w), NEW outcome \in {"released", "refunded"},
           Finalize(w, transfers[w], outcome), customResolver' = customResolver
    PROVE  SameOwners
<1>1. transfers[w] \in Transfer
    BY DEF TypeInv, EscrowType
<1>2. PICK et \in Transfer : et = transfers[w]
    BY <1>1
<1>3. transfers' = [transfers EXCEPT ![w] = [et EXCEPT !.state = outcome]]
    BY <1>2 DEF Finalize
<1> DEFINE x == [et EXCEPT !.state = outcome]
<1>4. x \in Transfer /\ x.state # "none" /\ x.from = et.from
    BY DEF Transfer, EscrowStates
<1> HIDE DEF x
<1>5. x.from = transfers[w].from
    BY <1>2, <1>4
<1>6. transfers' = [transfers EXCEPT ![w] = x]
    BY <1>3 DEF x
<1> QED
    BY <1>4, <1>5, <1>6, ChangedOwners

PlanActions == {"release", "raise_dispute", "auto_cancel_disputed", "execute_resolution"}

\* No action but a creation makes an escrow or gives it to somebody, and none but the
\* custom resolver decides a dispute.
LEMMA PerformKeeps ==
    ASSUME TypeInv, NEW w \in Workflows, NEW caller \in Addr, NEW e,
           e.isRelease \in BOOLEAN, e.action \in PlanActions, PerformOn(w, caller, e)
    PROVE  /\ TypeInv' /\ SameOwners /\ Exists(w)
           /\ e.action = "execute_resolution" /\ customResolver[w] # NoAddr
                => caller = customResolver[w]
<1>1. \/ e.action = "release" /\ Release(w, caller)
      \/ e.action = "raise_dispute" /\ RaiseDispute(w, caller)
      \/ e.action = "execute_resolution" /\ ExecuteResolution(w, caller, e.isRelease)
      \/ e.action = "auto_cancel_disputed" /\ AutoCancelDisputed(w)
    BY Zenon DEF PerformOn, PlanActions
<1>2. CASE e.action = "release" /\ Release(w, caller)
    <2>1. TypeInv'
        BY <1>2, ReleaseTyped
    <2>2. Exists(w) /\ Finalize(w, transfers[w], "released") /\ customResolver' = customResolver
        BY <1>2 DEF Release, Exists, SettledFromPending
    <2>3. SameOwners
        BY <2>2, FinalizedOwners
    <2> QED
        BY <1>2, <2>1, <2>2, <2>3
<1>3. CASE e.action = "raise_dispute" /\ RaiseDispute(w, caller)
    <2>1. TypeInv'
        BY <1>3, RaiseDisputeTyped
    <2>2. /\ Exists(w) /\ transfers' = [transfers EXCEPT ![w] = Raised(@, caller)]
          /\ customResolver' = customResolver
        BY <1>3 DEF RaiseDispute, Exists
    <2>3. PICK et \in Transfer : et = transfers[w]
        BY DEF TypeInv, EscrowType
    <2> DEFINE x == Raised(et, caller)
    <2>4. x \in Transfer /\ x.state # "none" /\ x.from = et.from
        BY DEF Raised, Transfer, EscrowStates, PartyStatuses
    <2> HIDE DEF x
    <2>5. transfers' = [transfers EXCEPT ![w] = x]
        BY <2>2, <2>3 DEF x
    <2>6. x.from = transfers[w].from
        BY <2>3, <2>4
    <2>7. SameOwners
        BY <2>2, <2>4, <2>5, <2>6, ChangedOwners
    <2> QED
        BY <1>3, <2>1, <2>2, <2>7
<1>4. CASE e.action = "execute_resolution" /\ ExecuteResolution(w, caller, e.isRelease)
    <2>1. TypeInv'
        BY <1>4, ExecuteResolutionTyped
    <2>2. Exists(w) /\ customResolver' = customResolver /\ Authorized(w, caller)
        BY <1>4 DEF ExecuteResolution, Decidable, Exists
    <2>3. \/ Finalize(w, transfers[w], OutcomeOf(e.isRelease))
          \/ UNCHANGED transfers
        BY <1>4, Zenon DEF ExecuteResolution
    <2>4. SameOwners
        <3>1. CASE Finalize(w, transfers[w], OutcomeOf(e.isRelease))
            BY <2>2, <3>1, FinalizedOwners DEF OutcomeOf
        <3>2. CASE UNCHANGED transfers
            BY <2>2, <3>2, OwnersSame
        <3> QED
            BY <2>3, <3>1, <3>2
    <2>5. customResolver[w] # NoAddr => caller = customResolver[w]
        BY <2>2 DEF Authorized
    <2> QED
        BY <2>1, <2>2, <2>4, <2>5
<1>5. CASE e.action = "auto_cancel_disputed" /\ AutoCancelDisputed(w)
    <2>1. TypeInv'
        BY <1>5, AutoCancelDisputedTyped
    <2>2. /\ Exists(w) /\ Finalize(w, transfers[w], "refunded")
          /\ customResolver' = customResolver
        BY <1>5 DEF AutoCancelDisputed, DisputeTimeoutExceeded, Exists
    <2>3. SameOwners
        BY <2>2, FinalizedOwners
    <2> QED
        BY <1>5, <2>1, <2>2, <2>3
<1> QED
    BY <1>1, <1>2, <1>3, <1>4, <1>5

\* A creation gives the next id to the caller's escrow.
Created(w, from, custom) ==
    /\ IsNextId(w)
    /\ transfers'[w].from = from /\ customResolver'[w] = custom
    /\ \A v \in Workflows : /\ Exists(v)' <=> Exists(v) \/ v = w
                            /\ v # w => /\ transfers'[v].from = transfers[v].from
                                        /\ customResolver'[v] = customResolver[v]

LEMMA CreateCreates ==
    ASSUME TypeInv, NEW o \in Order, CreateEscrow(o)
    PROVE  TypeInv' /\ \E w \in Workflows : Created(w, o.from, o.custom)
<1>1. TypeInv'
    BY CreateEscrowTyped
<1>2. transfers \in [Workflows -> Transfer] /\ customResolver \in [Workflows -> OptAddr]
    BY DEF TypeInv, EscrowType
<1>3. PICK w \in Workflows :
          LET fee      == ComputeFee(o.amount, ctx.feeBps)
              afa      == o.amount - fee
              resolver == IF o.custom # NoAddr THEN o.custom ELSE ctx.resolver
          IN  /\ IsNextId(w)
              /\ transfers' = [transfers EXCEPT ![w] =
                     [ state |-> "pending", from |-> o.from, to |-> o.to,
                       token |-> o.token, afa |-> afa, fee |-> fee,
                       resolver |-> resolver,
                       autoRelease |-> DelayedTime(ctx.autoReleaseDelay),
                       autoCancel |-> DelayedTime(ctx.autoCancelDelay),
                       senderStatus |-> "none", recipientStatus |-> "none" ]]
              /\ customResolver' = [customResolver EXCEPT ![w] = o.custom]
    BY Zenon DEF CreateEscrow
<1> DEFINE fee == ComputeFee(o.amount, ctx.feeBps)
           afa == o.amount - fee
           r   == IF o.custom # NoAddr THEN o.custom ELSE ctx.resolver
           auto == DelayedTime(ctx.autoReleaseDelay)
           cancel == DelayedTime(ctx.autoCancelDelay)
<1>4. transfers' = [transfers EXCEPT ![w] =
                   [ state |-> "pending", from |-> o.from, to |-> o.to,
                     token |-> o.token, afa |-> afa, fee |-> fee,
                     resolver |-> r, autoRelease |-> auto, autoCancel |-> cancel,
                     senderStatus |-> "none", recipientStatus |-> "none" ]]
    BY <1>3
<1> HIDE DEF fee, afa, r, auto, cancel
<1> DEFINE x == [ state |-> "pending", from |-> o.from, to |-> o.to,
                  token |-> o.token, afa |-> afa, fee |-> fee,
                  resolver |-> r, autoRelease |-> auto, autoCancel |-> cancel,
                  senderStatus |-> "none", recipientStatus |-> "none" ]
<1>5. x.state = "pending" /\ x.from = o.from
    OBVIOUS
<1>6. transfers' = [transfers EXCEPT ![w] = x]
    BY <1>4
<1> HIDE DEF x
<1>7. /\ \A v \in Workflows : transfers'[v] = IF v = w THEN x ELSE transfers[v]
      /\ \A v \in Workflows : customResolver'[v] = IF v = w THEN o.custom ELSE customResolver[v]
    BY <1>2, <1>3, <1>6
<1>8. \A v \in Workflows : Exists(v)' <=> Exists(v) \/ v = w
    BY <1>5, <1>7 DEF Exists
<1>9. Created(w, o.from, o.custom)
    BY <1>3, <1>5, <1>7, <1>8 DEF Created
<1> QED
    BY <1>1, <1>9

-----------------------------------------------------------------------------
(* The replay's steps.                                                       *)

LEMMA WorkflowsNat == Workflows \subseteq Nat /\ \A w \in Workflows : \A k \in Nat : k < w => k \in Workflows
BY WorkflowsAssumption DEF Workflows

\* An event is the action emitted at its place, sent by an address of the cast.
EventAt(n) ==
    /\ n \in DOMAIN raw
    /\ events[n].call \in Call /\ events[n].at \in Nat
    /\ events[n].call = raw[n].call /\ events[n].agent = raw[n].agent
    /\ IsCreation(events[n]) <=> IsCreation(raw[n])
    /\ Sender(events[n]) = Sender(raw[n])
    /\ Sender(events[n]) \in Addr
    /\ \/ events[n].agent = ResolverProcess /\ events[n].call.action = "execute_resolution"
       \/ events[n].agent \in Agents /\ AgentCall(events[n].agent, events[n].call)

LEMMA EventsAreEmitted ==
    ASSUME PlannerInv, EventsInv, events # <<>>
    PROVE  /\ DOMAIN events = DOMAIN raw
           /\ DOMAIN events = 1 .. Len(events) /\ Len(events) \in Nat
           /\ \A n \in DOMAIN events : EventAt(n)
<1>1. PlanTypeOK /\ CallsOfTheirKind /\ SameEvents
    BY DEF PlannerInv, EventsInv, Exported
<1>2. raw \in Seq(Entry) /\ DOMAIN raw = 1 .. Len(raw) /\ Len(raw) \in Nat
    BY <1>1, LenProperties DEF PlanTypeOK
<1>3. DOMAIN events = DOMAIN raw /\ DOMAIN events = 1 .. Len(events) /\ Len(events) \in Nat
    BY <1>1, <1>2 DEF SameEvents
<1>4. ASSUME NEW n \in DOMAIN events
      PROVE  EventAt(n)
    <2>1. raw[n] \in Entry
        BY <1>2, <1>3
    <2>2. /\ n \in DOMAIN raw /\ events[n].agent = raw[n].agent
          /\ events[n].call = raw[n].call /\ events[n].at \in Nat
        BY <1>1, <1>3 DEF SameEvents
    <2>3. raw[n].call \in Call
        BY <2>1 DEF Entry
    <2>4. \/ raw[n].agent = ResolverProcess /\ raw[n].call.action = "execute_resolution"
          \/ raw[n].agent \in Agents /\ AgentCall(raw[n].agent, raw[n].call)
        BY <1>1, <2>2, Zenon DEF CallsOfTheirKind
    <2>5. Sender(events[n]) = Sender(raw[n])
        BY <2>2 DEF Sender
    <2>6. Sender(raw[n]) \in Addr
        <3>1. CASE raw[n].agent = ResolverProcess
            <4>1. cast.resolver \in Addr
                BY <1>1 DEF PlanTypeOK, Cast
            <4> QED
                BY <3>1, <4>1 DEF Sender
        <3>2. CASE raw[n].agent # ResolverProcess
            <4>1. raw[n].agent \in Agents
                BY <2>4, <3>2
            <4>2. cast.agents[raw[n].agent].addr \in Addr
                BY <1>1, <4>1, AgentTyped
            <4> QED
                BY <3>2, <4>2 DEF Sender
        <3> QED
            BY <3>1, <3>2
    <2> QED
        BY <2>2, <2>3, <2>4, <2>5, <2>6 DEF EventAt, IsCreation
<1> QED
    BY <1>3, <1>4

\* The events and what was emitted stay as they are while the scenario is replayed.
LEMMA EventsStay ==
    ASSUME EventsInv, NEW made, Predicts(made), UNCHANGED planVars
    PROVE  EventsInv' /\ Predicts(made)'
<1>1. /\ UNCHANGED <<cast, now, agenda, todo, wfCounter, raw>> /\ events' = events
    BY DEF planVars
<1>2. CallsOfTheirKind' /\ BegunOnce' /\ EmittedInOrder' /\ Predicts(made)'
    BY <1>1, EmittedKept DEF EventsInv
<1>3. Exported'
    BY <1>1 DEF EventsInv, Exported, SameEvents
<1> QED
    BY <1>2, <1>3 DEF EventsInv

LEMMA WorldStays == TypeInv /\ UNCHANGED vars => TypeInv' /\ SameOwners
<1>1. TypeInv /\ UNCHANGED vars => TypeInv'
    BY NextTyped
<1>2. UNCHANGED vars => SameOwners
    BY OwnersSame DEF vars, worldVars, escrowVars
<1> QED
    BY <1>1, <1>2

\* Before the first event is replayed there is no escrow.
LEMMA NothingMade ==
    ASSUME PlanTypeOK, NEW made, Predicts(made), Fulfils(made), results = <<>>
    PROVE  \A w \in Workflows : ~Exists(w)
<1>1. CreationsAccepted
    BY DEF CreationsAccepted
<1>2. wfCounter \in Nat /\ raw \in Seq(Entry)
    BY DEF PlanTypeOK
<1>3. ASSUME NEW w \in Workflows, Exists(w)
      PROVE  FALSE
    <2>1. w < wfCounter /\ made[w] <= Len(results)
        BY <1>1, <1>3 DEF Fulfils
    <2>2. w \in 0 .. wfCounter - 1
        BY <1>2, <2>1, WorkflowsNat
    <2>3. made[w] \in DOMAIN raw
        BY <2>2 DEF Predicts
    <2>4. made[w] \in Nat /\ made[w] >= 1
        BY <1>2, <2>3, LenProperties
    <2>5. Len(results) = 0
        OBVIOUS
    <2> QED
        BY <2>1, <2>4, <2>5
<1> QED
    BY <1>3

LEMMA PlanningKeeps ==
    ASSUME ReplayInv, Planning
    PROVE  ReplayInv'
<1>1. PICK made : Predicts(made) /\ Fulfils(made)
    BY DEF ReplayInv
<1>2. PlannerInv /\ PlannerInv' /\ EventsInv /\ WorldKept /\ PlannerNext /\ BlockTime \in Nat
    BY PlannerStep DEF ReplayInv, Planning, WorldKept
<1>3. EventsInv' /\ (\E m : Predicts(m)') /\ events = <<>>
    BY <1>1, <1>2, PlannerEvents, Zenon
<1>4. PICK m : Predicts(m)'
    BY <1>3
<1>5. /\ UNCHANGED vars /\ results' = results /\ taken' = taken
      /\ TypeInv /\ results \in Seq(Replies) /\ Len(results) <= Len(events)
      /\ taken => events # <<>> /\ Len(results) < Len(events)
    BY <1>2 DEF Planning, WorldKept
<1>6. results = <<>> /\ ~taken
    <2>1. Len(results) \in Nat /\ Len(results) <= 0
        BY <1>3, <1>5
    <2> QED
        BY <1>3, <1>5, <2>1, EmptySeq
<1>7. results' = <<>> /\ ~taken' /\ Len(results') = 0
    BY <1>5, <1>6
<1>8. TypeInv' /\ SameOwners
    BY <1>5, WorldStays
<1>9. \A w \in Workflows : ~Exists(w)'
    <2>1. \A w \in Workflows : ~Exists(w)
        BY <1>1, <1>2, <1>6, NothingMade DEF PlannerInv
    <2> QED
        BY <1>8, <2>1 DEF SameOwners
<1>10. Len(events') \in Nat
    <2>1. raw' \in Seq(Entry)
        BY <1>2 DEF PlannerInv, PlanTypeOK
    <2>2. events' = <<>> \/ Len(events') = Len(raw')
        BY <1>3 DEF EventsInv, Exported, SameEvents
    <2> QED
        BY <2>1, <2>2
<1>11. WorldKept'
    <2>1. results' \in Seq(Replies) /\ Len(results') <= Len(events')
        BY <1>5, <1>7, <1>10
    <2> QED
        BY <1>2, <1>7, <1>8, <1>9, <2>1, Zenon DEF WorldKept
<1>12. OutsidersOut'
    BY <1>7 DEF OutsidersOut
<1>13. Fulfils(m)'
    <2>1. ASSUME NEW w \in Workflows, w < wfCounter'
          PROVE  ~(m[w] <= Len(results'))
        <3>1. wfCounter' \in Nat /\ raw' \in Seq(Entry)
            BY <1>2 DEF PlannerInv, PlanTypeOK
        <3>2. w \in 0 .. wfCounter' - 1
            <4>1. w \in Nat
                BY WorkflowsNat
            <4>2. \A c \in Nat : w < c => w \in 0 .. c - 1
                BY <4>1
            <4> QED
                BY <2>1, <3>1, <4>2, Zenon
        <3>3. m \in [0 .. wfCounter' - 1 -> DOMAIN raw']
            BY <1>4 DEF Predicts
        <3>4. m[w] \in DOMAIN raw'
            BY <3>2, <3>3
        <3>5. DOMAIN raw' = 1 .. Len(raw') /\ Len(raw') \in Nat
            BY <3>1, LenProperties
        <3>6. m[w] \in Nat /\ m[w] >= 1
            BY <3>4, <3>5
        <3> QED
            BY <1>7, <3>6
    <2> QED
        BY <1>9, <2>1 DEF Fulfils
<1> QED
    BY <1>2, <1>3, <1>4, <1>11, <1>12, <1>13, Zenon DEF ReplayInv

\* What an event that is not answered yet leaves as it was.
LEMMA RepliesStay ==
    ASSUME ReplayInv, UNCHANGED planVars, results' = results, TypeInv', SameOwners,
           taken' => events # <<>> /\ Len(results) < Len(events)
    PROVE  ReplayInv'
<1>1. PICK made : Predicts(made) /\ Fulfils(made)
    BY DEF ReplayInv
<1>2. PlannerInv' /\ EventsInv' /\ Predicts(made)'
    BY <1>1, OtherStep, EventsStay DEF ReplayInv, planVars
<1>3. events' = events /\ cast' = cast /\ raw' = raw /\ wfCounter' = wfCounter
    BY DEF planVars
<1>4. WorldKept'
    <2>1. \A w \in Workflows : Exists(w)' => customResolver'[w] = cast.resolver
        BY DEF ReplayInv, WorldKept, SameOwners
    <2> QED
        BY <1>3, <2>1 DEF ReplayInv, WorldKept
<1>5. OutsidersOut'
    BY <1>3 DEF ReplayInv, OutsidersOut, Outsider, Strategy, Sender
<1>6. Fulfils(made)'
    <2>1. CreationsAccepted' => CreationsAccepted
        BY <1>3 DEF CreationsAccepted, IsCreation
    <2>2. \A n : Sender(raw[n])' = Sender(raw[n])
        BY <1>3 DEF Sender
    <2> QED
        BY <1>1, <1>3, <2>1, <2>2 DEF Fulfils, SameOwners
<1> QED
    BY <1>2, <1>4, <1>5, <1>6, Zenon DEF ReplayInv

\* The event whose answer comes next.
LEMMA NextEvent ==
    ASSUME ReplayInv, taken
    PROVE  /\ Position \in DOMAIN events /\ EventAt(Position) /\ Len(results) \in Nat
           /\ DOMAIN results = 1 .. Len(results)
           /\ DOMAIN events = 1 .. Len(events) /\ Len(events) \in Nat
<1>1. /\ results \in Seq(Replies) /\ events # <<>> /\ Len(results) < Len(events)
    BY DEF ReplayInv, WorldKept
<1>2. /\ DOMAIN events = 1 .. Len(events) /\ Len(events) \in Nat
      /\ \A n \in DOMAIN events : EventAt(n)
    BY <1>1, EventsAreEmitted DEF ReplayInv
<1>3. Len(results) \in Nat /\ DOMAIN results = 1 .. Len(results)
    BY <1>1, LenProperties
<1>4. Position \in DOMAIN events
    BY <1>1, <1>2, <1>3 DEF Position
<1> QED
    BY <1>2, <1>3, <1>4

\* What an answer changes of the replay.
Answers(n, r) ==
    /\ results' \in Seq(Replies)
    /\ Len(results') = n /\ n = Len(results) + 1
    /\ DOMAIN results' = DOMAIN results \cup {n}
    /\ \A k \in DOMAIN results : results'[k] = results[k] /\ k # n
    /\ results'[n] = r
    /\ n <= Len(events) /\ n \in Nat

LEMMA AnswerParts ==
    ASSUME ReplayInv, taken, NEW r \in Replies, Answered(r)
    PROVE  Answers(Position, r)
<1>1. results' = Append(results, r) /\ results \in Seq(Replies)
    BY DEF ReplayInv, WorldKept, Answered
<1>2. /\ results' \in Seq(Replies) /\ Len(results') = Len(results) + 1
      /\ \A k \in 1 .. Len(results) : results'[k] = results[k]
      /\ results'[Len(results) + 1] = r
    BY <1>1, AppendProperties
<1>3. /\ Position \in DOMAIN events /\ Len(results) \in Nat
      /\ DOMAIN results = 1 .. Len(results)
      /\ DOMAIN events = 1 .. Len(events) /\ Len(events) \in Nat
    BY NextEvent
<1>4. DOMAIN results' = 1 .. Len(results')
    BY <1>2, LenProperties
<1>5. PICK l \in Nat : l = Len(results)
    BY <1>3
<1>6. /\ DOMAIN results' = DOMAIN results \cup {l + 1}
      /\ \A k \in DOMAIN results : k # l + 1
    BY <1>2, <1>3, <1>4, <1>5
<1>7. Position = l + 1
    BY <1>5 DEF Position
<1> QED
    BY <1>2, <1>3, <1>5, <1>6, <1>7 DEF Answers

\* An answer, whatever it is, to an event that creates nothing or is not accepted.
LEMMA AnswerKeeps ==
    ASSUME ReplayInv, taken, NEW r \in Replies, Answered(r), TypeInv', SameOwners,
           IsCreation(Current) => r # "ok",
           Outsider(Current) => r # "ok"
    PROVE  ReplayInv'
<1>1. PICK made : Predicts(made) /\ Fulfils(made)
    BY DEF ReplayInv
<1>2. UNCHANGED planVars /\ taken' = FALSE
    BY DEF Answered
<1>3. PlannerInv' /\ EventsInv' /\ Predicts(made)'
    BY <1>1, <1>2, OtherStep, EventsStay DEF ReplayInv, planVars
<1>4. events' = events /\ cast' = cast /\ raw' = raw /\ wfCounter' = wfCounter
    BY <1>2 DEF planVars
<1>5. PICK n : n = Position
    OBVIOUS
<1>6. Answers(n, r) /\ n \in DOMAIN events /\ EventAt(n)
    BY <1>5, AnswerParts, NextEvent
<1>7. Current = events[n]
    BY <1>5 DEF Current
<1>8. WorldKept'
    <2>1. \A w \in Workflows : Exists(w)' => customResolver'[w] = cast.resolver
        BY DEF ReplayInv, WorldKept, SameOwners
    <2>2. results' \in Seq(Replies) /\ Len(results') <= Len(events')
        BY <1>4, <1>6 DEF Answers
    <2> QED
        BY <1>2, <1>4, <2>1, <2>2 DEF ReplayInv, WorldKept
<1>9. OutsidersOut'
    <2>1. \A k \in DOMAIN results' : Outsider(events[k]) => results'[k] # "ok"
        BY <1>6, <1>7 DEF ReplayInv, OutsidersOut, Answers
    <2> QED
        BY <1>4, <2>1 DEF OutsidersOut, Outsider, Strategy, Sender
<1>10. Fulfils(made)'
    <2> SUFFICES ASSUME CreationsAccepted'
                 PROVE  \A w \in Workflows :
                          /\ Exists(w)' <=> w < wfCounter /\ made[w] <= Len(results')
                          /\ Exists(w)' => transfers'[w].from = Sender(raw[made[w]])
        BY <1>4 DEF Fulfils, Sender
    <2>1. CreationsAccepted
        BY <1>4, <1>6 DEF CreationsAccepted, IsCreation, Answers
    <2>2. ~IsCreation(raw[n])
        <3>1. IsCreation(events[n]) => results'[n] = "ok"
            BY <1>4, <1>6 DEF CreationsAccepted, IsCreation, Answers
        <3>2. ~IsCreation(events[n])
            BY <1>6, <1>7, <3>1 DEF Answers
        <3> QED
            BY <1>6, <3>2 DEF EventAt
    <2>3. ASSUME NEW w \in Workflows, w < wfCounter
          PROVE  made[w] <= Len(results') <=> made[w] <= Len(results)
        <3>1. w \in 0 .. wfCounter - 1
            BY <2>3, WorkflowsNat DEF ReplayInv, PlannerInv, PlanTypeOK
        <3>2. made[w] \in DOMAIN raw /\ IsCreation(raw[made[w]])
            BY <1>1, <3>1 DEF Predicts
        <3>3. made[w] # n
            BY <2>2, <3>2
        <3>4. made[w] \in Nat
            BY <3>2 DEF ReplayInv, PlannerInv, PlanTypeOK
        <3>5. Len(results) \in Nat /\ Len(results') = Len(results) + 1 /\ n = Len(results) + 1
            BY <1>6, NextEvent DEF Answers
        <3> QED
            BY <3>3, <3>4, <3>5
    <2> QED
        BY <1>1, <2>1, <2>3 DEF Fulfils, SameOwners
<1> QED
    BY <1>3, <1>8, <1>9, <1>10, Zenon DEF ReplayInv

\* The creation at the place made[k] is given the id k when those before it were accepted.
LEMMA CreationKeeps ==
    ASSUME ReplayInv, taken, Answered("ok"), TypeInv', IsCreation(Current),
           NEW w \in Workflows, Created(w, Sender(Current), cast.resolver)
    PROVE  ReplayInv'
<1>1. PICK made : Predicts(made) /\ Fulfils(made)
    BY DEF ReplayInv
<1>2. UNCHANGED planVars /\ taken' = FALSE
    BY DEF Answered
<1>3. PlannerInv' /\ EventsInv' /\ Predicts(made)'
    BY <1>1, <1>2, OtherStep, EventsStay DEF ReplayInv, planVars
<1>4. events' = events /\ cast' = cast /\ raw' = raw /\ wfCounter' = wfCounter
    BY <1>2 DEF planVars
<1>5. PICK n : n = Position
    OBVIOUS
<1>6. Answers(n, "ok") /\ n \in DOMAIN events /\ EventAt(n)
    BY <1>5, AnswerParts, NextEvent DEF Replies
<1>7. Current = events[n]
    BY <1>5 DEF Current
<1>8. IsCreation(raw[n]) /\ n \in DOMAIN raw /\ Sender(Current) = Sender(raw[n])
    BY <1>6, <1>7 DEF EventAt
<1>9. ~Outsider(events[n])
    <2>1. events[n].call.action = "create_escrow"
        BY <1>7 DEF IsCreation
    <2>2. events[n].agent \in Agents /\ AgentCall(events[n].agent, events[n].call)
        BY <1>6, <2>1 DEF EventAt
    <2>3. Creates(cast.agents[events[n].agent])
        BY <2>1, <2>2 DEF AgentCall
    <2>4. events[n].agent # ResolverProcess
        BY <2>2, CastTyped DEF ReplayInv, PlannerInv
    <2> QED
        BY <2>3, <2>4 DEF Outsider, Strategy, Creates
<1>10. WorldKept'
    <2>1. ASSUME NEW v \in Workflows, Exists(v)'
          PROVE  customResolver'[v] = cast.resolver
        <3>1. CASE v = w
            BY <3>1 DEF Created
        <3>2. CASE v # w
            BY <2>1, <3>2 DEF Created, ReplayInv, WorldKept
        <3> QED
            BY <3>1, <3>2
    <2>2. results' \in Seq(Replies) /\ Len(results') <= Len(events')
        BY <1>4, <1>6 DEF Answers
    <2> QED
        BY <1>2, <1>4, <2>1, <2>2 DEF ReplayInv, WorldKept
<1>11. OutsidersOut'
    <2>1. \A k \in DOMAIN results' : Outsider(events[k]) => results'[k] # "ok"
        BY <1>6, <1>9 DEF ReplayInv, OutsidersOut, Answers
    <2> QED
        BY <1>4, <2>1 DEF OutsidersOut, Outsider, Strategy, Sender
<1>12. Fulfils(made)'
    <2> SUFFICES ASSUME CreationsAccepted'
                 PROVE  \A v \in Workflows :
                          /\ Exists(v)' <=> v < wfCounter /\ made[v] <= Len(results')
                          /\ Exists(v)' => transfers'[v].from = Sender(raw[made[v]])
        BY <1>4 DEF Fulfils, Sender
    <2>1. CreationsAccepted
        BY <1>4, <1>6 DEF CreationsAccepted, IsCreation, Answers
    <2>2. \A v \in Workflows : /\ Exists(v) <=> v < wfCounter /\ made[v] <= Len(results)
                               /\ Exists(v) => transfers[v].from = Sender(raw[made[v]])
        BY <1>1, <2>1 DEF Fulfils
    <2>3. PICK k \in 0 .. wfCounter - 1 : made[k] = n
        BY <1>1, <1>8 DEF Predicts
    <2>4. /\ wfCounter \in Nat /\ raw \in Seq(Entry)
          /\ Len(results) \in Nat /\ Len(results') = Len(results) + 1 /\ n = Len(results) + 1
        BY <1>6, NextEvent DEF Answers, ReplayInv, PlannerInv, PlanTypeOK
    <2>5. \A v \in Workflows : v < wfCounter <=> v \in 0 .. wfCounter - 1
        BY <2>4, WorkflowsNat
    <2>6. \A v \in 0 .. wfCounter - 1 : made[v] \in Nat
        <3>1. made \in [0 .. wfCounter - 1 -> DOMAIN raw]
            BY <1>1 DEF Predicts
        <3>2. DOMAIN raw = 1 .. Len(raw) /\ Len(raw) \in Nat
            BY <2>4, LenProperties
        <3> QED
            BY <3>1, <3>2
    <2>7. ASSUME NEW v \in Workflows, v < wfCounter
          PROVE  /\ made[v] <= Len(results) <=> v < k
                 /\ made[v] <= Len(results') <=> v < k \/ v = k
        <3>1. v \in 0 .. wfCounter - 1
            BY <2>5, <2>7
        <3>2. v < k => made[v] < made[k]
            BY <1>1, <3>1 DEF Predicts
        <3>3. k < v => made[k] < made[v]
            BY <1>1, <3>1 DEF Predicts
        <3>4. v < k \/ v = k \/ k < v
            BY <2>4, <3>1
        <3>5. made[v] \in Nat /\ made[k] = Len(results) + 1
            BY <2>3, <2>4, <2>6, <3>1
        <3>6. v < k => ~(v = k)
            BY <3>1
        <3>7. k < v => ~(v = k) /\ ~(v < k)
            BY <3>1
        <3> QED
            BY <2>4, <3>2, <3>3, <3>4, <3>5, <3>6, <3>7
    <2>8. \A v \in Workflows : v < k => v < wfCounter
        BY <2>4, WorkflowsNat
    <2>9. \A v \in Workflows : v < w <=> v < k
        BY <2>2, <2>7, <2>8 DEF Created, IsNextId
    <2>10. w = k
        <3>1. w \in Nat /\ k \in Nat /\ (k < w => k \in Workflows)
            BY <2>4, WorkflowsNat
        <3>2. ~(w < k)
            BY <2>9, <3>1
        <3>3. ~(k < w)
            BY <2>9, <3>1
        <3> QED
            BY <3>1, <3>2, <3>3
    <2>11. ASSUME NEW v \in Workflows
           PROVE  /\ Exists(v)' <=> v < wfCounter /\ made[v] <= Len(results')
                  /\ Exists(v)' => transfers'[v].from = Sender(raw[made[v]])
        <3>1. Exists(v)' <=> Exists(v) \/ v = w
            BY DEF Created
        <3>2. k < wfCounter
            BY <2>4
        <3>3. Exists(v)' <=> v < wfCounter /\ made[v] <= Len(results')
            BY <2>2, <2>7, <2>10, <3>1, <3>2
        <3>4. CASE v = w
            BY <1>8, <2>3, <2>10, <3>3, <3>4 DEF Created
        <3>5. CASE v # w
            BY <2>2, <3>1, <3>3, <3>5 DEF Created
        <3> QED
            BY <3>3, <3>4, <3>5
    <2> QED
        BY <2>11
<1> QED
    BY <1>3, <1>10, <1>11, <1>12, Zenon DEF ReplayInv

LEMMA AcceptedKeeps ==
    ASSUME ReplayInv, Accepted
    PROVE  ReplayInv'
<1>1. taken /\ PerformCurrent /\ Answered("ok") /\ TypeInv
    BY DEF Accepted, ReplayInv, WorldKept
<1> DEFINE n == Position
<1>2. EventAt(n)
    BY <1>1, NextEvent
<1>3. PICK e : e = events[n].call
    OBVIOUS
<1>4. PICK caller \in Addr : caller = Sender(Current)
    BY <1>2 DEF Current, EventAt
<1>5. /\ e \in Call /\ Current = events[n]
      /\ \/ events[n].agent = ResolverProcess /\ e.action = "execute_resolution"
         \/ events[n].agent \in Agents /\ AgentCall(events[n].agent, e)
    BY <1>2, <1>3 DEF EventAt, Current
<1>6. Perform(caller, e, cast.resolver)
    BY <1>1, <1>3, <1>4, <1>5 DEF PerformCurrent
<1> HIDE DEF n
<1>7. cast.resolver \in Addr
    BY DEF ReplayInv, PlannerInv, PlanTypeOK, Cast
<1>8. CASE e.action = "create_escrow"
    <2> DEFINE o == [ from |-> caller, to |-> e.to, token |-> CHOOSE t \in Tokens : TRUE,
                      amount |-> e.amount, custom |-> cast.resolver ]
    <2>1. CreateEscrow(o)
        <3>1. CASE e.wf \in Workflows /\ PerformOn(e.wf, caller, e)
            BY <1>8, <3>1 DEF PerformOn
        <3> QED
            BY <1>6, <3>1, Zenon DEF Perform
    <2>2. o \in Order
        <3>1. e.to \in Addr
            BY <1>5, <1>8 DEF AgentCall
        <3>2. e.amount \in Nat
            BY <1>5 DEF Call
        <3>3. (CHOOSE t \in Tokens : TRUE) \in Tokens
            BY TokensAssumption
        <3> QED
            BY <1>7, <3>1, <3>2, <3>3 DEF Order, OptAddr
    <2>3. o.from = caller /\ o.custom = cast.resolver
        OBVIOUS
    <2> HIDE DEF o
    <2>4. TypeInv' /\ \E w \in Workflows : Created(w, caller, cast.resolver)
        BY <1>1, <2>1, <2>2, <2>3, CreateCreates
    <2>5. IsCreation(Current)
        BY <1>3, <1>5, <1>8 DEF IsCreation
    <2> QED
        BY <1>1, <1>4, <2>4, <2>5, CreationKeeps
<1>9. CASE e.action # "create_escrow"
    <2>1. e.action \in PlanActions
        BY <1>5, <1>9 DEF AgentCall, PlanActions
    <2>2. e.wf \in Workflows /\ PerformOn(e.wf, caller, e)
        BY <1>6, <1>9, Zenon DEF Perform
    <2>3. e.isRelease \in BOOLEAN
        BY <1>5 DEF Call
    <2>4. PICK w \in Workflows : w = e.wf
        BY <2>2
    <2>5. /\ TypeInv' /\ SameOwners /\ Exists(w)
          /\ e.action = "execute_resolution" /\ customResolver[w] # NoAddr
               => caller = customResolver[w]
        BY <1>1, <2>1, <2>2, <2>3, <2>4, PerformKeeps
    <2>6. ~IsCreation(Current)
        BY <1>3, <1>5, <1>9 DEF IsCreation
    <2>7. ~Outsider(Current)
        <3> SUFFICES ASSUME Outsider(Current)
                     PROVE  FALSE
            OBVIOUS
        <3>1. caller # cast.resolver /\ Strategy(events[n]) = "AttackingResolver"
            BY <1>4, <1>5 DEF Outsider
        <3>2. events[n].agent # ResolverProcess
            BY <3>1 DEF Strategy
        <3>3. e.action = "execute_resolution"
            BY <1>5, <3>1, <3>2 DEF Strategy, AgentCall, Creates
        <3>4. customResolver[w] = cast.resolver
            BY <2>5 DEF ReplayInv, WorldKept
        <3> QED
            BY <1>7, <2>5, <3>1, <3>3, <3>4, NoAddrAssumption
    <2> QED
        BY <1>1, <2>5, <2>6, <2>7, AnswerKeeps DEF Replies
<1> QED
    BY <1>8, <1>9

LEMMA ReplayKeeps ==
    ASSUME ReplayInv, [ReplayNext]_replayVars
    PROVE  ReplayInv'
<1>1. TypeInv /\ (taken => events # <<>> /\ Len(results) < Len(events))
    BY DEF ReplayInv, WorldKept
<1>2. CASE Planning
    BY <1>2, PlanningKeeps
<1>3. CASE Take
    <2>1. /\ events # <<>> /\ Position <= Len(events) /\ AdvanceTo(Current.at)
          /\ UNCHANGED planVars /\ results' = results
        BY <1>3 DEF Take, Replaying
    <2>2. Len(results) \in Nat
        BY DEF ReplayInv, WorldKept
    <2>3. /\ DOMAIN events = 1 .. Len(events) /\ Len(events) \in Nat
          /\ \A n \in DOMAIN events : EventAt(n)
        BY <2>1, EventsAreEmitted DEF ReplayInv
    <2>4. Position \in DOMAIN events /\ Len(results) < Len(events)
        BY <2>1, <2>2, <2>3 DEF Position
    <2>5. Current.at \in Nat
        BY <2>3, <2>4 DEF EventAt, Current
    <2>6. TypeInv'
        <3>1. ClockType'
            BY <1>1, <2>1, <2>5 DEF AdvanceTo, TypeInv, ClockType
        <3>2. UNCHANGED <<previousDecisions, fraudSlashes>>
            BY <2>1 DEF AdvanceTo, roundVars, slashVars
        <3> QED
            BY <1>1, <2>1, <3>1, <3>2, GroupsKept DEF AdvanceTo, TypeInv
    <2>7. SameOwners
        BY <2>1, OwnersSame DEF AdvanceTo, escrowVars
    <2> QED
        BY <2>1, <2>4, <2>6, <2>7, RepliesStay
<1>4. CASE Accepted
    BY <1>4, AcceptedKeeps
<1>5. CASE Refused
    <2>1. taken /\ Answered("rejected") /\ UNCHANGED vars
        BY <1>5 DEF Refused
    <2>2. TypeInv' /\ SameOwners
        BY <1>1, <2>1, WorldStays
    <2> QED
        BY <2>1, <2>2, AnswerKeeps DEF Replies
<1>6. CASE Halted
    <2>1. taken /\ Answered("invariant_violated") /\ UNCHANGED vars
        BY <1>6 DEF Halted
    <2>2. TypeInv' /\ SameOwners
        BY <1>1, <2>1, WorldStays
    <2> QED
        BY <2>1, <2>2, AnswerKeeps DEF Replies
<1>7. CASE Finish \/ UNCHANGED replayVars
    <2>1. UNCHANGED vars /\ UNCHANGED planVars /\ results' = results /\ taken' = taken
        BY <1>7 DEF Finish, replayVars
    <2>2. TypeInv' /\ SameOwners
        BY <1>1, <2>1, WorldStays
    <2> QED
        BY <1>1, <2>1, <2>2, RepliesStay
<1> QED
    BY <1>2, <1>3, <1>4, <1>5, <1>6, <1>7 DEF ReplayNext

LEMMA ReplayInitHolds ==
    ASSUME ReplayInit
    PROVE  ReplayInv
<1>1. PlannerInv
    BY PlannerInitHolds DEF ReplayInit
<1>2. /\ todo = [i \in Agents |-> <<>>] /\ now = 0
      /\ wfCounter = 0 /\ raw = <<>> /\ events = <<>> /\ results = <<>> /\ taken = FALSE
    BY <1>1, CastTyped DEF ReplayInit, PlannerInit, PlannerInv
<1>3. EventsInv
    <2>1. CallsOfTheirKind
        BY <1>2 DEF CallsOfTheirKind
    <2>2. WaitsApart(agenda)
        BY FirstAgenda DEF ReplayInit, WaitsApart
    <2>3. BegunOnce /\ EmittedInOrder /\ Exported
        BY <1>2, <2>2 DEF BegunOnce, EmittedInOrder, Exported
    <2> QED
        BY <2>1, <2>3 DEF EventsInv
<1>4. WorldInit /\ time = BlockTime
    BY DEF ReplayInit
<1>5. WorldKept
    <2>1. TypeInv
        BY <1>4, InitTyped DEF Init
    <2>2. BlockTime \in Nat
        BY <1>4, TimeAssumption DEF WorldInit
    <2>3. results \in Seq(Replies) /\ Len(results) <= Len(events)
        BY <1>2
    <2>4. \A w \in Workflows : ~Exists(w)
        BY <1>4 DEF WorldInit, Exists, NoTransfer
    <2> QED
        BY <1>2, <2>1, <2>2, <2>3, <2>4 DEF WorldKept
<1>6. OutsidersOut
    BY <1>2 DEF OutsidersOut
<1> DEFINE none == [k \in 0 .. wfCounter - 1 |-> 0]
<1>7. 0 .. wfCounter - 1 = {}
    BY <1>2
<1>8. none \in [0 .. wfCounter - 1 -> DOMAIN raw]
    BY <1>7
<1> HIDE DEF none
<1>9. Predicts(none)
    BY <1>2, <1>7, <1>8 DEF Predicts
<1>10. Fulfils(none)
    <2>1. \A w \in Workflows : ~Exists(w)
        BY <1>4 DEF WorldInit, Exists, NoTransfer
    <2>2. \A w \in Workflows : ~(w < wfCounter)
        BY <1>2, WorkflowsNat
    <2> QED
        BY <2>1, <2>2 DEF Fulfils
<1> QED
    BY <1>1, <1>3, <1>5, <1>6, <1>9, <1>10 DEF ReplayInv

\* The simulation is given what it is given once.
LEMMA CastStays == [ReplayNext]_replayVars => cast' = cast
<1>1. PlannerNext => cast' = cast
    BY DEF PlannerNext, Begin, Continue, Resolver, ResolverGivesUp, Export
<1>2. Planning => cast' = cast
    BY <1>1 DEF Planning
<1>3. UNCHANGED planVars => cast' = cast
    BY DEF planVars
<1>4. Take \/ Accepted \/ Refused \/ Halted \/ Finish => UNCHANGED planVars
    BY DEF Take, Accepted, Refused, Halted, Finish, Answered
<1>5. UNCHANGED replayVars => cast' = cast
    BY <1>3 DEF replayVars
<1> QED
    BY <1>2, <1>3, <1>4, <1>5 DEF ReplayNext

\* Every state of a generated scenario's simulation and replay satisfies it.
THEOREM ReplayInvAlways == ReplaySpec => []ReplayInv
<1>1. ReplayInit => ReplayInv
    BY ReplayInitHolds
<1>2. ReplayInv /\ [ReplayNext]_replayVars => ReplayInv'
    BY ReplayKeeps
<1> QED
    BY <1>1, <1>2, PTL DEF ReplaySpec

\* Whatever the strategies, the delays and the order in which the processes come to
\* act, what a buyer does after its creation names the escrow that creation makes on
\* replay (the ids are predicted by a counter, agents.py), provided that the creations
\* are accepted, since one that is refused moves every later id, and that the senders
\* tell the escrows apart.
THEOREM IdsPredicted ==
    (\A c \in Casts : SendersApart(c)) => (ReplaySpec => [](CreationsAccepted => IdsAsPredicted))
<1>1. ASSUME ReplayInv, SendersApart(cast), CreationsAccepted
      PROVE  IdsAsPredicted
    <2> SUFFICES ASSUME NEW w \in Workflows, NEW n \in DOMAIN events,
                        Exists(w), Sender(events[n]) = transfers[w].from
                 PROVE  events[n].call.wf \in {w, NoWf}
        BY DEF IdsAsPredicted
    <2>1. PICK made : Predicts(made) /\ Fulfils(made)
        BY <1>1 DEF ReplayInv
    <2>2. PlanTypeOK /\ CallsOfTheirKind
        BY <1>1 DEF ReplayInv, PlannerInv, EventsInv
    <2>3. events # <<>>
        OBVIOUS
    <2>4. EventAt(n)
        BY <1>1, <2>3, EventsAreEmitted DEF ReplayInv
    <2>5. w < wfCounter /\ transfers[w].from = Sender(raw[made[w]])
        BY <1>1, <2>1 DEF Fulfils
    <2>6. w \in 0 .. wfCounter - 1
        BY <2>2, <2>5, WorkflowsNat DEF PlanTypeOK
    <2> DEFINE c == raw[made[w]]
    <2>7. made[w] \in DOMAIN raw /\ IsCreation(c)
        BY <2>1, <2>6 DEF Predicts
    <2>8. c.agent \in Agents /\ Creates(cast.agents[c.agent]) /\ c.call.wf = NoWf
        <3>1. c.call.action = "create_escrow"
            BY <2>7 DEF IsCreation
        <3>2. c.agent \in Agents /\ AgentCall(c.agent, c.call)
            BY <2>2, <2>7, <3>1 DEF CallsOfTheirKind
        <3> QED
            BY <3>1, <3>2 DEF AgentCall
    <2>9. c.agent # ResolverProcess
        BY <2>2, <2>8, CastTyped
    <2>10. Sender(raw[n]) = cast.agents[c.agent].addr
        BY <2>4, <2>5, <2>9 DEF EventAt, Sender
    <2>11. raw[n].agent # ResolverProcess /\ raw[n].agent \in Agents
        <3>1. raw[n].agent # ResolverProcess
            BY <1>1, <2>8, <2>10 DEF SendersApart, Sender, Agents
        <3> QED
            BY <2>4, <3>1 DEF EventAt
    <2>12. raw[n].agent = c.agent
        BY <1>1, <2>8, <2>10, <2>11 DEF SendersApart, Sender, Agents
    <2>13. n = made[w] \/ raw[n].call.wf = w
        BY <2>1, <2>4, <2>6, <2>12 DEF Predicts, EventAt
    <2> QED
        BY <2>4, <2>8, <2>13 DEF EventAt
<1>2. ReplayInv /\ SendersApart(cast) => (CreationsAccepted => IdsAsPredicted)
    BY <1>1
<1>3. SUFFICES ASSUME \A c \in Casts : SendersApart(c)
               PROVE  ReplaySpec => [](CreationsAccepted => IdsAsPredicted)
    OBVIOUS
<1>4. ReplayInit => SendersApart(cast)
    BY <1>3 DEF ReplayInit, PlannerInit
<1>5. SendersApart(cast) /\ [ReplayNext]_replayVars => SendersApart(cast)'
    <2>1. [ReplayNext]_replayVars => cast' = cast
        BY CastStays
    <2> QED
        BY <2>1
<1> QED
    BY <1>2, <1>4, <1>5, ReplayInvAlways, PTL DEF ReplaySpec

\* The first half of PlansCarriedOut: an attacking resolver that is not the one the
\* escrows name (AttackingResolver.plan guesses at an escrow and at a verdict) is never
\* let in, whichever escrow its guess names and whenever it comes.
THEOREM OutsidersNeverLetIn == ReplaySpec => []OutsidersOut
<1>1. ReplayInv => OutsidersOut
    BY DEF ReplayInv
<1> QED
    BY <1>1, ReplayInvAlways, PTL

=============================================================================

------------------------------ MODULE LiveAgents ------------------------------
(***************************************************************************)
(* The reactive agents of the live driver (python/sew_sim/live_agents.py,   *)
(* and the two buyers of eth_failure_modes.py): what each kind calls, given *)
(* the last world view, what it remembers by having decided, and what it    *)
(* learns from the answer to its own call.  An agent is a record fixed by   *)
(* its constructor, its memory a record that changes; each kind uses the    *)
(* fields it needs.  Nothing here has state.                                *)
(***************************************************************************)
EXTENDS SewEvents

\* An agent: its kind, the address its id is mapped to, and the constructor's
\* arguments, of which bound is n, throughput, timelock_ticks, capacity,
\* max_escalations or min_profit_abs, by kind.
Agent == [ kind : STRING, addr : Addr, to : Addr, amount : Nat, bound : Nat,
           favour : BOOLEAN, feeBps : Bps, next : OptAddr ]

\* What an agent keeps between calls.
Memory ==
    [ own : OptWf,               \* _workflow_id: the escrow it created
      step : 0 .. 3,             \* how far its own script has got
      marked : SUBSET Workflows, \* _resolved, _attempted, _escalated, _target_wfs
      pending : OptWf,           \* _pending_wf: the escrow of the call in flight
      count : Nat,               \* resolutions, refusals, attempts
      slots : SUBSET Workflows,  \* _escrows of the flood
      since : [Workflows -> Int] ]  \* _dispute_tick, _escalated_at

FreshMemory ==
    [ own |-> NoWf, step |-> 0, marked |-> {}, pending |-> NoWf, count |-> 0,
      slots |-> {}, since |-> [w \in Workflows |-> -1] ]

\* What the agents read of a world view; known is FALSE before the first one.
View == [ known : BOOLEAN, live : [Workflows -> EscrowStates], pendingCount : Nat,
          amounts : [Workflows -> Nat] ]

NoView == [ known |-> FALSE, live |-> [w \in Workflows |-> "none"],
            pendingCount |-> 0, amounts |-> [w \in Workflows |-> 0] ]

Create(ag) == [NoCall EXCEPT !.action = "create_escrow", !.to = ag.to,
                             !.amount = ag.amount]

\* What a decide returns, and the memory it leaves.
Choice(call, m) == [ call |-> call, memory |-> m ]

Skip(m) == Choice(NoCall, m)

\* The escrows of a view in some states; the first of them is the oldest,
\* because a view lists its escrows in the order they were created.
InStates(v, states) == {w \in Workflows : v.known /\ v.live[w] \in states}

Disputed(v) == InStates(v, {"disputed"})

First(S) == CHOOSE w \in S : \A u \in S : w <= u

-----------------------------------------------------------------------------
(* decide, one operator per class. *)

\* HonestBuyerLive: create, then release until a release is accepted.
HonestBuyer(ag, m) ==
    CASE m.own = NoWf -> Choice(Create(ag), m)
      [] m.own # NoWf /\ m.step = 0 -> Choice(On("release", m.own), m)
      [] OTHER -> Skip(m)

\* GriefingBuyerLive: create, then dispute until a dispute is accepted.
GriefingBuyer(ag, m) ==
    CASE m.own = NoWf -> Choice(Create(ag), m)
      [] m.own # NoWf /\ m.step = 0 -> Choice(On("raise_dispute", m.own), m)
      [] OTHER -> Skip(m)

\* AttackingBuyerLive: create, then three releases whatever the answers.
AttackingBuyer(ag, m) ==
    CASE m.own = NoWf -> Choice(Create(ag), m)
      [] m.own # NoWf /\ m.count < 3 ->
             Choice(On("release", m.own), [m EXCEPT !.count = @ + 1])
      [] OTHER -> Skip(m)

\* HonestResolverLive: release the first disputed escrow not yet marked.
HonestResolver(m, v) ==
    LET open == Disputed(v) \ m.marked
    IN  IF open = {} THEN Skip(m) ELSE Choice(Resolve(First(open), TRUE), m)

\* TimedAutomatorLive: one call per escrow, the first time it is seen live.
TimedAutomator(m, v) ==
    LET open == InStates(v, LiveStates) \ m.marked
    IN  IF open = {} THEN Skip(m)
        ELSE Choice(On("automate_timed_actions", First(open)),
                    [m EXCEPT !.marked = @ \cup {First(open)}])

\* DisputeFloodAgent: fill every slot with an escrow, then dispute the first
\* whose slot is not marked disputed.
DisputeFlood(ag, m) ==
    LET open == m.slots \ m.marked
    IN  CASE Cardinality(m.slots) < ag.bound -> Choice(Create(ag), m)
          [] Cardinality(m.slots) >= ag.bound /\ open # {} ->
                 Choice(On("raise_dispute", First(open)), [m EXCEPT !.count = @ + 1])
          [] OTHER -> Skip(m)

\* ThrottledResolverLive: as the honest resolver, but at most bound times
\* between two events; since[0] is _last_tick_seq and count _this_tick.
ThrottledResolver(ag, m, v, seq) ==
    LET fresh == IF seq = m.since[0] THEN m
                 ELSE [m EXCEPT !.count = 0, !.since[0] = seq]
        open  == Disputed(v) \ m.marked
    IN  CASE ~v.known -> Skip(m)
          [] v.known /\ (fresh.count >= ag.bound \/ open = {}) -> Skip(fresh)
          [] OTHER -> Choice(Resolve(First(open), TRUE), [fresh EXCEPT !.count = @ + 1])

\* AppealWindowRacerLive: once a decision is deferred anywhere, escalate each
\* disputed escrow once.
AppealWindowRacer(m, v) ==
    LET open == Disputed(v) \ m.marked
    IN  IF v.pendingCount = 0 \/ open = {} THEN Skip(m)
        ELSE Choice(On("escalate_dispute", First(open)),
                    [m EXCEPT !.marked = @ \cup {First(open)}, !.count = @ + 1])

\* EscalationLoopAgent: the same, once per event number.
EscalationLoop(m, v, seq) ==
    LET open == {w \in Disputed(v) : m.since[w] # seq}
    IN  IF v.pendingCount = 0 \/ open = {} THEN Skip(m)
        ELSE Choice(On("escalate_dispute", First(open)),
                    [m EXCEPT !.since[First(open)] = seq, !.count = @ + 1])

\* GovernanceRotationAgent: note when each dispute is first seen, up to the
\* first that has been known for bound events, and rotate its resolver.
GovernanceRotation(ag, m, v, seq) ==
    LET due   == {w \in Disputed(v) \ m.marked :
                      m.since[w] >= 0 /\ seq - m.since[w] >= ag.bound}
        seen  == {w \in Disputed(v) : m.since[w] < 0
                                      /\ \A u \in due : w < u}
        noted == [m EXCEPT !.since =
                      [w \in Workflows |-> IF w \in seen THEN seq ELSE @[w]]]
    IN  IF due = {} THEN Skip(noted)
        ELSE Choice([On("rotate_dispute_resolver", First(due)) EXCEPT !.to = ag.next],
                    [noted EXCEPT !.pending = First(due)])

\* MaliciousGovernanceResolver, ColludingResolverLive and
\* CapacityLimitedArbitrator: decide the first unmarked dispute and remember
\* which one; the first counts its calls here, the last stops at its capacity.
MaliciousResolver(ag, m, v) ==
    LET open == Disputed(v) \ m.marked
    IN  IF open = {} THEN Skip(m)
        ELSE Choice(Resolve(First(open), ag.favour),
                    [m EXCEPT !.pending = First(open), !.count = @ + 1])

ColludingResolver(ag, m, v) ==
    LET open == Disputed(v) \ m.marked
    IN  IF open = {} THEN Skip(m)
        ELSE Choice(Resolve(First(open), ag.favour), [m EXCEPT !.pending = First(open)])

CapacityExceeded(ag, m, v) ==              \* mutant
    LET open == Disputed(v) \ m.marked
    IN  IF m.count > ag.bound \/ open = {} THEN Skip(m)
        ELSE Choice(Resolve(First(open), FALSE), [m EXCEPT !.pending = First(open)])

CapacityLimited(ag, m, v) ==
    LET open == Disputed(v) \ m.marked
    IN  IF m.count >= ag.bound \/ open = {} THEN Skip(m)
        ELSE Choice(Resolve(First(open), FALSE), [m EXCEPT !.pending = First(open)])

\* EscalatingBuyerLive: create, dispute, then bound attempts to escalate; step
\* is 1 once the dispute was accepted.
EscalatingBuyer(ag, m) ==
    CASE m.own = NoWf -> Choice(Create(ag), m)
      [] m.own # NoWf /\ m.step = 0 -> Choice(On("raise_dispute", m.own), m)
      [] m.own # NoWf /\ m.step = 1 /\ m.count < ag.bound ->
             Choice(On("escalate_dispute", m.own), m)
      [] OTHER -> Skip(m)

\* AutomateTimedActionsLive: the first live escrow, every time.
AutomateTimedActionsAgent(m, v) ==
    LET open == InStates(v, LiveStates)
    IN  IF open = {} THEN Skip(m)
        ELSE Choice(On("automate_timed_actions", First(open)), m)

\* ProfitThresholdResolver: never calls; it notes the disputes it refuses.
ProfitThreshold(ag, m, v) ==
    LET poor == {w \in Disputed(v) \ m.marked :
                     ComputeFee(v.amounts[w], ag.feeBps) < ag.bound}
    IN  Skip([m EXCEPT !.marked = @ \cup poor, !.count = @ + Cardinality(poor)])

\* ForkingStrategistLive: cancel the first pending escrow it has learned of.
ForkingStrategist(m, v) ==
    LET open == InStates(v, {"pending"}) \cap m.marked
    IN  IF open = {} THEN Skip(m)
        ELSE Choice(On("sender_cancel", First(open)), [m EXCEPT !.count = @ + 1])

\* CancelThenDisputeBuyerLive and DisputeThenCancelBuyerLive.
TwoCallBuyer(ag, m, first, second) ==
    CASE m.step = 0 -> Choice(Create(ag), m)
      [] m.step = 1 -> Choice(On(first, m.own), m)
      [] m.step = 2 -> Choice(On(second, m.own), m)
      [] OTHER -> Skip(m)

CancelThenDispute(ag, m) == TwoCallBuyer(ag, m, "sender_cancel", "raise_dispute")

DisputeThenCancel(ag, m) == TwoCallBuyer(ag, m, "raise_dispute", "sender_cancel")

Decide(ag, m, v, seq) ==
    CASE ag.kind = "HonestBuyer" -> HonestBuyer(ag, m)
      [] ag.kind = "GriefingBuyer" -> GriefingBuyer(ag, m)
      [] ag.kind = "AttackingBuyer" -> AttackingBuyer(ag, m)
      [] ag.kind = "HonestResolver" -> HonestResolver(m, v)
      [] ag.kind = "TimedAutomator" -> TimedAutomator(m, v)
      [] ag.kind = "DisputeFlood" -> DisputeFlood(ag, m)
      [] ag.kind = "ThrottledResolver" -> ThrottledResolver(ag, m, v, seq)
      [] ag.kind = "AppealWindowRacer" -> AppealWindowRacer(m, v)
      [] ag.kind = "EscalationLoop" -> EscalationLoop(m, v, seq)
      [] ag.kind = "GovernanceRotation" -> GovernanceRotation(ag, m, v, seq)
      [] ag.kind = "MaliciousResolver" -> MaliciousResolver(ag, m, v)
      [] ag.kind = "EscalatingBuyer" -> EscalatingBuyer(ag, m)
      [] ag.kind = "AutomateTimedActions" -> AutomateTimedActionsAgent(m, v)
      [] ag.kind = "ColludingResolver" -> ColludingResolver(ag, m, v)
      [] ag.kind = "ProfitThreshold" -> ProfitThreshold(ag, m, v)
      [] ag.kind = "ForkingStrategist" -> ForkingStrategist(m, v)
      [] ag.kind = "CapacityLimited" -> CapacityLimited(ag, m, v)
      [] ag.kind = "CancelThenDispute" -> CancelThenDispute(ag, m)
      [] ag.kind = "DisputeThenCancel" -> DisputeThenCancel(ag, m)
      [] OTHER -> Skip(m)

-----------------------------------------------------------------------------
(* update_from_response, one operator per class that has something to learn.  *)
(* An answer names the action, its result, the id a creation was given and,   *)
(* in params, the escrow the event named; an answer without a trace entry has *)
(* action and result "none".                                                  *)

Results == {"none", "ok", "rejected", "invariant_violated"}

Accepted(r, action) == r.action = action /\ r.result = "ok"

\* The id of a creation that was accepted becomes the agent's own escrow.
Adopt(m, r) == IF Accepted(r, "create_escrow") THEN [m EXCEPT !.own = r.wf] ELSE m

LearnHonestBuyer(m, r) ==
    IF Accepted(r, "release") THEN [m EXCEPT !.step = 1] ELSE Adopt(m, r)

LearnGriefingBuyer(m, r) ==
    IF Accepted(r, "raise_dispute") THEN [m EXCEPT !.step = 1] ELSE Adopt(m, r)

LearnAttackingBuyer(m, r) == Adopt(m, r)

\* The two honest resolvers mark the escrow named in the entry's parameters.
LearnHonestResolver(m, r) ==
    IF Accepted(r, "execute_resolution") /\ r.params # NoWf
    THEN [m EXCEPT !.marked = @ \cup {r.params}] ELSE m

LearnThrottledResolver(m, r) == LearnHonestResolver(m, r)

LearnDisputeFlood(m, r) ==
    CASE Accepted(r, "create_escrow") -> [m EXCEPT !.slots = @ \cup {r.wf}]
      [] Accepted(r, "raise_dispute") ->
             [m EXCEPT !.marked = @ \cup (m.slots \cap {r.params})]
      [] OTHER -> m

\* The escrow of an accepted call is marked and counted; none is in flight after.
Settle(m, r, action) ==
    IF Accepted(r, action) /\ m.pending # NoWf
    THEN [m EXCEPT !.marked = @ \cup {m.pending}, !.count = @ + 1, !.pending = NoWf]
    ELSE [m EXCEPT !.pending = NoWf]

LearnGovernanceRotation(m, r) == Settle(m, r, "rotate_dispute_resolver")

\* The malicious resolver has counted its call already.
LearnMaliciousResolver(m, r) ==
    [Settle(m, r, "execute_resolution") EXCEPT !.count = m.count]

LearnColludingResolver(m, r) == Settle(m, r, "execute_resolution")

LearnCapacityLimited(m, r) == Settle(m, r, "execute_resolution")

\* Every attempt to escalate counts, refused ones too.
LearnEscalatingBuyer(m, r) ==
    CASE Accepted(r, "raise_dispute") -> [m EXCEPT !.step = 1]
      [] r.action = "escalate_dispute" -> [m EXCEPT !.count = @ + 1]
      [] OTHER -> Adopt(m, r)

LearnForkingStrategist(m, r) ==
    IF Accepted(r, "create_escrow") THEN [m EXCEPT !.marked = @ \cup {r.wf}] ELSE m

\* The two-call buyers go on whatever the answer to a call was.
LearnTwoCallBuyer(m, r, first, second) ==
    CASE Accepted(r, "create_escrow") -> [Adopt(m, r) EXCEPT !.step = 1]
      [] r.action = first -> [m EXCEPT !.step = 2]
      [] r.action = second -> [m EXCEPT !.step = 3]
      [] OTHER -> m

LearnCancelThenDispute(m, r) == LearnTwoCallBuyer(m, r, "sender_cancel", "raise_dispute")

LearnDisputeThenCancel(m, r) == LearnTwoCallBuyer(m, r, "raise_dispute", "sender_cancel")

Learn(ag, m, r) ==
    CASE ag.kind = "HonestBuyer" -> LearnHonestBuyer(m, r)
      [] ag.kind = "GriefingBuyer" -> LearnGriefingBuyer(m, r)
      [] ag.kind = "AttackingBuyer" -> LearnAttackingBuyer(m, r)
      [] ag.kind = "HonestResolver" -> LearnHonestResolver(m, r)
      [] ag.kind = "DisputeFlood" -> LearnDisputeFlood(m, r)
      [] ag.kind = "ThrottledResolver" -> LearnThrottledResolver(m, r)
      [] ag.kind = "GovernanceRotation" -> LearnGovernanceRotation(m, r)
      [] ag.kind = "MaliciousResolver" -> LearnMaliciousResolver(m, r)
      [] ag.kind = "EscalatingBuyer" -> LearnEscalatingBuyer(m, r)
      [] ag.kind = "ColludingResolver" -> LearnColludingResolver(m, r)
      [] ag.kind = "ForkingStrategist" -> LearnForkingStrategist(m, r)
      [] ag.kind = "CapacityLimited" -> LearnCapacityLimited(m, r)
      [] ag.kind = "CancelThenDispute" -> LearnCancelThenDispute(m, r)
      [] ag.kind = "DisputeThenCancel" -> LearnDisputeThenCancel(m, r)
      [] OTHER -> m

=============================================================================

----------------------------- MODULE Live_proofs -----------------------------
(***************************************************************************)
(* The live runner keeps its types, its agents' budgets and the truth of    *)
(* its result against any server: for every list of agents, every limit,    *)
(* every sequence of answers and failures.  Against the simulation server,  *)
(* faults included, it is the live runner against some server, so that all   *)
(* of it holds there; and what only holds of this server follows: views are  *)
(* current, sessions are returned, and what the driver counts and its agents  *)
(* know is what the server's world shows.                                    *)
(***************************************************************************)
EXTENDS LiveSew, SewDispute_proofs, SequenceTheorems

-----------------------------------------------------------------------------
(* What an agent decides, and what it learns, leaves it a memory. *)

\* The oldest escrow of a set is one of the set (first match of a loop over the
\* view's escrows).
LEMMA FirstIsMember ==
    ASSUME NEW S, S \subseteq Workflows, S # {}
    PROVE  First(S) \in S
<1>1. S \subseteq Nat
    BY WorkflowsAssumption DEF Workflows
<1>2. PICK x \in S : \A y \in S : ~ (<<y, x>> \in OpToRel(<, Nat))
    BY <1>1, NatLessThanWellFounded, WFMin
<1>3. \A y \in S : x <= y
  <2>1. SUFFICES ASSUME NEW y \in S, ~ (x <= y)
                 PROVE  FALSE
      OBVIOUS
  <2>2. x \in Nat /\ y \in Nat /\ y < x
      BY <1>1, <2>1
  <2>3. <<y, x>> \in OpToRel(<, Nat)
      BY <2>2 DEF OpToRel
  <2> QED
      BY <1>2, <2>3
<1> QED
    BY <1>3 DEF First

\* The escrows of a view in some states are escrows, finitely many of them.
LEMMA InStatesTyped ==
    ASSUME NEW v, NEW states
    PROVE  /\ InStates(v, states) \subseteq Workflows
           /\ Disputed(v) \subseteq Workflows
BY DEF InStates, Disputed

LEMMA ZeroIsWorkflow == 0 \in Workflows
BY WorkflowsAssumption DEF Workflows

\* A fresh agent's memory is one.
LEMMA FreshTyped == FreshMemory \in Memory
BY DEF FreshMemory, Memory, OptWf

\* Marking escrows, counting, noting times and changing the escrow of the call in
\* flight keep a memory one.
LEMMA UpdatesTyped ==
    ASSUME NEW m \in Memory
    PROVE  /\ \A n \in Nat : [m EXCEPT !.count = @ + n] \in Memory
           /\ \A S \in SUBSET Workflows : [m EXCEPT !.marked = @ \cup S] \in Memory
           /\ \A S \in SUBSET Workflows, n \in Nat :
                  [m EXCEPT !.marked = @ \cup S, !.count = @ + n] \in Memory
           /\ \A S \in SUBSET Workflows : [m EXCEPT !.slots = @ \cup S] \in Memory
           /\ \A w \in OptWf : [m EXCEPT !.pending = w] \in Memory
           /\ \A w \in OptWf, n \in Nat :
                  [m EXCEPT !.pending = w, !.count = @ + n] \in Memory
           /\ \A s \in [Workflows -> Int], n \in Nat :
                  [m EXCEPT !.since = s, !.count = n] \in Memory
<1>1. ASSUME NEW S \in SUBSET Workflows
      PROVE  m.marked \cup S \in SUBSET Workflows /\ m.slots \cup S \in SUBSET Workflows
    BY DEF Memory
<1>2. \A n \in Nat : m.count + n \in Nat
    BY DEF Memory
<1> QED
    BY <1>1, <1>2 DEF Memory

\* The kinds that only ever remember by number: what they decide.
LEMMA ScriptsTyped ==
    ASSUME NEW ag \in Agent, NEW m \in Memory
    PROVE  /\ HonestBuyer(ag, m).memory \in Memory
           /\ GriefingBuyer(ag, m).memory \in Memory
           /\ AttackingBuyer(ag, m).memory \in Memory
           /\ DisputeFlood(ag, m).memory \in Memory
           /\ EscalatingBuyer(ag, m).memory \in Memory
           /\ CancelThenDispute(ag, m).memory \in Memory
           /\ DisputeThenCancel(ag, m).memory \in Memory
<1> USE DEF Choice, Skip
<1>1. [m EXCEPT !.count = @ + 1] \in Memory
    BY DEF Memory
<1>2. HonestBuyer(ag, m).memory \in Memory
    BY DEF HonestBuyer
<1>3. GriefingBuyer(ag, m).memory \in Memory
    BY DEF GriefingBuyer
<1>4. AttackingBuyer(ag, m).memory \in Memory
    BY <1>1 DEF AttackingBuyer
<1>5. DisputeFlood(ag, m).memory \in Memory
    BY <1>1 DEF DisputeFlood
<1>6. EscalatingBuyer(ag, m).memory \in Memory
    BY DEF EscalatingBuyer
<1>7. /\ CancelThenDispute(ag, m).memory \in Memory
      /\ DisputeThenCancel(ag, m).memory \in Memory
    BY DEF CancelThenDispute, DisputeThenCancel, TwoCallBuyer
<1> QED
    BY <1>2, <1>3, <1>4, <1>5, <1>6, <1>7

\* The kinds that pick the oldest escrow they have not dealt with.
LEMMA PickersTyped ==
    ASSUME NEW ag \in Agent, NEW m \in Memory, NEW v, NEW seqno \in Nat
    PROVE  /\ HonestResolver(m, v).memory \in Memory
           /\ TimedAutomator(m, v).memory \in Memory
           /\ ThrottledResolver(ag, m, v, seqno).memory \in Memory
           /\ AppealWindowRacer(m, v).memory \in Memory
           /\ EscalationLoop(m, v, seqno).memory \in Memory
           /\ MaliciousResolver(ag, m, v).memory \in Memory
           /\ ColludingResolver(ag, m, v).memory \in Memory
           /\ CapacityLimited(ag, m, v).memory \in Memory
           /\ AutomateTimedActionsAgent(m, v).memory \in Memory
           /\ ForkingStrategist(m, v).memory \in Memory
<1> USE DEF Choice, Skip
<1>1. ASSUME NEW S, S \subseteq Workflows, S # {}
      PROVE  /\ [m EXCEPT !.marked = @ \cup {First(S)}] \in Memory
             /\ [m EXCEPT !.marked = @ \cup {First(S)}, !.count = @ + 1] \in Memory
             /\ [m EXCEPT !.since[First(S)] = seqno, !.count = @ + 1] \in Memory
             /\ [m EXCEPT !.pending = First(S), !.count = @ + 1] \in Memory
             /\ [m EXCEPT !.pending = First(S)] \in Memory
             /\ [m EXCEPT !.count = @ + 1] \in Memory
  <2>1. First(S) \in OptWf /\ {First(S)} \in SUBSET Workflows /\ First(S) \in Workflows
      BY <1>1, FirstIsMember DEF OptWf
  <2>2. [m.since EXCEPT ![First(S)] = seqno] \in [Workflows -> Int]
      BY <2>1 DEF Memory
  <2>3. [m EXCEPT !.since = [m.since EXCEPT ![First(S)] = seqno], !.count = @ + 1]
            \in Memory
    <3>1. m.count + 1 \in Nat
        BY DEF Memory
    <3> QED
        BY <2>2, <3>1, UpdatesTyped
  <2>4. [m EXCEPT !.since[First(S)] = seqno, !.count = @ + 1] \in Memory
      BY <2>3
  <2>5. 1 \in Nat
      OBVIOUS
  <2> QED
      BY <2>1, <2>4, <2>5, UpdatesTyped
<1>2. HonestResolver(m, v).memory \in Memory
    BY DEF HonestResolver
<1>3. TimedAutomator(m, v).memory \in Memory
    BY <1>1, InStatesTyped DEF TimedAutomator
<1>4. ThrottledResolver(ag, m, v, seqno).memory \in Memory
  <2> DEFINE fresh == IF seqno = m.since[0] THEN m
                      ELSE [m EXCEPT !.count = 0, !.since[0] = seqno]
  <2>1. fresh \in Memory
    <3>1. [m.since EXCEPT ![0] = seqno] \in [Workflows -> Int]
        BY ZeroIsWorkflow DEF Memory
    <3>2. [m EXCEPT !.since = [m.since EXCEPT ![0] = seqno], !.count = 0] \in Memory
        BY <3>1, UpdatesTyped, 0 \in Nat
    <3>3. [m EXCEPT !.count = 0, !.since[0] = seqno]
              = [m EXCEPT !.since = [m.since EXCEPT ![0] = seqno], !.count = 0]
        BY DEF Memory
    <3> QED
        BY <3>2, <3>3
  <2>2. [fresh EXCEPT !.count = @ + 1] \in Memory
      BY <2>1 DEF Memory
  <2> QED
      BY <2>1, <2>2 DEF ThrottledResolver
<1>5. AppealWindowRacer(m, v).memory \in Memory
    BY <1>1, InStatesTyped DEF AppealWindowRacer
<1>6. EscalationLoop(m, v, seqno).memory \in Memory
  <2>1. {w \in Disputed(v) : m.since[w] # seqno} \subseteq Workflows
      BY InStatesTyped
  <2> QED
      BY <1>1, <2>1 DEF EscalationLoop
<1>7. MaliciousResolver(ag, m, v).memory \in Memory
    BY <1>1, InStatesTyped DEF MaliciousResolver
<1>8. ColludingResolver(ag, m, v).memory \in Memory
    BY <1>1, InStatesTyped DEF ColludingResolver
<1>9. CapacityLimited(ag, m, v).memory \in Memory
    BY <1>1, InStatesTyped DEF CapacityLimited
<1>10. AutomateTimedActionsAgent(m, v).memory \in Memory
    BY DEF AutomateTimedActionsAgent
<1>11. ForkingStrategist(m, v).memory \in Memory
  <2>1. InStates(v, {"pending"}) \cap m.marked \subseteq Workflows
      BY InStatesTyped
  <2> QED
      BY <1>1, <2>1 DEF ForkingStrategist
<1> QED
    BY <1>2, <1>3, <1>4, <1>5, <1>6, <1>7, <1>8, <1>9, <1>10, <1>11

\* The two kinds that note several escrows at once.
LEMMA NotersTyped ==
    ASSUME NEW ag \in Agent, NEW m \in Memory, NEW v, NEW seqno \in Nat
    PROVE  /\ GovernanceRotation(ag, m, v, seqno).memory \in Memory
           /\ ProfitThreshold(ag, m, v).memory \in Memory
<1> USE DEF Choice, Skip
<1>1. GovernanceRotation(ag, m, v, seqno).memory \in Memory
  <2> DEFINE due   == {w \in Disputed(v) \ m.marked :
                           m.since[w] >= 0 /\ seqno - m.since[w] >= ag.bound}
             seen  == {w \in Disputed(v) : m.since[w] < 0
                                           /\ \A u \in due : w < u}
             noted == [m EXCEPT !.since =
                           [w \in Workflows |-> IF w \in seen THEN seqno ELSE @[w]]]
  <2>1. due \subseteq Workflows
      BY InStatesTyped
  <2>2. noted \in Memory
    <3> HIDE DEF due, seen
    <3> QED
        BY DEF Memory
  <2> HIDE DEF noted, due
  <2>3. due # {} => [noted EXCEPT !.pending = First(due)] \in Memory
    <3>1. due # {} => First(due) \in OptWf
        BY <2>1, FirstIsMember DEF OptWf
    <3> QED
        BY <2>2, <3>1 DEF Memory
  <2> QED
      BY <2>2, <2>3 DEF GovernanceRotation, noted, due
<1>2. ProfitThreshold(ag, m, v).memory \in Memory
  <2> DEFINE poor == {w \in Disputed(v) \ m.marked :
                          ComputeFee(v.amounts[w], ag.feeBps) < ag.bound}
  <2>1. poor \subseteq Workflows
      BY InStatesTyped
  <2> HIDE DEF poor
  <2>2. Cardinality(poor) \in Nat
      BY <2>1, WorkflowsFinite, FS_Subset, FS_CardinalityType
  <2>3. [m EXCEPT !.marked = @ \cup poor, !.count = @ + Cardinality(poor)] \in Memory
      BY <2>1, <2>2, UpdatesTyped
  <2> QED
      BY <2>3 DEF ProfitThreshold, poor
<1> QED
    BY <1>1, <1>2

\* Whatever its kind, an agent that has decided still has a memory.
LEMMA DecideTyped ==
    ASSUME NEW ag \in Agent, NEW m \in Memory, NEW v, NEW seqno \in Nat
    PROVE  Decide(ag, m, v, seqno).memory \in Memory
<1>1. Skip(m).memory \in Memory
    BY DEF Skip, Choice
<1> QED
    BY <1>1, ScriptsTyped, PickersTyped, NotersTyped DEF Decide

\* An answer: what it reports, the id of a new escrow, the view it carries.
AnswerType(r) ==
    /\ r.view \in View
    /\ r.params = NoWf
    /\ r.action = "create_escrow" /\ r.result = "ok" => r.wf \in Workflows
    /\ r.halted <=> r.result = "invariant_violated"
    /\ r.action = IF r.result = "none" THEN "none" ELSE call.action

\* Whatever its kind, an agent that has learned from an answer still has a memory.
LEMMA LearnTyped ==
    ASSUME NEW ag \in Agent, NEW m \in Memory, NEW r, AnswerType(r)
    PROVE  Learn(ag, m, r) \in Memory
<1>1. /\ [m EXCEPT !.step = 1] \in Memory
      /\ [m EXCEPT !.step = 2] \in Memory
      /\ [m EXCEPT !.step = 3] \in Memory
    BY DEF Memory
<1>2. Adopt(m, r) \in Memory
    BY DEF Adopt, Accepted, AnswerType, Memory, OptWf
<1>3. ASSUME NEW action
      PROVE  /\ Settle(m, r, action) \in Memory
             /\ [Settle(m, r, action) EXCEPT !.count = m.count] \in Memory
  <2>1. m.pending # NoWf => {m.pending} \in SUBSET Workflows
      BY DEF Memory, OptWf
  <2>2. NoWf \in OptWf /\ 1 \in Nat
      BY DEF OptWf
  <2>3. Settle(m, r, action) \in Memory
    <3>1. m.pending # NoWf =>
              [[m EXCEPT !.marked = @ \cup {m.pending}, !.count = @ + 1]
                  EXCEPT !.pending = NoWf] \in Memory
        BY <2>1, <2>2, UpdatesTyped
    <3>2. [m EXCEPT !.pending = NoWf] \in Memory
        BY <2>2, UpdatesTyped
    <3> QED
        BY <3>1, <3>2 DEF Settle
  <2> QED
      BY <2>3 DEF Memory
<1>4. /\ LearnHonestBuyer(m, r) \in Memory
      /\ LearnGriefingBuyer(m, r) \in Memory
      /\ LearnAttackingBuyer(m, r) \in Memory
      /\ LearnEscalatingBuyer(m, r) \in Memory
  <2>1. [m EXCEPT !.count = @ + 1] \in Memory
      BY DEF Memory
  <2> QED
      BY <1>1, <1>2, <2>1 DEF LearnHonestBuyer, LearnGriefingBuyer, LearnAttackingBuyer,
                               LearnEscalatingBuyer
<1>5. /\ LearnHonestResolver(m, r) \in Memory
      /\ LearnThrottledResolver(m, r) \in Memory
    BY DEF LearnHonestResolver, LearnThrottledResolver, AnswerType
<1>6. LearnDisputeFlood(m, r) \in Memory
  <2>1. Accepted(r, "create_escrow") => {r.wf} \in SUBSET Workflows
      BY DEF Accepted, AnswerType
  <2>2. m.slots \cap {r.params} \in SUBSET Workflows
      BY DEF Memory
  <2> QED
      BY <2>1, <2>2, UpdatesTyped DEF LearnDisputeFlood
<1>7. LearnForkingStrategist(m, r) \in Memory
  <2>1. Accepted(r, "create_escrow") => {r.wf} \in SUBSET Workflows
      BY DEF Accepted, AnswerType
  <2> QED
      BY <2>1, UpdatesTyped DEF LearnForkingStrategist
<1>8. /\ LearnCancelThenDispute(m, r) \in Memory
      /\ LearnDisputeThenCancel(m, r) \in Memory
  <2>1. [Adopt(m, r) EXCEPT !.step = 1] \in Memory
      BY <1>2 DEF Memory
  <2> QED
      BY <1>1, <2>1 DEF LearnCancelThenDispute, LearnDisputeThenCancel, LearnTwoCallBuyer
<1> QED
    BY <1>3, <1>4, <1>5, <1>6, <1>7, <1>8
    DEF Learn, LearnGovernanceRotation, LearnMaliciousResolver, LearnColludingResolver,
        LearnCapacityLimited

-----------------------------------------------------------------------------
(* Types. *)

\* What makes the types inductive: the arguments of the run have their types, the
\* agent of the event in flight exists and there is a step left for it.
RunTypeInv ==
    /\ RunTypeOK
    /\ plan \in Plan
    /\ pc = "sent" => turn <= Len(plan.agents) /\ seq < plan.maxSteps

\* The wire's answers are typed.
LEMMA AnswersTyped == \A r \in AnyAnswer : AnswerType(r)
<1>1. NoView \in View
    BY DEF NoView, View, EscrowStates
<1>2. AnswerType(NoAnswer)
    BY <1>1 DEF NoAnswer, AnswerType
<1>3. ASSUME NEW result \in Results \ {"none"}, NEW id \in Workflows, NEW v \in View
      PROVE  AnswerType(Answer(result, id, v))
    BY DEF Answer, AnswerType, Created
<1> QED
    BY <1>2, <1>3, ZeroIsWorkflow DEF AnyAnswer

LEMMA RunInitTyped == RunInit => RunTypeInv
<1> SUFFICES ASSUME RunInit
             PROVE  RunTypeInv
    OBVIOUS
<1>1. plan \in Plan /\ plan \in Plans
    BY PlansAssumption DEF RunInit
<1>2. /\ Len(plan.agents) \in Nat /\ plan.maxSteps \in Nat /\ plan.maxTicks \in Nat
    BY <1>1 DEF Plan
<1>3. NoView \in View
    BY DEF NoView, View, EscrowStates
<1> QED
    BY <1>1, <1>2, <1>3, FreshTyped DEF RunInit, RunTypeInv, RunTypeOK

LEMMA RunStepTyped == RunTypeInv /\ [RunNext]_runVars => RunTypeInv'
<1> SUFFICES ASSUME RunTypeInv, [RunNext]_runVars
             PROVE  RunTypeInv'
    OBVIOUS
<1>1. /\ plan \in Plan /\ Len(plan.agents) \in Nat
      /\ plan.maxSteps \in Nat /\ plan.maxTicks \in Nat
    BY DEF RunTypeInv, Plan
<1>2. \A i \in 1 .. Len(plan.agents) : plan.agents[i] \in Agent
    BY <1>1 DEF Plan
<1>3. CASE Started \/ StartFailed \/ Complete \/ StepFailed \/ Closed \/ CloseFailed
    BY <1>3 DEF RunTypeInv, RunTypeOK, Started, StartFailed, Complete, StepFailed, Closed,
                CloseFailed
<1>4. CASE NextTick
    BY <1>1, <1>4 DEF RunTypeInv, RunTypeOK, NextTick
<1>5. ASSUME pc = "deciding", ~RoundOver
      PROVE  /\ turn \in 1 .. Len(plan.agents) /\ seq < plan.maxSteps
             /\ [memory EXCEPT ![turn] = Chosen(turn).memory]
                    \in [1 .. Len(plan.agents) -> Memory]
  <2>1. turn \in 1 .. Len(plan.agents) /\ seq < plan.maxSteps /\ seq \in Nat
      BY <1>1, <1>5 DEF RunTypeInv, RunTypeOK, RoundOver, StepsLeft
  <2>2. memory[turn] \in Memory /\ plan.agents[turn] \in Agent
      BY <1>2, <2>1 DEF RunTypeInv, RunTypeOK
  <2>3. Chosen(turn).memory \in Memory
      BY <2>1, <2>2, DecideTyped DEF Chosen
  <2> QED
      BY <2>1, <2>3 DEF RunTypeInv, RunTypeOK
<1>6. CASE Decline
    BY <1>1, <1>5, <1>6 DEF RunTypeInv, RunTypeOK, Decline
<1>7. CASE Send
    BY <1>1, <1>5, <1>7 DEF RunTypeInv, RunTypeOK, Send
<1>8. ASSUME NEW r \in AnyAnswer, Receive(r)
      PROVE  RunTypeInv'
  <2>1. AnswerType(r)
      BY AnswersTyped
  <2>2. turn \in 1 .. Len(plan.agents) /\ seq < plan.maxSteps /\ seq \in Nat
      BY <1>1, <1>8 DEF RunTypeInv, RunTypeOK, Receive
  <2>3. Learn(plan.agents[turn], memory[turn], r) \in Memory
      BY <1>2, <2>1, <2>2, LearnTyped DEF RunTypeInv, RunTypeOK
  <2>4. memory' \in [1 .. Len(plan.agents) -> Memory]
      BY <1>8, <2>3 DEF RunTypeInv, RunTypeOK, Receive, LearnTurn
  <2>5. view' \in View
      BY <1>8, <2>1 DEF Receive, Seen, AnswerType
  <2> QED
      BY <1>1, <1>8, <2>2, <2>4, <2>5 DEF RunTypeInv, RunTypeOK, Receive
<1>9. CASE UNCHANGED runVars
    BY <1>9 DEF RunTypeInv, RunTypeOK, runVars
<1> QED
    BY <1>3, <1>4, <1>6, <1>7, <1>8, <1>9 DEF RunNext

\* Whatever the agents and the answers, the runner stays within its limits on steps
\* and rounds, and every agent keeps a memory of its own (live_runner.py, run).
THEOREM RunTypeCorrect == RunSpec => []RunTypeOK
<1>1. RunTypeInv => RunTypeOK
    BY DEF RunTypeInv
<1> QED
    BY RunInitTyped, RunStepTyped, <1>1, PTL DEF RunSpec

-----------------------------------------------------------------------------
(* The trace and what is counted of it. *)

\* An entry goes to the end of the trace, and the others stay where they are.
LEMMA AppendFacts ==
    ASSUME NEW s, \E S : s \in Seq(S), NEW e
    PROVE  /\ \E S : Append(s, e) \in Seq(S)
           /\ Len(s) \in Nat
           /\ Len(Append(s, e)) = Len(s) + 1
           /\ DOMAIN s = 1 .. Len(s)
           /\ DOMAIN Append(s, e) = 1 .. Len(s) + 1
           /\ \A n \in 1 .. Len(s) : Append(s, e)[n] = s[n]
           /\ Append(s, e)[Len(s) + 1] = e
<1>1. PICK S : s \in Seq(S)
    OBVIOUS
<1>2. s \in Seq(S \cup {e})
    BY <1>1
<1> QED
    BY <1>2, AppendProperties

\* The calls in a trace are finitely many.
LEMMA CallsFinite ==
    ASSUME \E S : trace \in Seq(S), NEW i, NEW action
    PROVE  IsFiniteSet(Calls(i, action)) /\ Cardinality(Calls(i, action)) \in Nat
<1>1. PICK S : trace \in Seq(S)
    OBVIOUS
<1>2. IsFiniteSet(1 .. Len(trace))
    BY <1>1, FS_Interval
<1>3. Calls(i, action) \in SUBSET (1 .. Len(trace))
    BY <1>1 DEF Calls
<1> QED
    BY <1>2, <1>3, FS_Subset, FS_CardinalityType

\* An answered event adds one to the calls it is one of and nothing to the others.
LEMMA CallsCounted ==
    ASSUME \E S : trace \in Seq(S), NEW r,
           trace' = Append(trace, [agent |-> turn, action |-> call.action,
                                   result |-> r.result]),
           NEW i, NEW action
    PROVE  /\ Cardinality(Calls(i, action)) \in Nat
           /\ Cardinality(Calls(i, action)') =
                  Cardinality(Calls(i, action))
                      + One(i = turn /\ call.action = action /\ r.result # "none")
<1> DEFINE last == Len(trace) + 1
           new == [agent |-> turn, action |-> call.action, result |-> r.result]
<1>1. /\ Len(trace) \in Nat /\ DOMAIN trace = 1 .. Len(trace)
      /\ DOMAIN trace' = 1 .. last
      /\ \A n \in 1 .. Len(trace) : trace'[n] = trace[n]
      /\ trace'[last] = new
    BY AppendFacts
<1>2. IsFiniteSet(Calls(i, action)) /\ last \notin Calls(i, action)
  <2>1. last \notin Calls(i, action)
      BY <1>1 DEF Calls
  <2> QED
      BY <2>1, CallsFinite
<1>3. Calls(i, action)' =
          IF i = turn /\ call.action = action /\ r.result # "none"
          THEN Calls(i, action) \cup {last} ELSE Calls(i, action)
    BY <1>1 DEF Calls
<1> QED
    BY <1>2, <1>3, FS_CardinalityType, FS_AddElement DEF One

\* The same of the entries that were not accepted.
Refusals == {n \in DOMAIN trace : trace[n].result # "ok"}

LEMMA RefusalsCounted ==
    ASSUME \E S : trace \in Seq(S), NEW r,
           trace' = Append(trace, [agent |-> turn, action |-> call.action,
                                   result |-> r.result])
    PROVE  /\ Cardinality(Refusals) \in Nat
           /\ Cardinality(Refusals') = Cardinality(Refusals) + One(r.result # "ok")
<1> DEFINE last == Len(trace) + 1
           new == [agent |-> turn, action |-> call.action, result |-> r.result]
<1>1. /\ Len(trace) \in Nat /\ DOMAIN trace = 1 .. Len(trace)
      /\ DOMAIN trace' = 1 .. last
      /\ \A n \in 1 .. Len(trace) : trace'[n] = trace[n]
      /\ trace'[last] = new
    BY AppendFacts
<1>2. IsFiniteSet(Refusals) /\ last \notin Refusals
  <2>1. IsFiniteSet(1 .. Len(trace))
      BY <1>1, FS_Interval
  <2>2. Refusals \in SUBSET (1 .. Len(trace)) /\ last \notin 1 .. Len(trace)
      BY <1>1 DEF Refusals
  <2>3. last \notin Refusals
      BY <2>2
  <2> QED
      BY <2>1, <2>2, <2>3, FS_Subset
<1>3. Refusals' = IF r.result # "ok" THEN Refusals \cup {last} ELSE Refusals
    BY <1>1 DEF Refusals
<1> QED
    BY <1>2, <1>3, FS_CardinalityType, FS_AddElement DEF One

-----------------------------------------------------------------------------
(* The result. *)

\* ResultHonest is not inductive: that a pass follows no violation rests on the
\* loop having been left at the first one.
ResultInv ==
    /\ \E S : trace \in Seq(S)
    /\ seq \in Nat
    /\ pc \in {"starting", "deciding", "sent"} =>
           outcome = "running" /\ metrics.violations = 0
    /\ ResultHonest

LEMMA ResultInit == RunInit => ResultInv
<1> SUFFICES ASSUME RunInit
             PROVE  ResultInv
    OBVIOUS
<1>1. /\ trace = <<>> /\ seq = 0 /\ outcome = "running"
      /\ metrics.violations = 0 /\ metrics.reverts = 0
    BY DEF RunInit, ZeroMetrics
<1>2. trace \in Seq({})
    BY <1>1
<1>3. {n \in DOMAIN trace : trace[n].result # "ok"} = {}
    BY <1>1
<1> QED
    BY <1>1, <1>2, <1>3, FS_EmptySet DEF ResultInv, ResultHonest

LEMMA ResultStep == ResultInv /\ [RunNext]_runVars => ResultInv'
<1> SUFFICES ASSUME ResultInv, [RunNext]_runVars
             PROVE  ResultInv'
    OBVIOUS
<1>1. CASE Started \/ StartFailed \/ NextTick \/ Complete \/ Decline \/ Send
           \/ StepFailed \/ Closed \/ CloseFailed
  <2>1. UNCHANGED <<seq, trace, metrics>>
      BY <1>1 DEF Started, StartFailed, NextTick, Complete, Decline, Send, StepFailed,
                  Closed, CloseFailed
  <2>2. \/ outcome' = outcome /\ (pc' \in {"starting", "deciding", "sent"} =>
                                    pc \in {"starting", "deciding", "sent"})
        \/ /\ pc \in {"starting", "deciding", "sent", "closing"}
           /\ pc' \in {"closing", "done"}
           /\ \/ outcome' = "raised"
              \/ outcome' = "pass" /\ pc = "deciding"
      BY <1>1 DEF Started, StartFailed, NextTick, Complete, Decline, Send, StepFailed,
                  Closed, CloseFailed
  <2> QED
      BY <2>1, <2>2 DEF ResultInv, ResultHonest
<1>2. ASSUME NEW r \in AnyAnswer, Receive(r)
      PROVE  ResultInv'
  <2>1. AnswerType(r)
      BY AnswersTyped
  <2>2. /\ outcome = "running" /\ metrics.violations = 0
        /\ seq' = seq + 1
        /\ trace' = Append(trace, [agent |-> turn, action |-> call.action,
                                   result |-> r.result])
      BY <1>2 DEF ResultInv, Receive
  <2>3. /\ metrics'.reverts = metrics.reverts + One(r.result # "ok")
        /\ metrics'.violations = One(r.result = "invariant_violated")
      BY <1>2, <2>2 DEF Receive, Accumulate, One
  <2>4. /\ \E S : trace' \in Seq(S)
        /\ Len(trace') = seq'
        /\ trace'[Len(trace')].result = r.result
    <3> DEFINE new == [agent |-> turn, action |-> call.action, result |-> r.result]
    <3>1. new.result = r.result
        OBVIOUS
    <3> HIDE DEF new
    <3>2. trace' = Append(trace, new)
        BY <2>2 DEF new
    <3>3. /\ \E S : trace' \in Seq(S)
          /\ Len(trace') = Len(trace) + 1
          /\ trace'[Len(trace) + 1] = new
        BY <3>2, AppendFacts DEF ResultInv
    <3> QED
        BY <2>2, <3>1, <3>3 DEF ResultInv, ResultHonest
  <2>5. metrics'.reverts = Cardinality(Refusals')
      BY <2>2, <2>3, RefusalsCounted DEF ResultInv, ResultHonest, Refusals
  <2>6. \/ /\ r.result = "invariant_violated"
           /\ pc' = "closing" /\ outcome' = "halted"
        \/ /\ r.result # "invariant_violated"
           /\ pc' = "deciding" /\ outcome' = "running"
      BY <1>2, <2>1, <2>2 DEF Receive, Halts, AnswerType
  <2>7. seq' \in Nat
      BY <2>2 DEF ResultInv
  <2> QED
      BY <2>3, <2>4, <2>5, <2>6, <2>7 DEF ResultInv, ResultHonest, Refusals, One
<1>3. CASE UNCHANGED runVars
    BY <1>3 DEF ResultInv, ResultHonest, runVars
<1> QED
    BY <1>1, <1>2, <1>3 DEF RunNext

\* The result never claims a pass over a violation, nor a halt without one, and its
\* reverts are the entries of the trace that were not accepted (live_runner.py, run
\* and _accum_metrics), whatever the server answers.
THEOREM ResultCorrect == RunSpec => []ResultHonest
<1>1. ResultInv => ResultHonest
    BY DEF ResultInv
<1> QED
    BY ResultInit, ResultStep, <1>1, PTL DEF RunSpec

-----------------------------------------------------------------------------
(* Budgets. *)

\* The event in flight is agent i's call of that action.
Trying(i, action) == pc = "sent" /\ turn = i /\ call.action = action

\* The number an agent keeps of its tries, against the tries in the trace: the
\* escalating buyer counts the answers, the attacking buyer the calls.
Budget(i) ==
    /\ plan.agents[i].kind = "EscalatingBuyer" =>
           /\ Cardinality(Calls(i, "escalate_dispute")) = memory[i].count
           /\ memory[i].count + One(Trying(i, "escalate_dispute")) <= plan.agents[i].bound
    /\ plan.agents[i].kind = "AttackingBuyer" =>
           /\ Cardinality(Calls(i, "release")) + One(Trying(i, "release"))
                  <= memory[i].count
           /\ memory[i].count <= 3

BudgetInv ==
    /\ \E S : trace \in Seq(S)
    /\ \A i \in DOMAIN memory : Budget(i)

\* An agent with a budget tries only what the budget leaves.
LEMMA DecideWithinBudget ==
    ASSUME NEW ag \in Agent, NEW m \in Memory, NEW v, NEW seqno
    PROVE  LET choice == Decide(ag, m, v, seqno)
           IN  /\ ag.kind = "EscalatingBuyer" =>
                      /\ choice.memory = m
                      /\ choice.call.action = "escalate_dispute" => m.count < ag.bound
               /\ ag.kind = "AttackingBuyer" =>
                      IF choice.call.action = "release"
                      THEN m.count < 3 /\ choice.memory.count = m.count + 1
                      ELSE choice.memory = m
<1>1. ag.kind = "EscalatingBuyer" => Decide(ag, m, v, seqno) = EscalatingBuyer(ag, m)
    BY DEF Decide
<1>2. ag.kind = "AttackingBuyer" => Decide(ag, m, v, seqno) = AttackingBuyer(ag, m)
    BY DEF Decide
<1>3. /\ EscalatingBuyer(ag, m).memory = m
      /\ EscalatingBuyer(ag, m).call.action = "escalate_dispute" => m.count < ag.bound
    BY DEF EscalatingBuyer, Choice, Skip, Create, On, NoCall
<1>4. IF AttackingBuyer(ag, m).call.action = "release"
      THEN m.count < 3 /\ AttackingBuyer(ag, m).memory.count = m.count + 1
      ELSE AttackingBuyer(ag, m).memory = m
    BY DEF AttackingBuyer, Choice, Skip, Create, On, NoCall, Memory
<1> QED
    BY <1>1, <1>2, <1>3, <1>4

\* What it learns changes its count by the try that was answered, or not at all.
LEMMA LearnWithinBudget ==
    ASSUME NEW ag \in Agent, NEW m \in Memory, NEW r, AnswerType(r)
    PROVE  /\ ag.kind = "EscalatingBuyer" =>
                  Learn(ag, m, r).count = m.count + One(r.action = "escalate_dispute")
           /\ ag.kind = "AttackingBuyer" => Learn(ag, m, r).count = m.count
<1>1. ag.kind = "EscalatingBuyer" => Learn(ag, m, r) = LearnEscalatingBuyer(m, r)
    BY DEF Learn
<1>2. ag.kind = "AttackingBuyer" => Learn(ag, m, r) = Adopt(m, r)
    BY DEF Learn, LearnAttackingBuyer
<1>3. Adopt(m, r).count = m.count
    BY DEF Adopt, Memory
<1>4. LearnEscalatingBuyer(m, r).count = m.count + One(r.action = "escalate_dispute")
  <2>1. m.count \in Nat /\ [m EXCEPT !.step = 1].count = m.count
        /\ [m EXCEPT !.count = @ + 1].count = m.count + 1
      BY DEF Memory
  <2> QED
      BY <1>3, <2>1 DEF LearnEscalatingBuyer, Accepted, One
<1> QED
    BY <1>1, <1>2, <1>3, <1>4

LEMMA BudgetInit == RunInit => BudgetInv
<1> SUFFICES ASSUME RunInit
             PROVE  BudgetInv
    OBVIOUS
<1>1. trace = <<>> /\ trace \in Seq({}) /\ pc = "starting"
    BY DEF RunInit
<1>2. \A i, action : Calls(i, action) = {}
    BY <1>1 DEF Calls
<1>3. plan \in Plan
    BY PlansAssumption DEF RunInit
<1>4. ASSUME NEW i \in DOMAIN memory
      PROVE  memory[i].count = 0 /\ plan.agents[i].bound \in Nat
  <2>1. memory[i] = FreshMemory /\ i \in 1 .. Len(plan.agents)
      BY DEF RunInit
  <2>2. plan.agents[i] \in Agent
      BY <1>3, <2>1 DEF Plan
  <2> QED
      BY <2>1, <2>2 DEF FreshMemory, Agent
<1>5. ASSUME NEW i \in DOMAIN memory
      PROVE  Budget(i)
  <2>1. \A action : Cardinality(Calls(i, action)) = 0 /\ ~Trying(i, action)
      BY <1>1, <1>2, FS_EmptySet DEF Trying
  <2> QED
      BY <1>4, <2>1 DEF Budget, One
<1> QED
    BY <1>1, <1>5 DEF BudgetInv

LEMMA BudgetStep == RunTypeInv /\ BudgetInv /\ [RunNext]_runVars => BudgetInv'
<1> SUFFICES ASSUME RunTypeInv, BudgetInv, [RunNext]_runVars
             PROVE  BudgetInv'
    OBVIOUS
<1>1. /\ Len(plan.agents) \in Nat
      /\ \A i \in 1 .. Len(plan.agents) : /\ plan.agents[i] \in Agent
                                          /\ plan.agents[i].bound \in Nat
                                          /\ memory[i] \in Memory
                                          /\ memory[i].count \in Nat
      /\ DOMAIN memory = 1 .. Len(plan.agents)
  <2>1. plan \in Plan /\ memory \in [1 .. Len(plan.agents) -> Memory]
      BY DEF RunTypeInv, RunTypeOK
  <2>2. \A i \in 1 .. Len(plan.agents) : plan.agents[i] \in Agent
      BY <2>1 DEF Plan
  <2>3. \A ag \in Agent : ag.bound \in Nat
      BY DEF Agent
  <2>4. \A m \in Memory : m.count \in Nat
      BY DEF Memory
  <2>5. Len(plan.agents) \in Nat
      BY <2>1 DEF Plan
  <2> QED
      BY <2>1, <2>2, <2>3, <2>4, <2>5
<1>2. ASSUME UNCHANGED <<plan, memory, trace>>, pc' # "sent" \/ UNCHANGED <<pc, turn, call>>
      PROVE  BudgetInv'
  <2>1. \A i, action : Calls(i, action)' = Calls(i, action)
      BY <1>2 DEF Calls
  <2>2. \A i, action : One(Trying(i, action)') <= One(Trying(i, action))
      BY <1>2 DEF Trying, One
  <2>3. \A i, action : One(Trying(i, action)) \in Nat /\ One(Trying(i, action)') \in Nat
      BY DEF One
  <2>4. ASSUME NEW i \in DOMAIN memory
        PROVE  Budget(i)'
    <3>1. Budget(i) /\ UNCHANGED <<plan, memory>>
        BY <1>2, <2>4 DEF BudgetInv
    <3>2. /\ One(Trying(i, "release")') <= One(Trying(i, "release"))
          /\ One(Trying(i, "escalate_dispute")') <= One(Trying(i, "escalate_dispute"))
          /\ Calls(i, "release")' = Calls(i, "release")
          /\ Calls(i, "escalate_dispute")' = Calls(i, "escalate_dispute")
        BY <2>1, <2>2
    <3>3. Cardinality(Calls(i, "release")) \in Nat
        BY CallsFinite DEF BudgetInv
    <3> QED
        BY <1>1, <2>3, <2>4, <3>1, <3>2, <3>3 DEF Budget
  <2> QED
      BY <1>2, <2>4 DEF BudgetInv
<1>3. CASE Started \/ StartFailed \/ NextTick \/ Complete \/ StepFailed \/ Closed
           \/ CloseFailed \/ UNCHANGED runVars
    BY <1>2, <1>3 DEF Started, StartFailed, NextTick, Complete, StepFailed, Closed,
                      CloseFailed, runVars
<1>4. ASSUME pc = "deciding", ~RoundOver, UNCHANGED <<plan, trace>>,
             memory' = [memory EXCEPT ![turn] = Chosen(turn).memory],
             \/ pc' = "deciding" /\ Chosen(turn).call = NoCall
             \/ pc' = "sent" /\ turn' = turn /\ call' = Chosen(turn).call
      PROVE  BudgetInv'
  <2>1. turn \in 1 .. Len(plan.agents)
      BY <1>1, <1>4 DEF RunTypeInv, RunTypeOK, RoundOver
  <2>2. DOMAIN memory' = DOMAIN memory
      BY <1>4
  <2>3. \A i, action : Calls(i, action)' = Calls(i, action) /\ ~Trying(i, action)
      BY <1>4 DEF Calls, Trying
  <2>4. ASSUME NEW i \in DOMAIN memory, i # turn
        PROVE  Budget(i)'
    <3>1. memory'[i] = memory[i] /\ plan' = plan
        BY <1>4, <2>4
    <3>2. ~Trying(i, "release")' /\ ~Trying(i, "escalate_dispute")'
        BY <1>4, <2>4 DEF Trying
    <3>3. Budget(i)
        BY <2>4 DEF BudgetInv
    <3> QED
        BY <2>3, <3>1, <3>2, <3>3 DEF Budget, One
  <2>5. ASSUME NEW i \in DOMAIN memory, i = turn
        PROVE  Budget(i)'
    <3> DEFINE ag == plan.agents[i]
               m  == memory[i]
               c  == Chosen(i)
    <3>1. /\ ag.kind = "EscalatingBuyer" =>
                 /\ c.memory = m
                 /\ c.call.action = "escalate_dispute" => m.count < ag.bound
          /\ ag.kind = "AttackingBuyer" =>
                 IF c.call.action = "release"
                 THEN m.count < 3 /\ c.memory.count = m.count + 1
                 ELSE c.memory = m
        BY <1>1, <2>1, <2>5, DecideWithinBudget DEF Chosen
    <3>2. memory'[i] = c.memory /\ plan' = plan
        BY <1>1, <1>4, <2>1, <2>5
    <3>3. Budget(i) /\ ag.bound \in Nat /\ m.count \in Nat
        BY <1>1, <2>1, <2>5 DEF BudgetInv
    <3>4. \A action : Trying(i, action)' => c.call.action = action
        BY <1>4, <2>5 DEF Trying
    <3>5. Calls(i, "release")' = Calls(i, "release")
          /\ Calls(i, "escalate_dispute")' = Calls(i, "escalate_dispute")
          /\ ~Trying(i, "release") /\ ~Trying(i, "escalate_dispute")
        BY <2>3
    <3>6. pc' = "deciding" => c.call.action # "release"
        BY <1>4, <2>5 DEF NoCall
    <3>7. Cardinality(Calls(i, "release")) \in Nat
        BY CallsFinite DEF BudgetInv
    <3> HIDE DEF c
    <3>8. ag.kind = "EscalatingBuyer" =>
              /\ Cardinality(Calls(i, "escalate_dispute")') = memory'[i].count
              /\ memory'[i].count + One(Trying(i, "escalate_dispute")') <= ag.bound
        BY <3>1, <3>2, <3>3, <3>4, <3>5 DEF Budget, One
    <3>9. ag.kind = "AttackingBuyer" =>
              /\ Cardinality(Calls(i, "release")') + One(Trying(i, "release")')
                     <= memory'[i].count
              /\ memory'[i].count <= 3
        BY <3>1, <3>2, <3>3, <3>4, <3>5, <3>7 DEF Budget, One
    <3> QED
        BY <3>2, <3>8, <3>9 DEF Budget
  <2> QED
      BY <1>4, <2>2, <2>4, <2>5 DEF BudgetInv
<1>5. CASE Decline
    BY <1>4, <1>5 DEF Decline
<1>6. CASE Send
    BY <1>4, <1>6 DEF Send
<1>7. ASSUME NEW r \in AnyAnswer, Receive(r)
      PROVE  BudgetInv'
  <2> DEFINE ag == plan.agents[turn]
             m  == memory[turn]
  <2>1. AnswerType(r)
      BY AnswersTyped
  <2>2. turn \in 1 .. Len(plan.agents)
      BY <1>1, <1>7 DEF RunTypeInv, RunTypeOK, Receive
  <2>3. /\ pc = "sent" /\ pc' # "sent" /\ plan' = plan
        /\ memory' = [memory EXCEPT ![turn] = Learn(ag, m, r)]
        /\ trace' = Append(trace, [agent |-> turn, action |-> call.action,
                                   result |-> r.result])
      BY <1>7 DEF Receive, LearnTurn
  <2>4. \E S : trace' \in Seq(S)
    <3> HIDE <2>3
    <3> DEFINE new == [agent |-> turn, action |-> call.action, result |-> r.result]
    <3>1. trace' = Append(trace, new)
        BY <2>3
    <3> HIDE DEF new
    <3> QED
        BY <3>1, AppendFacts DEF BudgetInv
  <2>5. \A i, action :
            /\ Cardinality(Calls(i, action)) \in Nat
            /\ Cardinality(Calls(i, action)') =
                   Cardinality(Calls(i, action))
                       + One(i = turn /\ call.action = action /\ r.result # "none")
      BY <2>3, CallsCounted DEF BudgetInv
  <2>6. \A i, action : ~Trying(i, action)'
      BY <2>3 DEF Trying
  <2>7. ASSUME NEW i \in DOMAIN memory, i # turn
        PROVE  Budget(i)'
    <3>1. memory'[i] = memory[i] /\ plan' = plan
        BY <2>3, <2>7
    <3>2. /\ Cardinality(Calls(i, "release")') = Cardinality(Calls(i, "release"))
          /\ Cardinality(Calls(i, "escalate_dispute")')
                 = Cardinality(Calls(i, "escalate_dispute"))
        BY <2>5, <2>7 DEF One
    <3>3. Budget(i) /\ ~Trying(i, "release") /\ ~Trying(i, "escalate_dispute")
        BY <2>7 DEF BudgetInv, Trying
    <3> QED
        BY <2>6, <3>1, <3>2, <3>3 DEF Budget, One
  <2>8. ASSUME NEW i \in DOMAIN memory, i = turn
        PROVE  Budget(i)'
    <3>1. /\ ag.kind = "EscalatingBuyer" =>
                 Learn(ag, m, r).count = m.count + One(r.action = "escalate_dispute")
          /\ ag.kind = "AttackingBuyer" => Learn(ag, m, r).count = m.count
        BY <1>1, <2>1, <2>2, LearnWithinBudget
    <3>2. memory'[i] = Learn(ag, m, r) /\ plan' = plan
        BY <1>1, <2>2, <2>3, <2>8
    <3>3. Budget(i) /\ m.count \in Nat /\ ag.bound \in Nat
        BY <1>1, <2>2, <2>8 DEF BudgetInv
    <3>4. r.action = IF r.result = "none" THEN "none" ELSE call.action
        BY <2>1 DEF AnswerType
    <3>5. /\ Cardinality(Calls(i, "release")) \in Nat
          /\ Cardinality(Calls(i, "escalate_dispute")) \in Nat
          /\ Cardinality(Calls(i, "release")') =
                 Cardinality(Calls(i, "release"))
                     + One(call.action = "release" /\ r.result # "none")
          /\ Cardinality(Calls(i, "escalate_dispute")') =
                 Cardinality(Calls(i, "escalate_dispute"))
                     + One(call.action = "escalate_dispute" /\ r.result # "none")
        BY <2>5, <2>8
    <3>6. /\ Trying(i, "release") <=> call.action = "release"
          /\ Trying(i, "escalate_dispute") <=> call.action = "escalate_dispute"
        BY <2>3, <2>8 DEF Trying
    <3>7. ~Trying(i, "release")' /\ ~Trying(i, "escalate_dispute")'
        BY <2>6
    <3>8. ag.kind = "EscalatingBuyer" =>
              /\ Cardinality(Calls(i, "escalate_dispute")') = memory'[i].count
              /\ memory'[i].count <= ag.bound
        BY <2>8, <3>1, <3>2, <3>3, <3>4, <3>5, <3>6 DEF Budget, One
    <3>9. ag.kind = "AttackingBuyer" =>
              /\ Cardinality(Calls(i, "release")') <= memory'[i].count
              /\ memory'[i].count <= 3
        BY <2>8, <3>1, <3>2, <3>3, <3>5, <3>6 DEF Budget, One
    <3>10. memory'[i].count \in Nat \/ ag.kind \notin {"EscalatingBuyer", "AttackingBuyer"}
        BY <2>8, <3>1, <3>2, <3>3 DEF One
    <3> QED
        BY <2>8, <3>2, <3>3, <3>5, <3>7, <3>8, <3>9, <3>10 DEF Budget, One
  <2> QED
      BY <2>3, <2>4, <2>7, <2>8 DEF BudgetInv
<1> QED
    BY <1>3, <1>5, <1>6, <1>7 DEF RunNext

\* An agent that gives itself a number of tries never exceeds it, however many of
\* them are refused or lost (live_agents.py, EscalatingBuyerLive and
\* AttackingBuyerLive).
THEOREM BudgetsCorrect == RunSpec => []BudgetsKept
<1>1. RunTypeInv /\ BudgetInv => BudgetsKept
  <2> SUFFICES ASSUME RunTypeInv, BudgetInv, NEW i \in DOMAIN memory
               PROVE  LET ag == plan.agents[i]
                      IN  /\ ag.kind = "EscalatingBuyer" =>
                                 Cardinality(Calls(i, "escalate_dispute")) <= ag.bound
                          /\ ag.kind = "AttackingBuyer" =>
                                 Cardinality(Calls(i, "release")) <= 3
      BY DEF BudgetsKept
  <2>1. memory[i].count \in Nat /\ plan.agents[i].bound \in Nat
    <3>1. plan \in Plan /\ memory \in [1 .. Len(plan.agents) -> Memory]
        BY DEF RunTypeInv, RunTypeOK
    <3>2. plan.agents[i] \in Agent /\ memory[i] \in Memory
        BY <3>1 DEF Plan
    <3> QED
        BY <3>2 DEF Agent, Memory
  <2>2. Budget(i)
      BY DEF BudgetInv
  <2>3. Cardinality(Calls(i, "release")) \in Nat
      BY CallsFinite DEF BudgetInv
  <2> QED
      BY <2>1, <2>2, <2>3 DEF Budget, One
<1> QED
    BY RunInitTyped, RunStepTyped, BudgetInit, BudgetStep, <1>1, PTL DEF RunSpec

-----------------------------------------------------------------------------
(* The events that are sent. *)

\* An event has its types, and a creation names its recipient.
CallType(c) ==
    /\ c.wf \in OptWf /\ c.to \in OptAddr /\ c.amount \in Nat /\ c.isRelease \in BOOLEAN
    /\ c.action = "create_escrow" => c.to \in Addr

LEMMA NoCallTyped == CallType(NoCall)
BY DEF CallType, NoCall, OptWf, OptAddr

LEMMA OnTyped ==
    ASSUME NEW action, action # "create_escrow", NEW w \in OptWf
    PROVE  CallType(On(action, w))
BY DEF CallType, On, NoCall, OptWf, OptAddr

LEMMA ResolveTyped ==
    ASSUME NEW w \in OptWf, NEW b \in BOOLEAN
    PROVE  CallType(Resolve(w, b))
BY DEF CallType, Resolve, On, NoCall, OptWf, OptAddr

LEMMA CreateTyped ==
    ASSUME NEW ag \in Agent
    PROVE  CallType(Create(ag))
BY DEF CallType, Create, NoCall, Agent, OptWf, OptAddr

\* Whatever an agent decides is an event of the wire.
LEMMA DecidedCallTyped ==
    ASSUME NEW ag \in Agent, NEW m \in Memory, NEW v, NEW seqno \in Nat
    PROVE  CallType(Decide(ag, m, v, seqno).call)
<1> USE NoCallTyped, OnTyped, ResolveTyped, CreateTyped DEF Choice, Skip
<1>1. m.own \in OptWf
    BY DEF Memory
<1>2. /\ CallType(HonestBuyer(ag, m).call)
      /\ CallType(GriefingBuyer(ag, m).call)
      /\ CallType(AttackingBuyer(ag, m).call)
      /\ CallType(EscalatingBuyer(ag, m).call)
      /\ CallType(CancelThenDispute(ag, m).call)
      /\ CallType(DisputeThenCancel(ag, m).call)
    BY <1>1 DEF HonestBuyer, GriefingBuyer, AttackingBuyer, EscalatingBuyer,
                CancelThenDispute, DisputeThenCancel, TwoCallBuyer
<1>3. ASSUME NEW S, S \subseteq Workflows, S # {}
      PROVE  First(S) \in OptWf
    BY <1>3, FirstIsMember DEF OptWf
<1>4. /\ Disputed(v) \subseteq Workflows
      /\ \A T : Disputed(v) \ T \subseteq Workflows
      /\ \A states : InStates(v, states) \subseteq Workflows
    BY InStatesTyped
<1>5. ag.favour \in BOOLEAN /\ ag.next \in OptAddr
    BY DEF Agent
<1>6. CallType(HonestResolver(m, v).call)
    BY <1>3, <1>4 DEF HonestResolver
<1>7. CallType(TimedAutomator(m, v).call)
  <2>1. InStates(v, LiveStates) \ m.marked \subseteq Workflows
      BY <1>4
  <2> QED
      BY <1>3, <2>1 DEF TimedAutomator
<1>8. CallType(DisputeFlood(ag, m).call)
  <2>1. m.slots \ m.marked \subseteq Workflows
      BY DEF Memory
  <2> QED
      BY <1>3, <2>1 DEF DisputeFlood
<1>9. CallType(ThrottledResolver(ag, m, v, seqno).call)
    BY <1>3, <1>4 DEF ThrottledResolver
<1>10. CallType(AppealWindowRacer(m, v).call)
    BY <1>3, <1>4 DEF AppealWindowRacer
<1>11. CallType(EscalationLoop(m, v, seqno).call)
  <2>1. {w \in Disputed(v) : m.since[w] # seqno} \subseteq Workflows
      BY <1>4
  <2> QED
      BY <1>3, <2>1 DEF EscalationLoop
<1>12. CallType(GovernanceRotation(ag, m, v, seqno).call)
  <2> DEFINE due == {w \in Disputed(v) \ m.marked :
                         m.since[w] >= 0 /\ seqno - m.since[w] >= ag.bound}
  <2>1. due \subseteq Workflows
      BY <1>4
  <2>2. ASSUME NEW w \in OptWf
        PROVE  CallType([On("rotate_dispute_resolver", w) EXCEPT !.to = ag.next])
      BY <1>5 DEF CallType, On, NoCall, OptWf, OptAddr
  <2> HIDE DEF due
  <2>3. due # {} => CallType([On("rotate_dispute_resolver", First(due)) EXCEPT !.to = ag.next])
      BY <1>3, <2>1, <2>2
  <2> QED
      BY <2>3 DEF GovernanceRotation, due
<1>13. /\ CallType(MaliciousResolver(ag, m, v).call)
       /\ CallType(ColludingResolver(ag, m, v).call)
    BY <1>3, <1>4, <1>5 DEF MaliciousResolver, ColludingResolver
<1>14. CallType(CapacityLimited(ag, m, v).call)
    BY <1>3, <1>4 DEF CapacityLimited
<1>15. CallType(AutomateTimedActionsAgent(m, v).call)
    BY <1>3, <1>4 DEF AutomateTimedActionsAgent
<1>16. CallType(ProfitThreshold(ag, m, v).call)
    BY DEF ProfitThreshold
<1>17. CallType(ForkingStrategist(m, v).call)
  <2>1. InStates(v, {"pending"}) \cap m.marked \subseteq Workflows
      BY <1>4
  <2> QED
      BY <1>3, <2>1 DEF ForkingStrategist
<1>18. CallType(Skip(m).call)
    OBVIOUS
<1> HIDE DEF Choice, Skip
<1> QED
    BY <1>2, <1>6, <1>7, <1>8, <1>9, <1>10, <1>11, <1>12, <1>13, <1>14, <1>15, <1>16,
       <1>17, <1>18 DEF Decide

-----------------------------------------------------------------------------
(* The server's world keeps its types. *)

\* Every event the dispatcher carries out leaves a typed world.
LEMMA PerformTyped ==
    ASSUME TypeInv, NEW caller \in Addr, NEW e, CallType(e), NEW custom \in OptAddr,
           Perform(caller, e, custom)
    PROVE  TypeInv'
<1>1. ASSUME e.action = "create_escrow",
             CreateEscrow([ from |-> caller, to |-> e.to, token |-> CHOOSE t \in Tokens : TRUE,
                            amount |-> e.amount, custom |-> custom ])
      PROVE  TypeInv'
  <2>1. [ from |-> caller, to |-> e.to, token |-> CHOOSE t \in Tokens : TRUE,
          amount |-> e.amount, custom |-> custom ] \in Order
      BY <1>1, TokensAssumption DEF CallType, Order
  <2> QED
      BY <1>1, <2>1, CreateEscrowTyped
<1>2. ASSUME e.wf \in Workflows, PerformOn(e.wf, caller, e)
      PROVE  TypeInv'
  <2>1. e.isRelease \in BOOLEAN /\ e.to \in OptAddr
      BY DEF CallType
  <2>2. CASE Automate(e.wf)
    <3>1. CASE AutomateTimedActions(e.wf)
        BY <1>2, <3>1, AutomateTimedActionsTyped
    <3>2. CASE UNCHANGED vars
        BY <3>2, NextTyped
    <3> QED
        BY <2>2, <3>1, <3>2 DEF Automate
  <2> QED
      BY <1>2, <2>1, <2>2, ReleaseTyped, RaiseDisputeTyped, CancelTyped,
         ExecuteResolutionTyped, EscalateDisputeTyped, AutoCancelDisputedTyped, RotateTyped
      DEF PerformOn
<1> QED
    BY <1>1, <1>2 DEF Perform

LEMMA AdvanceTyped == \A t \in Nat : TypeInv /\ AdvanceTo(t) => TypeInv'
<1> SUFFICES ASSUME NEW t \in Nat, TypeInv, AdvanceTo(t)
             PROVE  TypeInv'
    OBVIOUS
<1>1. ClockType'
    BY DEF AdvanceTo, TypeInv, ClockType
<1> QED
    BY <1>1, GroupsKept DEF AdvanceTo, TypeInv, roundVars, slashVars

\* A snapshot of typed transfers is a view.
LEMMA SnapshotTyped ==
    ASSUME NEW escrows \in [Workflows -> Transfer], NEW deferred
    PROVE  [ known |-> TRUE,
             live |-> [w \in Workflows |-> escrows[w].state],
             pendingCount |-> Cardinality({w \in Workflows : deferred[w].exists}),
             amounts |-> [w \in Workflows |-> escrows[w].afa] ] \in View
<1>1. Cardinality({w \in Workflows : deferred[w].exists}) \in Nat
    BY WorkflowsFinite, FS_Subset, FS_CardinalityType
<1>2. \A w \in Workflows : escrows[w].state \in EscrowStates /\ escrows[w].afa \in Nat
    BY DEF Transfer
<1> QED
    BY <1>1, <1>2 DEF View

\* The id a creation is answered with is the id of the escrow it makes.
LEMMA CreatedIdTyped ==
    ASSUME NEW w \in Workflows, IsNextId(w)
    PROVE  NextId = w
<1>1. w \in Nat /\ NumWorkflows \in Nat /\ w < NumWorkflows
    BY WorkflowsAssumption DEF Workflows
<1>2. {v \in Workflows : Exists(v)} = 0 .. (w - 1)
    BY <1>1 DEF IsNextId, Workflows
<1>3. Cardinality(0 .. (w - 1)) = w
    BY <1>1, FS_Interval
<1> QED
    BY <1>2, <1>3 DEF NextId

-----------------------------------------------------------------------------
(* The runner's step under each step of the composition. *)

\* What the composition adds to the runner's own types: the world's, and those of
\* the event in flight and the clock put on events.
LiveInv ==
    /\ TypeInv
    /\ RunTypeInv
    /\ CallType(call)
    /\ blockTime \in Nat

\* The kernel's answers are answers of the wire: a creation is answered with the id
\* of the new escrow, and what is refused names none.
LEMMA AcceptAnswers ==
    ASSUME LiveInv, Accept
    PROVE  Answer("ok", NextId, Snapshot') \in AnyAnswer /\ TypeInv'
<1>1. pc = "sent" /\ PerformCall
    BY DEF Accept
<1>2. Caller \in Addr
  <2>1. turn \in 1 .. Len(plan.agents) /\ plan \in Plan
      BY <1>1 DEF LiveInv, RunTypeInv, RunTypeOK, Plan
  <2>2. plan.agents[turn] \in Agent
      BY <2>1 DEF Plan
  <2> QED
      BY <2>2 DEF Caller, Agent
<1>3. TypeInv'
    BY <1>1, <1>2, PerformTyped DEF LiveInv, PerformCall, OptAddr
<1>4. Snapshot' \in View
    BY <1>3, SnapshotTyped DEF Snapshot, TypeInv, EscrowType
<1>5. PICK id \in Workflows : Created("ok") => id = NextId
  <2>1. CASE call.action = "create_escrow"
    <3>1. \E w \in Workflows : IsNextId(w)
        BY <1>1, <2>1 DEF PerformCall, Perform, PerformOn, CreateEscrow
    <3> QED
        BY <3>1, CreatedIdTyped
  <2>2. CASE call.action # "create_escrow"
      BY <2>2, ZeroIsWorkflow DEF Created
  <2> QED
      BY <2>1, <2>2
<1>6. Answer("ok", NextId, Snapshot') = Answer("ok", id, Snapshot')
    BY <1>5 DEF Answer
<1> QED
    BY <1>3, <1>4, <1>6 DEF AnyAnswer, Results

LEMMA RefusalAnswers ==
    ASSUME LiveInv, NEW result \in {"rejected", "invariant_violated"}
    PROVE  Answer(result, NoWf, Snapshot) \in AnyAnswer
<1>1. Answer(result, NoWf, Snapshot) = Answer(result, 0, Snapshot)
    BY DEF Answer, Created
<1>2. result \in Results \ {"none"} /\ 0 \in Workflows /\ Snapshot \in View
    BY ZeroIsWorkflow, SnapshotTyped DEF Results, LiveInv, Snapshot, TypeInv, EscrowType
<1> QED
    BY <1>1, <1>2 DEF AnyAnswer

LEMMA LiveInitTyped == LiveInit => LiveInv /\ RunInit
<1> SUFFICES ASSUME LiveInit
             PROVE  LiveInv /\ RunInit
    OBVIOUS
<1>1. RunInit /\ TypeInv
    BY InitTyped DEF LiveInit, Init
<1>2. blockTime \in Nat /\ CallType(call)
    BY TimeAssumption, NoCallTyped DEF LiveInit, RunInit, WorldInit
<1> QED
    BY <1>1, <1>2, RunInitTyped DEF LiveInv

\* Every step of the composition is a step of the runner against some server, and
\* keeps the types.
LEMMA LiveStep == LiveInv /\ [LiveNext]_liveVars => [RunNext]_runVars /\ LiveInv'
<1> SUFFICES ASSUME LiveInv, [LiveNext]_liveVars
             PROVE  [RunNext]_runVars /\ LiveInv'
    OBVIOUS
<1>1. TypeInv /\ RunTypeInv /\ CallType(call) /\ blockTime \in Nat
    BY DEF LiveInv
<1>2. UNCHANGED vars => TypeInv'
    BY <1>1, NextTyped
<1>3. [RunNext]_runVars => RunTypeInv'
    BY <1>1, RunStepTyped
<1>4. ASSUME NEW r, r \in AnyAnswer, Receive(r), TypeInv'
      PROVE  [RunNext]_runVars /\ LiveInv'
    BY <1>1, <1>3, <1>4, NoCallTyped DEF RunNext, Receive, LiveInv
<1>5. CASE Open
    BY <1>1, <1>2, <1>3, <1>5 DEF Open, World, Started, RunNext, LiveInv
<1>6. CASE Local
  <2>1. plan.timeStep \in Nat
      BY <1>1 DEF RunTypeInv, Plan
  <2>2. blockTime' \in Nat /\ call' = call
      BY <1>1, <1>6, <2>1 DEF Local, NextTick, Complete, Decline
  <2> QED
      BY <1>1, <1>2, <1>3, <1>6, <2>2 DEF Local, Quietly, World, RunNext, LiveInv
<1>7. CASE Deliver
  <2>1. (IF hosted THEN Greatest(time, blockTime) ELSE time) \in Nat
      BY <1>1 DEF TypeInv, ClockType, Greatest
  <2>2. TypeInv'
      BY <1>1, <1>7, <2>1, AdvanceTyped DEF Deliver
  <2>3. CallType(call')
    <3>1. turn \in 1 .. Len(plan.agents) /\ plan \in Plan /\ seq \in Nat
        BY <1>1, <1>7 DEF Deliver, Send, RoundOver, RunTypeInv, RunTypeOK, Plan
    <3>2. plan.agents[turn] \in Agent /\ memory[turn] \in Memory
        BY <1>1, <3>1 DEF RunTypeInv, RunTypeOK, Plan
    <3>3. call' = Chosen(turn).call
        BY <1>7 DEF Deliver, Send
    <3> QED
        BY <3>1, <3>2, <3>3, DecidedCallTyped DEF Chosen
  <2>4. blockTime' = blockTime /\ RunNext
      BY <1>7 DEF Deliver, Send, RunNext
  <2> QED
      BY <1>1, <1>3, <2>2, <2>3, <2>4 DEF LiveInv
<1>8. CASE Accept
  <2>1. Receive(Answer("ok", NextId, Snapshot'))
      BY <1>8 DEF Accept
  <2> QED
      BY <1>4, <1>8, <2>1, AcceptAnswers
<1>9. CASE Reject
  <2>1. Receive(Answer("rejected", NoWf, Snapshot)) /\ UNCHANGED vars
      BY <1>9 DEF Reject, Quietly, World
  <2> QED
      BY <1>2, <1>4, <2>1, RefusalAnswers
<1>10. CASE Violate
  <2>1. Receive(Answer("invariant_violated", NoWf, Snapshot)) /\ UNCHANGED vars
      BY <1>10 DEF Violate, Quietly, World
  <2> QED
      BY <1>2, <1>4, <2>1, RefusalAnswers
<1>11. CASE Unknown
  <2>1. Receive(NoAnswer) /\ UNCHANGED vars
      BY <1>11 DEF Unknown, Quietly, World
  <2> QED
      BY <1>2, <1>4, <2>1 DEF AnyAnswer
<1>12. CASE Close
    BY <1>1, <1>2, <1>3, <1>12 DEF Close, World, Closed, RunNext, LiveInv
<1>13. CASE StartLost
    BY <1>1, <1>2, <1>3, <1>13 DEF StartLost, World, StartFailed, RunNext, LiveInv
<1>14. CASE StepLost
  <2>1. StepFailed /\ call' = call /\ blockTime' = blockTime /\ pc = "sent"
      BY <1>14 DEF StepLost, StepFailed
  <2>2. CASE UNCHANGED vars
      BY <1>1, <1>2, <1>3, <2>1, <2>2 DEF RunNext, LiveInv
  <2>3. CASE PerformCall
    <3>1. Caller \in Addr
      <4>1. turn \in 1 .. Len(plan.agents) /\ plan \in Plan
          BY <1>1, <2>1 DEF RunTypeInv, RunTypeOK, Plan
      <4>2. plan.agents[turn] \in Agent
          BY <4>1 DEF Plan
      <4> QED
          BY <4>2 DEF Caller, Agent
    <3>2. TypeInv'
        BY <1>1, <2>3, <3>1, PerformTyped DEF PerformCall, OptAddr
    <3> QED
        BY <1>1, <1>3, <2>1, <3>2 DEF RunNext, LiveInv
  <2> QED
      BY <1>14, <2>2, <2>3 DEF StepLost, World
<1>15. CASE CloseLost
    BY <1>1, <1>2, <1>3, <1>15 DEF CloseLost, World, CloseFailed, RunNext, LiveInv
<1>16. CASE Restart \/ UNCHANGED liveVars
    BY <1>1, <1>2, <1>3, <1>16 DEF Restart, World, runVars, liveVars, LiveInv
<1> QED
    BY <1>5, <1>6, <1>7, <1>8, <1>9, <1>10, <1>11, <1>12, <1>13, <1>14, <1>15, <1>16
    DEF LiveNext, Step

\* The live runner against the simulation server, with failing calls and restarts,
\* implements the live runner against any server (live_runner.py, grpc_client.py).
THEOREM LiveImplementsRunner == LiveSpec => RunSpec
BY LiveInitTyped, LiveStep, PTL DEF LiveSpec, RunSpec

\* Hence its limits, its agents' budgets and its result are kept against this server.
THEOREM LiveRunsCorrect ==
    LiveSpec => [](RunTypeOK /\ BudgetsKept /\ ResultHonest)
BY LiveImplementsRunner, RunTypeCorrect, BudgetsCorrect, ResultCorrect, PTL

-----------------------------------------------------------------------------
(* Views and sessions. *)

\* ViewCurrent and SessionsReturned each need to know how a run begins: no view and
\* no session before it is opened.
ServedInv ==
    /\ pc = "starting" => ~hosted /\ ~view.known
    /\ ViewCurrent
    /\ SessionsReturned

LEMMA ServedStep == ServedInv /\ [LiveNext]_liveVars => ServedInv'
<1> SUFFICES ASSUME ServedInv, [LiveNext]_liveVars
             PROVE  ServedInv'
    OBVIOUS
<1> USE DEF ServedInv, ViewCurrent, SessionsReturned
<1>1. UNCHANGED vars => Snapshot' = Snapshot
    BY DEF vars, worldVars, escrowVars, roundVars, Snapshot
<1>2. ASSUME NEW r, Receive(r), UNCHANGED hosted, r.view.known => r.view = Snapshot' \/ ~hosted
      PROVE  ServedInv'
    BY <1>2 DEF Receive, Seen
<1>3. CASE Open
    BY <1>3 DEF Open, Started
<1>4. CASE Local
    BY <1>1, <1>4 DEF Local, Quietly, World, NextTick, Complete, Decline
<1>5. CASE Deliver
    BY <1>5 DEF Deliver, Send
<1>6. CASE Accept
  <2>1. Answer("ok", NextId, Snapshot').view = Snapshot'
      BY DEF Answer
  <2>2. Receive(Answer("ok", NextId, Snapshot')) /\ UNCHANGED hosted
      BY <1>6 DEF Accept
  <2> QED
      BY <1>2, <2>1, <2>2
<1>7. CASE Reject
  <2>1. Answer("rejected", NoWf, Snapshot).view = Snapshot
      BY DEF Answer
  <2>2. Receive(Answer("rejected", NoWf, Snapshot)) /\ UNCHANGED <<vars, hosted>>
      BY <1>7 DEF Reject, Quietly, World
  <2> QED
      BY <1>1, <1>2, <2>1, <2>2
<1>8. CASE Violate
  <2>1. Answer("invariant_violated", NoWf, Snapshot).view = Snapshot
      BY DEF Answer
  <2>2. Receive(Answer("invariant_violated", NoWf, Snapshot)) /\ UNCHANGED <<vars, hosted>>
      BY <1>8 DEF Violate, Quietly, World
  <2> QED
      BY <1>1, <1>2, <2>1, <2>2
<1>9. CASE Unknown
    BY <1>9 DEF Unknown, Quietly, Receive
<1>10. CASE Close
    BY <1>10 DEF Close, Closed
<1>11. CASE StartLost
    BY <1>11 DEF StartLost, Happens, StartFailed
<1>12. CASE StepLost
    BY <1>12 DEF StepLost, StepFailed
<1>13. CASE CloseLost
    BY <1>13 DEF CloseLost, Happens, CloseFailed
<1>14. CASE Restart
    BY <1>14 DEF Restart, runVars
<1>15. CASE UNCHANGED liveVars
    BY <1>1, <1>15 DEF liveVars, runVars
<1> QED
    BY <1>3, <1>4, <1>5, <1>6, <1>7, <1>8, <1>9, <1>10, <1>11, <1>12, <1>13, <1>14, <1>15
    DEF LiveNext, Step

LEMMA ServedInvariant == LiveSpec => []ServedInv
<1>1. LiveInit => ServedInv
    BY DEF LiveInit, RunInit, NoView, ServedInv, ViewCurrent, SessionsReturned
<1> QED
    BY <1>1, ServedStep, PTL DEF LiveSpec

\* No agent decides on a view that is not the one of the server's world, whatever
\* failed or was refused before (live_runner.py, the view of the last answer).
THEOREM ViewAlwaysCurrent == LiveSpec => []ViewCurrent
<1>1. ServedInv => ViewCurrent
    BY DEF ServedInv
<1> QED
    BY <1>1, ServedInvariant, PTL

\* A session is left behind only when the call that opens or destroys it fails
\* (grpc_client.py, managed_session).
THEOREM SessionsAlwaysReturned == LiveSpec => []SessionsReturned
<1>1. ServedInv => SessionsReturned
    BY DEF ServedInv
<1> QED
    BY <1>1, ServedInvariant, PTL

-----------------------------------------------------------------------------
(* What an event does to the part of the world the driver counts and knows. *)

\* Escrow w is there as it was: created or not, by whom and for how much.
SameTerms(w) ==
    /\ Exists(w)' <=> Exists(w)
    /\ transfers'[w].from = transfers[w].from
    /\ transfers'[w].afa = transfers[w].afa
    /\ transfers'[w].fee = transfers[w].fee

Creates(w, caller, amount) ==
    /\ NextId = w
    /\ ~Exists(w) /\ Exists(w)'
    /\ transfers'[w].from = caller
    /\ transfers'[w].afa + transfers'[w].fee = amount
    /\ \A v \in Workflows \ {w} : SameTerms(v)

RaisesOn(w) ==
    /\ disputeTimestamps[w] = 0
    /\ disputeTimestamps'[w] > 0
    /\ \A v \in Workflows \ {w} : disputeTimestamps'[v] = disputeTimestamps[v]

DecidesOn(w, l, caller) ==
    /\ ~Decided(w, l) /\ Decided(w, l)'
    /\ previousDecisions'[w][l].resolver = caller
    /\ \A d \in (Workflows \X Levels) \ {<<w, l>>} :
           previousDecisions'[d[1]][d[2]] = previousDecisions[d[1]][d[2]]

\* An event of a live agent creates an escrow, raises a dispute or records a
\* decision if that is its action, and does none of these otherwise.
Effect(caller, e) ==
    /\ IF e.action = "create_escrow"
       THEN \E w \in Workflows : Creates(w, caller, e.amount)
       ELSE \A w \in Workflows : SameTerms(w)
    /\ IF e.action = "raise_dispute"
       THEN \E w \in Workflows : RaisesOn(w)
       ELSE UNCHANGED disputeTimestamps
    /\ IF e.action = "execute_resolution"
       THEN \E w \in Workflows, l \in Levels : DecidesOn(w, l, caller)
       ELSE UNCHANGED previousDecisions

\* One escrow's record is replaced by one that keeps its terms.
LEMMA TermsKept ==
    ASSUME TypeInv, NEW w \in Workflows, NEW et, transfers' = [transfers EXCEPT ![w] = et],
           transfers[w].state # "none", et.state # "none",
           et.from = transfers[w].from, et.afa = transfers[w].afa, et.fee = transfers[w].fee
    PROVE  \A v \in Workflows : SameTerms(v)
BY DEF TypeInv, EscrowType, SameTerms, Exists

LEMMA SettlementKeepsTerms ==
    ASSUME TypeInv, NEW w \in Workflows, NEW et \in Transfer, NEW result,
           transfers[w].state # "none", result # "none",
           et.from = transfers[w].from, et.afa = transfers[w].afa, et.fee = transfers[w].fee,
           Finalize(w, et, result)
    PROVE  \A v \in Workflows : SameTerms(v)
<1>1. /\ [et EXCEPT !.state = result].state = result
      /\ [et EXCEPT !.state = result].from = et.from
      /\ [et EXCEPT !.state = result].afa = et.afa
      /\ [et EXCEPT !.state = result].fee = et.fee
    BY DEF Transfer
<1>2. transfers' = [transfers EXCEPT ![w] = [et EXCEPT !.state = result]]
    BY DEF Finalize
<1> HIDE DEF Transfer
<1> QED
    BY <1>1, <1>2, TermsKept

\* Nothing but the records of an escrow changes, and its terms are kept.
Plainly ==
    /\ \A w \in Workflows : SameTerms(w)
    /\ UNCHANGED <<disputeTimestamps, previousDecisions>>

LEMMA CreationCreates ==
    ASSUME TypeInv, NEW o, o.amount \in Nat, CreateEscrow(o)
    PROVE  /\ \E w \in Workflows : Creates(w, o.from, o.amount)
           /\ UNCHANGED <<disputeTimestamps, previousDecisions>>
<1> DEFINE fee == ComputeFee(o.amount, ctx.feeBps)
           et  == [ state |-> "pending", from |-> o.from, to |-> o.to,
                    token |-> o.token, afa |-> o.amount - fee, fee |-> fee,
                    resolver |-> IF o.custom # NoAddr THEN o.custom ELSE ctx.resolver,
                    autoRelease |-> DelayedTime(ctx.autoReleaseDelay),
                    autoCancel |-> DelayedTime(ctx.autoCancelDelay),
                    senderStatus |-> "none", recipientStatus |-> "none" ]
<1>1. PICK w \in Workflows :
          /\ IsNextId(w)
          /\ transfers' = [transfers EXCEPT ![w] = et]
          /\ UNCHANGED roundVars
    BY DEF CreateEscrow
<1>2. ctx.feeBps \in Bps
    BY DEF TypeInv, ClockType, Context
<1>3. fee \in Nat
    BY <1>2, FeeIsAPart
<1>4. et.state = "pending" /\ et.from = o.from /\ et.afa = o.amount - fee /\ et.fee = fee
    OBVIOUS
<1> HIDE DEF et, fee
<1>5. et.afa + et.fee = o.amount
    BY <1>3, <1>4
<1>6. /\ transfers'[w] = et
      /\ \A v \in Workflows \ {w} : transfers'[v] = transfers[v]
    BY <1>1 DEF TypeInv, EscrowType
<1>7. NextId = w /\ ~Exists(w)
  <2>1. ~(w < w)
      BY DEF Workflows
  <2> QED
      BY <1>1, <2>1, CreatedIdTyped DEF IsNextId
<1>8. Creates(w, o.from, o.amount)
    BY <1>4, <1>5, <1>6, <1>7 DEF Creates, SameTerms, Exists
<1> QED
    BY <1>1, <1>8 DEF roundVars

LEMMA RaisingRaises ==
    ASSUME DisputeInv, NEW w \in Workflows, NEW a, RaiseDispute(w, a)
    PROVE  /\ \A v \in Workflows : SameTerms(v)
           /\ RaisesOn(w)
           /\ UNCHANGED previousDecisions
<1>1. TypeInv /\ transfers[w] \in Transfer /\ transfers[w].state = "pending"
      /\ time \in Nat /\ time > 0
    BY DEF DisputeInv, ClockStarted, RaiseDispute, TypeInv, EscrowType, ClockType
<1>2. /\ Raised(transfers[w], a).state = "disputed"
      /\ Raised(transfers[w], a).from = transfers[w].from
      /\ Raised(transfers[w], a).afa = transfers[w].afa
      /\ Raised(transfers[w], a).fee = transfers[w].fee
    BY <1>1 DEF Raised, Transfer
<1>3. transfers' = [transfers EXCEPT ![w] = Raised(transfers[w], a)]
    BY DEF RaiseDispute
<1>4. \A v \in Workflows : SameTerms(v)
    BY <1>1, <1>2, <1>3, TermsKept
<1>5. disputeTimestamps[w] = 0
    BY <1>1, FreshRecords
<1>6. disputeTimestamps' = [disputeTimestamps EXCEPT ![w] = time]
      /\ disputeTimestamps \in [Workflows -> Nat]
    BY <1>1 DEF RaiseDispute, TypeInv, RoundType
<1> QED
    BY <1>1, <1>4, <1>5, <1>6 DEF RaisesOn, RaiseDispute

LEMMA DecisionDecides ==
    ASSUME DisputeInv, NEW w \in Workflows, NEW a \in Addr, NEW b, ExecuteResolution(w, a, b)
    PROVE  /\ \A v \in Workflows : SameTerms(v)
           /\ \E l \in Levels : DecidesOn(w, l, a)
           /\ UNCHANGED disputeTimestamps
<1> DEFINE decision == [resolver |-> a, isRelease |-> b]
<1>0. PICK l \in Levels : l = disputeLevels[w]
    BY DEF DisputeInv, TypeInv, RoundType
<1>1. /\ TypeInv /\ transfers[w] \in Transfer /\ transfers[w].state = "disputed"
      /\ ~Terminal(w) /\ EscrowInv(w) /\ ~pendingSettlements[w].exists
    BY DisputedFacts DEF DisputeInv, ExecuteResolution, Decidable
<1>2. ~Decided(w, l)
    BY <1>0, <1>1 DEF EscrowInv, RoundsInOrder
<1>3. /\ previousDecisions' = [previousDecisions EXCEPT ![w][l] = decision]
      /\ previousDecisions \in [Workflows -> [Levels -> Decision]]
    BY <1>0, <1>1 DEF ExecuteResolution, TypeInv, RoundType
<1>4. decision # NoDecision /\ decision.resolver = a
    BY NoAddrAssumption DEF NoDecision
<1> HIDE DEF decision
<1>5. /\ previousDecisions'[w][l] = decision
      /\ \A d \in (Workflows \X Levels) \ {<<w, l>>} :
             previousDecisions'[d[1]][d[2]] = previousDecisions[d[1]][d[2]]
    BY <1>1, <1>3
<1>6. DecidesOn(w, l, a)
    BY <1>0, <1>2, <1>4, <1>5 DEF DecidesOn, Decided
<1>7. \A v \in Workflows : SameTerms(v)
  <2>1. CASE Finalize(w, transfers[w], OutcomeOf(b))
    <3>1. OutcomeOf(b) # "none"
        BY DEF OutcomeOf
    <3> QED
        BY <1>1, <2>1, <3>1, SettlementKeepsTerms
  <2>2. CASE transfers' = transfers
      BY <2>2 DEF SameTerms, Exists
  <2> QED
      BY <2>1, <2>2 DEF ExecuteResolution
<1> QED
    BY <1>0, <1>1, <1>6, <1>7 DEF ExecuteResolution

\* The parties' settlements, the keeper, appeals and rotations.
LEMMA OtherCallsPlain ==
    ASSUME DisputeInv, NEW w \in Workflows, NEW a, NEW r,
           \/ Release(w, a)
           \/ SenderCancel(w, a)
           \/ EscalateDispute(w, a)
           \/ Automate(w)
           \/ RotateDisputeResolver(w, r)
    PROVE  Plainly
<1>1. TypeInv /\ transfers[w] \in Transfer /\ transfers \in [Workflows -> Transfer]
    BY DEF DisputeInv, TypeInv, EscrowType
<1>2. ASSUME NEW et \in Transfer, NEW result, Finalize(w, et, result), SettledFromPending,
             transfers[w].state # "none", result # "none",
             et.from = transfers[w].from, et.afa = transfers[w].afa, et.fee = transfers[w].fee
      PROVE  Plainly
    BY <1>1, <1>2, SettlementKeepsTerms DEF Plainly, SettledFromPending
<1>3. CASE Release(w, a)
    BY <1>1, <1>2, <1>3 DEF Release
<1>4. CASE SenderCancel(w, a)
  <2> DEFINE agreed == [transfers[w] EXCEPT !.senderStatus = "agree-to-cancel"]
  <2>1. /\ agreed \in Transfer /\ agreed.state = "pending"
        /\ agreed.from = transfers[w].from
        /\ agreed.afa = transfers[w].afa /\ agreed.fee = transfers[w].fee
        /\ transfers[w].state # "none"
      BY <1>1, <1>4 DEF SenderCancel, Transfer, PartyStatuses
  <2>2. AgreeToCancel(w, agreed)
      BY <1>4 DEF SenderCancel
  <2> HIDE DEF agreed
  <2>3. CASE Finalize(w, agreed, "refunded") /\ SettledFromPending
      BY <1>2, <2>1, <2>3
  <2>4. CASE transfers' = [transfers EXCEPT ![w] = agreed] /\ UNCHANGED roundVars
      BY <1>1, <2>1, <2>4, TermsKept DEF Plainly, roundVars
  <2> QED
      BY <2>2, <2>3, <2>4 DEF AgreeToCancel
<1>5. ASSUME NEW n, transfers' = [transfers EXCEPT ![w].resolver = n],
             transfers[w].state = "disputed"
      PROVE  \A v \in Workflows : SameTerms(v)
  <2> DEFINE et == [transfers[w] EXCEPT !.resolver = n]
  <2>1. /\ et.state = "disputed" /\ et.from = transfers[w].from
        /\ et.afa = transfers[w].afa /\ et.fee = transfers[w].fee
      BY <1>1, <1>5 DEF Transfer
  <2>2. transfers' = [transfers EXCEPT ![w] = et]
      BY <1>5
  <2> HIDE DEF et
  <2> QED
      BY <1>1, <1>5, <2>1, <2>2, TermsKept
<1>6. CASE EscalateDispute(w, a)
    BY <1>5, <1>6 DEF EscalateDispute, Appealable, MoveUp, Plainly
<1>7. CASE Automate(w)
  <2>1. CASE UNCHANGED vars
      BY <2>1 DEF vars, worldVars, escrowVars, roundVars, Plainly, SameTerms, Exists
  <2>2. CASE SettlePending(w)
    <3>1. OutcomeOf(pendingSettlements[w].isRelease) # "none"
        BY DEF OutcomeOf
    <3>2. transfers[w].state = "disputed"
        BY <2>2 DEF SettlePending, PendingExecutable
    <3> QED
        BY <1>1, <1>2, <2>2, <3>1, <3>2 DEF SettlePending
  <2>3. CASE \E result \in {"released", "refunded"} :
                 /\ transfers[w].state = "pending"
                 /\ Finalize(w, transfers[w], result)
                 /\ SettledFromPending
      BY <1>1, <1>2, <2>3
  <2> QED
      BY <1>7, <2>1, <2>2, <2>3
      DEF Automate, AutomateTimedActions, AutoReleaseDue, AutoCancelDue
<1>8. CASE RotateDisputeResolver(w, r)
    BY <1>5, <1>8 DEF RotateDisputeResolver, Plainly, roundVars
<1> QED
    BY <1>3, <1>4, <1>6, <1>7, <1>8

\* What the dispatcher carries out for a live agent.
LEMMA PerformHasEffect ==
    ASSUME DisputeInv, NEW caller \in Addr, NEW e, CallType(e), NEW custom,
           e.action # "auto_cancel_disputed", Perform(caller, e, custom)
    PROVE  Effect(caller, e)
<1>1. TypeInv
    BY DEF DisputeInv
<1>2. CASE /\ e.action = "create_escrow"
           /\ CreateEscrow([ from |-> caller, to |-> e.to,
                             token |-> CHOOSE t \in Tokens : TRUE,
                             amount |-> e.amount, custom |-> custom ])
  <2> DEFINE o == [ from |-> caller, to |-> e.to, token |-> CHOOSE t \in Tokens : TRUE,
                    amount |-> e.amount, custom |-> custom ]
  <2>1. o.from = caller /\ o.amount = e.amount /\ o.amount \in Nat
      BY DEF CallType
  <2>2. CreateEscrow(o)
      BY <1>2
  <2> HIDE DEF o
  <2>3. /\ \E w \in Workflows : Creates(w, caller, e.amount)
        /\ UNCHANGED <<disputeTimestamps, previousDecisions>>
      BY <1>1, <2>1, <2>2, CreationCreates
  <2> QED
      BY <1>2, <2>3 DEF Effect
<1>3. CASE e.wf \in Workflows /\ PerformOn(e.wf, caller, e)
  <2>1. CASE e.action = "raise_dispute" /\ RaiseDispute(e.wf, caller)
      BY <1>3, <2>1, RaisingRaises DEF Effect
  <2>2. CASE e.action = "execute_resolution" /\ ExecuteResolution(e.wf, caller, e.isRelease)
      BY <1>3, <2>2, DecisionDecides DEF Effect
  <2>3. Plainly /\ e.action \notin {"create_escrow", "raise_dispute", "execute_resolution"}
            => Effect(caller, e)
      BY DEF Effect, Plainly
  <2> QED
      BY <1>3, <2>1, <2>2, <2>3, OtherCallsPlain DEF PerformOn
<1> QED
    BY <1>2, <1>3 DEF Perform

-----------------------------------------------------------------------------
(* Counting what the world shows. *)

\* A set gains one element.
LEMMA OneMore ==
    ASSUME NEW D, IsFiniteSet(D), NEW S \in SUBSET D, NEW R \in SUBSET D,
           NEW x \in D, x \notin S, x \in R, \A y \in D \ {x} : y \in R <=> y \in S
    PROVE  Cardinality(R) = Cardinality(S) + 1
<1>1. R = S \cup {x} /\ IsFiniteSet(S)
    BY FS_Subset
<1> QED
    BY <1>1, FS_AddElement

LEMMA RoundsFinite == IsFiniteSet(Workflows \X Levels)
<1>1. IsFiniteSet(Levels)
    BY 0 \in Int, 2 \in Int, FS_Interval DEF Levels, MaxDisputeLevel
<1> QED
    BY <1>1, WorkflowsFinite, FS_Product

\* What the world shows is numbers.
ShownType ==
    /\ NextId \in Nat
    /\ SumFunctionOnSet(Volumes, Existing) \in Nat
    /\ Cardinality(Raisings) \in Nat
    /\ Cardinality(Decisions) \in Nat
    /\ \A a : Cardinality(DecisionsOf(a)) \in Nat

LEMMA ShownTyped == TypeInv => ShownType
<1> SUFFICES ASSUME TypeInv
             PROVE  ShownType
    OBVIOUS
<1>1. /\ IsFiniteSet(Existing) /\ IsFiniteSet(Raisings) /\ IsFiniteSet(Decisions)
      /\ \A a : IsFiniteSet(DecisionsOf(a))
  <2>1. Existing \subseteq Workflows /\ Raisings \subseteq Workflows
        /\ Decisions \subseteq Workflows \X Levels
        /\ \A a : DecisionsOf(a) \subseteq Workflows \X Levels
      BY DEF Existing, Raisings, Decisions, DecisionsOf
  <2> QED
      BY <2>1, WorkflowsFinite, RoundsFinite, FS_Subset
<1>2. \A w \in Existing : Volumes[w] \in Nat
    BY DEF Existing, Volumes, TypeInv, EscrowType, Transfer
<1>3. SumFunctionOnSet(Volumes, Existing) \in Nat
    BY <1>1, <1>2, SumNat
<1>4. NextId = Cardinality(Existing)
    BY DEF NextId, Existing
<1> QED
    BY <1>1, <1>3, <1>4, FS_CardinalityType DEF ShownType

\* The creations.
LEMMA CreationShows ==
    ASSUME TypeInv, TypeInv', NEW w \in Workflows, NEW caller, NEW amount \in Nat,
           Creates(w, caller, amount)
    PROVE  /\ NextId' = NextId + 1
           /\ SumFunctionOnSet(Volumes, Existing)'
                  = SumFunctionOnSet(Volumes, Existing) + amount
<1>1. /\ Existing \in SUBSET Workflows /\ Existing' \in SUBSET Workflows
      /\ w \notin Existing /\ w \in Existing'
      /\ \A v \in Workflows \ {w} : v \in Existing' <=> v \in Existing
    BY DEF Existing, Creates, SameTerms
<1>2. \A v \in Workflows : Volumes[v] \in Nat /\ Volumes'[v] \in Nat
    BY DEF Volumes, TypeInv, EscrowType, Transfer
<1>3. Volumes'[w] = amount /\ \A v \in Workflows \ {w} : Volumes'[v] = Volumes[v]
    BY DEF Creates, SameTerms, Volumes
<1>4. NextId = Cardinality(Existing) /\ NextId' = Cardinality(Existing')
    BY DEF NextId, Existing
<1>5. Cardinality(Existing') = Cardinality(Existing) + 1
    BY <1>1, WorkflowsFinite, OneMore
<1>6. SumFunctionOnSet(Volumes', Existing') - (IF w \in Existing' THEN Volumes'[w] ELSE 0)
          = SumFunctionOnSet(Volumes, Existing) - (IF w \in Existing THEN Volumes[w] ELSE 0)
  <2>1. /\ \A y \in Existing : Volumes[y] \in Int
        /\ \A y \in Existing' : Volumes'[y] \in Int
        /\ \A y \in Workflows \ {w} : /\ y \in Existing' <=> y \in Existing
                                      /\ y \in Existing => Volumes'[y] = Volumes[y]
      BY <1>1, <1>2, <1>3
  <2> QED
      BY <1>1, <2>1, WorkflowsFinite, SumChange
<1>7. /\ SumFunctionOnSet(Volumes, Existing) \in Nat
      /\ SumFunctionOnSet(Volumes', Existing') \in Nat
  <2>1. ShownType /\ ShownType'
      BY ShownTyped, PTL
  <2> QED
      BY <2>1 DEF ShownType
<1> QED
    BY <1>1, <1>3, <1>4, <1>5, <1>6, <1>7

LEMMA SameShown ==
    ASSUME TypeInv, TypeInv', \A w \in Workflows : SameTerms(w)
    PROVE  /\ NextId' = NextId
           /\ SumFunctionOnSet(Volumes, Existing)' = SumFunctionOnSet(Volumes, Existing)
<1>1. Existing' = Existing
    BY DEF Existing, SameTerms
<1>2. Volumes' = Volumes
    BY DEF Volumes, SameTerms
<1> QED
    BY <1>1, <1>2 DEF NextId, Existing

\* The disputes.
LEMMA RaisingShows ==
    ASSUME NEW w \in Workflows, RaisesOn(w)
    PROVE  Cardinality(Raisings)' = Cardinality(Raisings) + 1
<1>1. /\ Raisings \in SUBSET Workflows /\ Raisings' \in SUBSET Workflows
      /\ w \notin Raisings /\ w \in Raisings'
      /\ \A v \in Workflows \ {w} : v \in Raisings' <=> v \in Raisings
    BY DEF Raisings, RaisesOn
<1>2. Cardinality(Raisings') = Cardinality(Raisings) + 1
    BY <1>1, WorkflowsFinite, OneMore
<1> QED
    BY <1>2

\* The decisions, and those of one address.
LEMMA DecisionShows ==
    ASSUME NEW w \in Workflows, NEW l \in Levels, NEW caller, DecidesOn(w, l, caller), NEW a
    PROVE  /\ Cardinality(Decisions)' = Cardinality(Decisions) + 1
           /\ caller = a => Cardinality(DecisionsOf(a))' = Cardinality(DecisionsOf(a)) + 1
           /\ caller # a => Cardinality(DecisionsOf(a))' = Cardinality(DecisionsOf(a))
<1> DEFINE d == <<w, l>>
<1>1. d \in Workflows \X Levels /\ d[1] = w /\ d[2] = l
    OBVIOUS
<1>2. /\ previousDecisions[w][l] = NoDecision
      /\ previousDecisions'[w][l] # NoDecision
      /\ previousDecisions'[w][l].resolver = caller
      /\ \A c \in (Workflows \X Levels) \ {d} :
             previousDecisions'[c[1]][c[2]] = previousDecisions[c[1]][c[2]]
    BY DEF DecidesOn, Decided
<1> HIDE DEF d
<1>3. /\ Decisions \in SUBSET (Workflows \X Levels)
      /\ Decisions' \in SUBSET (Workflows \X Levels)
      /\ d \notin Decisions /\ d \in Decisions'
      /\ \A c \in (Workflows \X Levels) \ {d} : c \in Decisions' <=> c \in Decisions
    BY <1>1, <1>2 DEF Decisions
<1>4. Cardinality(Decisions') = Cardinality(Decisions) + 1
    BY <1>1, <1>3, RoundsFinite, OneMore
<1> DEFINE made == DecisionsOf(a)
           now  == {c \in Decisions' : previousDecisions'[c[1]][c[2]].resolver = a}
<1>5. /\ made \in SUBSET (Workflows \X Levels)
      /\ now \in SUBSET (Workflows \X Levels)
      /\ d \notin made
      /\ d \in now <=> caller = a
      /\ \A c \in (Workflows \X Levels) \ {d} : c \in now <=> c \in made
    BY <1>1, <1>2, <1>3 DEF DecisionsOf
<1>6. DecisionsOf(a)' = now
    BY DEF DecisionsOf
<1> HIDE DEF made, now
<1>7. caller = a => Cardinality(now) = Cardinality(made) + 1
    BY <1>1, <1>5, RoundsFinite, OneMore
<1>8. caller # a => now = made
    BY <1>5
<1> QED
    BY <1>4, <1>6, <1>7, <1>8 DEF made

\* An event adds to what the world shows what the driver counts of it.
LEMMA EffectShows ==
    ASSUME TypeInv, TypeInv', NEW caller, NEW e, e.amount \in Nat, Effect(caller, e)
    PROVE  /\ NextId' = NextId + One(e.action = "create_escrow")
           /\ SumFunctionOnSet(Volumes, Existing)'
                  = SumFunctionOnSet(Volumes, Existing)
                        + (IF e.action = "create_escrow" THEN e.amount ELSE 0)
           /\ Cardinality(Raisings)' = Cardinality(Raisings) + One(e.action = "raise_dispute")
           /\ Cardinality(Decisions)'
                  = Cardinality(Decisions) + One(e.action = "execute_resolution")
<1>1. ShownType
    BY ShownTyped
<1>2. CASE e.action = "create_escrow"
  <2>1. PICK w \in Workflows : Creates(w, caller, e.amount)
      BY <1>2 DEF Effect
  <2>2. Raisings' = Raisings /\ Decisions' = Decisions
      BY <1>2 DEF Effect, Raisings, Decisions
  <2> QED
      BY <1>1, <1>2, <2>1, <2>2, CreationShows DEF One, ShownType
<1>3. CASE e.action # "create_escrow"
  <2>1. /\ NextId' = NextId
        /\ SumFunctionOnSet(Volumes, Existing)' = SumFunctionOnSet(Volumes, Existing)
      BY <1>3, SameShown DEF Effect
  <2>2. Cardinality(Raisings)' = Cardinality(Raisings) + One(e.action = "raise_dispute")
    <3>1. CASE e.action = "raise_dispute"
        BY <3>1, RaisingShows DEF Effect, One
    <3>2. CASE e.action # "raise_dispute"
      <4>1. Raisings' = Raisings
          BY <3>2 DEF Effect, Raisings
      <4> QED
          BY <1>1, <3>2, <4>1 DEF ShownType, One
    <3> QED
        BY <3>1, <3>2
  <2>3. Cardinality(Decisions)'
            = Cardinality(Decisions) + One(e.action = "execute_resolution")
    <3>1. CASE e.action = "execute_resolution"
        BY <3>1, DecisionShows DEF Effect, One
    <3>2. CASE e.action # "execute_resolution"
      <4>1. Decisions' = Decisions
          BY <3>2 DEF Effect, Decisions
      <4> QED
          BY <1>1, <3>2, <4>1 DEF ShownType, One
    <3> QED
        BY <3>1, <3>2
  <2> QED
      BY <1>1, <1>3, <2>1, <2>2, <2>3 DEF One, ShownType
<1> QED
    BY <1>2, <1>3

-----------------------------------------------------------------------------
(* The driver's counters. *)

\* No live agent sends the keeper's timeout call, which would clear the record that
\* a dispute was raised.
LEMMA NoTimeoutCalls ==
    ASSUME NEW ag \in Agent, NEW m \in Memory, NEW v, NEW seqno \in Nat
    PROVE  Decide(ag, m, v, seqno).call.action # "auto_cancel_disputed"
<1> DEFINE Fine(choice) == choice.call.action # "auto_cancel_disputed"
<1>1. /\ Fine(Skip(m))
      /\ Fine(HonestBuyer(ag, m)) /\ Fine(GriefingBuyer(ag, m))
      /\ Fine(AttackingBuyer(ag, m)) /\ Fine(EscalatingBuyer(ag, m))
      /\ Fine(CancelThenDispute(ag, m)) /\ Fine(DisputeThenCancel(ag, m))
      /\ Fine(DisputeFlood(ag, m))
    BY DEF HonestBuyer, GriefingBuyer, AttackingBuyer, EscalatingBuyer, CancelThenDispute,
           DisputeThenCancel, TwoCallBuyer, DisputeFlood, Choice, Skip, Create, On, NoCall
<1>2. /\ Fine(HonestResolver(m, v)) /\ Fine(ThrottledResolver(ag, m, v, seqno))
      /\ Fine(MaliciousResolver(ag, m, v)) /\ Fine(ColludingResolver(ag, m, v))
      /\ Fine(CapacityLimited(ag, m, v))
    BY DEF HonestResolver, ThrottledResolver, MaliciousResolver, ColludingResolver,
           CapacityLimited, Choice, Skip, Resolve, On, NoCall
<1>3. /\ Fine(TimedAutomator(m, v)) /\ Fine(AppealWindowRacer(m, v))
      /\ Fine(EscalationLoop(m, v, seqno)) /\ Fine(AutomateTimedActionsAgent(m, v))
      /\ Fine(ForkingStrategist(m, v)) /\ Fine(ProfitThreshold(ag, m, v))
    BY DEF TimedAutomator, AppealWindowRacer, EscalationLoop, AutomateTimedActionsAgent,
           ForkingStrategist, ProfitThreshold, Choice, Skip, On, NoCall
<1>4. Fine(GovernanceRotation(ag, m, v, seqno))
    BY DEF GovernanceRotation, Choice, Skip, On, NoCall
<1> HIDE DEF Fine
<1>5. Fine(Decide(ag, m, v, seqno))
    BY <1>1, <1>2, <1>3, <1>4 DEF Decide
<1> QED
    BY <1>5 DEF Fine

\* The world keeps the dispute invariant of the contract, whoever calls.
LEMMA PerformDispute ==
    ASSUME DisputeInv, TypeInv', NEW caller \in Addr, NEW e, CallType(e), NEW custom,
           Perform(caller, e, custom)
    PROVE  DisputeInv'
<1>1. CASE \E o : CreateEscrow(o)
    BY <1>1, CreateEscrowDispute
<1>2. ASSUME NEW w \in Workflows, PerformOn(w, caller, e)
      PROVE  DisputeInv'
  <2>1. e.isRelease \in BOOLEAN /\ e.to \in OptAddr
      BY DEF CallType
  <2>2. CASE Automate(w)
    <3>1. CASE AutomateTimedActions(w)
        BY <3>1, AutomateTimedActionsDispute
    <3>2. CASE UNCHANGED vars
        BY <3>2, NextDispute
    <3> QED
        BY <2>2, <3>1, <3>2 DEF Automate
  <2> QED
      BY <1>2, <2>1, <2>2, ReleaseDispute, RaiseDisputeDispute, CancelDispute,
         ExecuteResolutionDispute, AppealDispute, AutoCancelDisputedDispute, RotateDispute
      DEF PerformOn
<1> QED
    BY <1>1, <1>2 DEF Perform

LEMMA AdvanceDispute ==
    ASSUME DisputeInv, NEW t \in Nat, t >= time, AdvanceTo(t)
    PROVE  DisputeInv'
<1>1. TypeInv'
    BY AdvanceTyped DEF DisputeInv
<1>2. UNCHANGED disputeVars /\ ctx' = ctx /\ time' >= time
    BY DEF AdvanceTo, disputeVars, escrowVars, roundVars, bondVars
<1> QED
    BY <1>1, <1>2, NoEscrow

\* What the driver needs to know of the world, besides its types.
ServerInv ==
    /\ LiveInv
    /\ DisputeInv
    /\ call.action # "auto_cancel_disputed"

LEMMA CallerTyped ==
    ASSUME LiveInv, pc = "sent"
    PROVE  /\ Caller \in Addr
           /\ turn \in 1 .. Len(plan.agents)
           /\ plan.agents[turn] \in Agent
           /\ memory[turn] \in Memory
<1>1. turn \in 1 .. Len(plan.agents) /\ plan \in Plan
      /\ memory \in [1 .. Len(plan.agents) -> Memory]
    BY DEF LiveInv, RunTypeInv, RunTypeOK, Plan
<1>2. plan.agents[turn] \in Agent
    BY <1>1 DEF Plan
<1> QED
    BY <1>1, <1>2 DEF Caller, Agent

\* What the call in flight does when it is carried out.
LEMMA PerformedEffect ==
    ASSUME ServerInv, pc = "sent", PerformCall
    PROVE  Effect(Caller, call)
<1>1. Caller \in Addr /\ CallType(call)
    BY CallerTyped DEF ServerInv, LiveInv
<1> QED
    BY <1>1, PerformHasEffect DEF ServerInv, PerformCall

\* An answer leaves no call in flight.
LEMMA AnswerEndsCall == \A r : Receive(r) => call' = NoCall /\ pc = "sent"
BY DEF Receive

LEMMA ServerStep == ServerInv /\ [LiveNext]_liveVars => ServerInv'
<1> SUFFICES ASSUME ServerInv, [LiveNext]_liveVars
             PROVE  ServerInv'
    OBVIOUS
<1>1. LiveInv' /\ TypeInv'
    BY LiveStep DEF ServerInv, LiveInv
<1>2. ASSUME PerformCall, pc = "sent", call' \in {call, NoCall}
      PROVE  ServerInv'
  <2>1. Caller \in Addr /\ CallType(call)
      BY <1>2, CallerTyped DEF ServerInv, LiveInv
  <2>2. DisputeInv'
      BY <1>1, <1>2, <2>1, PerformDispute DEF ServerInv, PerformCall
  <2> QED
      BY <1>1, <1>2, <2>2 DEF ServerInv, NoCall
<1>3. ASSUME UNCHANGED vars, call' \in {call, NoCall}
      PROVE  ServerInv'
  <2>1. DisputeInv'
      BY <1>3, NextDispute DEF ServerInv
  <2> QED
      BY <1>1, <1>3, <2>1 DEF ServerInv, NoCall
<1>4. CASE Deliver
  <2> DEFINE t == IF hosted THEN Greatest(time, blockTime) ELSE time
  <2>1. t \in Nat /\ t >= time
      BY <1>1 DEF ServerInv, LiveInv, TypeInv, ClockType, Greatest
  <2>2. AdvanceTo(t)
      BY <1>4 DEF Deliver
  <2> HIDE DEF t
  <2>3. DisputeInv'
      BY <2>1, <2>2, AdvanceDispute DEF ServerInv
  <2>4. call'.action # "auto_cancel_disputed"
    <3>1. turn \in 1 .. Len(plan.agents) /\ plan \in Plan /\ seq \in Nat
          /\ memory \in [1 .. Len(plan.agents) -> Memory]
        BY <1>4 DEF Deliver, Send, RoundOver, ServerInv, LiveInv, RunTypeInv, RunTypeOK, Plan
    <3>2. plan.agents[turn] \in Agent /\ memory[turn] \in Memory
        BY <3>1 DEF Plan
    <3>3. call' = Chosen(turn).call
        BY <1>4 DEF Deliver, Send
    <3> QED
        BY <3>1, <3>2, <3>3, NoTimeoutCalls DEF Chosen
  <2> QED
      BY <1>1, <2>3, <2>4 DEF ServerInv
<1>5. CASE Open \/ Local \/ Close \/ StartLost \/ CloseLost \/ Restart
  <2>1. UNCHANGED vars /\ call' = call
      BY <1>5 DEF Open, Local, Quietly, World, Close, StartLost, CloseLost, Restart, Started,
                  NextTick, Complete, Decline, Closed, StartFailed, CloseFailed, runVars
  <2> QED
      BY <1>3, <2>1
<1>6. CASE Reject \/ Violate \/ Unknown
  <2>1. UNCHANGED vars /\ call' = NoCall
      BY <1>6, AnswerEndsCall DEF Reject, Violate, Unknown, Quietly, World
  <2> QED
      BY <1>3, <2>1
<1>7. CASE Accept
  <2>1. PerformCall /\ pc = "sent" /\ call' = NoCall
      BY <1>7, AnswerEndsCall DEF Accept
  <2> QED
      BY <1>2, <2>1
<1>8. CASE StepLost
  <2>1. pc = "sent" /\ call' = call
      BY <1>8 DEF StepLost, StepFailed
  <2>2. World \/ PerformCall
      BY <1>8 DEF StepLost
  <2> QED
      BY <1>2, <1>3, <2>1, <2>2 DEF World
<1>9. CASE UNCHANGED liveVars
  <2>1. UNCHANGED vars /\ call' = call
      BY <1>9 DEF liveVars, runVars
  <2> QED
      BY <1>3, <2>1
<1> QED
    BY <1>4, <1>5, <1>6, <1>7, <1>8, <1>9 DEF LiveNext, Step

LEMMA ServerInitially == LiveInit => ServerInv
<1> SUFFICES ASSUME LiveInit
             PROVE  ServerInv
    OBVIOUS
<1>1. Init /\ call = NoCall
    BY DEF LiveInit, Init, RunInit
<1> QED
    BY <1>1, LiveInitTyped, InitDispute DEF ServerInv, NoCall

\* After a call whose answer is lost there are no more calls.
LostForGood == fault = "step" => pc \in {"closing", "done"}

CountInv == CountersMatchWorld /\ LostForGood

\* What is counted and known of the world is unchanged.
Unseen == UNCHANGED <<transfers, disputeTimestamps, previousDecisions>>

LEMMA QuietIsUnseen == UNCHANGED vars => Unseen
BY DEF vars, worldVars, escrowVars, roundVars, Unseen

LEMMA UnseenShown == Unseen => Shown' = Shown
BY DEF Unseen, Shown, NextId, Exists, Volumes, Existing, Raisings, Decisions

LEMMA CountStep == ServerInv /\ ServerInv' /\ CountInv /\ [LiveNext]_liveVars => CountInv'
<1> SUFFICES ASSUME ServerInv, ServerInv', CountInv, [LiveNext]_liveVars
             PROVE  CountInv'
    OBVIOUS
<1>1. ASSUME UNCHANGED metrics, Unseen, fault' = fault \/ fault = "none"
      PROVE  CountersMatchWorld'
  <2>1. Counted' = Counted /\ Shown' = Shown
      BY <1>1, UnseenShown DEF Counted
  <2> QED
      BY <1>1, <2>1 DEF CountInv, CountersMatchWorld
<1>2. ASSUME NEW r, Receive(r), r.result # "ok", UNCHANGED <<vars, fault>>
      PROVE  CountInv'
  <2>1. pc = "sent" /\ fault # "step"
      BY <1>2 DEF Receive, CountInv, LostForGood
  <2>2. metrics' = Accumulate(metrics, call, r, plan.agents[turn].kind)
      BY <1>2 DEF Receive
  <2>3. Counted = Shown /\ Shown' = Shown
      BY <1>2, <2>1, QuietIsUnseen, UnseenShown DEF CountInv, CountersMatchWorld
  <2>4. ShownType
      BY ShownTyped DEF ServerInv, LiveInv
  <2>5. /\ metrics.escrows \in Nat /\ metrics.volume \in Nat
        /\ metrics.disputes \in Nat /\ metrics.resolutions \in Nat
      BY <2>3, <2>4 DEF Counted, Shown, ShownType
  <2>6. /\ metrics'.escrows = metrics.escrows /\ metrics'.volume = metrics.volume
        /\ metrics'.disputes = metrics.disputes
        /\ metrics'.resolutions = metrics.resolutions
      BY <1>2, <2>2, <2>5 DEF Accumulate, One
  <2> QED
      BY <1>2, <2>1, <2>3, <2>6 DEF Counted, CountInv, CountersMatchWorld, LostForGood
<1>11. ASSUME pc = "sent", PerformCall
       PROVE  /\ Shown'.escrows = Shown.escrows + One(call.action = "create_escrow")
              /\ Shown'.volume = Shown.volume
                     + (IF call.action = "create_escrow" THEN call.amount ELSE 0)
              /\ Shown'.disputes = Shown.disputes + One(call.action = "raise_dispute")
              /\ Shown'.resolutions
                     = Shown.resolutions + One(call.action = "execute_resolution")
  <2>1. Effect(Caller, call) /\ TypeInv /\ TypeInv' /\ call.amount \in Nat
      BY <1>11, PerformedEffect DEF ServerInv, LiveInv, CallType
  <2> QED
      BY <2>1, EffectShows DEF Shown
<1>3. CASE Open \/ Local \/ Close \/ StartLost \/ CloseLost \/ Restart
  <2>1. /\ UNCHANGED <<vars, metrics>> /\ (fault' # "step" \/ fault' = fault)
        /\ (fault' = fault \/ fault = "none")
        /\ (pc \in {"closing", "done"} => pc' \in {"closing", "done"})
      BY <1>3 DEF Open, Local, Quietly, World, Close, StartLost, CloseLost, Restart, Started,
                  NextTick, Complete, Decline, Closed, StartFailed, CloseFailed, runVars,
                  Happens
  <2> QED
      BY <1>1, <2>1, QuietIsUnseen DEF CountInv, LostForGood
<1>4. CASE Deliver
  <2>1. Unseen /\ UNCHANGED <<metrics, fault>> /\ pc = "deciding"
      BY <1>4 DEF Deliver, Send, AdvanceTo, escrowVars, roundVars, Unseen
  <2> QED
      BY <1>1, <2>1 DEF CountInv, LostForGood
<1>5. CASE Reject
    BY <1>2, <1>5 DEF Reject, Quietly, World, Answer
<1>6. CASE Violate
    BY <1>2, <1>6 DEF Violate, Quietly, World, Answer
<1>7. CASE Unknown
    BY <1>2, <1>7 DEF Unknown, Quietly, World, NoAnswer
<1>8. CASE Accept
  <2> DEFINE r == Answer("ok", NextId, Snapshot')
  <2>1. pc = "sent" /\ PerformCall /\ Receive(r) /\ fault' = fault
      BY <1>8 DEF Accept
  <2>2. r.result = "ok"
      BY DEF Answer
  <2> HIDE DEF r
  <2>3. fault # "step" /\ Counted = Shown
      BY <2>1 DEF CountInv, CountersMatchWorld, LostForGood
  <2>4. metrics' = Accumulate(metrics, call, r, plan.agents[turn].kind)
      BY <2>1 DEF Receive
  <2>5. Counted' =
            [ escrows |-> Counted.escrows + One(call.action = "create_escrow"),
              volume |-> Counted.volume
                             + (IF call.action = "create_escrow" THEN call.amount ELSE 0),
              disputes |-> Counted.disputes + One(call.action = "raise_dispute"),
              resolutions |-> Counted.resolutions + One(call.action = "execute_resolution") ]
      BY <2>2, <2>4 DEF Counted, Accumulate
  <2>6. Counted' = Shown'
      BY <1>11, <2>1, <2>3, <2>5 DEF Shown
  <2> QED
      BY <2>1, <2>3, <2>6 DEF CountInv, CountersMatchWorld, LostForGood
<1>9. CASE StepLost
  <2>1. /\ pc = "sent" /\ fault = "none" /\ fault' = "step" /\ pc' = "closing"
        /\ Counted' = Counted
      BY <1>9 DEF StepLost, Happens, StepFailed, Counted
  <2>2. Counted = Shown
      BY <2>1 DEF CountInv, CountersMatchWorld
  <2>3. CASE UNCHANGED vars
      BY <1>1, <1>9, <2>1, <2>3, QuietIsUnseen DEF StepLost, StepFailed, CountInv, LostForGood
  <2>4. CASE PerformCall
    <3> DEFINE off == {f \in DOMAIN Counted \ {"volume"} : Shown'[f] = Counted[f] + 1}
    <3>1. DOMAIN Counted = {"escrows", "volume", "disputes", "resolutions"}
        BY DEF Counted
    <3>2. /\ Shown'.escrows = Counted.escrows + One(call.action = "create_escrow")
          /\ Shown'.disputes = Counted.disputes + One(call.action = "raise_dispute")
          /\ Shown'.resolutions
                 = Counted.resolutions + One(call.action = "execute_resolution")
          /\ Shown'.volume = Counted.volume
                 + (IF call.action = "create_escrow" THEN call.amount ELSE 0)
        BY <1>11, <2>1, <2>2, <2>4 DEF Shown
    <3>3. /\ Counted.escrows \in Nat /\ Counted.disputes \in Nat
          /\ Counted.resolutions \in Nat /\ Counted.volume \in Nat
      <4>1. ShownType
          BY ShownTyped DEF ServerInv, LiveInv
      <4> QED
          BY <2>2, <4>1 DEF Shown, ShownType
    <3>4. off = {f \in {"escrows", "disputes", "resolutions"} : Shown'[f] = Counted[f] + 1}
        BY <3>1
    <3> HIDE DEF off
    <3>5. /\ call.action = "create_escrow" => off = {"escrows"}
          /\ call.action = "raise_dispute" => off = {"disputes"}
          /\ call.action = "execute_resolution" => off = {"resolutions"}
        BY <3>2, <3>3, <3>4 DEF One
    <3>6. call.action \notin {"create_escrow", "raise_dispute", "execute_resolution"}
              => Counted = Shown'
        BY <3>2, <3>3 DEF One, Counted, Shown
    <3>7. Cardinality(off) = 1 \/ Counted = Shown'
        BY <3>5, <3>6, FS_Singleton
    <3>8. off = {f \in DOMAIN Counted' \ {"volume"} : Shown'[f] = Counted'[f] + 1}
        BY <2>1 DEF off
    <3>9. CountersMatchWorld'
        BY <2>1, <3>7, <3>8 DEF CountersMatchWorld
    <3> QED
        BY <2>1, <3>9 DEF CountInv, LostForGood
  <2> QED
      BY <1>9, <2>3, <2>4 DEF StepLost, World
<1>10. CASE UNCHANGED liveVars
    BY <1>1, <1>10, QuietIsUnseen DEF liveVars, runVars, CountInv, LostForGood
<1> QED
    BY <1>3, <1>4, <1>5, <1>6, <1>7, <1>8, <1>9, <1>10 DEF LiveNext, Step

LEMMA CountedInitially == LiveInit => CountInv
<1> SUFFICES ASSUME LiveInit
             PROVE  CountInv
    OBVIOUS
<1>1. Existing = {} /\ Raisings = {} /\ Decisions = {}
    BY DEF LiveInit, WorldInit, Existing, Exists, NoTransfer, Raisings, Decisions
<1>2. NextId = Cardinality(Existing)
    BY DEF NextId, Existing
<1>3. Counted = Shown
    BY <1>1, <1>2, FS_EmptySet, SumEmpty
    DEF LiveInit, RunInit, ZeroMetrics, Counted, Shown
<1> QED
    BY <1>3 DEF LiveInit, CountInv, CountersMatchWorld, LostForGood

\* The runner's counters, kept from the answers alone, are what the world of the server
\* shows, for any agents, parameters and limits and whatever fails; a lost answer
\* parts them by its own call at most (live_runner.py, _accum_metrics).
THEOREM CountersAlwaysMatch == LiveSpec => []CountersMatchWorld
<1>1. CountInv => CountersMatchWorld
    BY DEF CountInv
<1> QED
    BY <1>1, ServerInitially, CountedInitially, ServerStep, CountStep, PTL DEF LiveSpec

-----------------------------------------------------------------------------
(* What the agents know. *)

\* Deciding changes nothing an agent knows to be its own, and a kind that counts its
\* decisions keeps the count, notes the escrow it calls for and stops at its bound.
LEMMA DecideKeepsOwn ==
    ASSUME NEW ag \in Agent, NEW m \in Memory, NEW v, NEW seqno \in Nat
    PROVE  /\ Decide(ag, m, v, seqno).memory.own = m.own
           /\ Decide(ag, m, v, seqno).memory.slots = m.slots
<1> DEFINE Kept(choice) == choice.memory.own = m.own /\ choice.memory.slots = m.slots
<1>1. ASSUME NEW marked, NEW count, NEW since, NEW pending
      PROVE  /\ [m EXCEPT !.marked = marked].own = m.own
             /\ [m EXCEPT !.marked = marked].slots = m.slots
             /\ [m EXCEPT !.count = count].own = m.own
             /\ [m EXCEPT !.count = count].slots = m.slots
             /\ [m EXCEPT !.since = since].own = m.own
             /\ [m EXCEPT !.since = since].slots = m.slots
             /\ [m EXCEPT !.pending = pending].own = m.own
             /\ [m EXCEPT !.pending = pending].slots = m.slots
    BY DEF Memory
<1>2. /\ Kept(Skip(m))
      /\ Kept(HonestBuyer(ag, m)) /\ Kept(GriefingBuyer(ag, m))
      /\ Kept(AttackingBuyer(ag, m)) /\ Kept(EscalatingBuyer(ag, m))
      /\ Kept(CancelThenDispute(ag, m)) /\ Kept(DisputeThenCancel(ag, m))
      /\ Kept(DisputeFlood(ag, m))
    BY DEF HonestBuyer, GriefingBuyer, AttackingBuyer, EscalatingBuyer, CancelThenDispute,
           DisputeThenCancel, TwoCallBuyer, DisputeFlood, Choice, Skip, Memory
<1>3. /\ Kept(HonestResolver(m, v))
      /\ Kept(MaliciousResolver(ag, m, v)) /\ Kept(ColludingResolver(ag, m, v))
      /\ Kept(CapacityLimited(ag, m, v))
    BY DEF HonestResolver, MaliciousResolver, ColludingResolver, CapacityLimited, Choice,
           Skip, Memory
<1>4. Kept(ThrottledResolver(ag, m, v, seqno))
    BY DEF ThrottledResolver, Choice, Skip, Memory
<1>5. /\ Kept(TimedAutomator(m, v)) /\ Kept(AppealWindowRacer(m, v))
      /\ Kept(EscalationLoop(m, v, seqno)) /\ Kept(AutomateTimedActionsAgent(m, v))
      /\ Kept(ForkingStrategist(m, v)) /\ Kept(ProfitThreshold(ag, m, v))
    BY DEF TimedAutomator, AppealWindowRacer, EscalationLoop, AutomateTimedActionsAgent,
           ForkingStrategist, ProfitThreshold, Choice, Skip, Memory
<1>6. Kept(GovernanceRotation(ag, m, v, seqno))
    BY DEF GovernanceRotation, Choice, Skip, Memory
<1> HIDE DEF Kept
<1>7. Kept(Decide(ag, m, v, seqno))
    BY <1>2, <1>3, <1>4, <1>5, <1>6 DEF Decide
<1> QED
    BY <1>7 DEF Kept

LEMMA DecideKeepsCount ==
    ASSUME NEW ag \in Agent, NEW m \in Memory, NEW v, NEW seqno,
           ag.kind \in DecisionCounters
    PROVE  LET choice == Decide(ag, m, v, seqno)
           IN  /\ choice.memory.count = m.count
               /\ choice.call # NoCall => choice.memory.pending # NoWf
               /\ choice.call # NoCall /\ ag.kind = "CapacityLimited" => m.count < ag.bound
<1> DEFINE open == Disputed(v) \ m.marked
           next == [m EXCEPT !.pending = First(open)]
<1>1. next.count = m.count /\ next.pending = First(open)
    BY DEF Memory
<1>2. open # {} => First(open) # NoWf
  <2>1. open \subseteq Workflows
      BY InStatesTyped
  <2>2. NoWf \notin Workflows
      BY WorkflowsAssumption DEF Workflows, NoWf
  <2> HIDE DEF open
  <2> QED
      BY <2>1, <2>2, FirstIsMember
<1>3. m.count \in Nat /\ ag.bound \in Nat
    BY DEF Memory, Agent
<1>4. CASE ag.kind = "ColludingResolver"
  <2>1. Decide(ag, m, v, seqno) = ColludingResolver(ag, m, v)
      BY <1>4 DEF Decide
  <2>2. ColludingResolver(ag, m, v) =
            IF open = {} THEN Skip(m) ELSE Choice(Resolve(First(open), ag.favour), next)
      BY DEF ColludingResolver
  <2> HIDE DEF open, next
  <2> QED
      BY <1>1, <1>2, <1>4, <2>1, <2>2 DEF Choice, Skip
<1>5. CASE ag.kind = "CapacityLimited"
  <2>1. Decide(ag, m, v, seqno) = CapacityLimited(ag, m, v)
      BY <1>5 DEF Decide
  <2>2. CapacityLimited(ag, m, v) =
            IF m.count >= ag.bound \/ open = {} THEN Skip(m)
            ELSE Choice(Resolve(First(open), FALSE), next)
      BY DEF CapacityLimited
  <2> HIDE DEF open, next
  <2> DEFINE room == m.count < ag.bound
  <2>3. m.count >= ag.bound <=> ~room
      BY <1>3
  <2> HIDE DEF room
  <2> DEFINE choice == Decide(ag, m, v, seqno)
  <2>4. CASE ~room \/ open = {}
    <3>1. choice = Skip(m)
        BY <2>1, <2>2, <2>3, <2>4
    <3>2. choice.memory = m /\ choice.call = NoCall
        BY <3>1 DEF Choice, Skip
    <3> QED
        BY <3>2
  <2>5. CASE room /\ open # {}
    <3>1. choice = Choice(Resolve(First(open), FALSE), next)
        BY <2>1, <2>2, <2>3, <2>5
    <3>2. choice.memory = next
        BY <3>1 DEF Choice
    <3> HIDE DEF choice
    <3>3. choice.memory.count = m.count /\ choice.memory.pending # NoWf
        BY <1>1, <1>2, <2>5, <3>2
    <3> QED
        BY <2>5, <3>3 DEF room, choice
  <2> QED
      BY <2>4, <2>5
<1> QED
    BY <1>4, <1>5 DEF DecisionCounters

\* An escrow becomes an agent's own only as the id of a creation that was accepted.
LEMMA LearnedOwn ==
    ASSUME NEW ag \in Agent, NEW m \in Memory, NEW r, NEW w,
           \/ w = Learn(ag, m, r).own
           \/ w \in Learn(ag, m, r).slots
    PROVE  w = m.own \/ w \in m.slots \/ (Accepted(r, "create_escrow") /\ w = r.wf)
<1> DEFINE Fine(l) ==
        w = l.own \/ w \in l.slots =>
            w = m.own \/ w \in m.slots \/ (Accepted(r, "create_escrow") /\ w = r.wf)
<1>1. Fine(m)
    OBVIOUS
<1>2. Fine(Adopt(m, r)) /\ Fine([Adopt(m, r) EXCEPT !.step = 1])
    BY DEF Adopt, Memory
<1>3. \A n : Fine([m EXCEPT !.step = n]) /\ Fine([m EXCEPT !.count = n])
    BY DEF Memory
<1>4. \A S : Fine([m EXCEPT !.marked = S])
    BY DEF Memory
<1>5. \A action : Fine(Settle(m, r, action))
                  /\ Fine([Settle(m, r, action) EXCEPT !.count = m.count])
    BY DEF Settle, Memory
<1>6. Accepted(r, "create_escrow") => Fine([m EXCEPT !.slots = @ \cup {r.wf}])
    BY DEF Memory
<1> HIDE DEF Fine
<1>7. /\ Fine(LearnHonestBuyer(m, r)) /\ Fine(LearnGriefingBuyer(m, r))
      /\ Fine(LearnAttackingBuyer(m, r)) /\ Fine(LearnEscalatingBuyer(m, r))
      /\ Fine(LearnCancelThenDispute(m, r)) /\ Fine(LearnDisputeThenCancel(m, r))
    BY <1>1, <1>2, <1>3 DEF LearnHonestBuyer, LearnGriefingBuyer, LearnAttackingBuyer,
       LearnEscalatingBuyer, LearnCancelThenDispute, LearnDisputeThenCancel, LearnTwoCallBuyer
<1>8. /\ Fine(LearnHonestResolver(m, r)) /\ Fine(LearnThrottledResolver(m, r))
      /\ Fine(LearnForkingStrategist(m, r)) /\ Fine(LearnDisputeFlood(m, r))
    BY <1>1, <1>4, <1>6 DEF LearnHonestResolver, LearnThrottledResolver,
                            LearnForkingStrategist, LearnDisputeFlood
<1>9. Fine(Learn(ag, m, r))
    BY <1>1, <1>5, <1>7, <1>8 DEF Learn, LearnGovernanceRotation, LearnMaliciousResolver,
                              LearnColludingResolver, LearnCapacityLimited
<1> QED
    BY <1>9 DEF Fine

LEMMA LearnedCount ==
    ASSUME NEW ag \in Agent, NEW m \in Memory, NEW r, ag.kind \in DecisionCounters
    PROVE  Learn(ag, m, r).count
               = m.count + One(Accepted(r, "execute_resolution") /\ m.pending # NoWf)
<1>1. Learn(ag, m, r) = Settle(m, r, "execute_resolution")
    BY DEF Learn, DecisionCounters, LearnColludingResolver, LearnCapacityLimited
<1> QED
    BY <1>1 DEF Settle, One, Memory

\* An escrow an agent takes for its own exists, and is of its making; a kind that
\* counts its decisions has as many as the world, one less than its bound at most
\* while a further one is in flight.
Owns(i) ==
    \A w \in Workflows :
        w = memory[i].own \/ w \in memory[i].slots =>
            Exists(w) /\ transfers[w].from = plan.agents[i].addr

Deciding(i) == Trying(i, "execute_resolution")

Tallies(i) ==
    plan.agents[i].kind \in DecisionCounters /\ fault # "step" =>
        /\ memory[i].count = Cardinality(DecisionsOf(plan.agents[i].addr))
        /\ Deciding(i) => memory[i].pending # NoWf
        /\ plan.agents[i].kind = "CapacityLimited" =>
               memory[i].count + One(Deciding(i)) <= plan.agents[i].bound

\* AgentsInformed is not inductive: an answer adds to the count only if the agent has
\* noted the escrow of its call, and what the agent gives itself must cover that call.
InformInv ==
    /\ DecidesAlone(plan)
    /\ \A i \in DOMAIN memory : Owns(i) /\ Tallies(i)

LEMMA RunFacts ==
    ASSUME RunTypeInv
    PROVE  /\ memory \in [1 .. Len(plan.agents) -> Memory]
           /\ DOMAIN memory = 1 .. Len(plan.agents)
           /\ \A i \in DOMAIN memory : plan.agents[i] \in Agent /\ memory[i] \in Memory
           /\ \A i \in DOMAIN memory :
                  plan.agents[i].bound \in Nat /\ memory[i].count \in Nat
<1>1. memory \in [1 .. Len(plan.agents) -> Memory] /\ plan \in Plan
    BY DEF RunTypeInv, RunTypeOK
<1>2. \A i \in 1 .. Len(plan.agents) : plan.agents[i] \in Agent
    BY <1>1 DEF Plan
<1>3. (\A ag \in Agent : ag.bound \in Nat) /\ (\A m \in Memory : m.count \in Nat)
    BY DEF Agent, Memory
<1> QED
    BY <1>1, <1>2, <1>3

\* An event carried out leaves every escrow with its maker, and adds one to the
\* decisions of its sender if it is a decision.
LEMMA EffectKeepsMakers ==
    ASSUME NEW caller, NEW e, Effect(caller, e), NEW w \in Workflows, Exists(w)
    PROVE  Exists(w)' /\ transfers'[w].from = transfers[w].from
BY DEF Effect, Creates, SameTerms

LEMMA EffectTells ==
    ASSUME NEW caller, NEW e, Effect(caller, e), NEW a
    PROVE  /\ e.action = "execute_resolution" /\ caller = a =>
                  Cardinality(DecisionsOf(a))' = Cardinality(DecisionsOf(a)) + 1
           /\ e.action # "execute_resolution" \/ caller # a =>
                  Cardinality(DecisionsOf(a))' = Cardinality(DecisionsOf(a))
<1>1. CASE e.action = "execute_resolution"
    BY <1>1, DecisionShows DEF Effect
<1>2. CASE e.action # "execute_resolution"
  <2>1. DecisionsOf(a)' = DecisionsOf(a)
      BY <1>2 DEF Effect, DecisionsOf, Decisions
  <2> QED
      BY <1>2, <2>1
<1> QED
    BY <1>1, <1>2

\* A step that the world and the agents' memories do not notice, and that puts no
\* call in flight.
LEMMA UnseenInform ==
    ASSUME RunTypeInv, InformInv, Unseen, UNCHANGED <<plan, memory>>,
           fault' = fault \/ fault = "none", pc' # "sent" \/ UNCHANGED <<pc, turn, call>>
    PROVE  InformInv'
<1>1. ASSUME NEW i \in DOMAIN memory
      PROVE  Owns(i)'
    BY DEF InformInv, Owns, Exists, Unseen
<1>2. ASSUME NEW i \in DOMAIN memory
      PROVE  Tallies(i)'
  <2>1. DecisionsOf(plan.agents[i].addr)' = DecisionsOf(plan.agents[i].addr)
      BY DEF DecisionsOf, Decisions, Unseen
  <2>2. Deciding(i)' => Deciding(i)
      BY DEF Deciding, Trying
  <2>3. fault' # "step" => fault # "step"
      OBVIOUS
  <2>4. plan.agents[i].bound \in Nat /\ memory[i].count \in Nat
      BY RunFacts
  <2>5. Tallies(i) /\ UNCHANGED <<plan, memory>>
      BY DEF InformInv
  <2> QED
      BY <2>1, <2>2, <2>3, <2>4, <2>5 DEF Tallies, One
<1> QED
    BY <1>1, <1>2 DEF InformInv, DecidesAlone

\* An agent decides: to wait, or on a call.
LEMMA DecideInform ==
    ASSUME RunTypeInv, InformInv, Unseen, UNCHANGED <<plan, fault>>, pc = "deciding", ~RoundOver,
           memory' = [memory EXCEPT ![turn] = Chosen(turn).memory],
           \/ pc' = "deciding"
           \/ pc' = "sent" /\ turn' = turn /\ call' = Chosen(turn).call
    PROVE  InformInv'
<1>1. turn \in DOMAIN memory /\ seq \in Nat /\ DOMAIN memory' = DOMAIN memory
  <2>1. DOMAIN memory = 1 .. Len(plan.agents)
      BY RunFacts
  <2>2. turn \in 1 .. Len(plan.agents) + 1 /\ ~(turn > Len(plan.agents)) /\ seq \in Nat
      BY DEF RoundOver, RunTypeInv, RunTypeOK
  <2>3. Len(plan.agents) \in Nat
      BY DEF RunTypeInv, Plan
  <2> QED
      BY <2>1, <2>2, <2>3
<1>2. plan.agents[turn] \in Agent /\ memory[turn] \in Memory
    BY <1>1, RunFacts
<1>3. \A i \in DOMAIN memory : Owns(i) /\ Tallies(i) /\ ~Deciding(i)
    BY DEF InformInv, Deciding, Trying
<1>4. \A a : DecisionsOf(a)' = DecisionsOf(a)
    BY DEF DecisionsOf, Decisions, Unseen
<1>5. ASSUME NEW i \in DOMAIN memory, i # turn
      PROVE  Owns(i)' /\ Tallies(i)'
  <2>1. memory'[i] = memory[i] /\ plan' = plan
      BY <1>5
  <2>2. ~Deciding(i)'
      BY <1>5 DEF Deciding, Trying
  <2>3. Owns(i)'
      BY <1>3, <2>1 DEF Owns, Exists, Unseen
  <2>4. Tallies(i)'
      BY <1>3, <1>4, <2>1, <2>2 DEF Tallies, One
  <2> QED
      BY <2>3, <2>4
<1>6. ASSUME NEW i \in DOMAIN memory, i = turn
      PROVE  Owns(i)' /\ Tallies(i)'
  <2> DEFINE ag == plan.agents[i]
             choice == Chosen(i)
  <2>1. memory'[i] = choice.memory /\ plan' = plan
      BY <1>1, <1>6
  <2>2. choice.memory.own = memory[i].own /\ choice.memory.slots = memory[i].slots
      BY <1>1, <1>2, <1>6, DecideKeepsOwn DEF Chosen
  <2>3. ag.kind \in DecisionCounters =>
            /\ choice.memory.count = memory[i].count
            /\ choice.call # NoCall => choice.memory.pending # NoWf
            /\ choice.call # NoCall /\ ag.kind = "CapacityLimited" =>
                   memory[i].count < ag.bound
      BY <1>1, <1>2, <1>6, DecideKeepsCount DEF Chosen
  <2>4. Deciding(i)' => choice.call # NoCall
      BY <1>6 DEF Deciding, Trying, NoCall
  <2>5. ag.bound \in Nat /\ memory[i].count \in Nat
      BY RunFacts
  <2> HIDE DEF choice
  <2>6. Owns(i)'
      BY <1>3, <2>1, <2>2 DEF Owns, Exists, Unseen
  <2>7. Tallies(i)'
      BY <1>3, <1>4, <2>1, <2>3, <2>4, <2>5 DEF Tallies, One
  <2> QED
      BY <2>6, <2>7
<1> QED
    BY <1>1, <1>5, <1>6 DEF InformInv

\* The answer to an agent's event: what it reports as accepted the world has done.
LEMMA AnswerInform ==
    ASSUME RunTypeInv, InformInv, NEW r \in AnyAnswer, Receive(r), UNCHANGED fault,
           \/ r.result # "ok" /\ Unseen
           \/ /\ r.result = "ok" /\ Effect(Caller, call)
              /\ call.action = "create_escrow" => r.wf = NextId
    PROVE  InformInv'
<1> DEFINE sender == plan.agents[turn]
<1>1. /\ turn \in DOMAIN memory /\ pc = "sent" /\ pc' # "sent" /\ plan' = plan
      /\ memory' = [memory EXCEPT ![turn] = Learn(sender, memory[turn], r)]
      /\ DOMAIN memory' = DOMAIN memory
  <2>1. turn \in 1 .. Len(plan.agents) + 1 /\ turn <= Len(plan.agents)
        /\ Len(plan.agents) \in Nat /\ DOMAIN memory = 1 .. Len(plan.agents)
      BY RunFacts DEF Receive, RunTypeInv, RunTypeOK, Plan
  <2> QED
      BY <2>1 DEF Receive, LearnTurn
<1>2. \A action : action # "none" =>
          (Accepted(r, action) <=> r.result = "ok" /\ call.action = action)
  <2>1. AnswerType(r)
      BY AnswersTyped
  <2> QED
      BY <2>1 DEF AnswerType, Accepted
<1>3. ASSUME NEW w \in Workflows, Exists(w)
      PROVE  Exists(w)' /\ transfers'[w].from = transfers[w].from
  <2>1. CASE Unseen
      BY <1>3, <2>1 DEF Unseen, Exists
  <2>2. CASE Effect(Caller, call)
      BY <1>3, <2>2, EffectKeepsMakers
  <2> QED
      BY <2>1, <2>2
<1>4. Accepted(r, "create_escrow") => Exists(r.wf)' /\ transfers'[r.wf].from = sender.addr
    BY <1>2 DEF Effect, Creates, Caller
<1>5. ASSUME NEW a
      PROVE  /\ Accepted(r, "execute_resolution") /\ sender.addr = a =>
                    Cardinality(DecisionsOf(a))' = Cardinality(DecisionsOf(a)) + 1
             /\ ~Accepted(r, "execute_resolution") \/ sender.addr # a =>
                    Cardinality(DecisionsOf(a))' = Cardinality(DecisionsOf(a))
  <2>1. CASE Unseen /\ r.result # "ok"
    <3>1. DecisionsOf(a)' = DecisionsOf(a)
        BY <2>1 DEF DecisionsOf, Decisions, Unseen
    <3> QED
        BY <1>2, <2>1, <3>1
  <2>2. CASE Effect(Caller, call) /\ r.result = "ok"
    <3>1. Caller = sender.addr
        BY DEF Caller
    <3> HIDE DEF sender
    <3> QED
        BY <1>2, <2>2, <3>1, EffectTells
  <2> QED
      BY <2>1, <2>2
<1>6. ASSUME NEW i \in DOMAIN memory
      PROVE  ~Deciding(i)'
    BY <1>1 DEF Deciding, Trying
<1>7. ASSUME NEW i \in DOMAIN memory, i # turn
      PROVE  Owns(i)' /\ Tallies(i)'
  <2>1. memory'[i] = memory[i] /\ plan' = plan /\ Owns(i) /\ Tallies(i) /\ ~Deciding(i)
      BY <1>1, <1>7 DEF InformInv, Deciding, Trying
  <2>2. Owns(i)'
      BY <1>3, <2>1 DEF Owns
  <2>3. plan.agents[i].kind \in DecisionCounters => sender.addr # plan.agents[i].addr
    <3>1. DOMAIN memory = 1 .. Len(plan.agents)
        BY RunFacts
    <3> QED
        BY <1>1, <1>7, <3>1 DEF InformInv, DecidesAlone
  <2>4. plan.agents[i].kind \in DecisionCounters =>
            Cardinality(DecisionsOf(plan.agents[i].addr))'
                = Cardinality(DecisionsOf(plan.agents[i].addr))
      BY <1>5, <2>1, <2>3
  <2>5. Tallies(i)'
      BY <1>6, <2>1, <2>4 DEF Tallies, One
  <2> QED
      BY <2>2, <2>5
<1>8. ASSUME NEW i \in DOMAIN memory, i = turn
      PROVE  Owns(i)' /\ Tallies(i)'
  <2> DEFINE ag == plan.agents[i]
             m  == memory[i]
             l  == Learn(ag, m, r)
  <2>1. ag \in Agent /\ m \in Memory /\ ag.bound \in Nat /\ m.count \in Nat
      BY RunFacts
  <2>2. memory'[i] = l /\ plan' = plan /\ Owns(i) /\ Tallies(i) /\ sender = ag
      BY <1>1, <1>8 DEF InformInv
  <2>3. \A w : w = l.own \/ w \in l.slots =>
            w = m.own \/ w \in m.slots \/ (Accepted(r, "create_escrow") /\ w = r.wf)
      BY <2>1, LearnedOwn
  <2>4. ag.kind \in DecisionCounters =>
            l.count = m.count + One(Accepted(r, "execute_resolution") /\ m.pending # NoWf)
      BY <2>1, LearnedCount
  <2>5. Deciding(i) <=> call.action = "execute_resolution"
      BY <1>1, <1>8 DEF Deciding, Trying
  <2> HIDE DEF l
  <2>6. Owns(i)'
      BY <1>3, <1>4, <2>2, <2>3 DEF Owns
  <2>7. ASSUME ag.kind \in DecisionCounters, fault # "step"
        PROVE  l.count = m.count + One(Accepted(r, "execute_resolution"))
    <3>1. Accepted(r, "execute_resolution") => m.pending # NoWf
        BY <1>2, <2>2, <2>5, <2>7 DEF Tallies
    <3> QED
        BY <2>4, <2>7, <3>1 DEF One
  <2>8. Cardinality(DecisionsOf(ag.addr))'
            = IF Accepted(r, "execute_resolution") THEN Cardinality(DecisionsOf(ag.addr)) + 1
              ELSE Cardinality(DecisionsOf(ag.addr))
      BY <1>5, <2>2
  <2>9. Tallies(i)'
      BY <1>2, <1>6, <2>1, <2>2, <2>5, <2>7, <2>8 DEF Tallies, One
  <2> QED
      BY <2>6, <2>9
<1> QED
    BY <1>1, <1>7, <1>8 DEF InformInv

LEMMA InformStep ==
    ServerInv /\ CountInv /\ InformInv /\ [LiveNext]_liveVars => InformInv'
<1> SUFFICES ASSUME ServerInv, CountInv, InformInv, [LiveNext]_liveVars
             PROVE  InformInv'
    OBVIOUS
<1>1. RunTypeInv /\ LiveInv
    BY DEF ServerInv, LiveInv
<1>2. CASE Open \/ Close \/ StartLost \/ CloseLost \/ Restart \/ UNCHANGED liveVars
  <2>1. /\ UNCHANGED <<vars, plan, memory>>
        /\ fault' = fault \/ fault = "none"
        /\ pc' # "sent" \/ UNCHANGED <<pc, turn, call>>
      BY <1>2 DEF Open, World, Close, StartLost, CloseLost, Restart, Started, Closed,
                  StartFailed, CloseFailed, Happens, liveVars, runVars
  <2> QED
      BY <1>1, <2>1, QuietIsUnseen, UnseenInform
<1>3. CASE Local
  <2>1. UNCHANGED <<vars, plan, fault>> /\ Unseen
      BY <1>3, QuietIsUnseen DEF Local, Quietly, World, NextTick, Complete, Decline
  <2>2. CASE NextTick \/ Complete
    <3>1. UNCHANGED memory /\ pc' # "sent"
        BY <2>2 DEF NextTick, Complete
    <3> QED
        BY <1>1, <2>1, <3>1, UnseenInform
  <2>3. CASE Decline
    <3>1. /\ pc = "deciding" /\ ~RoundOver /\ pc' = "deciding"
          /\ memory' = [memory EXCEPT ![turn] = Chosen(turn).memory]
        BY <2>3 DEF Decline
    <3> QED
        BY <1>1, <2>1, <3>1, DecideInform
  <2> QED
      BY <1>3, <2>2, <2>3 DEF Local
<1>4. CASE Deliver
  <2>1. /\ Unseen /\ UNCHANGED <<plan, fault>>
        /\ pc = "deciding" /\ ~RoundOver
        /\ memory' = [memory EXCEPT ![turn] = Chosen(turn).memory]
        /\ pc' = "sent" /\ turn' = turn /\ call' = Chosen(turn).call
      BY <1>4 DEF Deliver, Send, AdvanceTo, escrowVars, roundVars, Unseen
  <2> QED
      BY <1>1, <2>1, DecideInform
<1>5. ASSUME NEW r \in AnyAnswer, Receive(r), r.result # "ok", UNCHANGED <<vars, fault>>
      PROVE  InformInv'
    BY <1>1, <1>5, QuietIsUnseen, AnswerInform
<1>6. CASE Reject
  <2>1. PICK r : r = Answer("rejected", NoWf, Snapshot)
      OBVIOUS
  <2>2. r \in AnyAnswer /\ r.result # "ok"
      BY <1>1, <2>1, RefusalAnswers DEF Answer
  <2> QED
      BY <1>5, <1>6, <2>1, <2>2 DEF Reject, Quietly, World
<1>7. CASE Violate
  <2>1. PICK r : r = Answer("invariant_violated", NoWf, Snapshot)
      OBVIOUS
  <2>2. r \in AnyAnswer /\ r.result # "ok"
      BY <1>1, <2>1, RefusalAnswers DEF Answer
  <2> QED
      BY <1>5, <1>7, <2>1, <2>2 DEF Violate, Quietly, World
<1>8. CASE Unknown
  <2>1. NoAnswer \in AnyAnswer /\ NoAnswer.result # "ok"
      BY DEF AnyAnswer, NoAnswer
  <2> QED
      BY <1>5, <1>8, <2>1 DEF Unknown, Quietly, World
<1>9. CASE Accept
  <2>1. PICK r : r = Answer("ok", NextId, Snapshot')
      OBVIOUS
  <2>2. r \in AnyAnswer
      BY <1>1, <1>9, <2>1, AcceptAnswers
  <2>3. r.result = "ok" /\ (call.action = "create_escrow" => r.wf = NextId)
      BY <2>1 DEF Answer, Created
  <2>4. Receive(r) /\ fault' = fault /\ pc = "sent" /\ PerformCall
      BY <1>9, <2>1 DEF Accept
  <2>5. Effect(Caller, call)
      BY <2>4, PerformedEffect
  <2> QED
      BY <1>1, <2>2, <2>3, <2>4, <2>5, AnswerInform
<1>10. CASE StepLost
  <2>1. /\ pc = "sent" /\ UNCHANGED <<plan, memory>> /\ pc' = "closing"
        /\ fault = "none" /\ fault' = "step"
        /\ UNCHANGED vars \/ PerformCall
      BY <1>10 DEF StepLost, StepFailed, Happens, World
  <2>2. CASE UNCHANGED vars
      BY <1>1, <2>1, <2>2, QuietIsUnseen, UnseenInform
  <2>3. CASE PerformCall
    <3>1. Effect(Caller, call)
        BY <2>1, <2>3, PerformedEffect
    <3>2. ASSUME NEW i \in DOMAIN memory
          PROVE  Owns(i)' /\ Tallies(i)'
      <4>1. Owns(i)'
          BY <2>1, <3>1, EffectKeepsMakers DEF InformInv, Owns
      <4>2. Tallies(i)'
          BY <2>1 DEF Tallies
      <4> QED
          BY <4>1, <4>2
    <3> QED
        BY <2>1, <3>2 DEF InformInv
  <2> QED
      BY <2>1, <2>2, <2>3
<1> QED
    BY <1>2, <1>3, <1>4, <1>6, <1>7, <1>8, <1>9, <1>10 DEF LiveNext, Step

LEMMA InformInitially == (\A p \in Plans : DecidesAlone(p)) /\ LiveInit => InformInv
<1> SUFFICES ASSUME \A p \in Plans : DecidesAlone(p), LiveInit
             PROVE  InformInv
    OBVIOUS
<1>1. RunInit /\ RunTypeInv /\ plan \in Plans /\ pc = "starting"
    BY LiveInitTyped DEF LiveInit, LiveInv, RunInit
<1>2. ASSUME NEW i \in DOMAIN memory
      PROVE  Owns(i) /\ Tallies(i)
  <2>1. memory[i].own = NoWf /\ memory[i].slots = {} /\ memory[i].count = 0
      BY <1>1 DEF RunInit, FreshMemory
  <2>2. NoWf \notin Workflows
      BY WorkflowsAssumption DEF Workflows, NoWf
  <2>3. Owns(i)
      BY <2>1, <2>2 DEF Owns
  <2>4. DecisionsOf(plan.agents[i].addr) = {} /\ ~Deciding(i)
      BY <1>1 DEF LiveInit, WorldInit, Decisions, DecisionsOf, Deciding, Trying
  <2>5. plan.agents[i].bound \in Nat
      BY <1>1, RunFacts
  <2>6. Tallies(i)
      BY <2>1, <2>4, <2>5, FS_EmptySet DEF Tallies, One
  <2> QED
      BY <2>3, <2>6
<1> QED
    BY <1>1, <1>2 DEF InformInv

\* What the agents know is true of the server's world, though they know it from the
\* answers to their own events alone: their escrows are theirs, and the resolvers that
\* count their decisions count what the world records, within their capacity, in
\* every run in which none of these shares its address (live_agents.py,
\* update_from_response).
THEOREM AgentsAlwaysInformed ==
    (\A p \in Plans : DecidesAlone(p)) => (LiveSpec => []AgentsInformed)
<1>1. RunTypeInv /\ InformInv /\ BudgetsKept => AgentsInformed
  <2> SUFFICES ASSUME RunTypeInv, InformInv, NEW i \in DOMAIN memory
               PROVE  LET ag == plan.agents[i]
                      IN  /\ \A w \in Workflows :
                                 w = memory[i].own \/ w \in memory[i].slots =>
                                     transfers[w].from = ag.addr
                          /\ ag.kind \in DecisionCounters /\ fault # "step" =>
                                 /\ memory[i].count = Cardinality(DecisionsOf(ag.addr))
                                 /\ ag.kind = "CapacityLimited" =>
                                        memory[i].count <= ag.bound
      BY DEF AgentsInformed
  <2>1. Owns(i) /\ Tallies(i) /\ plan.agents[i].bound \in Nat /\ memory[i].count \in Nat
      BY RunFacts DEF InformInv
  <2> QED
      BY <2>1 DEF Owns, Tallies, One
<1>2. LiveInit => ServerInv /\ CountInv
    BY CountedInitially, ServerInitially
<1>3. ServerInv => ServerInv /\ RunTypeInv
    BY DEF ServerInv, LiveInv
<1> QED
    BY <1>1, <1>2, <1>3, InformInitially, InformStep, ServerStep, CountStep, LiveRunsCorrect,
       PTL DEF LiveSpec

=============================================================================

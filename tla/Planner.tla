------------------------------- MODULE Planner -------------------------------
(***************************************************************************)
(* The scenario generator (python/sew_sim/simulation.py and agents.py): one  *)
(* SimPy process per agent, which plans its whole life when it first runs    *)
(* and then emits its actions when their delays have passed, and a resolver  *)
(* process that answers queued disputes one after the other.  Nothing is     *)
(* executed here: the ids of the escrows are predicted by a counter, and the *)
(* emitted actions are exported as the events of a scenario.                *)
(*                                                                          *)
(* SimPy runs one process at a time, in the order of the times they wait     *)
(* for and, at one time, in the order they began to wait.                    *)
(***************************************************************************)
EXTENDS SewEvents, Sequences, SequencesExt

CONSTANTS
    Casts,           \* bound: the simulations explored, each what one SEWSimulation is given
    BlockTime,       \* initial_block_time
    SafetyExit       \* bound: when the resolver's loop gives up, 10000 in the code

\* What a simulation is given; delay is the strategy's own.
Cast ==
    [ agents : Seq([ strategy : {"HonestBuyer", "AttackingBuyer", "AttackingResolver",
                                 "GriefingBuyer", "OpportunisticBuyer"},
                     addr : Addr, to : Addr, amount : Nat, delay : Nat ]),
      resolver : Addr, resolving : BOOLEAN, resolutionDelay : Nat,
      until : Nat, maxDispute : Nat, params : Contexts ]

ASSUME CastsAssumption == Casts \subseteq Cast

ASSUME SafetyExitAssumption == SafetyExit \in Nat

\* The resolver process; the agents are 1 .. Len(cast.agents).
ResolverProcess == 0

VARIABLES
    cast,            \* the arguments: the agents in order, the resolver, until, max_dispute
    now,             \* env.now, as the processes see it
    agenda,          \* the processes that wait, each with its time, in SimPy's order
    todo,            \* per agent, the actions of its plan not emitted yet
    wfCounter,       \* the ids predicted so far
    queue,           \* disputes the resolver has not looked at
    inHand,          \* the dispute it waits for, or none
    raw,             \* the emitted actions, in the order they were emitted
    events           \* the exported events, none until the simulation is over

planVars == <<cast, now, agenda, todo, wfCounter, queue, inHand, raw, events>>

NoDispute == [target |-> -1, wf |-> NoWf]

\* A planned action: the event, and the time after the start to emit it at.
After(delay, call) == [delay |-> delay, call |-> call]

Creation(c) == After(0, [NoCall EXCEPT !.action = "create_escrow", !.to = c.to,
                                       !.amount = c.amount])

-----------------------------------------------------------------------------
(* plan, one operator per strategy: the set of lists it may return, given the *)
(* id it predicts for its escrow.  Every list is in the order of its delays.  *)

HonestBuyerPlans(c, wf) == {<<Creation(c), After(c.delay, On("release", wf))>>}

LateCreationPlans(c, wf) ==                \* mutant: the creation is delayed too
    {<< [Creation(c) EXCEPT !.delay = c.delay], After(c.delay, On("raise_dispute", wf))>>}

AttackingBuyerPlans(c, wf) ==
    {<<Creation(c), After(c.delay, On("raise_dispute", wf))>>}

\* The attacking resolver takes a guess at the last escrow and at a verdict.
AttackingResolverPlans(counter) ==
    LET target == IF counter > 0 THEN counter - 1 ELSE 0
    IN  {<<After(2, Resolve(target, verdict))>> : verdict \in BOOLEAN}

HastyGrieferPlans(wf, c, maxDispute) ==   \* mutant: the dispute itself takes a second
    {<< Creation(c), After(1, On("raise_dispute", wf)),
        After(maxDispute, On("auto_cancel_disputed", wf)) >>}

GriefingBuyerPlans(wf, c, maxDispute) ==
    {<< Creation(c), After(1, On("raise_dispute", wf)),
        After(maxDispute + 1, On("auto_cancel_disputed", wf)) >>}

OpportunisticBuyerPlans(c, wf) ==
    {<<Creation(c), After(c.delay, On(choice, wf))>> :
        choice \in {"raise_dispute", "release"}}

Creates(c) == c.strategy # "AttackingResolver"

PlansOf(c, counter) ==
    CASE c.strategy = "HonestBuyer" -> HonestBuyerPlans(c, counter)
      [] c.strategy = "AttackingBuyer" -> AttackingBuyerPlans(c, counter)
      [] c.strategy = "AttackingResolver" -> AttackingResolverPlans(counter)
      [] c.strategy = "GriefingBuyer" -> GriefingBuyerPlans(counter, c, cast.maxDispute)
      [] c.strategy = "OpportunisticBuyer" -> OpportunisticBuyerPlans(c, counter)

-----------------------------------------------------------------------------
\* The first of these places of a sequence, or the place after its end.
FirstOf(places, s) == IF places = {} THEN Len(s) + 1 ELSE Min(places)

\* The agenda with a process that waits until a time, after those that have
\* been waiting for that time already.
Waiting(ag, who, at) ==
    InsertAt(ag, FirstOf({k \in DOMAIN ag : ag[k].at > at}, ag), [who |-> who, at |-> at])

Emitted(who, call) == [at |-> now', agent |-> who, call |-> call]

PlannerInit ==
    /\ cast \in Casts
    /\ now = 0
    /\ agenda = [i \in 1 .. Len(cast.agents) |-> [who |-> i, at |-> 0]]
                    \o (IF cast.resolving THEN <<[who |-> ResolverProcess, at |-> 0]>>
                        ELSE <<>>)
    /\ todo = [i \in 1 .. Len(cast.agents) |-> <<>>]
    /\ wfCounter = 0
    /\ queue = <<>>
    /\ inHand = NoDispute
    /\ raw = <<>>
    /\ events = <<>>

\* A process is resumed: the first of the agenda, when its time has come before
\* the end of the simulation.
Due(who) == agenda # <<>> /\ Head(agenda).who = who /\ Head(agenda).at < cast.until

Over == \A k \in DOMAIN agenda : agenda[k].at >= cast.until

\* An agent emits what is due of its plan, puts the dispute it raises, at most one
\* in a plan, before the resolver, and waits for the next action, if there is one.
Emit(i, list) ==
    LET next == FirstOf({k \in DOMAIN list : list[k].delay > now'}, list)
        due  == SubSeq(list, 1, next - 1)
        rest == SubSeq(list, next, Len(list))
        raised == {k \in DOMAIN due : due[k].call.action = "raise_dispute"}
    IN  /\ raw' = raw \o [k \in DOMAIN due |-> Emitted(i, due[k].call)]
        /\ queue' = IF raised = {} THEN queue
                    ELSE Append(queue, [target |-> now' + cast.resolutionDelay,
                                        wf |-> due[Min(raised)].call.wf])
        /\ todo' = [todo EXCEPT ![i] = rest]
        /\ agenda' = IF rest = <<>> THEN Tail(agenda)
                     ELSE Waiting(Tail(agenda), i, Head(rest).delay)

Begin(i) ==
    /\ Due(i)
    /\ todo[i] = <<>>
    /\ now' = Head(agenda).at
    /\ \E list \in PlansOf(cast.agents[i], wfCounter) : Emit(i, list)
    /\ wfCounter' = wfCounter + (IF Creates(cast.agents[i]) THEN 1 ELSE 0)
    /\ UNCHANGED <<cast, inHand, events>>

Continue(i) ==
    /\ Due(i)
    /\ todo[i] # <<>>
    /\ now' = Head(agenda).at
    /\ Emit(i, todo[i])
    /\ UNCHANGED <<cast, wfCounter, inHand, events>>

LatestFirst(q) == Reverse(q)               \* mutant: the queue is popped at its end

\* The order in which the resolver takes the disputes of its queue.
InTurn(q) == q

\* The resolver answers the dispute it was waiting for and those after it whose
\* time has come, and waits for the next; with nothing in the queue it looks
\* again one unit later.
Resolver ==
    /\ Due(ResolverProcess)
    /\ now' = Head(agenda).at
    /\ inHand # NoDispute \/ now' <= SafetyExit
    /\ LET line     == InTurn(queue)
           next     == FirstOf({k \in DOMAIN line : line[k].target > now'}, line)
           held     == IF inHand = NoDispute THEN <<>> ELSE <<inHand>>
           answered == held \o SubSeq(line, 1, next - 1)
       IN  /\ raw' = raw \o [k \in DOMAIN answered |->
                               Emitted(ResolverProcess, Resolve(answered[k].wf, TRUE))]
           /\ queue' = SubSeq(line, next + 1, Len(line))
           /\ inHand' = IF next > Len(line) THEN NoDispute ELSE line[next]
           /\ agenda' = Waiting(Tail(agenda), ResolverProcess,
                                IF next > Len(line) THEN now' + 1 ELSE line[next].target)
    /\ UNCHANGED <<cast, todo, wfCounter, events>>

\* The safety exit, looked at only after waiting with an empty queue.
ResolverGivesUp ==
    /\ Due(ResolverProcess)
    /\ now' = Head(agenda).at
    /\ inHand = NoDispute /\ now' > SafetyExit
    /\ agenda' = Tail(agenda)
    /\ UNCHANGED <<cast, todo, wfCounter, queue, inHand, raw, events>>

\* The events sorted by time, those of one time in the order they were emitted.
ByTime(s) ==
    [k \in DOMAIN s |->
        s[CHOOSE i \in DOMAIN s :
            Cardinality({j \in DOMAIN s : s[j].at < s[i].at
                                          \/ (s[j].at = s[i].at /\ j < i)}) = k - 1]]

\* The simulation is over: the events are exported with block times.
Export ==
    /\ Over
    /\ events = <<>> /\ raw # <<>>
    /\ events' = LET sorted == ByTime(raw)
                 IN  [k \in DOMAIN sorted |-> [sorted[k] EXCEPT !.at = BlockTime + @]]
    /\ UNCHANGED <<cast, now, agenda, todo, wfCounter, queue, inHand, raw>>

PlannerNext ==
    \/ \E i \in DOMAIN todo : Begin(i) \/ Continue(i)
    \/ Resolver
    \/ ResolverGivesUp
    \/ Export

=============================================================================

------------------------------ MODULE LiveRunner ------------------------------
(***************************************************************************)
(* The live streaming runner (python/sew_sim/live_runner.py) as a client of *)
(* some server: a round-robin over the agents, one event in flight at a     *)
(* time, inside a session that is opened before the loop and destroyed      *)
(* however the loop is left (grpc_client.py, managed_session).  The server  *)
(* is open here: a call may be answered in any way the wire allows, or the  *)
(* RPC may fail.                                                            *)
(***************************************************************************)
EXTENDS LiveAgents, Sequences

CONSTANTS
    Plans,           \* bound: the runs explored, each what one LiveRunner is given
    StartTime        \* initial_block_time

\* The arguments of a run: the agents in their order, the protocol parameters as
\* the context they give rise to, the limits and the clock's step.
Plan == [ name : STRING, agents : Seq(Agent), params : Context, maxSteps : Nat,
          maxTicks : Nat, timeStep : Nat ]

ASSUME PlansAssumption == Plans \subseteq Plan

VARIABLES
    plan,            \* the arguments, fixed when the run starts
    pc,              \* starting, deciding, sent, closing or done
    tick,            \* rounds begun
    turn,            \* the agent whose turn it is, 1 .. Len(plan.agents) + 1
    seq,             \* the number of the next event
    blockTime,       \* the time put on events
    view,            \* the world view of the last answer
    memory,          \* per agent, what it remembers
    call,            \* the event in flight
    trace,           \* agent, action and result of every answered event
    metrics,         \* the counters of the result
    outcome          \* running, pass, halted, or raised when an exception leaves run()

runVars == <<plan, pc, tick, turn, seq, blockTime, view, memory, call, trace,
             metrics, outcome>>

ZeroMetrics ==
    [ escrows |-> 0, volume |-> 0, disputes |-> 0, resolutions |-> 0,
      settlements |-> 0, attempts |-> 0, successes |-> 0, reverts |-> 0,
      violations |-> 0 ]

\* The kinds with an _attack_count: all their events count as attacks.
Attackers == { "DisputeFlood", "AttackingBuyer", "AppealWindowRacer",
               "EscalationLoop", "GovernanceRotation", "MaliciousResolver" }

One(b) == IF b THEN 1 ELSE 0

AccumulateAnswered(x, c, r, kind) ==       \* mutant
    [x EXCEPT !.escrows = @ + One(c.action = "create_escrow"),
              !.disputes = @ + One(c.action = "raise_dispute"),
              !.resolutions = @ + One(c.action = "execute_resolution"),
              !.reverts = @ + One(r.result # "ok")]

\* _accum_metrics: only accepted events count, except as attempts and reverts.
Accumulate(x, c, r, kind) ==
    LET ok == r.result = "ok"
    IN  [ escrows     |-> x.escrows + One(ok /\ c.action = "create_escrow"),
          volume      |-> x.volume + (IF ok /\ c.action = "create_escrow"
                                      THEN c.amount ELSE 0),
          disputes    |-> x.disputes + One(ok /\ c.action = "raise_dispute"),
          resolutions |-> x.resolutions + One(ok /\ c.action = "execute_resolution"),
          settlements |-> x.settlements
                              + One(ok /\ c.action = "execute_pending_settlement"),
          attempts    |-> x.attempts + One(kind \in Attackers),
          successes   |-> x.successes + One(kind \in Attackers /\ ok),
          reverts     |-> x.reverts + One(~ok),
          violations  |-> x.violations + One(r.result = "invariant_violated") ]

RunInit ==
    /\ plan \in Plans
    /\ pc = "starting"
    /\ tick = 0
    /\ turn = Len(plan.agents) + 1
    /\ seq = 0
    /\ blockTime = StartTime
    /\ view = NoView
    /\ memory = [i \in 1 .. Len(plan.agents) |-> FreshMemory]
    /\ call = NoCall
    /\ trace = <<>>
    /\ metrics = ZeroMetrics
    /\ outcome = "running"

-----------------------------------------------------------------------------
(* The loop. *)

\* StartSession was answered ok.
Started ==
    /\ pc = "starting"
    /\ pc' = "deciding"
    /\ UNCHANGED <<plan, tick, turn, seq, blockTime, view, memory, call, trace,
                   metrics, outcome>>

\* StartSession failed or was refused: nothing to destroy.
StartFailed ==
    /\ pc = "starting"
    /\ pc' = "done"
    /\ outcome' = "raised"
    /\ UNCHANGED <<plan, tick, turn, seq, blockTime, view, memory, call, trace, metrics>>

StepsLeft == seq < plan.maxSteps

RoundOver == turn > Len(plan.agents) \/ ~StepsLeft

\* A round begins: time moves on however many agents act in it.
NextTick ==
    /\ pc = "deciding"
    /\ RoundOver
    /\ tick < plan.maxTicks /\ StepsLeft
    /\ tick' = tick + 1
    /\ turn' = 1
    /\ blockTime' = blockTime + plan.timeStep
    /\ UNCHANGED <<plan, pc, seq, view, memory, call, trace, metrics, outcome>>

\* The rounds or the steps are used up.
Complete ==
    /\ pc = "deciding"
    /\ RoundOver
    /\ ~(tick < plan.maxTicks /\ StepsLeft)
    /\ pc' = "closing"
    /\ outcome' = "pass"
    /\ UNCHANGED <<plan, tick, turn, seq, blockTime, view, memory, call, trace, metrics>>

Chosen(i) == Decide(plan.agents[i], memory[i], view, seq)

AskAgain ==                                \* mutant
    /\ pc = "deciding"
    /\ ~RoundOver
    /\ Chosen(turn).call = NoCall
    /\ memory' = [memory EXCEPT ![turn] = Chosen(turn).memory]
    /\ UNCHANGED <<plan, pc, turn, tick, seq, blockTime, view, call, trace, metrics,
                   outcome>>

\* The agent whose turn it is decides not to act.
Decline ==
    /\ pc = "deciding"
    /\ ~RoundOver
    /\ Chosen(turn).call = NoCall
    /\ memory' = [memory EXCEPT ![turn] = Chosen(turn).memory]
    /\ turn' = turn + 1
    /\ UNCHANGED <<plan, pc, tick, seq, blockTime, view, call, trace, metrics, outcome>>

\* It decides to act, and its event is sent.
Send ==
    /\ pc = "deciding"
    /\ ~RoundOver
    /\ Chosen(turn).call # NoCall
    /\ memory' = [memory EXCEPT ![turn] = Chosen(turn).memory]
    /\ call' = Chosen(turn).call
    /\ pc' = "sent"
    /\ UNCHANGED <<plan, tick, turn, seq, blockTime, view, trace, metrics, outcome>>

LearnAll(r) ==                             \* mutant: every agent is told of every step
    memory' = [i \in DOMAIN memory |-> Learn(plan.agents[i], memory[i], r)]

\* The agent that acted learns from the answer; the others do not hear of it.
LearnTurn(r) ==
    memory' = [memory EXCEPT ![turn] = Learn(plan.agents[turn], @, r)]

\* The server says so when its checks failed.
Halts(r) == r.halted

SeenOnce(r) == IF view.known THEN view ELSE r.view       \* mutant

\* The view of the next decision is the one of the last answer, if it has one.
Seen(r) == r.view

\* The event is answered.
Receive(r) ==
    /\ pc = "sent"
    /\ LearnTurn(r)
    /\ view' = Seen(r)
    /\ trace' = Append(trace, [agent |-> turn, action |-> call.action,
                               result |-> r.result])
    /\ metrics' = Accumulate(metrics, call, r, plan.agents[turn].kind)
    /\ call' = NoCall
    /\ seq' = seq + 1
    /\ turn' = turn + 1
    /\ IF Halts(r) THEN pc' = "closing" /\ outcome' = "halted"
                   ELSE pc' = "deciding" /\ UNCHANGED outcome
    /\ UNCHANGED <<plan, tick, blockTime>>

\* The RPC fails: the exception leaves the loop, through the finally clause.
StepFailed ==
    /\ pc = "sent"
    /\ pc' = "closing"
    /\ outcome' = "raised"
    /\ UNCHANGED <<plan, tick, turn, seq, blockTime, view, memory, call, trace, metrics>>

\* DestroySession was answered.
Closed ==
    /\ pc = "closing"
    /\ pc' = "done"
    /\ UNCHANGED <<plan, tick, turn, seq, blockTime, view, memory, call, trace,
                   metrics, outcome>>

\* DestroySession failed: its exception replaces the result.
CloseFailed ==
    /\ pc = "closing"
    /\ pc' = "done"
    /\ outcome' = "raised"
    /\ UNCHANGED <<plan, tick, turn, seq, blockTime, view, memory, call, trace, metrics>>

\* The answers the wire allows to the event in flight: it is echoed in the
\* entry, a creation that was accepted carries the new id, and the session is
\* halted by a violation and by nothing else.  An unknown session has no entry
\* and no view.
NoAnswer == [ action |-> "none", result |-> "none", wf |-> NoWf, params |-> NoWf,
              view |-> NoView, halted |-> FALSE ]

Created(result) == result = "ok" /\ call.action = "create_escrow"

Answer(result, id, v) ==
    [ action |-> call.action, result |-> result,
      wf |-> IF Created(result) THEN id ELSE NoWf, params |-> NoWf,
      view |-> v, halted |-> result = "invariant_violated" ]

AnyAnswer ==
    {NoAnswer} \cup
    {Answer(result, id, v) : result \in Results \ {"none"}, id \in Workflows, v \in View}

RunNext ==
    \/ Started \/ StartFailed
    \/ NextTick \/ Complete \/ Decline \/ Send
    \/ \E r \in AnyAnswer : Receive(r)
    \/ StepFailed \/ Closed \/ CloseFailed

RunSpec == RunInit /\ [][RunNext]_runVars

=============================================================================

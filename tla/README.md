# Verification of the SEW simulation

The repository simulates a decentralised escrow protocol, SEW: its contract as a pure
function over a world map (`protocols/sew/*.clj`), a kernel that runs events against the
contract and throws away a world that breaks an invariant (`contract_model/replay.clj`),
a server that holds one world per session (`server/session.clj`), and Python clients of that
server: a live driver with reactive agents, a generator of scenarios, an adversarial prober.
This directory holds TLA+ modules of those layers, the TLC configurations that model-check
them, and TLAPS proofs of what holds for every value of the constants. Paths below are
relative to `src/src/resolver_sim/` or, for `*.py`, to `src/python/`, unless they start with
`src/`.

How to run, in this directory:

    tlasany SewProperties.tla                     # parse
    tlc -workers 2 -config MCEscrow.cfg MCEscrow  # one of the runs
    tlapm SewDispute_proofs.tla                   # check a module's proofs

## 1. The system

### Components

| component | state it keeps | operations | interacts with |
|---|---|---|---|
| Escrow lifecycle (`protocols/sew/lifecycle.clj`, `state_machine.clj`) | transfers, their statuses and custom resolver | create, raise dispute, release, the two cancels, automatic cancellation of a dispute | the ledger (every settlement), the stakes (bond check on creation, slash on timeout) |
| Dispute resolution (`resolution.clj`, `authority.clj`) | pending settlements, dispute level, decisions and challengers per level | decide, appeal, challenge, execute a deferred decision, the keeper's timed actions, rotate a resolver | the ledger (bonds, settlements), the slashes (reversals) |
| Slashing (`resolution.clj` 494-622, `registry.clj`) | stakes, slashes, appeal-bond custody, freezes | stake, withdraw, propose, appeal, rule, collect | the ledger (returned bonds), the reserves |
| Ledger (`accounting.clj`, `economics/payoffs.clj`) | held, fees, released, refunded, claims, bonds, reserves | the primitives the operations above are made of; withdraw fees, withdraw escrow | everything |
| Dispatcher (`protocols/sew.clj`) | the execution context, fixed per session or replay | `dispatch-action`: one action per event, with the guards the actions lack | all of the above |
| Kernel predicates (`protocols/sew/invariants.clj`) | none | `check-all` on a world, `check-transition` on a step | read by the kernel |
| Simulation kernel (`contract_model/replay.clj`) | the world and its clock | `process-step`: advance the clock, dispatch, check, keep or revert | dispatcher, predicates |
| Session store (`server/session.clj`) | one atom of sessions, one lock per session | create, step, destroy, look | called by gRPC threads; calls the kernel |
| Live driver (`sew_sim/live_agents.py`, `live_runner.py`, `grpc_client.py`) | round, turn, view of the last answer, what each agent remembers, counters, result | open a session, let each agent decide in turn, send its event, learn from the answer, close the session | a client of the session store, over RPCs that may fail |
| Failure-mode scenarios (`eth_failure_modes.py`, `eth_failure_modes_2.py`) | none | runs of the live driver with fixed agents and parameters, and assertions on the result | the live driver |
| Scenario generator (`sew_sim/agents.py`, `simulation.py`) | the simulation clock, each agent's plan, a counter of escrow ids, a queue of disputes | plan, emit, answer disputes, export | its events are replayed by the kernel |
| Adversarial prober (`adversarial_agent.py`) | seed trace, active escrows, cooldowns, budgets, results | replay a seed, probe with suggested or random actions, score, sweep over mutants of a trace | a client of the session store and of its suggestions |

Calls are plain function calls from the outside in: a gRPC thread calls the session store,
which calls `process-step` under the session's lock, which dispatches one action on the world.
The Python clients are one thread each and call the server over gRPC, one call at a time.
Concurrency exists in three places: the *order* of actions by different actors (parties,
resolvers, challengers, governance, keepers) on one world, the *threads* of the server on one
atom, and a client whose calls *fail or are lost* while the server goes on or restarts.

`PROJECT.json` lists the other parts too (gRPC marshalling, scenario evaluation, the
withdrawal campaigns, the Anvil runner, the Monte Carlo simulation, storage, the Cartesi
adapter) with the reason each is left out: they keep no protocol state, choose event sequences
that the model explores exhaustively anyway, drive a program that is not in the repository, or
work with floating-point distributions rather than transitions.

### What is hard here

* **Order of calls on one dispute.** A decision that is not final is deferred until a window
  closes; until then a party may appeal it or anybody may challenge it, which takes a bond, drops the
  decision and moves the dispute up a round with another resolver. Governance may rotate the
  resolver, the protocol may be paused, the dispute may time out, and a keeper may call at any
  moment.
* **State written in one place and read in another.** Authority comes from the custom resolver, the module of
  the current round or the transfer itself; the withdrawal guard reads only the last.
* **Exact integer ledgers.** Truncating divisions in fees, bond fees, the fee-on-transfer tax,
  the 50/30/20 split of a slash and a bounty that is halved. `sub-held` asserts that what it
  takes is there.
* **Slashes against a moving stake.** A slash is filed for an amount, contested with a bond, ruled on,
  collected later, while the resolver stakes, withdraws and is slashed for something else.
* **The kernel's veto.** An action is kept only if every predicate holds of the
  world after it, so predicates can block each other.
* **Threads.** `step-session!` reads the atom, waits for a lock that belongs to what it read, and
  reads the atom again.

* **Clients that know only their answers.** The live driver's counters, its agents' ids and
  counts and the view they decide on come from the answers alone; answers get lost, and the
  view that an agent reacts to is one tick old. The generator predicts escrow ids it never sees.
  The prober counts rejections under what it sent and suppresses what is suggested.
* **Sessions that must be returned.** Every client destroys its session in a `finally`, whatever
  left the loop.

`PROJECT.json` lists these as hazards, each at the line where it bites, with the properties
that would catch it.

### What makes each component correct

| component | properties |
|---|---|
| Dispute | `DeferredIsCurrentDecision`, `RoundsDecidedInOrder`, `OutcomeFollowsLastRound`, `DisputeRecordsConsistent`, `CustomResolverDecidesAlone`; steps: `SettledForGood`, `NoEarlySettlement`, `PauseFreezes`; refinement: `ImplementsAgreement` |
| Ledger | `VaultExact`, `PaidOnceToOne`, `SettlementsMatchTotals`, `ReservesExplained` |
| Slashing | `BondsBackOpenAppeals`, `CollectedSlashSidelines`; steps: `SlashRespectsWindow`, `WithdrawalsLeaveCover`, `SlashesMoveStake` (proved only) |
| Kernel | `LedgerChecks` (the five on the ledger of its predicates on a world) and `StepChecks` (four of its seven on a step), shown of the contract without the veto; liveness: `DisputesEnd`, `DeferredDecisionsEnd`, `TimedEscrowsEnd` |
| Sessions | `AnsweredStepsKept`, `AtomicSessions` (refinement of `SessionStore`), `CallsReturn` |
| Live driver | `CountersMatchWorld`, `ViewCurrent`, `AgentsInformed`, `HaltedOverDueEscrow`; liveness: `RunsEnd`, with the session returned and an honest result |
| Failure-mode scenarios | `ScriptAssertions`; refuted: `SecondRoundDecides` |
| Generator | `IdsAsPredicted`, `DisputesAnswered`, `PlansCarriedOut` |
| Prober | `ActiveIdsExist`, `SummaryTrue`, `SweepsRanked`; liveness: `ProbingEnds`; refuted: `CooldownForAll` |

## 2. The modules

    SewTypes        values, context, fee/bond/slash arithmetic
      SewWorld      the world map as variables, accounting primitives, shared guards
        SewLifecycle          SewSlashing
          SewResolution        |
              \               /
               SewProtocol          all actions, the clock, Spec and FairSpec
                 SewProperties      type invariant and the properties above; implements Agreement
                   SewLedger        sums: the vault, entitlements, reserves
                     SewChecks      the kernel's predicates
                       SewKernel    the veto; liveness under it
                         SewClaims  statements of the docs that the code refutes
                         SewDispatch  one event of a client carried out under the veto
    Agreement       what the two parties of an escrow are promised
    SessionStore    the atomic store clients are promised
    SewSession      the threads, locks and atom; implements SessionStore

    SewEvents       the events clients send (on SewTypes)
      LiveAgents    what each kind of agent decides and learns
        LiveRunner  the driver's loop against any server
          LiveProperties
            LiveSew         the driver against the kernel (with SewDispatch): lost calls, restarts
              LiveScenarios the scenarios S24 to S34, what their scripts assert, and
                            statements about the driver that its runs refute
      Planner       the scenario generator
        PlannerReplay       its scenarios replayed by the kernel (with SewDispatch)
          PlannerScenarios  the three scenarios it builds
    TraceMutants    the mutants of a trace
      Prober        the adversarial prober against any server
        ProberProperties

    SewTyping_proofs, SewDispute_proofs, SewSlashing_proofs,
    SewLedger_proofs, SewSession_proofs, Live_proofs,
    Planner_proofs, Prober_proofs                                    (TLAPS)
    MCEscrow, MCSlashing, MCKernel, MCClaims, MCSession, MCLive, MCPlanner, MCProber
                                                             instances for TLC

### Correspondence with the code

*State.* Each variable of `SewWorld` is one key of the world map of `empty-world`
(`types.clj` 175-210) under the name its comment gives; maps from workflow id are functions on
`Workflows`, with an absent entry as the value the code's `get` defaults to (0, nil as `NoAddr`,
`NoSettlement`, `NoDecision`). The keys that mix types are kept apart: `claimable` is keyed by
`IntKey(w)` or `StrKey(w)` because settlements write under the integer and `withdraw-escrow`
reads under the string, and the bounties written under a challenger's address have a variable of their own.
`distribution` joins the two reserve maps. `ctx` is the execution context, chosen from
`Contexts` when the world is made and fixed after.

*Actions.* There is one action per dispatched operation with all it does: `ExecuteResolution`
includes the reversal slash, `AutoCancelDisputed` the slash, both distributions and the refund.
An operation that returns `{:ok false}` leaves the world as it was and is no step. `Tick` is
the advance of the clock that `process-step` makes before it dispatches: an event at a later
time is a `Tick` (or several) followed by the action, which also covers a vetoed action, whose
clock stays advanced.

*Inputs.* Callers range over all of `Addr`. Orders, stakes, slash amounts, rotations and pause
calls range over the bounding constants named in the modules.

*Environment.* `UpdateEvidence` sets `:evidence-updated?`, which the code reads but no
dispatched action writes. It is fired only for the escrows in `EvidenceCases`.

*A convention of the callers that the model keeps.* A call on a slash carries a workflow id and a slash id;
they are taken to agree (the scenarios always pass matching ones).

*Kernel.* `KernelNext` keeps an action's step only if `CheckAll'` and `CheckTransition` hold. The
kernel goes on after a reverted action as it does in a session; `PlannerReplay` has the replay
loop, which halts. Two groups of predicates are left out of `SewChecks`: those over the
senior and resolver bonds, whose actions are not modelled, and those over keys that no
dispatched action writes, which are always true.

*Events.* `SewEvents` has the events clients send and `SewDispatch` what the kernel makes of
one: `Perform` is the action, if the contract accepts it; `Committed` that its world passes the
checks. Whether it would be accepted is `ENABLED Perform...`, so a refusal and a violation are
answered exactly when the code answers them.

*Live driver.* `LiveAgents` has `decide` and `update_from_response` of every agent class as
operators on a memory record with one field per attribute. `LiveRunner` is `run()`: `NextTick`
and `Complete` are the two loop heads, `Decline` and `Send` the two outcomes of `decide`,
`Receive` all that happens to an answer (learning, view, trace, counters, halt), `StepFailed`,
`Closed` and `CloseFailed` the `finally`. It is specified against *any* server: `AnyAnswer` is every
answer the wire allows. `LiveSew` puts the kernel there and adds the faults: a call may fail before
or after it was carried out, and the server may restart and forget its sessions. `LiveSew`
implements `LiveRunner`, which is proved.

*Scenarios.* Agents, parameters and limits of the eleven runs of S24 to S34 (there is no S26)
are the plans of `LiveScenarios`; what the scripts
assert for `passed` is `ScriptAssertions`, but for the assertions of S29, S31 and S32 on a second round of decisions, which are
`SecondRoundDecides` and fail (section 5). A tick
of the scripts is 60 seconds; windows and limits given in seconds are kept in units of the time step.

*Generator.* SimPy runs one process at a time, in the order of the times they wait for; `agenda` is
that order. `Begin` and `Continue` are an agent process between two `yield`s, `Resolver` the resolver
process, `Export` the sorting and the alias of block times. Random draws are choices.

*Prober.* The server is open again: it answers a probe in any way that agrees with its clock, the state of the
escrow (`StateMoves`) and that of the fraud slash filed under the escrow's id (`SlashMoves`). An action that has nothing to do with
an escrow (`Housekeeping`, which only seeds have) may be accepted at any time. `Suggested` is every template of `suggest-actions` for
an actor: the creation, what the escrows' states call for, and what the slashes' do, whatever became of the escrow. A
reversal slash has an id of its own; in a session it is collected as it is filed, since no event brings new evidence, so that it is
never suggested and no later action on it is accepted. It is left out. `Start`, `Replay`, `Guided`, `Chaos`, `Answered` and `Close` follow `run_adversarial_session`,
`jobs` is the list of sessions a sweep or a portfolio runs. Scores are members of a small set: only
their order and sign matter, the objective being a profit that may be a loss; a session that never
read one is ranked as if it had made 0, as the code's sort key has it. Effective steps, which the code adds up as floating-point weights, are counted
in hundredths.

*Sessions.* A world is the sequence of steps that led to it, each with its event and the
context it ran with. A step of `SewSession` is one access to the atom or to a lock:
`Begin` (first deref), `Acquire`, `Reread` (second deref), `Publish` (`swap!`), `Finish` (unlock in
`finally`). `StepThrows` is the exception path: `with-lock` unlocks, nothing is published.
A session object is identified by its id and generation, so that a lock and a context of a
destroyed session are distinct from those of its successor.

## 3. The runs

| run | instance | distinct states | what it asks |
|---|---|---|---|
| `escrow` | 1 escrow, 4 addresses, 3 rounds, five contexts, time 1-5 | 1.25M | Do decisions, rounds, settlement and the vault agree in every interleaving of appeals, challenges, rotations, keepers, automatic settlements and the timeout, with and without a custom resolver, with a bond fee or a taxed token, and does the escrow go as its parties were promised? |
| `pair` | 2 escrows (amounts 200 and 100) over one ledger, one appeal each, time 1-2 | 455k | Does the contract keep the kernel's ledger and step predicates *without* the kernel's veto, and is each escrow paid once while the other is disputed, appealed and settled? |
| `kernel_live` | 1 escrow, kernel veto, fair keepers, pauses, time 1-7 | 75k | Do disputes, deferred decisions and timed escrows end, and does a pause stop all but the keepers? |
| `slashing_fraud` | 1 escrow, stake 35, slash 25, bond 7 or none | 50k | Fraud slashes filed, refiled, appealed, ruled on and collected while the resolver stakes and withdraws. |
| `slashing_reversal` | 3 rounds, new evidence possible | 1.2M | Automated and contestable reversal slashes, several from one stake. |
| `sessions` | 3 threads, 2 ids, 2 calls each | 119k | Does the locked store implement the atomic one, is no answered step lost, and does every call return? |
| `live` | the 11 runs of S24 to S34; 980 mixes of a buyer, a resolver and a third agent under four parameter sets; 140 short runs with one fault anywhere | 54k | Do the driver's counters, views, ids and budgets agree with the server's world, do the scripts' assertions hold except on a second round of decisions, and does every run end with its session returned? |
| `planner` | the 3 generated scenarios and every cast of three strategies | 45k | Are predicted ids the given ones, disputes answered in time and plans carried out on replay? |
| `prober` | long sessions, sessions with seeds and faults, one with a slash, sweeps and a portfolio, 3 actors, a loss and a profit as scores | 151k | Do budgets, active escrows, verdicts and rankings agree with what was answered, and does every invocation end? |
| `due_together` | 2 escrows due at once under the kernel | violation | see section 5 |
| `session_lost_step` | an id used twice | violation | see section 5 |
| `claims_never_delivered` | 1 settled escrow | violation | see section 5 |

Every property of a passing run has been seen to fail on a plausible bug: the definitions whose
comment begins with `mutant` are such bugs (a guard dropped, a boundary moved, a lock ignored), each
stands before the definition it imitates, and `PROJECT.json` pairs it with the property that
catches it. No action uses one.

### Bounds and why they are enough

* *One escrow* suffices for the dispute properties: a step works on one escrow and
  leaves the others alone, which is not assumed but proved (`OneAtATime` in
  `SewDispute_proofs`). Two are needed where escrows share something, the ledger of a token or the kernel's
  veto: `pair` and `due_together`.
* *Time* runs to one or two units past the largest deadline of the context, so that everything
  may be early, on the dot and late. `Horizon` stops users and leaves the keepers time to finish (`kernel_live`).
* *Four addresses*: sender, recipient and two resolvers, any of whom may also play challenger or
  stranger. The ladder gives round 1 to another resolver than rounds 0 and 2, so that authority really changes and comes
  back.
* *Amounts* are chosen so that roundings show: fee 10% of 200 gives 180; bonds 36 and 54 with a quarter taken
  as fee; tax 5%; a slash of 25 from a stake of 35, so that two slashes exceed the stake; 25 splits as 12 + 7 + 6, which an extra rounding would not sum to.
* *Stakes* are positive, although `register-stake` takes any amount that is sent: what a negative or a zero registration does is not
  looked at.
* `MaxAppealBonds` is twice the bond: a bond forfeited and another returned, or the same twice.
* Three threads and two calls: one thread holds the old lock, one the new, and one destroys and
  creates in between. With `MaxGenerations = 1` ids are UUIDs, the server's default; with 2 (`session_lost_step`) a caller
  passes an id again, which `create-session!` accepts once the old session is gone.
* *Plans* (`live`) are the scripts' own limits for the scenarios; 12 events and 6 ticks for the mixes, which lets a dispute
  be raised, decided, appealed, decided again and settled. `Faults` gives the faults explored in a plan's runs, at most one in a run and none in the
  scenarios: two lost calls do nothing that one does not, since the first ends the run.
* *Casts* (`planner`) are three agents: with three, an id may be taken for the one before or the one after. Delays are at most a few units, so that events meet at
  one time. `SafetyExit` stands for the 10000 of the code.
* *Invocations* (`prober`): three actors (a party, a resolver and governance) and up to four escrows; four probes let a tuple be rejected
  twice and fall under its cooldown; two probes after a seed that files a slash let it be appealed and judged. `maxMutants` of a session is smaller than its catalogue, so that the limit cuts it.

Deadlock is not checked: every instance ends when its time, its calls or its plan are used up.

### Fairness

`KernelFairSpec` is weak fairness of the clock and of the two keeper calls on each escrow. This is an
assumption about the environment, the one the keeper entry points are there for: some keeper calls again and again
while there is something to do. Nothing is assumed of parties, resolvers or governance, and weak fairness is
enough because a due action stays due until somebody acts. `FairSessionSpec` is weak fairness of each
thread's next step. The `ReentrantLock` is not created fair, so a thread waiting for it is certain to
get it only because the number of calls competing with it is finite; in the model it is. `LiveFairSpec` and
`ProberFairSpec` are weak fairness of the client's step: it is a single thread that waits for nothing but the answer to its call, and a call
is answered or fails. No fault and no particular choice or answer is assumed to happen.

## 4. The proofs

| theorem | module | for every |
|---|---|---|
| `TypeCorrect`: `Spec => []TypeOK` | `SewTyping_proofs` | set of addresses, tokens, contexts, orders, bounds |
| `DeferredCorrect`, `RoundsCorrect`, `OutcomeCorrect`, `RecordsCorrect`, `CustomCorrect` | `SewDispute_proofs` | the same, any number of escrows |
| `DecisionsStandAlways`, `SettledForGoodAlways`, `NoEarlySettlementAlways`, `PauseFreezesAlways` | `SewDispute_proofs` | the same |
| `ContractKeepsPromise`: `Spec` implements `Agreement`; `PaidCorrect` | `SewDispute_proofs` | the same |
| `KernelImplementsContract`, `KernelKeepsTheRules`: all of the above under the veto | `SewDispute_proofs` | the same |
| `BondsBackAlways`, `CollectedSlashesSideline`, `SlashWindowRespected`, `SlashesAlwaysMoveStake`, `WithdrawalsAlwaysLeaveCover` | `SewSlashing_proofs` | the same, any stakes, slashes and freeze |
| `VaultAlwaysExact`, `SettlementsAlwaysMatch`, `ReservesAlwaysExplained`; `KernelKeepsTheBooks`: the same under the veto | `SewLedger_proofs` | the same, any amounts, fees, taxes and bonds |
| `LedgerChecksAlwaysPass`: five predicates on a world | `SewLedger_proofs` | contexts without a tax or a cut of the bonds, whose bonds are at most half of the escrow |
| `StepChecksAlwaysPass`: four of the seven on a step | `SewLedger_proofs` | contexts without a tax |
| `AnsweredStepsAlwaysKept`, `StepsAlwaysSerialised`, `StoreIsAtomic` | `SewSession_proofs` | number of threads, ids and calls, while no id is used again |
| `RunTypeCorrect`, `BudgetsCorrect`, `ResultCorrect` | `Live_proofs` | plan, and any server that answers what it likes |
| `LiveImplementsRunner`, `LiveRunsCorrect`, `ViewAlwaysCurrent`, `SessionsAlwaysReturned`, `CountersAlwaysMatch` | `Live_proofs` | plan, with its faults, against the kernel |
| `AgentsAlwaysInformed` | `Live_proofs` | the same, where no resolver that counts its decisions shares its address |
| `DisputesAlwaysAnswered` | `Planner_proofs` | simulation: agents, strategies, delays, ends and resolvers |
| `OutsidersNeverLetIn` | `Planner_proofs` | the same, replayed on any number of escrows |
| `IdsPredicted` | `Planner_proofs` | the same, where no buyer shares its address, and as long as no creation is refused |
| `ActiveIdsAlwaysExist`, `SummaryAlwaysTrue`, `SweepsAlwaysRanked`, `SessionsReturnedAtTheEnd` | `Prober_proofs` | command line, trace, budget, score and fault, and any server the model allows |

The theorems assume only the named assumptions of the modules: `NoAddr` is not an address, there is a token,
addresses are finitely many, contexts and orders have their types, the clock starts after 0, bounds are natural numbers, plans and command lines have
their types, a score is a number and no score is none, and the holder of a free lock is not a thread. `SewSession_proofs` states the use of ids as a hypothesis, `OneLife` (`MaxGenerations = 1`);
`session_lost_step` shows that it is needed. `AgentsAlwaysInformed` states `DecidesAlone` of the plans as one, which holds of all
plans of the runs (an `ASSUME` of `MCLive`): two agents at one address would each count their own decisions of it only.
`IdsPredicted` states `SendersApart` of the simulations (an `ASSUME` of `MCPlanner` for those of the run): the property tells an
escrow's buyer by the address, so a buyer that is also the resolver would be held to what it does in both roles. It also supposes, of
each state, that the creations replayed so far were accepted, which is what the prediction rests on: a refused creation moves every later id down by one.

*Arithmetic* (`SewTyping_proofs`). `FeeIsAPart`: a rate in basis points takes between nothing and all of a
natural amount; the product is isolated in one nonlinear step. `SplitIsExact`: the split of a slash sums to the slash
less twice the halved bounty, and its retained part is never negative.

*Types* (`SewTyping_proofs`). `TypeOK` is not inductive: a slash is taken from the resolver that a decision or a slash
record names, and were that name nil the stake read would be undefined. `TypeInv` adds that
decisions and filed slashes name an address (`DecidersNamed`, `SlashedNamed`). There is a lemma for each
primitive (`Finalize`, `PostBond`, `TakeStake`, `SlashStake`) and one for each action; `GroupsKept`
deals with what an action leaves alone.

*Disputes* (`SewDispute_proofs`). The five invariants lean on each other. A deferred decision is the current one because
rounds are decided in order; rounds are decided in order because a decision is refused while one is
deferred; the outcome follows the last round because what is deferred is its decision; and all of it starts from clean
records because an escrow that is new or pending was never disputed (`UndisputedFirst`), which is the
strengthening they need, along with a clock that has started. `DisputeInv` is the conjunction, stated per escrow.
`Frame` shows that an escrow's part survives every step that leaves the escrow alone while time may pass, so each
action is proved on the one escrow it works on.

*Steps* (`SewDispute_proofs`). `StepOrBystander` shows that a step works on one escrow and leaves the others alone, or on none.
The four action properties follow from it and from `DisputeInv`.

*The promise* (`SewDispute_proofs`). `Agreement` has six variables, which `SewProperties` reads off the world: the
status of an escrow, who agrees to call it off, how it may expire, its round, what that round decided, and whether verdicts
can be appealed. Bonds, stakes, resolvers, pauses and time are not in it: rotating a resolver is a stutter, and what time allows
is what `NoEarlySettlement` says. Each action of one escrow maps to the step of that name. `DisputeInv` is needed where
the action and the promise look at different things: an appeal needs a deferred decision, which is the verdict of the round
(`DeferredIsCurrent`), and reaches a round without one (`RoundsInOrder`); a decision or a timeout needs none deferred,
hence no verdict.

*Payments* (`SewDispute_proofs`). `PaidCorrect` is per escrow: a step on an escrow settles it, which happens to a live one
only and credits one account, or pays nothing. The only other payment into an escrow's account is a returned slash-appeal
bond, so `PaymentInv` adds that no bond is held where none is asked for.

*The kernel* leaves out steps of the contract and adds none, so whatever holds of every behaviour and step of `Spec` holds under it.

*Slashes* (`SewSlashing_proofs`). `SlashInv` joins what a held bond backs, whom a collected slash sidelines and when a
slash may be collected (its deadline is a whole window after its filing, unless it is the automated one). That a
resolver slashed twice stays frozen for the longer of the two needs that no freeze ends later than a freeze from now, the
fourth conjunct.

*Sessions* (`SewSession_proofs`). With one life per id, the object a thread found is the object stored or none, so its lock
is the lock; holders of one lock are one (`LockHeld`), what the holder read again is what is stored (`ReadIsCurrent`), and
therefore what it publishes is one step more than the store has. Each publication, creation and removal is the step of
`SessionStore` and everything else a stutter.

*The driver* (`Live_proofs`). Against a server that answers anything, a run keeps to its
plan, no agent exceeds its budget and the result reports the answers. `LiveSew` implements `LiveRunner` step by step with
the kernel, the lost calls and the restart as that server, so those three carry over; `ServedInv`
relates the session and the view and gives the two properties that need to know the server.
What an event does to the part of the world that is counted is its `Effect`: it creates the next escrow with its sender and amount, raises
one dispute, records one decision of its sender, or does none of these, and leaves the terms of every other escrow. That a decision is
a new one, in a round without any, is `RoundsInOrder`, hence `ServerInv` carries the contract's `DisputeInv`; that a raised dispute stays
counted needs that no agent sends `auto_cancel_disputed` (`NoTimeoutCalls`). `CountInv` compares the counters with those sets, one more element
each time, and adds that after a lost answer there is no further call. `InformInv` adds to what agents know that a call in flight is noted
in the caller's memory, without which an accepted decision would not be counted, and is covered by its capacity.

*Sums* (`SewTyping_proofs`). The ledger's properties compare a counter the code keeps with a sum over escrows or addresses, and what a
step does to such a sum is to change one term (`SumChange`). That is proved without induction on the set, whose theorem takes an operator:
`SumFunctionOnSet` is one table of the sums over all subsets (`SumUnfold`); were there none, it would go wrong at a least cardinality
(`SumsExist`), and two that disagree would do so at a smallest set (`SumsAgree`, `SmallestOf`).

*The ledger* (`SewLedger_proofs`). An action is described by what it does to the vault (`FundsMove`): it moves nothing, opens an
escrow, settles one, or takes a bond on one. Each of the four keeps `KeepsBooks`, that every counter moves by what the contribution
of that one escrow does, once for all the actions that make the move; `BooksBalance` follows, and `VaultExact` and `SettlementsMatchTotals` are
parts of it. For the reserves, what a slash takes from stake is what the split distributes (`SplitIsExact`), and the escrows that timed out
are those the timeout action cancelled (`OnlyTimeoutTimesOut`).

*The kernel's predicates.* Proved without the veto are the five on the ledger (`LedgerChecks`) and four of the seven on a step
(`StepChecks`), under the hypotheses stated in the theorems. Each of these is needed: section 5 has the runs that violate `SolvencyHolds` with a cut
of the bonds and `ConservationOfFunds` with a tax. The others are left out: of the predicates on a world those on disputes, slashes and due escrows,
and of those on a step `NoWithdrawalDuringDispute`, `TimeLockIntegrity` and `FeesMonotone`; the contract does not keep all of them by itself
(section 5: `SlashStatusConsistent`, `AppealBondCustodyConsistent`, `FeesNeverDecrease`), and the veto is what keeps them.
Bonds of at most half an escrow
(`SmallBonds`) are what `fee-cap-holds?` silently relies on: with two appeals it compares the bonds with the escrow. The instances of `pair`
satisfy all three; `LedgerChecks` is assumed there of no step.

*The scenario generator* (`Planner_proofs`). `DisputesAnswered` speaks of the emitted actions only; what makes it true is where a dispute is
meanwhile. `PlannerInv` follows it: a dispute that was raised is in the queue, in hand or answered in time (`DisputesHeld`); the queue is
in the order in which the disputes fall due, with the one in hand before it (`QueueInOrder`), because every dispute has the same delay and the agenda is
in the order of time (`AgendaInOrder`); and the resolver, which is in the agenda once, waits for exactly the dispute in hand or looks at the queue at most one unit after the
first dispute in it was raised (`ResolverLooks`). Without the last, a dispute could fall due while the resolver waits for a later one. When the simulation is over the resolver waits for a time that
did not come, hence no dispute that was to be answered before is still held (`HeldIsAnswered`). That it is answered only once rests on the prediction of ids:
no two plans dispute one escrow, and a plan's escrow is not before the resolver until its dispute is emitted (`PlansApart`, `AskedOnce`). `Waiting`
is proved to keep the order of the agenda and the place of the others (`WaitingInOrder`, `WaitingKeepsOthers`). All of it assumes of a simulation its types only
(`CastsAssumption`), and of the safety exit that it is a number.

`IdsAsPredicted` relates three orders: that in which the plans are begun, which the counter counts, that in which the actions are emitted, and
that in which the events are replayed. `Predicts(made)` names for every id the counter gave the place of the action that creates its escrow; these places
grow with the ids, because a plan begins with its creation, at delay 0 (`PlansOfTheirKind`), and every process begins once (`BegunOnce`). What
is emitted is in the order of time (`EmittedInOrder`), so the export, a sort that keeps ties, changes nothing of the order (`ByTimeKeeps`). On the replay's side `Fulfils(made)` says that
the escrows that exist are those whose creations were replayed, each of its planned sender. A creation then finds exactly the smaller ids taken (`CreationKeeps`).
For `OutsidersNeverLetIn` the same invariant, `ReplayInv`, keeps that every escrow has the simulation's resolver as its custom resolver, and
`PerformKeeps` that none but that one decides (the typing lemmas of `SewTyping_proofs` carry the world along).

*The prober* (`Prober_proofs`). Its types rest on the catalogue of mutants: a varied event that has a name still creates an escrow
(`VariationsTyped`, `MutantTyped`), so that every id a seed makes active is one the server has just given. The assumption behind it, that
only creations have a name in a trace, holds of every `save-id-as` of the repository's traces. `Known` is the invariant of `active_ids`: all of
them exist, none twice, and without a seed they are all there are. `SummaryInv` adds to the summary that a probe is only out while the
budget lasts, whence a run that ends early without a success has counted failures only, fewer than the attempts, whose weight is below the
target (`SomethingSucceeded`, one nonlinear step). `SweepInv` counts the results against the jobs. The ranking
is proved of any list of results: a strict order on a finite set lists it, each element once (`InOrderLists`), and the
sort key with its ties broken by position is a strict order (`RankingOrders`). Weights and the limit of attempts are taken not to be negative, which the command line does
not check: with a negative limit the code makes no probe and reports 0 attempts.

*Only model-checked.* Liveness, since fairness and `ENABLED` are beyond the prover; `HaltedOverDueEscrow`, which speaks of
what the kernel would refuse, is an `ENABLED` too, and so is
the second half of `PlansCarriedOut`, that no legitimate event is refused. For the same reason it is TLC that shows, as part of `PlansCarriedOut`, that no creation is refused in the
simulations of `planner` without automatic times; with them it checks `IdsAsPredicted` without the supposition of `IdsPredicted`. `ScriptAssertions` speaks of the listed plans.

## 5. Where the code and its documentation disagree

Three runs are listed as violations, with the quoted lines in `PROJECT.json`.

1. `due_together`. `process-step` evaluates `no-stale-automatable-escrows?` after every single action although its docstring says it
   is meant for after the keeper has gone over *all* escrows. With two escrows due, settling one leaves the other due, so
   neither call is ever accepted, and neither is any other action. A session is stuck from there on.
2. `session_lost_step`. `step-session!` waits on the lock of the session it saw and then steps whatever is stored under the id. After
   destroy and create with the same id that is another session with another lock; two threads then step it
   at once and a step answered `{:ok true}` is lost. With ids that are never used again (`sessions`) the store is atomic.
3. `claims_never_delivered`. `withdraw-escrow` looks under the string of the id, settlements record under the integer.

Further disagreements have a configuration of their own or come from one of the above by exchanging a constant and the property; each ends in a
short counterexample.

| how | property | what the code does |
|---|---|---|
| `MCLiveLateAppeal.cfg` | `SecondRoundDecides` | in S29, S31 and S32 the buyer first sees the decision one tick later, at the end of the appeal window, where `escalate-dispute` refuses (`resolution.clj` 455). No second decision is taken: the scripts assert `cl1.resolutions >= 1` in S29 and S32, two resolutions in S31 and in S32 the refund (`eth_failure_modes_2.py` 152, 323, 263 and 324) and none of these holds |
| `MCLiveKeeper.cfg` | `KeeperTendsAll` | the keeper calls for the first active escrow, not for every one (`sew_sim/live_agents.py` 684, against 673): while the first is appealed and waits for a resolver, a decision on the second falls due, and the veto then refuses the call for the first and halts the session |
| `MCProberHammering.cfg` | `CooldownForAll` | a rejection is counted under the id that was sent and looked up under the one suggested, which a suggestion by `workflow-id` does not have: it is never suspended (`adversarial_agent.py` 119, against 545) |
| `MCLiveKeeper.cfg` with `Plans <- OnlyS24` | `FloodDisputesEach` | the flood looks for the escrow in a field that answers do not have and disputes its first one for ever (`sew_sim/live_agents.py` 370, against 318) |
| the same with `FloodNeverReverts` | `FloodNeverReverts` | hence its later events are refused (against `eth_failure_modes.py` 170) |
| the same with `Plans <- OnlyS34` | `ForkerTries` | the attacker knows only escrows it created itself, and creates none (against `eth_failure_modes_2.py` 407) |
| the same with `Plans <- TwoDisputes` | `ResolverSeesAll` | the honest resolver marks the escrow an answer names, and answers name none: it goes on resolving the first (against `live_agents.py` 133) |
| the same with `Plans <- MCPlans` | `PassMeansServed` | after a restart every event is answered with an unknown session, and the run passes (against `live_runner.py` 49) |

The rows below are `MCClaimsWithdraw.cfg` with `SPECIFICATION Spec`, the context named and the property as an invariant (the last
and `FeesNeverDecrease` as a property); where no context is named, as noted.

| context | property | what the code does |
|---|---|---|
| `TimeoutContexts`, `Stakers = {r0}`, `StakeAmounts = {40}`, `MaxStake = 40` | `SlashNeverMints` | `auto-cancel-disputed-escrow` distributes the slash, then the escrowed amount as well, and refunds it (`lifecycle.clj` 350-358) |
| `OddBountyContexts`, `EvidenceCases = {0}`, `r0` staking 90 | `SlashNeverMints` | an odd bounty is paid in full and charged rounded down (`payoffs.clj` 64-66) |
| `EvenBountyContexts`, likewise | `SlashNeverVanishes` | after an appeal by a party the bounty is deducted and paid to nobody (`accounting.clj` 144-151) |
| `BondFeeContexts` | `SolvencyHolds` | the bond's fee stays in total-held and in no sum the predicate takes (`accounting.clj` 130-134); the kernel vetoes the appeal |
| `TaxContexts` | `ConservationOfFunds` | the tax leaves total-held and is recorded nowhere (`lifecycle.clj` 53-78); the kernel vetoes the settlement |
| `PlainContexts`, `FeeTokens = {usdc}` | `FeesNeverDecrease` | `withdraw-fees` exists and resets the fees (`accounting.clj` 54); the kernel vetoes it |
| `NoWindowContexts`, `SlashAmounts = {25}`, `r0` staking 35 | `SlashStatusConsistent` | the three-day default is for a nil that never occurs: without a window a slash falls due when filed (`resolution.clj` 536) |
| `SlashBondContexts`, `SlashAmounts = {25}`, `MaxAppealBonds = 14`, `r0` staking 35 | `AppealBondCustodyConsistent` | a slash filed over one under appeal leaves its bond in custody for ever (`resolution.clj` 537) |
| `LadderContexts`, `Orders <- CustomOrders`, `Stakers = {r1}`, `StakeAmounts = {40}`, `MaxStake = 40` | `AuthorityKeepsStake` (as a property) | the withdrawal guard reads the resolver on the transfer, which an appeal overwrites, while a custom resolver stays the only authority over the dispute (`sew.clj` 77-83, against `invariants.clj` 515) |
| `BothTimesContexts` | `AutoTimesExclusive` | both default delays are applied at once (`lifecycle.clj` 137-146) |
| `LadderContexts` | `RaiseAndEscalateApart` | an escalation is compared with the previous one only, not with the dispute (`invariants.clj` 606) |

Because of the first three rows, `ReservesExplained` counts the amounts of timed-out escrows and is stated for contexts without a
bounty; because of the next two, `VaultExact` counts the bond fees.

One more, which no property states: registering a senior bond again resets the coverage reserved on it (`sew.clj` 312).

## 6. Not modelled, and what is left

*Not modelled.* The three bond registrations of the dispatcher, whose part of the world no other action reads; library operations without a
dispatched caller (`slash-bond`, `return-bond`, `unfreeze-resolver`, `transition-to-resolved`); the aliases and the temporal checks of the
replay loop; predicates over keys no action writes. Of the prober, the payoff and signal formulas are scores that the server may give in any way.
The Anvil runner drives an EVM node that is not in the repository. The withdrawal campaigns send scripted events with random amounts, which
the model's callers choose in every order anyway. The Monte Carlo simulation, the equilibrium reports, storage and marshalling have
no transitions to check.

*Left to do*, most important first: the bond registrations with their coverage predicates; aliases in the replay loop; the deterministic parts of the Monte Carlo layer that keep state
(`sim/waterfall.clj`, `sim/multi_epoch.clj`), each against a reference definition.

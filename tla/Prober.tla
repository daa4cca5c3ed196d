-------------------------------- MODULE Prober --------------------------------
(***************************************************************************)
(* The adversarial prober (python/adversarial_agent.py): sessions run one    *)
(* after the other, each replaying a seed trace or a mutant of one and then  *)
(* probing the server with suggested or random actions until a budget of     *)
(* attempts or of effective steps is used up.                               *)
(*                                                                          *)
(* The server is what the prober can tell of it: a clock that refuses events *)
(* from its past, consecutive escrow ids, and escrows whose states decide    *)
(* what is suggested.  It may refuse any event, report a violated invariant, *)
(* or fail.  The random choices of the prober are free choices here.         *)
(***************************************************************************)
EXTENDS TraceMutants, SequencesExt

CONSTANTS
    Invocations,     \* bound: the command lines explored
    Actors,          \* bound: the actors asked for suggestions, of the code's five
    Scores,          \* bound: the values of the attack objective, a profit
    NoScore          \* none: the objective was never read

AllActors == {"buyer", "seller", "resolver", "governance", "keeper"}

ASSUME ActorsAssumption == Actors \subseteq AllActors /\ "buyer" \in Actors

Initiators == Actors \cap {"buyer", "seller"}

BuildActions == {"create_escrow", "raise_dispute", "release", "sender_cancel",
                 "recipient_cancel"}

ExploitActions == {"execute_resolution", "propose_fraud_slash", "appeal_slash",
                   "resolve_appeal", "execute_fraud_slash", "execute_pending_settlement"}

ASSUME ScoresAssumption == Scores \subseteq Int /\ NoScore \notin Int

\* A session to run: the seed trace (<<>> for none), its prefix, and the mutant asked for.
Session == [ trace : Seq(TraceEvent), prefix : Int, mutation : STRING,
             mutant : [index : Nat, tag : STRING] ]

Plain(trace, prefix) ==
    [trace |-> trace, prefix |-> prefix, mutation |-> "none", mutant |-> NoMutant]

\* run_mutant_sweep: one session per mutant of the catalogue.
SweepJobs(trace, prefix, action, max) ==
    [k \in DOMAIN Catalogue(trace, action, max) |->
        [trace |-> trace, prefix |-> prefix, mutation |-> action,
         mutant |-> Catalogue(trace, action, max)[k].id]]

\* run_portfolio_sweep: a sweep for every trace and action.
PortfolioJobs(traces, prefix, actions, max) ==
    FlattenSeq([n \in 1 .. Len(traces) * Len(actions) |->
        SweepJobs(traces[1 + ((n - 1) \div Len(actions))], prefix,
                  actions[1 + ((n - 1) % Len(actions))], max)])

\* The arguments of an invocation, with the steps and weights in hundredths.
CommandLine ==
    [ jobs : Seq(Session), maxMutants : Int, maxAttempts : Nat, target : Int, weight : Nat,
      buildTarget : Int, threshold : Int, faults : SUBSET {"start", "call", "restart", "close"} ]

ASSUME InvocationsAssumption == Invocations \subseteq CommandLine

VARIABLES
    args,            \* the budget and the jobs of this invocation
    job,             \* the session that runs, or the one that ended the invocation
    pc,              \* starting, replaying, probing, sent, closing or done
    raised,          \* an exception is on its way out
    seed,            \* the events of the trace replayed so far, and the ids of its aliases
    active,          \* active_ids
    seq,             \* the number of the next probe
    probe,           \* the probe in flight
    bans,            \* per tuple, its rejections and when it may be suggested again
    tally,           \* the counters of the summary
    results,         \* the summaries
    server           \* the session as the server holds it

proberVars == <<args, job, pc, raised, seed, active, seq, probe, bans, tally, results, server>>

Job == args.jobs[job]

\* The trace a session replays, and the mutant that is in it: the one asked for, or
\* the first if the catalogue does not have it.
WithoutLimit(j) == Catalogue(j.trace, j.mutation, 0)      \* mutant: max_mutants not passed on

Mutants(j) == Catalogue(j.trace, j.mutation, args.maxMutants)

Chosen(j) ==
    LET muts == Mutants(j)
        hits == {k \in DOMAIN muts : muts[k].id = j.mutant}
    IN  IF j.mutant = NoMutant \/ muts = <<>> THEN [id |-> NoMutant, events |-> j.trace]
        ELSE muts[IF hits = {} THEN 1 ELSE Min(hits)]

Seed == LET events == Chosen(Job).events
        IN  SubSeq(events, 1, IF Job.prefix < Len(events) THEN Job.prefix ELSE Len(events))

Tuples == Actors \X (BuildActions \cup ExploitActions) \X (NoId .. args.maxAttempts + 2)

NoBans == [count |-> [t \in Tuples |-> 0], until |-> [t \in Tuples |-> 0]]

NoProbe == [lane |-> "none", actor |-> "none", action |-> "none", id |-> NoId, on |-> NoId,
            keyed |-> FALSE]

ZeroTally == [attempts |-> 0, ok |-> 0, rejected |-> 0, effective |-> 0, best |-> NoScore,
              success |-> NoId]

Gone == [hosted |-> FALSE, clock |-> 0, escrows |-> <<>>]

\* The clock of a session that is given no initial time.
FreshServer == [hosted |-> TRUE, clock |-> 1000, escrows |-> <<>>]

ProbeTime == 1000 + 10 * seq

ProberInit ==
    /\ args \in Invocations
    /\ job = 1
    /\ pc = IF args.jobs = <<>> THEN "done" ELSE "starting"
    /\ raised = FALSE
    /\ seed = [next |-> 1, ids |-> [a \in {} |-> NoId]]
    /\ active = <<>>
    /\ seq = 0
    /\ probe = NoProbe
    /\ bans = NoBans
    /\ tally = ZeroTally
    /\ results = <<>>
    /\ server = Gone

-----------------------------------------------------------------------------
(* The server. *)

Replied(result, id, s) == [result |-> result, id |-> id, server |-> s]

Ids(s) == 0 .. Len(s.escrows) - 1

\* The fraud slash an escrow's number stands for.  Reversal slashes have names of their
\* own, and those of a session are collected at once: nothing is done about them.
SlashStates == {"none", "pending", "appealed", "closed"}

NewEscrow(from, to) == [from |-> from, to |-> to, state |-> "pending", slash |-> "none"]

\* What an accepted action makes of an escrow's state; a cancellation may need the other
\* party's, a decision may be deferred, and the keeper may find nothing due.
StateMoves ==
    {<<"raise_dispute", "pending", "disputed">>, <<"release", "pending", "settled">>,
     <<"execute_pending_settlement", "disputed", "settled">>,
     <<"auto_cancel_disputed", "disputed", "settled">>}
    \cup {"sender_cancel", "recipient_cancel"} \X {"pending"} \X {"pending", "settled"}
    \cup {"execute_resolution"} \X {"disputed"} \X {"disputed", "settled"}
    \cup {"escalate_dispute", "challenge_resolution", "rotate_dispute_resolver"}
             \X {"disputed"} \X {"disputed"}
    \cup {"automate_timed_actions"} \X {"pending", "disputed"} \X {"settled"}
    \cup {<<"automate_timed_actions", e, e>> : e \in {"pending", "disputed", "settled"}}

\* What it makes of the slash: a proposal starts anew.
SlashMoves ==
    {"propose_fraud_slash"} \X SlashStates \X {"pending"}
    \cup {<<"appeal_slash", "pending", "appealed">>, <<"execute_fraud_slash", "pending", "closed">>}
    \cup {"resolve_appeal"} \X {"appealed"} \X {"pending", "closed"}

\* The other actions a seed may hold: none changes the state of an escrow.
Housekeeping == {"withdraw_escrow", "withdraw_fees", "register_stake", "withdraw_stake",
                 "register_resolver_bond", "register_senior_bond", "delegate_to_senior",
                 "set_paused", "advance_time"}

\* An escrow after an action it accepts.
EscrowAfter(e, action) ==
    {[e EXCEPT !.state = m[3]] : m \in {x \in StateMoves : x[1] = action /\ x[2] = e.state}}
    \cup {[e EXCEPT !.slash = m[3]] : m \in {x \in SlashMoves : x[1] = action /\ x[2] = e.slash}}

\* The escrows after an accepted action other than a creation.
Moved(s, action, w) ==
    {s.escrows : x \in Housekeeping \cap {action}}
    \cup {[s.escrows EXCEPT ![w + 1] = e] :
              e \in IF w \in Ids(s) THEN EscrowAfter(s.escrows[w + 1], action) ELSE {}}

\* The replies to an event: of a session it does not know, of one whose clock has
\* passed the event, and of one that looks at the action.
Replies(s, time, actor, action, w) ==
    LET at    == [s EXCEPT !.clock = time]
        after == IF action = "create_escrow"
                 THEN {Append(s.escrows, NewEscrow(actor, to)) :
                          to \in IF actor = "buyer" THEN {"seller"} ELSE {"buyer", "seller"}}
                 ELSE Moved(s, action, w)
    IN  CASE ~s.hosted -> {Replied("error", NoId, s)}
          [] s.hosted /\ time < s.clock -> {Replied("rejected", NoId, s)}
          [] OTHER ->
                 {Replied("rejected", NoId, at)}
                 \cup {Replied("invariant-violated", NoId, at) : es \in after}
                 \cup {Replied("ok", IF action = "create_escrow" THEN Len(s.escrows) ELSE NoId,
                               [at EXCEPT !.escrows = es]) : es \in after}

\* A suggestion; keyed says that it carries the escrow as "id" and not as
\* "workflow_id".
Suggestion(actor, action, w, keyed) ==
    [actor |-> actor, action |-> action, on |-> w, keyed |-> keyed]

\* Who may be told to do what about an escrow in which state, and about a slash in which
\* state, whatever became of the escrow.
DisputeCalls == {<<"resolver", "execute_resolution", "disputed">>,
                 <<"governance", "propose_fraud_slash", "disputed">>,
                 <<"keeper", "execute_pending_settlement", "disputed">>}

SlashCalls == {<<"governance", "execute_fraud_slash", "pending">>,
               <<"governance", "resolve_appeal", "pending">>,
               <<"governance", "resolve_appeal", "appealed">>,
               <<"resolver", "appeal_slash", "pending">>}

\* What an actor may be told to do about an escrow, and whether by its "id".
Calls(e, actor) ==
    {<<action, TRUE>> : action \in
         {x \in {"sender_cancel", "release", "raise_dispute"} :
              e.state = "pending" /\ e.from = actor}
         \cup {x \in {"recipient_cancel", "raise_dispute"} :
              e.state = "pending" /\ e.to = actor}}
    \cup {<<action, FALSE>> : action \in
         {x \in ExploitActions : \/ <<actor, x, e.state>> \in DisputeCalls
                                 \/ <<actor, x, e.slash>> \in SlashCalls}}

\* suggest-actions: a creation for everyone, and what the escrows and slashes call for.
Suggested(s, actor) ==
    IF ~s.hosted THEN {}
    ELSE {Suggestion(actor, "create_escrow", NoId, FALSE)}
         \cup UNION {{Suggestion(actor, c[1], w, c[2]) : c \in Calls(s.escrows[w + 1], actor)} :
                         w \in Ids(s)}

-----------------------------------------------------------------------------
(* A session. *)

\* StartSession, whose answer is not looked at.
Start ==
    /\ pc = "starting"
    /\ server' = FreshServer
    /\ seed' = [next |-> 1, ids |-> [a \in {} |-> NoId]]
    /\ active' = <<>>
    /\ seq' = 0
    /\ probe' = NoProbe
    /\ bans' = NoBans
    /\ tally' = ZeroTally
    /\ pc' = "replaying"
    /\ UNCHANGED <<args, job, raised, results>>

\* It stands before the try: nothing is destroyed.
StartFails ==
    /\ "start" \in args.faults
    /\ pc = "starting"
    /\ server' \in {Gone, FreshServer}
    /\ pc' = "done"
    /\ raised' = TRUE
    /\ UNCHANGED <<args, job, seed, active, seq, probe, bans, tally, results>>

\* The id a name of the trace stands for, once its creation was accepted.
Resolved(name) == IF name \in DOMAIN seed.ids THEN seed.ids[name] ELSE NoId

NumberedAfterSeed(reply) == Append(active, seed.next)    \* mutant: the event's number

\* Only the escrows the trace names become active.
ActiveAfterSeed(reply) ==
    IF reply.id \in Range(active) THEN active ELSE Append(active, reply.id)

SeedReplies ==
    IF pc = "replaying" /\ seed.next <= Len(Seed)
    THEN LET ev == Seed[seed.next]
         IN  Replies(server, ev.time, ev.agent, ev.action, Resolved(ev.target))
    ELSE {}

ReplayAgain(reply) ==                      \* mutant: a rejected event is sent again
    /\ server' = reply.server
    /\ seed' = IF reply.result = "ok" THEN [seed EXCEPT !.next = @ + 1] ELSE seed
    /\ UNCHANGED <<args, job, pc, raised, active, seq, probe, bans, tally, results>>

\* _replay_trace_prefix: one event of the seed.
Replay(reply) ==
    LET ev == Seed[seed.next]
    IN  /\ server' = reply.server
        /\ IF ev.alias # "" /\ reply.result = "ok"
           THEN /\ active' = ActiveAfterSeed(reply)
                /\ seed' = [ next |-> seed.next + 1,
                             ids |-> [a \in DOMAIN seed.ids \cup {ev.alias} |->
                                         IF a = ev.alias THEN reply.id ELSE seed.ids[a]] ]
           ELSE /\ seed' = [seed EXCEPT !.next = @ + 1]
                /\ UNCHANGED active
        /\ UNCHANGED <<args, job, pc, raised, seq, probe, bans, tally, results>>

SeedReplayed ==
    /\ pc = "replaying"
    /\ seed.next > Len(Seed)
    /\ pc' = "probing"
    /\ UNCHANGED <<args, job, raised, seed, active, seq, probe, bans, tally, results, server>>

BudgetLeft == tally.attempts < args.maxAttempts /\ tally.effective < args.target

Phase == IF Len(active) < args.buildTarget THEN "build" ELSE "exploit"

\* The id of a suggestion's parameters, as the tuples of _apply_suppression have it.
SuggestedId(c) == IF c.keyed THEN c.on ELSE NoId

\* _apply_suppression
ApplySuppression(S) == {c \in S : seq >= bans.until[<<c.actor, c.action, SuggestedId(c)>>]}

\* _phase_filter_candidates: what suits the phase, or everything if nothing does.
PhaseFilter(S) ==
    LET fits(c) ==
            IF Phase = "build"
            THEN c.actor \in {"buyer", "seller"} /\ c.action \in BuildActions
            ELSE \/ c.actor \in {"resolver", "governance", "keeper"}
                 \/ c.action \in ExploitActions
        kept == {c \in S : fits(c)}
    IN  IF kept = {} THEN S ELSE kept

Candidates == PhaseFilter(ApplySuppression(UNION {Suggested(server, a) : a \in Actors}))

\* random.choice(active_ids), or 0.
Targets == IF active = <<>> THEN {0} ELSE Range(active)

Asking == pc = "probing" /\ BudgetLeft

\* The guided lane takes any candidate (all weights are positive).  The id of the
\* event is the suggestion's, or a random escrow when it has none; the server goes
\* by workflow_id where there is one.
Guided ==
    /\ Asking
    /\ \E c \in Candidates, target \in Targets :
           probe' = [ lane |-> "guided", actor |-> c.actor, action |-> c.action, on |-> c.on,
                      id |-> IF c.action = "create_escrow" THEN NoId
                             ELSE IF c.keyed THEN c.on ELSE target,
                      keyed |-> c.keyed ]
    /\ pc' = "sent"
    /\ UNCHANGED <<args, job, raised, seed, active, seq, bans, tally, results, server>>

\* _choose_action and the actor of the phase.
Chaos ==
    /\ Asking
    /\ \E action \in IF active = <<>> THEN {"create_escrow"}
                     ELSE {"create_escrow", "raise_dispute", "release", "sender_cancel"},
          actor \in IF Phase = "build" THEN Initiators ELSE Actors,
          target \in Targets :
           LET id == IF action = "create_escrow" THEN NoId ELSE target
           IN  probe' = [ lane |-> "chaos", actor |-> actor, action |-> action, on |-> id,
                          id |-> id, keyed |-> TRUE ]
    /\ pc' = "sent"
    /\ UNCHANGED <<args, job, raised, seed, active, seq, bans, tally, results, server>>

Tuple == <<probe.actor, probe.action, probe.id>>

\* A tuple rejected twice is suspended for three probes.
Rejected(b) ==
    LET n == b.count[Tuple] + 1
    IN  [ count |-> [b.count EXCEPT ![Tuple] = n],
          until |-> IF n < 2 THEN b.until
                    ELSE [b.until EXCEPT ![Tuple] = IF @ > seq + 3 THEN @ ELSE seq + 3] ]

CountedAlike(t, result, score) ==          \* mutant: a failed probe is a full step
    [t EXCEPT !.attempts = @ + 1,
              !.ok = @ + (IF result = "ok" THEN 1 ELSE 0),
              !.rejected = @ + (IF result = "rejected" THEN 1 ELSE 0),
              !.effective = @ + 100]

\* The counters after an answer, effective steps in hundredths: a violation only
\* counts as an attempt, and leaves the loop before the scores are read.
Counted(t, result, score) ==
    LET more == [t EXCEPT !.attempts = @ + 1]
        scored(x) ==
            IF score = NoScore THEN x
            ELSE [x EXCEPT !.best = IF @ = NoScore \/ score > @ THEN score ELSE @,
                           !.success = IF @ = NoId /\ score >= args.threshold THEN seq ELSE @]
    IN  CASE result = "ok" -> scored([more EXCEPT !.ok = @ + 1, !.effective = @ + 100])
          [] result \in {"rejected", "error"} ->
                 scored([more EXCEPT !.rejected = @ + 1, !.effective = @ + args.weight])
          [] OTHER -> more

ProbeReplies ==
    IF pc = "sent" THEN Replies(server, ProbeTime, probe.actor, probe.action, probe.on) ELSE {}

\* The probe is answered, and the signals, payoff and objective are read.
Answered(reply, score) ==
    /\ server' = reply.server
    /\ score = NoScore <=> ~reply.server.hosted
    /\ active' = IF reply.result = "ok" /\ probe.action = "create_escrow"
                    /\ reply.id \notin Range(active)
                 THEN Append(active, reply.id) ELSE active
    /\ tally' = Counted(tally, reply.result, score)
    /\ IF reply.result = "invariant-violated"
       THEN pc' = "closing" /\ UNCHANGED <<bans, seq>>
       ELSE /\ pc' = "probing"
            /\ bans' = IF reply.result = "ok" THEN bans ELSE Rejected(bans)
            /\ seq' = seq + 1
    /\ probe' = NoProbe
    /\ UNCHANGED <<args, job, raised, seed, results>>

BudgetSpent ==
    /\ pc = "probing"
    /\ ~BudgetLeft
    /\ pc' = "closing"
    /\ UNCHANGED <<args, job, raised, seed, active, seq, probe, bans, tally, results, server>>

\* An RPC of the session fails: the exception goes through the finally clause, and
\* what the server made of the call is not seen any more.
CallFails ==
    /\ "call" \in args.faults
    /\ pc \in {"replaying", "probing", "sent"}
    /\ raised' = TRUE
    /\ pc' = "closing"
    /\ UNCHANGED <<args, job, seed, active, seq, probe, bans, tally, results, server>>

\* The server restarts and has forgotten the session.
Restart ==
    /\ "restart" \in args.faults
    /\ pc \in {"replaying", "probing"} /\ server.hosted
    /\ server' = Gone
    /\ UNCHANGED <<args, job, pc, raised, seed, active, seq, probe, bans, tally, results>>

\* What a sweep keeps of a session.
Summary ==
    [ mutant |-> Chosen(Job).id, success |-> tally.success # NoId, best |-> tally.best,
      rejected |-> tally.rejected, attempts |-> tally.attempts ]

\* DestroySession; the summary goes to the sweep, which runs the next session, unless
\* an exception passes through.
Close ==
    /\ pc = "closing"
    /\ server' = Gone
    /\ results' = IF raised THEN results ELSE Append(results, Summary)
    /\ IF raised \/ job = Len(args.jobs)
       THEN pc' = "done" /\ UNCHANGED job
       ELSE pc' = "starting" /\ job' = job + 1
    /\ UNCHANGED <<args, raised, seed, active, seq, probe, bans, tally>>

CloseFails ==
    /\ "close" \in args.faults
    /\ pc = "closing"
    /\ server' \in {server, Gone}
    /\ raised' = TRUE
    /\ pc' = "done"
    /\ UNCHANGED <<args, job, seed, active, seq, probe, bans, tally, results>>

Progress ==
    \/ Start
    \/ \E reply \in SeedReplies : Replay(reply)
    \/ SeedReplayed \/ Guided \/ Chaos
    \/ \E reply \in ProbeReplies, score \in Scores \cup {NoScore} : Answered(reply, score)
    \/ BudgetSpent \/ Close

ProberNext == Progress \/ StartFails \/ CallFails \/ Restart \/ CloseFails

ProberSpec == ProberInit /\ [][ProberNext]_proberVars

\* The prober is one thread whose calls are answered or fail.
ProberFairSpec == ProberSpec /\ WF_proberVars(Progress)

\* The sorting of the results: successes first, then by score, of which none counts as
\* 0, then by rejections; and as they came where these are equal.
Score(x) == IF x.best = NoScore THEN 0 ELSE x.best

WorstFirst(a, b) ==                        \* mutant: the score's sign in the sort key
    \/ a.success /\ ~b.success
    \/ /\ a.success = b.success
       /\ \/ Score(a) < Score(b)
          \/ Score(a) = Score(b) /\ a.rejected < b.rejected

Better(a, b) ==
    \/ a.success /\ ~b.success
    \/ /\ a.success = b.success
       /\ \/ Score(a) > Score(b)
          \/ Score(a) = Score(b) /\ a.rejected < b.rejected

Ranking == {p \in (DOMAIN results) \X (DOMAIN results) :
                \/ Better(results[p[1]], results[p[2]])
                \/ ~Better(results[p[2]], results[p[1]]) /\ p[1] < p[2]}

Leaderboard ==
    LET order == InOrder(DOMAIN results, Ranking)
    IN  [n \in DOMAIN order |-> results[order[n]]]

=============================================================================

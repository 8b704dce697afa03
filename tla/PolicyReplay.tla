---------------------------- MODULE PolicyReplay ----------------------------
(***************************************************************************)
(* The agent's detection of a stream of file events, the rows it stores, and *)
(* the read-only tools that replay those rows: the comparison of two         *)
(* policies (policy simulate) and the audit of the approved changes (policy  *)
(* audit-exceptions).                                                        *)
(*                                                                           *)
(* The rows come from one agent.  Beside it every policy of Policies runs in *)
(* an engine of its own, on the same events as its agent would sample them,  *)
(* so that a replay can be compared with what that policy decided live.      *)
(***************************************************************************)
EXTENDS DetectionEngine

CONSTANTS
    Policies,     \* policy name -> its detection and response settings
    Recorders,    \* the policies of agents whose rows are replayed
    Templates,    \* the events that may happen: records without id and time
    Steps,        \* time from the newest event to the next; negative is late
    MaxHistory,   \* bound: number of events
    RowLimit      \* max_events of the range query

ASSUME ReplayConstants ==
    /\ Recorders \subseteq DOMAIN Policies
    /\ MaxHistory \in Nat /\ RowLimit \in Nat \ {0}
    /\ \A p \in DOMAIN Policies : Valid(Policies[p])

VARIABLES
    recorder,  \* the policy of the agent that stores the rows
    seen,      \* the events, with what their files hold (front, bits, odd)
    rows,      \* file_events: the same events as the recorder stored them
    engines,   \* policy -> the engine of the agent that runs it
    evals      \* policy -> its live evaluations, by row

vars == <<recorder, seen, rows, engines, evals>>

Init ==
    /\ recorder \in Recorders
    /\ seen = <<>>
    /\ rows = <<>>
    /\ engines = [p \in DOMAIN Policies |-> EmptyEngine]
    /\ evals = [p \in DOMAIN Policies |-> <<>>]

Newest == IF rows = <<>> THEN 0 ELSE Max({rows[i].time : i \in 1..Len(rows)})

\* process_event: the event is sampled, scored and stored before the next one is read.
Observe(t, d) ==
    LET e == t @@ [id |-> Len(rows) + 1, time |-> Newest + d]
        out == [p \in DOMAIN Policies |->
                  Evaluate(engines[p], Policies[p], Collected(Policies[p], e))]
    IN  /\ Len(rows) < MaxHistory
        /\ Newest + d >= 0
        /\ seen' = Append(seen, e)
        /\ rows' = Append(rows, Collected(Policies[recorder], e))
        /\ engines' = [p \in DOMAIN Policies |-> out[p].engine]
        /\ evals' = [p \in DOMAIN Policies |-> Append(evals[p], out[p].eval)]
        /\ UNCHANGED recorder

Next == \E t \in Templates, d \in Steps : Observe(t, d)

Spec == Init /\ [][Next]_vars

-----------------------------------------------------------------------------
(* file_events_in_range: both ends included, ordered by time and id, the     *)
(* first RowLimit rows.                                                      *)
InRange(from, to) ==
    LET all == {rows[i] : i \in {j \in 1..Len(rows) : from <= rows[j].time /\ rows[j].time <= to}}
        before(x, y) == x.time < y.time \/ (x.time = y.time /\ x.id < y.id)
        ordered == SetToSortSeq(all, before)
    IN [events |-> SubSeq(ordered, 1, Min({Len(ordered), RowLimit})),
        truncated |-> Len(ordered) > RowLimit]

\* policy_window_secs
PolicyWindow(cfg) == Max({cfg.window, Span(cfg)})

\* Mutant: the warm-up covers the window of the first scorer only.
WarmupOfScorer(from, base, cand) == Max({0, from - Max({base.window, cand.window})})

\* load_simulation_range: the warm-up starts the longest window of either policy earlier.
WarmupFrom(from, base, cand) == Max({0, from - Max({PolicyWindow(base), PolicyWindow(cand)})})

\* Stored evidence is kept as it is, except that a policy without sample bytes
\* sees no entropy.
Replayed(cfg, e) == IF cfg.head = NoSample THEN [e EXCEPT !.entropy = NoSample] ELSE e

\* A fresh engine run over rows: the evaluations, one per row.
Extended(run, out) == [engine |-> out.engine, evals |-> Append(run.evals, out.eval)]
RunOver(cfg, events) ==
    FoldLeft(LAMBDA run, e : Extended(run, Evaluate(run.engine, cfg, Replayed(cfg, e))),
             [engine |-> EmptyEngine, evals |-> <<>>], events).evals

Key(e) == <<e.pid, e.inst>>

\* The processes above block_score from `from` on, ev being the evaluations of events.
Targets(cfg, events, from, ev) ==
    {Key(events[i]) : i \in {j \in 1..Len(events) :
        events[j].time >= from /\ BlockCandidate(cfg, events[j], ev[j])}}

\* replay
Replay(cfg, events, from) ==
    LET ev == RunOver(cfg, events)
    IN [evals |-> ev, targets |-> Targets(cfg, events, from, ev)]

\* The targets an automatic response would stop: those with a known identity.
BlockTargets(cfg, targets) == {k \in targets : cfg.autoBlock /\ k[2] # 0}

\* The warnings that stored samples do not show what the candidate would collect.
SamplingWarned(base, cand) == base.head # cand.head \/ base.content # cand.content

\* The difference of what two policies would stop.
Compared(base, cand, old, new) ==
    [base |-> old, cand |-> new, warned |-> SamplingWarned(base, cand),
     added |-> BlockTargets(cand, new.targets) \ BlockTargets(base, old.targets),
     removed |-> BlockTargets(base, old.targets) \ BlockTargets(cand, new.targets)]

\* simulate: both policies over the same rows.
Simulate(base, cand, events, from) ==
    Compared(base, cand, Replay(base, events, from), Replay(cand, events, from))

\* Mutant: the projection drops the changes that do not adjust the rule.
ProjectedWithout(cfg, rule) ==
    [cfg EXCEPT !.approvals = SelectSeq(cfg.approvals, LAMBDA c : rule \in c.rules)]

\* The policy in which every approved change adjusts at most one rule; it keeps its place.
Projected(cfg, rule) ==
    [cfg EXCEPT !.approvals = [i \in 1..Len(cfg.approvals) |->
                                 [cfg.approvals[i] EXCEPT !.rules = @ \cap {rule}]]]

\* audit_exceptions: the row ids attributed to each approved change.
AuditExceptions(cfg, from, to) ==
    LET without == [cfg EXCEPT !.approvals = <<>>]
        events == InRange(WarmupFrom(from, cfg, without), to).events
        rules == UNION {cfg.approvals[i].rules : i \in 1..Len(cfg.approvals)}
        matched(r) ==
            LET ev == RunOver(Projected(cfg, r), events)
            IN {<<ev[j].approval, j>> :
                  j \in {x \in 1..Len(events) : r = BehaviorRule \/ events[x].action \in Changes}}
        hits == {h \in UNION {matched(r) : r \in rules} : events[h[2]].time >= from}
    IN [i \in 1..Len(cfg.approvals) |-> {events[h[2]].id : h \in {x \in hits : x[1] = i}}]

-----------------------------------------------------------------------------
\* The rows came in the order of their times.
InOrder == \A i \in 2..Len(rows) : rows[i - 1].time <= rows[i].time

\* What the engines remember never exceeds the limits of the policy, whatever
\* the order of the events: the scorer's windows, the observations and groups of
\* the aggregation, the canary cooldowns.  A group holds only observations that
\* the aggregation still has, oldest first, and no group is empty.
BoundedMemory ==
    \A p \in DOMAIN Policies :
        LET s == engines[p].scorer
            m == engines[p].multi
        IN  /\ Cardinality(DOMAIN s.windows) <= MaxGroups /\ Backlog(s.windows) <= MaxEvents
            /\ DOMAIN s.emit \subseteq DOMAIN s.windows /\ DOMAIN s.idents = DOMAIN s.windows
            /\ Len(m.events) <= MaxEvents /\ Cardinality(DOMAIN m.groups) <= MaxGroups
            /\ Cardinality(DOMAIN engines[p].canary) <= MaxGroups
            /\ \A k \in DOMAIN m.groups :
                  LET g == m.groups[k].events
                  IN g # <<>> /\ SelectSeq(m.events, LAMBDA x : k \in x.keys /\ x.id >= g[1].id) = g

\* The events that should count for event n of policy cfg in a window of the
\* scorer: of the process that has the PID since it was last seen to change.
ProcessRows(cfg, n, span) ==
    LET e == rows[n]
        same == {j \in 1..n : rows[j].pid = e.pid /\ rows[j].path \notin LongPaths \cup cfg.excluded}
        since == {j \in same : \A k \in same : k >= j => rows[k].inst = e.inst}
    IN {j \in since : rows[j].time >= e.time - span}

\* The events that should count for event n in a window of group k of the aggregation.
GroupRows(cfg, n, k, span) ==
    {j \in 1..n : /\ k \in GroupKeys(rows[j]) /\ rows[j].action \in Changes
                  /\ rows[j].path \notin LongPaths \cup cfg.excluded
                  /\ k[1] \notin AdjustedRules(cfg, FirstApproval(cfg, rows[j]))
                  /\ rows[j].time >= rows[n].time - span}

\* A score that makes a process eligible for a response is the score of all the
\* evidence against that process and of nothing else: entries dropped at a limit,
\* a reused PID, an approved change, or late events never leave an eligible score
\* that is too high or too low.  The scorer's own score is exact for events in
\* order, the aggregation's for events in any order.  An alert of a group (a
\* path, a user, an ancestor) has the score of all events of the group, unless
\* the evaluation says that its evidence is incomplete.
EligibleIsExact ==
    \A p \in DOMAIN Policies : rows # <<>> =>
        LET cfg == Policies[p]
            n == Len(rows)
            e == rows[n]
            eval == Last(evals[p])
            score(S, mass) ==
                Score(SetToSeq({Entry(cfg, Collected(cfg, seen[j])) : j \in S}), mass, cfg.fanotify)
            own == {j \in ProcessRows(cfg, n, cfg.window) :
                      BehaviorRule \notin AdjustedRules(cfg, FirstApproval(cfg, rows[j]))}
            mine(w) == GroupRows(cfg, n, <<"instance", e.pid, e.inst>>, w.span)
            open == {w \in cfg.windows : Cardinality({rows[j].path : j \in mine(w)}) >= w.minFiles}
        IN  /\ InOrder /\ eval.own # Never => eval.own = score(own, cfg.mass)
            /\ eval.instance # Never => eval.instance = Max({score(mine(w), w.mass) : w \in open})
            /\ \A a \in eval.extra, w \in cfg.windows : ~eval.truncated /\ a[2] = w.span =>
                  engines[p].multi.groups[a[1]].emit[w.span]
                    = <<e.time, score(GroupRows(cfg, n, a[1], w.span), w.mass)>>

\* The engines stay bounded and yet exact (evaluate of argos-detect, at its limits).
EngineIsExact == BoundedMemory /\ EligibleIsExact

\* A simulation gives each policy the decisions an agent with that policy took
\* live: for every start of the evaluated range, the same eligible scores and so
\* the same processes stopped by only one of the two policies, wherever the
\* agent's evidence was complete and the events came in order.  The candidate's
\* part is claimed unless the report warns that it samples files differently;
\* the rows are those of an agent with the baseline policy.
SimulationIsExact ==
    \A from \in {rows[i].time : i \in 1..Len(rows)}, c \in DOMAIN Policies \ {recorder} : InOrder =>
        LET base == Policies[recorder]
            cand == Policies[c]
            range == InRange(WarmupFrom(from, base, cand), Newest)
            events == range.events
            sim == Simulate(base, cand, events, from)
            shown == {i \in 1..Len(events) : events[i].time >= from}
            live(p, i) == evals[p][events[i].id]
            agrees(p, again) ==
                \A i \in shown : ~live(p, i).truncated =>
                    again[i].eligible = live(p, i).eligible /\ again[i].score = live(p, i).score
            complete == ~range.truncated
                        /\ \A i \in shown : ~live(recorder, i).truncated /\ ~live(c, i).truncated
            stopped(p) == {Key(rows[i]) : i \in {j \in 1..Len(rows) :
                /\ Policies[p].autoBlock /\ rows[j].inst # 0 /\ rows[j].time >= from
                /\ BlockCandidate(Policies[p], rows[j], evals[p][j])}}
        IN  /\ agrees(recorder, sim.base.evals)
            /\ ~sim.warned => agrees(c, sim.cand.evals)
            /\ ~sim.warned /\ complete => /\ sim.added = stopped(c) \ stopped(recorder)
                                         /\ sim.removed = stopped(recorder) \ stopped(c)

\* The audit attributes a change of a file to an approved change exactly when the
\* agent, running the whole policy, did: changes that overlap keep the order of
\* the policy although each rule is replayed alone.
AuditMatchesLive ==
    \A p \in DOMAIN Policies : InOrder /\ rows # <<>> =>
        LET cfg == Policies[p]
            audit == AuditExceptions(cfg, 0, Newest)
            loaded == InRange(0, Newest).events
        IN \A i \in 1..Len(cfg.approvals), x \in 1..Len(loaded) :
              loaded[x].action \in Changes =>
                  (loaded[x].id \in audit[i] <=> evals[p][loaded[x].id].approval = i)

\* A threshold that the validation of a policy calls unreachable is never
\* reached: from what its own sampling can collect, no evaluation exceeds the
\* highest score it announces and no alert of a time window exceeds the one it
\* announces for the windows, and nor does a simulation on rows of the baseline
\* policy that does not warn of different sampling.
UnreachableIsUnreached ==
    /\ \A p \in DOMAIN Policies :
          LET most == MaxScore(Policies[p]) * Scale
              groups == engines[p].multi.groups
          IN  /\ \A i \in 1..Len(rows) : evals[p][i].score <= most
              /\ \A k \in DOMAIN groups : \A span \in DOMAIN groups[k].emit :
                    groups[k].emit[span][2] <= BaseMaxScore(Policies[p]) * Scale
    /\ \A c \in DOMAIN Policies : ~SamplingWarned(Policies[recorder], Policies[c]) =>
          LET again == RunOver(Policies[c], InRange(0, Newest).events)
          IN \A i \in 1..Len(again) : again[i].score <= MaxScore(Policies[c]) * Scale

=============================================================================

-------------------------- MODULE DetectionEngine --------------------------
(***************************************************************************)
(* The detection engine of argos-detect as a pure function of its state and *)
(* the next event, the way the agent and the policy simulation both use it. *)
(*                                                                          *)
(* An event is [id, time, pid, inst, path, action, entropy, content, odd].  *)
(* inst stands for the start identity (start ticks and boot id), 0 when it  *)
(* is unknown.  Uid, ancestry, protected root and path length are functions *)
(* of the instance and of the path.                                         *)
(*                                                                          *)
(* entropy is the event's entropy and content the largest entropy of its    *)
(* content samples, in whole bits per byte; NoSample stands for a value     *)
(* that was not collected.  odd is what file type and comparison with the   *)
(* previous samples say: an increase, or no earlier sample and no format    *)
(* that is dense by nature.                                                 *)
(***************************************************************************)
EXTENDS Integers, Sequences, FiniteSets, SequencesExt, FiniteSetsExt, TLC

CONSTANTS
    Root,       \* path -> the deepest protected_paths entry above it, or NoRoot
    NoRoot,
    LongPaths,  \* paths longer than max_path_bytes
    Uid,        \* instance -> effective uid
    Ancestors,  \* instance -> the recorded ancestors (at most four, not PID 1)
    MaxEvents,  \* multi_window.max_events
    MaxGroups,  \* multi_window.max_groups
    Scale       \* common multiple of the counts in a score, to keep it exact

ASSUME EngineConstants ==
    MaxEvents \in Nat \ {0} /\ MaxGroups \in Nat \ {0} /\ Scale \in Nat \ {0}

BehaviorRule == "behavior"
MultiRules == {"instance", "user_path", "protected_path", "ancestor"}
Changes == {"create", "modify", "delete", "rename"}
Never == -1

Without(f, k) == [x \in DOMAIN f \ {k} |-> f[x]]
Kept(f, S) == [x \in DOMAIN f \cap S |-> f[x]]
Put(f, k, v) == (k :> v) @@ f

NoSample == -1

(* The evidence of encryption.  cfg.head is log2 of entropy_sample_bytes, NoSample *)
(* for 0; cfg.content is log2 of content_sampling.total_bytes, NoSample when       *)
(* content sampling is off.                                                        *)

\* What the agent with this policy collects from the file of event e: the entropy
\* at the front of the file and the largest anywhere in it are e.front and e.bits
\* (NoSample: the file cannot be read), and 2^n bytes show at most n bits.
Collected(cfg, e) ==
    LET sampled == cfg.content # NoSample /\ e.action \in {"create", "modify"}
        headed == cfg.content = NoSample /\ e.action = "modify"
    IN [id |-> e.id, time |-> e.time, pid |-> e.pid, inst |-> e.inst, path |-> e.path,
        action |-> e.action, odd |-> e.odd,
        content |-> IF sampled THEN Min({e.bits, cfg.content}) ELSE NoSample,
        entropy |-> IF sampled THEN Min({e.front, cfg.content})
                    ELSE IF headed THEN Min({e.front, cfg.head}) ELSE NoSample]

EncryptionSignal(cfg, e) ==
    IF cfg.content # NoSample /\ e.content # NoSample
    THEN e.content >= cfg.threshold /\ e.odd
    ELSE cfg.head # NoSample /\ e.entropy # NoSample /\ e.entropy >= cfg.threshold

\* What a window keeps of an event.
Entry(cfg, e) ==
    [id |-> e.id, time |-> e.time, path |-> e.path, action |-> e.action, enc |-> EncryptionSignal(cfg, e)]

(* Scoring. *)
Paths(w) == {w[i].path : i \in 1..Len(w)}
HighPaths(w) == {w[i].path : i \in {j \in 1..Len(w) : w[j].action = "modify" /\ w[j].enc}}
Churn(w) == Cardinality({i \in 1..Len(w) : w[i].action \in {"rename", "delete"}})

\* 40 for mass, 35 (fanotify: 60) for high entropy, 25 (fanotify: none) for churn.
Score(w, mass, fanotify) ==
    LET n == Cardinality(Paths(w))
        m == Max({1, mass})
    IN  IF w = <<>> THEN 0
        ELSE (40 * Scale * Min({n, m})) \div m
             + ((IF fanotify THEN 60 ELSE 35) * Scale * Cardinality(HighPaths(w))) \div n
             + (IF fanotify THEN 0 ELSE (25 * Scale * Churn(w)) \div Len(w))

\* A group's last alert suppresses the next for a window, unless the score rose by 15.
Suppressed(emit, k, now, span, score) ==
    k \in DOMAIN emit /\ now - emit[k][1] < span /\ score < emit[k][2] + 15 * Scale

(* validate_configuration: what is refused, and the score it says is the highest. *)
Valid(cfg) ==
    /\ \A i \in 1..Len(cfg.approvals) :
          /\ cfg.approvals[i].from < cfg.approvals[i].until
          /\ cfg.approvals[i].paths # {}
          /\ cfg.approvals[i].rules # {} /\ cfg.approvals[i].rules \subseteq MultiRules \cup {BehaviorRule}
    /\ \A w \in cfg.windows :
          /\ w.span > 0 /\ w.minFiles > 0 /\ w.mass > 0 /\ w.detect \in 0..100
          /\ \A x \in cfg.windows : x.span = w.span => x = w
    /\ Cardinality(cfg.windows) <= 8
    /\ cfg.head = NoSample \/ cfg.head \in Nat
    /\ cfg.content = NoSample \/ cfg.content \in 2..20
    /\ cfg.threshold \in 0..8
    /\ cfg.window > 0 /\ cfg.mass > 0 /\ cfg.minFiles > 0 /\ cfg.detect > 0 /\ cfg.block > 0

\* Mutant: the sample must show more than the threshold.
PossibleAbove(cfg) ==
    LET bits == IF cfg.content # NoSample THEN cfg.content ELSE cfg.head
    IN bits # NoSample /\ Min({bits, 8}) > cfg.threshold

\* entropy_possible: the sample is large enough to show the threshold.
EntropyPossible(cfg) ==
    LET bits == IF cfg.content # NoSample THEN cfg.content ELSE cfg.head
    IN bits # NoSample /\ Min({bits, 8}) >= cfg.threshold

\* base_max_score, the limit for the time windows.
BaseMaxScore(cfg) == IF EntropyPossible(cfg) THEN 100 ELSE IF cfg.fanotify THEN 40 ELSE 65

\* max_score, the limit for detect_score and block_score.
MaxScore(cfg) == IF cfg.canaries = {} THEN BaseMaxScore(cfg) ELSE Max({BaseMaxScore(cfg), 95})

(* The approved changes: the first one that matches decides. *)
ApprovedEvent(c, e) ==
    /\ e.pid # 0 /\ e.inst # 0
    /\ c.from <= e.time /\ e.time < c.until
    /\ e.inst \in c.procs /\ e.path \in c.paths

FirstApproval(cfg, e) ==
    LET hits == {i \in 1..Len(cfg.approvals) : ApprovedEvent(cfg.approvals[i], e)}
    IN IF hits = {} THEN 0 ELSE Min(hits)

AdjustedRules(cfg, i) == IF i = 0 THEN {} ELSE cfg.approvals[i].rules

(* BehaviorScorer: one sliding window per PID. *)
EmptyScorer == [windows |-> <<>>, emit |-> <<>>, idents |-> <<>>, until |-> Never]

Backlog(windows) == MapThenSumSet(LAMBDA p : Len(windows[p]), DOMAIN windows)

\* Entries before the horizon go, and with the last entry the PID's memory.
Expired(s, horizon) ==
    LET cut == [p \in DOMAIN s.windows |-> SelectSeq(s.windows[p], LAMBDA x : x.time >= horizon)]
        live == {p \in DOMAIN cut : cut[p] # <<>>}
    IN [windows |-> Kept(cut, live), emit |-> Kept(s.emit, live), idents |-> Kept(s.idents, live),
        until |-> s.until]

\* A new PID beyond max_groups evicts the window whose last entry is oldest.
MakeRoomForPid(s, e, span) ==
    IF e.pid \in DOMAIN s.windows \/ Cardinality(DOMAIN s.windows) < MaxGroups THEN s
    ELSE LET age(p) == IF s.windows[p] = <<>> THEN 0 ELSE Last(s.windows[p]).time
             oldest == Min({p \in DOMAIN s.windows : \A q \in DOMAIN s.windows : age(p) <= age(q)})
         IN [windows |-> Without(s.windows, oldest), emit |-> Without(s.emit, oldest),
             idents |-> Without(s.idents, oldest), until |-> e.time + span]

\* Mutant: the oldest entry goes and the result is not marked incomplete.
MakeRoomSilently(s, e, span) ==
    IF Backlog(s.windows) < MaxEvents THEN s
    ELSE LET full == {p \in DOMAIN s.windows : s.windows[p] # <<>>}
             oldest == Min({p \in full : \A q \in full : s.windows[p][1].time <= s.windows[q][1].time})
         IN [s EXCEPT !.windows = [s.windows EXCEPT ![oldest] = Tail(@)]]

\* At max_events the oldest entry of all goes and the window is marked incomplete.
MakeRoomForEntry(s, e, span) ==
    IF Backlog(s.windows) < MaxEvents THEN s
    ELSE LET full == {p \in DOMAIN s.windows : s.windows[p] # <<>>}
             oldest == Min({p \in full : \A q \in full : s.windows[p][1].time <= s.windows[q][1].time})
         IN [s EXCEPT !.windows = [s.windows EXCEPT ![oldest] = Tail(@)], !.until = e.time + span]

\* A PID that another process has now starts with no evidence.
Identified(s, e) ==
    LET reused == e.pid \in DOMAIN s.idents /\ s.idents[e.pid] # e.inst
    IN [windows |-> IF reused THEN Without(s.windows, e.pid) ELSE s.windows,
        emit |-> IF reused THEN Without(s.emit, e.pid) ELSE s.emit,
        idents |-> Put(s.idents, e.pid, e.inst), until |-> s.until]

\* The entry, unless it is approved, joins the PID's window, which is then judged.
Judged(s, cfg, e, approved) ==
    LET old == IF e.pid \in DOMAIN s.windows THEN s.windows[e.pid] ELSE <<>>
        win == IF approved THEN old ELSE Append(old, Entry(cfg, e))
        incomplete == s.until # Never /\ e.time <= s.until
        score == Score(win, cfg.mass, cfg.fanotify)
        eligible == Cardinality(Paths(win)) >= cfg.minFiles /\ ~incomplete
        alert == eligible /\ score >= cfg.detect * Scale
                 /\ ~Suppressed(s.emit, e.pid, e.time, cfg.window, score)
    IN [state |-> [windows |-> Put(s.windows, e.pid, win), idents |-> s.idents, until |-> s.until,
                   emit |-> IF alert THEN Put(s.emit, e.pid, <<e.time, score>>) ELSE s.emit],
        eligible |-> eligible, score |-> score, alert |-> alert, truncated |-> incomplete]

\* evaluate_with_approval: [state, eligible, score, alert, truncated].
Scored(s0, cfg, e, approved) ==
    LET room == MakeRoomForEntry(MakeRoomForPid(Expired(s0, e.time - cfg.window), e, cfg.window), e, cfg.window)
    IN  IF e.path \in LongPaths
        THEN [state |-> room, eligible |-> FALSE, score |-> 0, alert |-> FALSE, truncated |-> TRUE]
        ELSE Judged(Identified(room, e), cfg, e, approved)

(* MultiWindowScorer: bounded aggregation by instance, path, user and ancestor. *)
EmptyMulti == [events |-> <<>>, groups |-> <<>>, water |-> 0, until |-> Never]

Span(cfg) == IF cfg.windows = {} THEN 0 ELSE Max({w.span : w \in cfg.windows})

GroupKeys(e) ==
    LET known == e.pid # 0 /\ e.inst # 0
        root == Root[e.path]
    IN  (IF known THEN {<<"instance", e.pid, e.inst>>} ELSE {})
        \cup (IF root = NoRoot THEN {} ELSE {<<"protected_path", known, root>>})
        \cup (IF root = NoRoot \/ ~known THEN {}
              ELSE {<<"user_path", Uid[e.inst], root>>}
                   \cup {<<"ancestor", a, root>> : a \in Ancestors[e.inst]})

\* expire_front: the oldest observation leaves its groups, and empty groups go.
ExpireFront(m) ==
    LET old == Head(m.events)
        cut == [k \in DOMAIN m.groups |->
                  IF k \in old.keys /\ m.groups[k].events[1].id = old.id
                  THEN [m.groups[k] EXCEPT !.events = Tail(@)] ELSE m.groups[k]]
    IN [m EXCEPT !.events = Tail(@), !.groups = Kept(cut, {k \in DOMAIN cut : cut[k].events # <<>>})]

RECURSIVE ExpireBefore(_, _)
ExpireBefore(m, horizon) ==
    IF m.events # <<>> /\ m.events[1].time < horizon THEN ExpireBefore(ExpireFront(m), horizon) ELSE m

\* A new group beyond max_groups evicts the one whose last event is oldest.
AddToGroup(m, k, x, mark) ==
    LET full == k \notin DOMAIN m.groups /\ Cardinality(DOMAIN m.groups) >= MaxGroups
        oldest == CHOOSE g \in DOMAIN m.groups :
                     \A h \in DOMAIN m.groups : Last(m.groups[g].events).time <= Last(m.groups[h].events).time
        groups == IF full THEN Without(m.groups, oldest) ELSE m.groups
        g == IF k \in DOMAIN groups THEN groups[k] ELSE [events |-> <<>>, emit |-> <<>>]
    IN [m EXCEPT !.groups = Put(groups, k, [g EXCEPT !.events = Append(@, x)]),
                 !.until = IF full THEN mark ELSE @]

Inserted(m0, cfg, e, keys, mark) ==
    LET m == IF Len(m0.events) >= MaxEvents THEN [ExpireFront(m0) EXCEPT !.until = mark] ELSE m0
        x == Entry(cfg, e) @@ [keys |-> keys]
        added == FoldLeft(LAMBDA acc, k : AddToGroup(acc, k, x, mark), m, SetToSeq(keys))
    IN [added EXCEPT !.events = Append(@, x)]

\* The events of a group inside one of the windows.
Selected(m, k, w) == SelectSeq(m.groups[k].events, LAMBDA x : x.time >= m.water - w.span)

\* The windows of the group in which enough files changed.
Open(m, cfg, k) ==
    {w \in cfg.windows : Cardinality(Paths(Selected(m, k, w))) >= w.minFiles}

Alerting(m, cfg, k) ==
    {w \in Open(m, cfg, k) :
        LET score == Score(Selected(m, k, w), w.mass, cfg.fanotify)
        IN score >= w.detect * Scale /\ ~Suppressed(m.groups[k].emit, w.span, m.water, w.span, score)}

\* The groups that alert remember when and how high, by window.
Emitted(m, cfg, k) ==
    LET spans == {w.span : w \in Alerting(m, cfg, k)}
        score(span) == Max({Score(Selected(m, k, w), w.mass, cfg.fanotify) :
                              w \in {x \in cfg.windows : x.span = span}})
    IN [span \in DOMAIN m.groups[k].emit \cup spans |->
          IF span \in spans THEN <<m.water, score(span)>> ELSE m.groups[k].emit[span]]

\* The groups of the event, after it was inserted, are judged window by window.
GroupsJudged(m, cfg, keys) ==
    LET truncated == m.until # Never /\ m.water <= m.until
        shown == keys \cap DOMAIN m.groups
        own == UNION {{Score(Selected(m, k, w), w.mass, cfg.fanotify) : w \in Open(m, cfg, k)} :
                      k \in {k \in shown : k[1] = "instance"}}
    IN [state |-> [m EXCEPT !.groups = [k \in DOMAIN m.groups |->
                      IF k \in shown THEN [m.groups[k] EXCEPT !.emit = Emitted(m, cfg, k)] ELSE m.groups[k]]],
        score |-> IF truncated \/ own = {} THEN Never ELSE Max(own),
        alerts |-> UNION {{<<k, w.span>> : w \in Alerting(m, cfg, k)} : k \in shown},
        truncated |-> truncated]

\* evaluate: [state, score (Never: none), alerts, truncated].
MultiScored(m0, cfg, e, adjusted) ==
    LET now == Max({m0.water, e.time})
        aged == ExpireBefore([m0 EXCEPT !.water = now], now - Span(cfg))
        mark == now + Span(cfg)
        included == {k \in GroupKeys(e) : k[1] \notin adjusted}
    IN  IF cfg.windows = {}
        THEN [state |-> m0, score |-> Never, alerts |-> {}, truncated |-> FALSE]
        ELSE IF e.time < now \/ e.path \in LongPaths
        THEN [state |-> [aged EXCEPT !.until = mark], score |-> Never, alerts |-> {}, truncated |-> TRUE]
        ELSE GroupsJudged(IF included # {} /\ e.action \in Changes
                          THEN Inserted(aged, cfg, e, included, mark) ELSE aged, cfg, GroupKeys(e))

\* Whether an approved change left the event out of one of its groups.
LeftOut(m0, cfg, e, adjusted) ==
    /\ cfg.windows # {} /\ e.time >= m0.water /\ e.path \notin LongPaths
    /\ \E k \in GroupKeys(e) : k[1] \in adjusted

(* The canary files: always critical, with a cooldown of their own. *)
Tampered(cfg, e) == e.path \in cfg.canaries /\ e.action \in {"modify", "delete", "rename"}

CanaryEmitted(canary, cfg, e) ==
    LET k == <<e.pid, e.inst, e.path>>
        full == k \notin DOMAIN canary /\ Cardinality(DOMAIN canary) >= MaxGroups
        oldest == CHOOSE g \in DOMAIN canary : \A h \in DOMAIN canary : canary[g] <= canary[h]
    IN [due |-> ~(k \in DOMAIN canary /\ e.time - canary[k] < cfg.window),
        evicts |-> full,
        map |-> Put(IF full THEN Without(canary, oldest) ELSE canary, k, e.time)]

(* DetectionEngine::evaluate. *)
EmptyEngine == [scorer |-> EmptyScorer, multi |-> EmptyMulti, canary |-> <<>>]

Quiet == [eligible |-> FALSE, score |-> 0, alert |-> FALSE, extra |-> {}, approval |-> 0,
          truncated |-> FALSE, own |-> Never, instance |-> Never]

\* The verdicts of the two scorers are one evaluation.
Combined(own, multi, approval) ==
    [eligible |-> own.eligible \/ multi.score # Never,
     score |-> Max({own.score, multi.score}),
     alert |-> own.alert, extra |-> multi.alerts,
     approval |-> approval,
     truncated |-> own.truncated \/ multi.truncated,
     own |-> IF own.eligible THEN own.score ELSE Never,
     instance |-> multi.score]

Both(eng, own, multi, approval) ==
    [engine |-> [eng EXCEPT !.scorer = own.state, !.multi = multi.state],
     eval |-> Combined(own, multi, approval)]

\* The two scorers together; excluded paths reach neither.
Assessed(eng, cfg, e) ==
    LET i == FirstApproval(cfg, e)
        rules == AdjustedRules(cfg, i)
    IN  IF e.path \in cfg.excluded THEN [engine |-> eng, eval |-> Quiet]
        ELSE Both(eng, Scored(eng.scorer, cfg, e, BehaviorRule \in rules),
                  MultiScored(eng.multi, cfg, e, rules),
                  IF BehaviorRule \in rules \/ LeftOut(eng.multi, cfg, e, rules) THEN i ELSE 0)

\* A tampered canary file makes the evaluation a of the event critical.
Alarmed(a, c, cfg) ==
    LET score == Max({a.eval.score, 95 * Scale})
        emits == c.due /\ score >= cfg.detect * Scale
    IN [engine |-> [a.engine EXCEPT !.canary = IF emits THEN c.map ELSE @],
        eval |-> [a.eval EXCEPT !.eligible = TRUE, !.score = score,
                  !.alert = @ \/ emits, !.truncated = @ \/ (emits /\ c.evicts)]]

Evaluate(eng, cfg, e) ==
    IF Tampered(cfg, e)
    THEN Alarmed(Assessed(eng, cfg, e), CanaryEmitted(eng.canary, cfg, e), cfg)
    ELSE Assessed(eng, cfg, e)

BlockCandidate(cfg, e, eval) == eval.eligible /\ e.pid # 0 /\ eval.score >= cfg.block * Scale

=============================================================================

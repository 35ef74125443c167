------------------------------ MODULE Collection ------------------------------
(***************************************************************************)
(* How the runs of one mission revision collect posts from their sources:  *)
(* the windows and shares a round is planned with (research/               *)
(* query_planning.py, _collect in runtime/evidence_pipeline.py), what each *)
(* collector asks and reports (collectors/), and what the commit keeps of  *)
(* it: posts, budgets, one cursor and one watermark for each source        *)
(* (integration/evidence_store.py).                                        *)
(*                                                                         *)
(* The sources are the environment: posts appear at any time, a source may *)
(* list a post only some time after it was made, answers, fails, or makes  *)
(* its collector raise. Leases and stage checkpoints are ResearchHandler's *)
(* and ResearchRounds' matter: here a round is committed once or its run   *)
(* ends. The content of posts is that of RawSignals.                       *)
(***************************************************************************)
EXTENDS Integers, Sequences, FiniteSetsExt

CONSTANTS
    Posts,          \* the posts there may ever be, in the order of their ids
    Homes,          \* [Posts -> Site]: where each may be, for all of them at once
    QueryOrder,     \* the queries a plan may hold, in the order they compile to
    Queries,        \* [query |-> [source, posts]]: where it asks, the posts it matches
    Plans,          \* sets of queries a round may be planned with
    Bands,          \* the strata of a HUNT, newest first: <<recent, old>>
    Lookback,       \* initial_lookback_days
    Overlap,        \* the 24 hours a MONITOR looks back behind its watermark
    Delay,          \* the longest time after which a source lists a post
    Day,            \* units of time in a day: GitHub's windows are whole days
    Signals,        \* max_raw_signals_per_run
    SourceCap,      \* the most signals of a source in a round
    Requests,       \* max_collector_requests_per_run
    Rounds,         \* how often a run collects
    Runs, Horizon   \* bounds: runs, and the last moment

None == -1          \* no cursor

Site == {"GITHUB", "HACKER_NEWS", "REDDIT"}
\* allocate_signal_budget sorts the sources by their names.
SourceOrder == <<"GITHUB", "HACKER_NEWS", "REDDIT">>

Lower(a, b) == IF a < b THEN a ELSE b
Higher(a, b) == IF a > b THEN a ELSE b

ASSUME CollectionAssumption ==
    /\ Posts \subseteq Nat
    /\ Homes \subseteq [Posts -> Site]
    /\ QueryOrder \in Seq(DOMAIN Queries)
    /\ \A q \in DOMAIN Queries : /\ Queries[q].source \in Site
                                 /\ Queries[q].posts \subseteq Posts
    /\ Plans \subseteq SUBSET DOMAIN Queries
    /\ Bands \in Seq(Nat \X Nat)
    /\ \A b \in DOMAIN Bands : Bands[b][1] < Bands[b][2]
    /\ {Lookback, Day, Signals, SourceCap, Requests} \subseteq Nat \ {0}
    /\ {Overlap, Delay, Rounds, Runs, Horizon} \subseteq Nat
    /\ Delay <= Overlap

VARIABLES
    now,        \* the time
    home,       \* [Posts -> its source], the same all the time
    created,    \* [Posts -> when it was made, -1 when not yet]
    listed,     \* the posts their sources list by now
    stored,     \* the posts raw_signals has a row of
    rows,       \* [source -> its source_checkpoints row: cursor and watermark]
    active,     \* the run that is active
    jobs,       \* the jobs of the round that is collecting, in their order
    answers,    \* what the collector of each has returned, by its index
    runs,       \* how many runs have been started
    passed      \* history: posts not brought by a round that has marked their source

collectionVars == <<now, home, created, listed, stored, rows, active, jobs, answers, runs, passed>>
world == <<now, home, created, listed>>
ledger == <<stored, rows, passed>>

NoRun == [phase |-> "idle", mode |-> "HUNT", until |-> 0, round |-> 0, context |-> <<>>,
          requests |-> 0, kept |-> [s \in Site |-> 0]]

CollectionInit ==
    /\ now = 0
    /\ home \in Homes
    /\ created = [p \in Posts |-> -1]
    /\ listed = {}
    /\ stored = {}
    /\ rows = <<>>
    /\ active = NoRun
    /\ jobs = <<>>
    /\ answers = <<>>
    /\ runs = 0
    /\ passed = {}

-----------------------------------------------------------------------------
(* The sources. *)

\* A post is made; its id comes after those of the posts before it.
Post(p) ==
    /\ created[p] = -1
    /\ \A q \in Posts : q < p => created[q] >= 0
    /\ created' = [created EXCEPT ![p] = now]
    /\ UNCHANGED <<now, home, listed, stored, rows, active, jobs, answers, runs, passed>>

\* Its source lists it.
List(p) == /\ created[p] >= 0
           /\ p \notin listed
           /\ listed' = listed \cup {p}
           /\ UNCHANGED <<now, home, created, stored, rows, active, jobs, answers, runs, passed>>

\* No source takes longer than Delay to list a post.
Tick == /\ now < Horizon
        /\ \A p \in Posts \ listed : created[p] >= 0 => now < created[p] + Delay
        /\ now' = now + 1
        /\ UNCHANGED <<home, created, listed, stored, rows, active, jobs, answers, runs, passed>>

-----------------------------------------------------------------------------
(* Planning a round. *)

Window(since, until) == [since |-> since, until |-> until]

\* The bands that begin within the lookback, cut off where it ends.
Strata(until) ==
    [b \in {b \in DOMAIN Bands : Bands[b][1] < Lookback} |->
        Window(until - Lower(Bands[b][2], Lookback), until - Bands[b][1])]

LastWatermark(context) == Min({context[s].watermark : s \in DOMAIN context})

\* Bug: a MONITOR begins at the watermark, not a day before it.
WindowsWithoutOverlap(mode, until, context) ==
    IF mode = "HUNT" THEN Strata(until) ELSE <<Window(LastWatermark(context), until)>>

Windows(mode, until, context) ==
    IF mode = "HUNT" THEN Strata(until)
    ELSE <<Window(LastWatermark(context) - Overlap, until)>>

\* _allocate_positive: the share of the i-th of n.
Split(total, n, i) == (total \div n) + (IF i <= (total % n) THEN 1 ELSE 0)

\* allocate_signal_budget: the share of the i-th of n sources.
SourceShare(total, n, i) ==
    Lower(Lower(Split(total, n, i), SourceCap), Higher(1, total \div 2))

\* The sources of a plan, by their places in SourceOrder; no more than there are signals.
AskedSources(plan) ==
    {i \in DOMAIN SourceOrder : \E q \in DOMAIN QueryOrder :
        QueryOrder[q] \in plan /\ Queries[QueryOrder[q]].source = SourceOrder[i]}
Rank(i, asked) == Cardinality({j \in asked : j <= i})
ChosenSources(plan, signals) ==
    LET asked == AskedSources(plan) IN asked \ {i \in asked : Rank(i, asked) > signals}

\* A candidate is a query over a window: the places of its source, its query and its window.
Asks(plan, chosen) ==
    {a \in chosen \X (DOMAIN QueryOrder) :
        QueryOrder[a[2]] \in plan /\ Queries[QueryOrder[a[2]]].source = SourceOrder[a[1]]}
Candidates(plan, chosen, windows) ==
    {<<a[1], a[2], w>> : a \in Asks(plan, chosen), w \in DOMAIN windows}

Before(c, d) == \/ c[1] < d[1]
                \/ c[1] = d[1] /\ c[2] < d[2]
                \/ c[1] = d[1] /\ c[2] = d[2] /\ c[3] < d[3]

\* The place of c in S.
Turn(c, S) == Cardinality({d \in S : ~Before(c, d)})

\* The signals of a source are split over its candidates.
SignalLimit(c, candidates, chosen, signals) ==
    LET rivals == {d \in candidates : d[1] = c[1]}
        share == SourceShare(signals, Cardinality(chosen), Rank(c[1], chosen))
    IN  Split(share, Cardinality(rivals), Turn(c, rivals))

\* Those that got signals, and the job of the n-th of them.
Offered(candidates, chosen, signals) ==
    candidates \ {c \in candidates : SignalLimit(c, candidates, chosen, signals) = 0}
Nth(n, S) == CHOOSE c \in S : Turn(c, S) = n

\* The jobs of a plan: each query over each window that got signals, by source; the
\* requests are split over as many of them as there are requests.
Jobs(plan, windows, context, requests, signals) ==
    LET chosen == ChosenSources(plan, signals)
        candidates == Candidates(plan, chosen, windows)
        offered == Offered(candidates, chosen, signals)
        admitted == Lower(Cardinality(offered), requests)
        job(c, n) ==
            [source |-> SourceOrder[c[1]], query |-> QueryOrder[c[2]],
             since |-> windows[c[3]].since, until |-> windows[c[3]].until,
             signals |-> SignalLimit(c, candidates, chosen, signals),
             requests |-> Split(requests, admitted, n),
             cursor |-> IF SourceOrder[c[1]] \in DOMAIN context
                        THEN context[SourceOrder[c[1]]].cursor ELSE None]
    IN  [n \in 1..admitted |-> job(Nth(n, offered), n)]

-----------------------------------------------------------------------------
(* What a collector asks and reports. *)

\* The requests of one bounded_request_json: it is tried three times at most.
Tries(left) == 1..Lower(3, left)

\* What may become of the requests of a collector: answered, failed (it reports
\* SOURCE_UNAVAILABLE and what it sent) or raised (collect_isolated reports none).
Outcome(how, sent) == [how |-> how, sent |-> sent]

\* Reddit asks for a token first; without credentials it asks nothing.
RedditRequests(limit) ==
    {Outcome("failed", 0)} \cup {Outcome(how, t) : how \in {"failed", "raised"}, t \in Tries(limit)}
    \cup UNION {{Outcome(how, t + u) : how \in {"answered", "failed", "raised"}, u \in Tries(limit - t)} :
                   t \in Tries(limit) \ {limit}}

HackerNewsRequests(limit) ==
    {Outcome(how, t) : how \in {"answered", "failed", "raised"}, t \in Tries(limit)}

\* GitHub goes on with the comments of what it found while requests are left.
GitHubRequests(limit) ==
    {Outcome(how, t) : how \in {"answered", "failed", "raised"}, t \in 1..limit}

\* Bug: a retry is not checked against the limit.
SendsRetrying(source, limit) ==
    {Outcome(how, t) : how \in {"answered", "failed", "raised"}, t \in 1..limit + 1}

Sends(source, limit) == CASE source = "REDDIT" -> RedditRequests(limit)
                          [] source = "HACKER_NEWS" -> HackerNewsRequests(limit)
                          [] source = "GITHUB" -> GitHubRequests(limit)

\* Bug: the end of the window belongs to it, and its beginning does not.
InWindowShifted(p, job) == job.since < created[p] /\ created[p] <= job.until

InWindow(p, job) == job.since <= created[p] /\ created[p] < job.until

NewerThan(p, q) == created[p] > created[q] \/ (created[p] = created[q] /\ p > q)
Found(job) == {p \in listed \cap Queries[job.query].posts : home[p] = job.source}
Reply(items, cursor) == [items |-> items, cursor |-> cursor]

\* The n-th page of S, newest first, counted from 0.
Page(S, n, size) == {p \in S : Cardinality({q \in S : NewerThan(q, p)}) \div size = n}

\* Hacker News lists the window, newest first; its pages are numbered from 0.
HackerNewsReplies(job) ==
    LET hits == {p \in Found(job) : InWindow(p, job)}
        page == IF job.cursor = None THEN 0 ELSE job.cursor
        exhausted == (page + 1) * job.signals >= Cardinality(hits)
    IN {Reply(Page(hits, page, job.signals), IF exhausted THEN None ELSE page + 1)}

\* GitHub lists the days of the window by their last update, which is any order
\* here; its pages are numbered from 1, and there is a next one after any issue.
GitHubReplies(job) ==
    LET issues == {p \in Found(job) : /\ job.since \div Day <= created[p] \div Day
                                      /\ created[p] \div Day <= job.until \div Day}
        page == IF job.cursor = None THEN 1 ELSE job.cursor
        size == Lower(job.signals, Higher(0, Cardinality(issues) - (page - 1) * job.signals))
    IN {Reply({p \in T : InWindow(p, job)}, IF T = {} THEN None ELSE page + 1) :
           T \in {T \in SUBSET issues : Cardinality(T) = size}}

\* Reddit lists all of the year, newest first, after the post it is given; the
\* collector keeps what lies in the window.
RedditReplies(job) ==
    LET rest == {p \in Found(job) : job.cursor = None \/ NewerThan(job.cursor, p)}
        page == Page(rest, 0, job.signals)
        more == page # rest
    IN {Reply({p \in page : InWindow(p, job)},
              IF more THEN CHOOSE p \in page : \A q \in page : ~NewerThan(p, q) ELSE None)}

Replies(job) == CASE job.source = "REDDIT" -> RedditReplies(job)
                  [] job.source = "HACKER_NEWS" -> HackerNewsReplies(job)
                  [] job.source = "GITHUB" -> GitHubReplies(job)

\* The watermark a collector reports: the newest of its items, or where it began.
Mark(items, job) == IF items = {} THEN job.since ELSE Max({created[p] : p \in items})

-----------------------------------------------------------------------------
(* The runs. *)

\* load_context: an attempt begins with the rows there are.
StartRun(mode) ==
    /\ active.phase = "idle"
    /\ runs < Runs
    /\ active' = [NoRun EXCEPT !.phase = "ready", !.mode = mode, !.until = now, !.context = rows]
    /\ runs' = runs + 1
    /\ UNCHANGED <<world, ledger, jobs, answers>>

\* A later attempt of the run loads the rows anew.
Resume == /\ active.phase = "ready"
          /\ active.context # rows
          /\ active' = [active EXCEPT !.context = rows]
          /\ UNCHANGED <<world, ledger, jobs, answers, runs>>

LeftRequests == Higher(0, Requests - active.requests)
KeptSignals == SumFunction(active.kept)
LeftSignals == Higher(0, Signals - KeptSignals)

\* _collect up to its reservation, of a plan. A MONITOR without a
\* watermark, one that would end before it begins, and a round without signals
\* to allocate are refused: their run ends (EndRun).
Collect(plan) ==
    /\ active.phase = "ready"
    /\ active.round < Rounds
    /\ LeftSignals > 0
    /\ active.mode = "MONITOR" => /\ active.context # <<>>
                               /\ LastWatermark(active.context) - Overlap < active.until
    /\ LET windows == Windows(active.mode, active.until, active.context)
           made == Jobs(plan, windows, active.context, LeftRequests, LeftSignals)
       IN /\ jobs' = made
          /\ active' = [active EXCEPT !.phase = "collecting", !.round = @ + 1,
                         !.requests = @ + SumFunction([i \in DOMAIN made |-> made[i].requests])]
    /\ answers' = <<>>
    /\ UNCHANGED <<world, ledger, runs>>

\* One collector is done; the others go on (collect_isolated gathers them).
Answer(i) ==
    /\ active.phase = "collecting"
    /\ i \in DOMAIN jobs \ DOMAIN answers
    /\ \E o \in Sends(jobs[i].source, jobs[i].requests), r \in Replies(jobs[i]) :
          LET items == IF o.how = "answered" THEN r.items ELSE {}
              answer == [how |-> o.how, sent |-> o.sent, items |-> items,
                         cursor |-> IF o.how = "answered" THEN r.cursor ELSE None]
          IN answers' = [k \in DOMAIN answers \cup {i} |-> IF k = i THEN answer ELSE answers[k]]
    /\ UNCHANGED <<world, ledger, active, jobs, runs>>

Answered(s) == {i \in DOMAIN answers : jobs[i].source = s /\ answers[i].how = "answered"}

\* Each result that brings a checkpoint replaces the row of its source.
Checkpoints ==
    [s \in DOMAIN rows \cup {s \in Site : Answered(s) # {}} |->
        IF Answered(s) = {} THEN rows[s]
        ELSE LET last == Max(Answered(s))
             IN [cursor |-> answers[last].cursor, watermark |-> Mark(answers[last].items, jobs[last])]]

Brought(i) == Cardinality(answers[i].items)
Items == UNION {answers[i].items : i \in DOMAIN answers}
SignalsBrought == SumFunction([i \in DOMAIN answers |-> Brought(i)])
Charged(i) == IF answers[i].how = "raised" THEN 0 ELSE answers[i].sent
Unspent == SumFunction([i \in DOMAIN jobs |-> jobs[i].requests - Charged(i)])

\* The posts of the sources a round marks that it might have brought.
Missed == {p \in listed \ Items : Answered(home[p]) # {} /\ created[p] < active.until}

\* commit_stage of the collection: what was reserved is given back but for what
\* is charged, the signals are admitted, posts and checkpoints are stored.
Commit ==
    /\ active.phase = "collecting"
    /\ DOMAIN answers = DOMAIN jobs
    /\ KeptSignals + SignalsBrought <= Signals
    /\ active' = [active EXCEPT !.phase = "ready", !.requests = @ - Unspent,
                   !.kept = [s \in Site |-> @[s] +
                       SumFunction([i \in {i \in DOMAIN answers : jobs[i].source = s} |-> Brought(i)])]]
    /\ stored' = stored \cup Items
    /\ rows' = Checkpoints
    /\ passed' = (passed \cup Missed) \ stored'
    /\ jobs' = <<>>
    /\ answers' = <<>>
    /\ UNCHANGED <<world, runs>>

\* The run is over: it has collected, it is refused, or its attempts are used up.
\* What it has reserved or asked without a commit is lost with it.
EndRun == /\ active.phase # "idle"
          /\ active' = NoRun
          /\ jobs' = <<>>
          /\ answers' = <<>>
          /\ UNCHANGED <<world, ledger, runs>>

CollectionNext ==
    \/ Tick \/ Resume \/ Commit \/ EndRun
    \/ \E p \in Posts : Post(p) \/ List(p)
    \/ \E mode \in {"HUNT", "MONITOR"} : StartRun(mode)
    \/ \E plan \in Plans : Collect(plan)
    \/ \E i \in DOMAIN jobs : Answer(i)

CollectionSpec == CollectionInit /\ [][CollectionNext]_collectionVars

-----------------------------------------------------------------------------
(* Properties. *)

Cursor == {None} \cup Nat

\* Types; a watermark lies before the run that has set it, so that a MONITOR is
\* never refused for a window that ends before it begins (query_planning.py:152).
CollectionTypeOK ==
    /\ now \in 0..Horizon /\ home \in Homes
    /\ created \in [Posts -> -1..now]
    /\ stored \subseteq listed /\ passed \subseteq listed
    /\ listed \subseteq {p \in Posts : created[p] >= 0}
    /\ DOMAIN rows \subseteq Site
    /\ \A s \in DOMAIN rows : rows[s].cursor \in Cursor /\ rows[s].watermark < now
    /\ active.phase \in {"idle", "ready", "collecting"}
    /\ active.mode \in {"HUNT", "MONITOR"}
    /\ active.until \in 0..now
    /\ DOMAIN answers \subseteq DOMAIN jobs
    /\ runs \in 0..Runs

\* A post its source had not listed yet when a run last marked that source is in
\* the window of the next MONITOR: the day it looks back, counted from the oldest
\* watermark of all sources, outlasts the delay of every source, whatever cursors
\* and strata were used and whichever collectors have failed. A post is lost only
\* when it was listed, and passed over, in a round that marked its source.
LateArrivalsCovered ==
    \A p \in Posts \ (stored \cup passed) :
        created[p] >= 0 /\ home[p] \in DOMAIN rows
            => Windows("MONITOR", now, rows)[1].since <= created[p]

\* Nothing is sent, charged or kept beyond the budgets of the run, and no source takes
\* more than its part of them: a round reserves no more requests than its run has left, its
\* collectors send no more than was reserved for them, with the retries, the token and the
\* comments, and those that raise and are charged nothing; what they bring is never refused
\* for the signals it takes, no source gets more than half of the signals a round has left,
\* or one, and every job may bring a signal and send a request.
RoundsFit ==
    /\ active.requests <= Requests
    /\ \A i \in DOMAIN answers : answers[i].sent <= jobs[i].requests
    /\ active.phase = "collecting" =>
        /\ DOMAIN answers = DOMAIN jobs => KeptSignals + SignalsBrought <= Signals
        /\ \A i \in DOMAIN jobs : jobs[i].signals > 0 /\ jobs[i].requests > 0
        /\ \A s \in {jobs[i].source : i \in DOMAIN jobs} :
              SumFunction([i \in {i \in DOMAIN jobs : jobs[i].source = s} |-> jobs[i].signals])
                  <= Higher(1, LeftSignals \div 2)
=============================================================================

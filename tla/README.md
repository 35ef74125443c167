# Formal models of GapForge

GapForge collects public posts for a *mission*, reasons about them with a language-model
provider and keeps the opportunities it finds in PostgreSQL. Research happens in *runs*:
a command schedules a run, worker processes poll the database for it, and one worker at a
time works on each of its *tasks* under a lease. This directory models that program in
TLA+, checks small instances with TLC and proves theorems with TLAPS.

Paths below are relative to `src/src/gapforge/` unless they start with `docs/`, `tests/`
or `migrations/`.

    tlc -config RunQueueSafety.cfg MCRunQueue.tla      # model-check a run
    tlapm RunQueueProofs.tla                           # check proofs

## 1. Inventory

| Component | State it keeps | Operations | Talks to |
|---|---|---|---|
| Scheduling and admission: `runtime/assembly.py`, `queue/control.py` | `research_runs` (status, deadline, `budget_used`) | schedule, admit_next, start, consume_budget, finalize_if_idle | CLI, workers, semantic calls |
| Task queue: `queue/repository.py`, `queue/retry.py` | `research_tasks` (status, owner, lease, attempts, error, result) | enqueue, claim, renew_lease, succeed, fail | workers |
| Worker: `worker/runtime.py` | handler and heartbeat of the current task | run_once, run_forever | queue, handler |
| Research handler: `runtime/evidence_pipeline.py` and its neighbours | where the pipeline stands; stages in the checkpoint | about fifteen stages, two rounds | evidence store, collectors, semantic calls |
| Evidence store: `integration/evidence_store.py` | checkpoint (stages, reservations), raw signals, duplicate groups | load_context, load_stage, reserve_external_budget, commit_stage | task and run rows |
| Audited semantic calls: `integration/semantic.py` | `provider_call_leases`, `agent_calls` | run, repair, admit, reconcile, heartbeat, audit | task and run rows, Codex process |
| Structured persistence: `integration/persistence.py`, `mappers.py`, `product_hypotheses.py`, `analysis/identity.py` | clusters, cards, scores, verdicts, lifecycle events, merges | one writer per stage, merge decisions | called by commit_stage and the CLI |
| Lifecycle: `analysis/lifecycle.py` | history of an opportunity | transition, append, reopen | persistence |
| Pure algorithms: `scoring/`, `research/query_planning.py`, `analysis/` | none | gates, windows, allocation, clustering | pipeline |
| Collectors and search: `collectors/`, `search/`, `security/` | none | bounded requests to sources | pipeline |
| Codex process: `providers/` | a process group | run, terminate | semantic calls |
| Storage core: `storage/` | every table and its constraints, unit of work | mission revisions, status | everything |
| CLI: `cli.py` | none | hunt, monitor, mission, merge, report, backup, worker | everything |
| Report artifacts: `reports/` | files, pointer to the latest | persist_run | file system |
| Backup: `backup/service.py` | archives and checksums | create, verify, restore, retention | PostgreSQL tools |
| Health, configuration, logging, smoke | none | checks | everything |

How they interact. Everything durable is a row. `hunt` and `monitor` insert a QUEUED run
with its root task. Each idle worker first asks `admit_next` (finalize the active run if
it is idle; start the next one if none is active), then `claim`. While the handler runs,
a heartbeat renews the lease of the task beside it. The handler loads its context from
the task row, and for each stage loads it, computes it if it is missing and commits it
under the lease. A stage that reasons makes a provider call: admission reconciles stale
calls, takes a lease and a unit of budget in one transaction; a second heartbeat renews
that lease while the provider works; the audit records the call and deletes the lease.
The worker reports with `succeed` or `fail`, which finalize the run in the same
transaction.

What is hard, and what makes each part correct:

* *Admission*: one run in progress, one active run per revision, hunts before monitors,
  although workers poll and die at any time.
* *Queue*: a lease may be lost at any moment without its owner noticing. Only the latest
  claim may settle a task; a run ends exactly when its tasks have settled or its time is
  over; it does end.
* *Handler and checkpoint*: two handlers may run the same task, even under the same
  attempt number. What is committed stays and is not computed again; what is external is
  requested once.
* *Calls*: each unit of budget belongs to one call whoever crashed; the parallel limit
  counts the dead; late answers are dropped; every call leaves a record.
* *Rounds*: a resumed attempt decides again with budgets an earlier one has drawn on; what
  it publishes must fit what was committed, and a stopped round must stay stopped.
* *Locks*: heartbeat, handler and reports lock the same rows from different connections.
* *Collection*: a source lists posts late, fails, or makes its collector raise; the next run
  knows of it only one cursor and one watermark. No post may fall between two windows, and
  no budget be exceeded by retries and shares at their boundaries.
* *Evidence*: an edit of a post makes a revision; what a checkpoint cites stands; the same
  text collected twice is in one duplicate group.
* *Missions, merge decisions*: commands of several operators meet. Revisions form a chain,
  archived is for good, decisions follow each other, nobody waits in a circle.
* *Persistence, lifecycle*: identities are stable across retries and runs; a row that is
  written again must say the same; history, status and snapshots agree; a decision to
  validate stands.
* *Reports, backups*: what is published is complete, and the latest is the newest, also
  after a kill or a power failure between two file replacements; a retention on a list that
  is out of date removes nothing the tiers promise.
* *Provider process*: a call returns although the process ignores signals, leaves
  descendants or keeps its pipes, and the call is cancelled while it is terminated.

`PROJECT.json` lists the hazards line by line, with the properties that cover them.

## 2. Modules

| Module | Models | State |
|---|---|---|
| `RunQueue` | scheduling, admission, queue, worker | `run`, `task` rows; per worker `pc`, `held`, `att`, `age`, `outcome` |
| `ResearchRuns` | what the queue promises, without workers, leases or time | `phase`, `result` |
| `ResearchHandler` | handler, checkpoint and provider calls; EXTENDS `RunQueue` and composes with it | `lease`, `audit`, `used`, `stages`, `reserved`, per worker `at` |
| `ResearchRounds` | the stages of one task, both rounds, their budgets and decisions | `limits`, `used`, `charge`, `reserved`; `done`, `hollow`, `opps`, `asks`, `control`, `result`, `final`; `at`, `view`, `end` |
| `Lifecycle` | what several runs of a mission revision make of the opportunities they find, and the product hypotheses | `status`, `events`, `snapshots`, `growth`, `age`, `products`, `run` |
| `Assessments` | what the life of an opportunity promises, without runs, clusters, critics or time | `status`, `conceived` |
| `RowLocks` | the row locks of the transactions, one step per lock | `phase`, `txn`, `taken` |
| `Collection` | windows, shares and jobs of a round, the three collectors, cursors and watermarks over several runs | `created`, `listed`, `stored`, `rows`, `active`, `jobs`, `answers` |
| `RawSignals` | the stored posts, their revisions and duplicate groups, one step per post | `signals`, `draft`, `named`, `cited` |
| `CodexProcess` | one provider call, its process group and pipes | `point`, `ending`, `cancelled` and the state of the processes |
| `ReportArtifacts` | report files and their directories, pointer and latest report, one step per mkdir, rename or fsync | `files`, `days`, `desk`, `holder`, what of it is durable (`disk`, `lasting`) |
| `Backups` | archives, checksums, retention and restore, one step per file or tool | `archives`, `sums`, `command`, `target` |
| `Missions` | missions, revisions and the commands on them, one step per statement | `missionStatus`, `revisions`, `activeRuns`, `session` |
| `MergeDecisions` | reviewers deciding about merge candidates, one step per statement | `verdict`, `decisions`, `review` |
| `RunQueueProofs`, `ResearchHandlerProofs`, `ResearchRoundsProofs`, `LifecycleProofs`, `CollectionProofs`, `RawSignalsProofs` | theorems about the module of that name | |
| `TransactionsProofs` | theorems about `RowLocks`, `Missions` and `MergeDecisions` | |
| `ArtifactsProofs` | theorems about `Backups` and `ReportArtifacts` | |
| `MCRunQueue`, `MCResearchHandler`, `MCLifecycle` | model values and symmetry | |
| `MCLive`, `MCMission`, `MCParts` | parts that share no state in one run each | `moves`, `moving` |

`MCLive`, `MCMission` and `MCParts` put modules side by side that share no variable: `Init`
chooses which of them moves, and the others rest in their initial state, so that their
states add up instead of multiplying. What holds of such a run holds of each part alone.

### RunQueue

A step is one transaction, or one local step of a process between two transactions.
`Schedule` is `RunScheduler.schedule`; `Admit` is `admit_next` with the `finalize_if_idle`
and `start` it calls, `AdmitElsewhere` the advisory lock that is taken. `ClaimSelect`,
`ClaimLock` and `ClaimRaced` are one transaction of `claim` cut in two: its `SELECT ... FOR
UPDATE OF task` takes the run from the statement's snapshot and re-evaluates only the
task row once the lock is granted, so the run may have ended in between, and another worker
may have claimed the task and given it back to the ended run (`Untouched`). Every claim
begins with `Expire`, which passes over rows another transaction has locked.
`HeartbeatRenews/Overdue/Lost` are the three outcomes of `renew_lease`, `HandlerEnds` the
return or exception of the handler, `ReportSuccess/Failure/Overdue/Lost` those of
`succeed` and `fail`. `ReportLost` ends the process: the `PermissionError` leaves
`run_forever`. `Crash` and `Restart` are the process and its container.

Time stamps are relative to now and saturate at the value below which no comparison of
the code tells them apart, so `Tick` needs no bound. A `GiveBack` task is PENDING in an
ended run, as in the code; only a claim that selected it before the end takes it there.

The partial unique index `uq_research_runs_one_global_active` is left out of the model:
`OneRunning` holds without it, so admission never relies on it.

### ResearchHandler

A call is named by task, attempt, stage and whether it is the repair (`_call_id`).
`LoadContext` reads owner and attempt from the row *as it is by then*; `Writable` is
`_assert_stage_lease` against what was loaded. `Reserve` stands for the requests of a
source: they are sent between `Reserve` and `CommitStage`. `load_context` also takes the
limits net of `budget_used`, so a handler that loads it after a source was reserved has no
request left for it (`found`) and commits the stage empty (step `skip`); one that loads it
before and comes to the reservation later fails with INTEGRITY. `Look`, `AdmitForeign`,
`AdmitDenied`, `AdmitGranted`, `Answer`, `CallBeats`, `CallLost`, `Record` and
`RecordLost` are a call, with `_reconcile_stale_attempts` inside every admission. A call
that is denied still commits the reconciliation, as in the code. Stages differ only in
whether they are external, may be the last (`Closing`: no source had anything, or no
cluster was left) or ask the provider. A stage commits whatever its call returned.

The denials for a call's own earlier attempt (`REPLAY_UNAVAILABLE`,
`INDETERMINATE_ATTEMPT`) are kept in `Denial`; `CallsInOrder` says, among other things, that
the pipeline never meets them: whoever comes to the admission of a call finds it never made.

`load_stage` reads the task without the lock that `commit_stage` takes; a step reads it
at once, and since only a later step writes, nothing is lost by that. Here a reservation
is of the whole budget; amounts are the subject of `ResearchRounds`.

### ResearchRounds

One attempt at a time, without clock or workers: which stages there are, in which order,
what they cost and what comes out. `round1` and `round2` walk `RoundOne` and `RoundTwo`
(`_run`, `_round_two`) by `Due`: the first stage of the round that is not committed.
Between attempts only `budget` and `checkpoint` survive; `Cut` loses the rest, and with it
the calls that were made for a stage not yet committed. `Reason` is a call with or without
its repair, `Denied` and `Invalid` its failures, `CommitEmpty` a batch without a call.
`Reserve`, `Collected` and `NothingToAsk` are the three ways through an external stage:
`Amount` is what the loaded context has left, `actual` what the collectors report, and the
rest is given back. `Decide` writes `RESEARCH_MORE_CONTROL`, `OutOfCalls`, `OutOfSources`,
`Proceed`, `NoNewEvidence` and `RoundTwoOver` are what an attempt may find afterwards; it
counts calls and sources again each time. `Publish`, `Refuse` and `Confirm` are the commit
of FINAL, with what `_persist_final` demands; `view` is the round whose artifacts the attempt
has in hand.

Opportunities are the only data: those of the first round, and which of them the critic
wants more for. What collectors report is taken as what they used. Refusals of the
persistence that come from what earlier runs stored are the subject of `Lifecycle`.

### Lifecycle

A step is the transaction of a stage, or the end of a run, as far as it touches rows that
outlive the run. The identities of problem, cluster and opportunity are made from their
text, one from the other, so one `Opportunity` stands for all three. Rows whose identity
contains the run (cards, scores, critics, hypotheses) never meet an older one; of them only
what is read later is kept, in `run`.

`FitsGrowth` is `_add_or_verify` on a cluster: `last_growth_at` and `accepted_at` come from
the run, so a cluster that another run stored (`GrownBefore`) never fits, and `RefuseCluster`
fails the run. `RefuseExtract` is the same for a pain signal of a post that was sent again:
its row is CLUSTERED by then. `Gap` writes DISCOVERED and RESEARCHING for what is new,
`CardsAgain` may reopen a rejection (`_maybe_reopen_rejected`), `Publish` and `RefuseFinal`
are the commit of FINAL with its snapshots and events; `Fits` is the terminal check and
`transition_lifecycle`, and one opportunity that does not fit refuses the whole commit.
`PassOver` is an attempt that resumes a second round and goes back to the first
(`ResearchRounds` says when). `Abandon` covers every other end of a run, among them the
refusals that depend on content the model leaves out (another wording of a row, claims,
competitors). The database triggers that project an event onto the assessment and check a
snapshot are part of the step that inserts it. `CreateProduct` is a command beside the runs.

One revision is modelled. Runs follow each other because `RunQueue` has one active run of a
revision (`OneActive`). Clusters belong to the whole database; what another mission stored
refuses a run as `RefuseCluster` does, only sooner.

### RowLocks

`RunQueue` and `ResearchHandler` treat transactions as atomic. `RowLocks` looks inside:
`Requests` lists the row locks each kind of transaction asks for, in order, and `Take`
grants one of them. The data is left out: a lease may run out any time, so several
workers may hold the task by their own account, and any transaction may give up. That
over-approximates who runs what, so the absence of deadlocks carries over to the code, for
these rows; the deadlock that is reported was traced through the code by hand. Waits on
unique indexes and PostgreSQL's soft queue edges are left out.

### Collection

The sources are the environment: `Post` and `List` make a post appear, the second up to
`Delay` after the first. `Collect` is `_collect` up to the sends: windows (`Strata` of a HUNT,
watermark less a day for a MONITOR), shares of the signal budget (`SourceShare`), the jobs of
each query over each window, and the reservation of all requests. `Answer` is a collector
that returns, fails or raises (`Sends`, `Replies`, by source): pages within the requests it
was given, retries and tokens counted, GitHub's windows of whole days, cursors of Hacker News.
The jobs are told by counting, not by going through lists: `Turn` is the place of a candidate
among the candidates, `Rank` that of a source among others.
`Commit` gives back what was not charged, admits the signals and replaces cursor and
watermark of each source by those of its last result. `home` distributes the posts over the
sources in `Init`. Only issues are posts of GitHub here, not their comments.

`passed` remembers posts a round could have brought and did not, because its budget ended
before their page or its cursor was behind them; the code keeps no trace of them.

### RawSignals

`Store` and `Recognize` are `_persist_item` of a post that says something new or what it said
at last, `Groups` is `_resolve_duplicate_group` in its order: URL, content hash, MinHash,
trigrams. Which texts are near each other is a constant relation (`Near`, `Lexical`), not
transitive. `Unaccepted` is what the unique constraint on post and content refuses; the whole
collection then rolls back (`RollBack`). A post without a date never comes here: the
collector dates it with its own now, which comes after the end of every window.

### CodexProcess

One call of `AsyncProcessRunner.run` (a probe has two, see `Proceeds`): it starts the leader
of a process group, writes the request, waits with a timeout, terminates the group with
SIGTERM and, after a grace, SIGKILL, and reads the pipes to their end. The processes are the
environment: the leader may exit, ignore SIGTERM or leave a descendant that holds the pipes.
`Cancel` may come at any step, and again during the termination.

### ReportArtifacts

`persist_run` first sees to the dated directory of its report: `Render` looks for it, and if it
is not there `MakeDirectory` makes it, which another may have done since, and `SyncRoot` syncs
the root (`_prepare_directory`); all of that without the lock. Then, under the lock file,
`StoreReport`, `MovePointer` and the latest report, each a rename (`Replace`) and an fsync of
the directory (`Sync`), which makes all entries of that directory durable (`Fsync`). `CutOff`
kills a reporter anywhere, `PowerLoss` takes back any subset of the renames and directories
that were not synced, and a lost directory takes its reports with it. A rendering is a
run and a version; the latest report is the one of the later run (`Position`). The root is
taken to be durable: the image has it (`Dockerfile:60`), and a volume is mounted on it.

### Backups

`create` dumps, publishes checksum and archive, lists what there is and removes what no tier
keeps, one file per step, beside other commands; `Stop` ends a command between any two steps.
`todo` is what is left of the list it removes, newest first; `EndRemoval` ends it, also when
another retention has removed the newest.
`restore` verifies, creates the database, loads it, and drops it when loading fails.

### Missions

A step is one statement, which sees what is committed as it begins, or the commit. `set_status`
is `ReadStatus`, `UpdateStatus`, `CommitStatus`, `revise` is `LockMission`, `ReadNumber`,
`CommitRevision`; `hunt` and `monitor` come to their missions in turn with `ChooseRevision`,
`InsertRun`, `FindActive`, and hold every run they have inserted until `CommitRuns`.
`RowHolders` and `Inserters` are whom a statement waits for. Runs end by `EndOfRun`
(`RunQueue` says how).

### MergeDecisions

`decide` is `ReadCandidate`, `NumberDecision`, `Decide`; the trigger that refuses an event that
does not follow the last is `Insertable`. Candidates are there from the start: no code in
`src/` inserts one. `Equivalent` is `_accepted_equivalence`, which `ClassesHold` compares with
the definition of a connected component.

## 3. Runs

| Run | Instance | Question and answer |
|---|---|---|
| `queue_safety` | 2 workers, 2 revisions, 2 runs of either mode, 1 task each, leases of 2 in runs of 4, one crash | Who owns a task, which run is in progress, which is admitted first, when does it end: all invariants hold. |
| `liveness` | 2 workers, 2 runs, leases of 1 in runs of 2, one crash, fair; one provider call | Every scheduled run ends, and `RunQueue` implements `ResearchRuns`; every provider call ends. |
| `parts` | of each part of `MCParts`, see `Parts.cfg`: 2 workers with 1 run, an external and a reasoning stage, 2 calls, one crash; 2 workers with 3 threads each; 3 posts in 2 collections; 2 reporters with 4 reports, a power failure; 2 backup commands, 3 archives; 2 reviewers, 3 pairs | Are calls and checkpoints accounted for; is there no deadlock of ordered locks; do evidence, reports, backups and decisions stand whoever is cut off or late: all properties hold. |
| `handler_recorded` | 1 worker, one stage | **Violated**: is every call recorded? See section 6. |
| `rounds_safety` | 2 opportunities, 10 or 12 calls, 3 requests, 3 signals, 1 or 2 searches, 1 or 2 rounds, two cuts, fair | Budgets, resumption and decisions: all properties hold, and the task ends. |
| `rounds_interrupted` | 1 round | **Violated**: does a reservation keep a later attempt from committing its stage? See section 6. |
| `rounds_empty` | 1 round | **Violated**: does a run without opportunities succeed? See section 6. |
| `rounds_focused` | 2 rounds, 2 opportunities | **Violated**: is a second round for one of them published? See section 6. |
| `locks_deadlock` | 1 worker | **Violated**: is the deadlock gone? See section 6. |
| `mission_safety` | 3 sources in 2 plans, 2 posts, 2 runs of 2 rounds, 2 requests, 4 signals, a day in halves; 2 opportunities, 1 request, 3 runs, cooldown 1; 2 operators, 2 missions | Do budgets and shares fit, and is a late post covered by the next MONITOR; do status, history, snapshots and product hypotheses of several runs agree, and implement `Assessments`; do commands that meet keep the chain of revisions and not wait in a circle: they do. |
| `lifecycle_regrowth` | 1 opportunity, 2 runs | **Violated**: may a later run find a known problem again? See section 6. |
| `mission_archived` | 1 mission, 2 commands | **Violated**: does an archived mission stay archived? See section 6. |

Bounds. Two workers are the two parties of every race (owner and usurper); a third would
add another usurper of the same kind. Two runs are needed for admission, one for what
happens inside a run. In `queue_safety` and `parts` a lease is short enough to expire
and the task to be claimed again before the deadline (a lease of L in a run of L + 2; with
L + 1 no late owner meets a live attempt of another); in
`liveness` the run ends first, and what a second claim may do is left to those runs; `LeaseTime - age` reaches 0 in
a slow claim. One crash loses one process at any step, and a hung handler, which needs no
crash, is the other way to lose a lease. `MaxAttempts = 2` has a retry and a last attempt;
expired leases raise attempts beyond it, as in the code. `MaxParallel = 1` and
`MaxCalls = 2` are reached. In `parts` an attempt takes over the other's stages,
a late answer meets a reconciled call, a call is denied for each reason, and a handler
runs under the name of the next attempt. The theorems hold for every value of these
constants where they are listed below.

In `ResearchRounds` the first round makes six calls when nothing is repaired, the second
five. Ten leave four, too few to begin the second round; twelve leave one for a repair or
for a call that is lost, and two such run out half-way. Three requests and signals leave
something to ask with in the second round and, if it is used sparingly, after it;
`SourcesSpent` is met before it and after it. With one search an interrupted search leaves
none, with two the next attempt meets its reservation. Two cuts resume what was resumed.

A run of the queue has one task, since `schedule` creates the root and nothing in the code
enqueues more; its failures are TIMEOUT in `queue_safety`, every kind a handler produces in
`parts`, and any number of tasks and kinds in the theorems.

Three runs of `Lifecycle` discover and decide, reopen or are refused, and decide again. Two
opportunities let one of them refuse the commit of the other. A cooldown of 1 tells a
rejection that is old enough from one that is not. `SYMMETRY` permutes workers or
opportunities only in runs whose properties are of safety.

Two posts are what it takes for one to hide the other behind a cursor, three sources and two
plans for a source that a run does not ask. Time is counted in half days: the clock runs for
a day (`Horizon = 2`), a post may be listed a day late (`Delay = 2`) and so fall behind the
watermark of a first run, and the overlap of a day just reaches it. Two requests are not
enough for every job, and four signals leave shares of one and of nothing. Three posts, two
with one URL, and three texts that are near in two ways have every order of grouping; two
collections edit what the first has cited. Two report versions of the earlier run and one of the later compete for the
latest, each run with a directory of its own. Four reports (`MaxReports`) are enough for a
directory that one has made and another finds before it is synced, and for its loss with the
report in it after a newer one was returned. Three archives, with tiers of one and two, are
one more than is kept. Two missions are what a circle of waits needs; two revisions, two writers of the same number. Three pairs
of three problems close a triangle.

Deadlock checking is on for the queue (`queue_safety`) and in `locks_deadlock`, where the clock
or a thread goes on for ever. It is off where a bound ends what moves (`MaxRuns`, `Horizon`,
`MaxBatches`, candidates that are all decided) and for `ResearchRounds`, whose task ends;
`TaskEnds` shows that it stops nowhere else, and `OrderedNeverStuck` that the locks do not.

## 4. Fairness

`Fairness` of `RunQueue`: time passes; a worker that is up takes the next step of its
loop (`asyncio` runs both its handler and its heartbeat, transactions end); a process that
ended is restarted (`restart: unless-stopped` in `docker-compose.yml`). Admission is only
strongly fair, since `pg_try_advisory_xact_lock` fails while somebody else has it, but
not for ever. Handlers are not fair in `RunQueue`: a handler may hang, and the deadline
ends its run through the heartbeat or another worker's claim. `HFairness` adds that the
handler moves, because each provider call is stopped at the deadline of the run; the
heartbeats that renew a lease are not assumed to run, since nothing there relies on them.
`EveryCallIsRecorded` fails even so.

In `ResearchRounds`, `FairSpec` is weakly fair to `Goes`: the queue has a task that was cut
off attempted again (when it does not, the deadline ends the run, which is the
subject of `RunQueue`), and an attempt goes on until it is cut off. `MaxCuts` bounds the cuts.

`MCLive` takes the fairness of the queue as long as the queue moves. `ProcessFairness`: the event
loop runs the caller, the kernel delivers SIGKILL, time limits are met. The leader and
its descendants are not fair: they may hang for ever. SIGKILL ends the leader; a
descendant that keeps the pipes open does not, so a call may be held by them until it is
cancelled, which `CallEnds` admits (`Held`).

## 5. Proofs

All theorems hold for every set of workers, revisions and keys and all bounds that
`ConstantsAssumption` and its like in the other modules allow: positive durations and
limits, the root key among the keys, `NoWorker` no worker; finitely many missions, each a
number (`MissionsAssumption`), since commands go through them in order; backup tiers that
keep a number of archives (`BackupAssumption`); finitely many problems, and candidates that
are pairs of them (`DecisionsAssumption`); no two runs at one place of the chronology of
reports (`ReportAssumption`); bands of a HUNT that begin before they end, and sources that
list a post no later than the day a MONITOR looks back (`CollectionAssumption`). The last is
a hypothesis about the sources, not the code: without it the code promises nothing.

* `TypeCorrect`: one lemma per group of actions. The one value that needs an argument is
  the lease: `min(now + duration, deadline)` stays within `lease_duration`.
* `OneRunningAlways`: only `Admit` starts a run, when none is left running after
  finalization (`OnlyAdmissionStarts`).
* `OneActiveAlways`: `RunMoves` classifies how a run row may change; only `Schedule`
  makes an active row and its guard looks at all others.
* `OwnerIsCurrentAlways`: a claim raises the attempt as it sets the owner, so a worker
  that passes the owner check with an older attempt would have to have claimed twice.
* `LeaseWithinDeadlineAlways` is not inductive: a claim may lock a task of a run that has
  meanwhile ended, with a lease beyond it, and the run must never be RUNNING again. It
  needs `BegunBeforeLease` (only runs that were started have leased or selected tasks) and
  that an ended run never starts.
* `EndsExactlyAlways`: `VerdictIsFinal` says what `finalize_if_idle` leaves behind; each
  action that settles a task is followed by it in the same step.
* `EndedRunsFrozenAlways`, `OnlyLiveAttemptSettlesAlways`: action properties, from the
  invariants above and `NoTasksBeforeRun`.
* `LocksTyped`, `OrderedNeverDeadlock`: each transaction but the audit asks for rows in
  increasing rank, so along a chain of waits the ranks climb, and there are three.
* `HandlerStateTyped`, `HandlerImplementsQueue`: every step of `ResearchHandler` is a step of
  `RunQueue` or leaves its variables alone, which needs `WellPlaced`: a handler never ends
  without a result, and with none but kinds the queue knows. So the theorems about the
  queue hold with the handler in it; `QueueTheoremsCarryOver` says so.
* `QueueImplementsResearchRuns`: what a step does to the status of a run and to the result
  of its tasks (`Result`) is one step of `ResearchRuns` or nothing (`AbstractSteps`). It
  needs that a run has no tasks before it is scheduled (`NoTasksBeforeRun`), that one run at a
  time is running, and that it has an open task until the step in which it ends; what
  finalization then calls it is fair to its tasks (`SettledVerdictIsFair`). It is the
  safety part of `ImplementsResearchRuns`, and carries over to the handler too.
* `RecordsFrozenAlways`: a call in flight is not recorded yet (`InFlightOrRecorded`, by the
  four ways `CallsMove` lists in which the tables of the calls change), and recording needs
  the lease. The other half, that a checkpoint only grows, is about `Append`.
* `OneCollectorAlways`: a handler that sends requests to the sources has them reserved for
  its stage (`Reserving`), and comes there by the reservation alone, never by an answer of
  the provider (`AsksForItself`); a reservation stays until its commit, so a second
  handler finds it and gives up.
* `CallLedgerAlways`: `LedgerMoves` lists how lease, record and count change together. Only
  an admission makes a call, in one transaction with the count and behind both limits;
  all else moves a call from the leases to the records. That the counts agree is about
  cardinalities, and needs that the calls are finitely many.
* `LoginIsNeededAlways`: a handler without its lease and one whose provider asks for a login
  end alike. But a worker that may not go on with its task may never do so again while it
  holds on to it (`LostForGood`: leases only run out, deadlines pass, and a claim raises the
  attempt), so the report of the first is refused; the second has recorded the call before.
* `CallsInOrderAlways`, `StagesHaveSourcesAlways`, from one invariant, `OrderInv`. Two handlers
  may work under the name of one attempt, so what a handler at work relies on (`StandsInOrder`)
  must stay true whatever the other does: a stage it has passed is committed for good, an
  original it repairs is recorded. Only the owner is let in to a call, so all calls of the
  attempt lie behind it (`OwnsItsCalls`, `LiesBehind`); and whoever commits a stage needs a
  completed call, which the owner does not have for a stage it still asks about. That
  neither loses its place by the step of the other is `CheckpointStands` and `CallFollows`.

* `ResearchRoundsProofs`, for all sets of limits and any number of cuts: `IInv` is `TypeOK`,
  `ExternalLedger` and seven parts. `Placed`: a stage that is asking has its reservation and
  is not committed. `Ordered`: what is committed came in order. `Admitted`: nothing of a
  second round without the decision for it. `Reserving`: a second collection reserves all
  that is left, and the counter stays there until its commit; `InterruptedRoundPassedOver`
  rests on it. `Meant`: what a result says is so and stays so. `Deciding` and `Published`:
  why an attempt may decide, and with what; `SecondRoundPublished` rests on them.
* `ExhaustedByWasteAlways` counts, on top of it: a semantic stage is committed without a call
  only if there is no opportunity (`CallsPaid`), and a second round is begun after six answers
  with five calls left, so with a limit of eleven at least (`CallsDue`, `CallsSuffice`). A call
  that is denied then finds eleven spent and its own stage unanswered (`DeniedCounts`); an
  attempt with fewer calls than stages left has spent more than were answered
  (`OutOfCallsCounts`). It is the safety part of `TaskEnds`.

* `LifecycleProofs`, for any opportunities, requests and number of runs: `IInv` is `TypeOK`, the
  four properties and seven parts. `Begun`: nothing is found before a run. `SnapshotsPast`: the
  run in progress has published nothing, so a new snapshot is newer than all others, and
  what holds between old ones stays. `SnapshotsKnown` ties the latest one to the status, and
  `Allows` never contains the status itself; hence `SnapshotsAgree` and `DecisionsDiffer`.
  `MembersGrown`: what a run has a cluster for, this run has stored. `ValidatedStays`,
  `ValidatedLast`, `ValidatedBefore`: a second validation would need a cluster this run
  stored, but an earlier run did, and `FitsGrowth` refuses it; hence `ProductsStand` and
  `OneRunHasEvidence`.
* `LifecycleImplementsAssessments`: `Gap` is a `Discover`, `Publish` a `Decide`, `CardsAgain` a
  `Reopen`, `CreateProduct` a `Conceive`; every other step stutters.

* `Missions` (`TransactionsProofs`), for any missions and commands. `Chained`: the revisions are 1 to n.
  `OneHolder` and `Fresh`: a number is read under the lock, so it is still the last when it
  is used; hence `RevisionsChain`. `InOrder`: a command has inserted runs only of missions
  before the one it is at. So whoever waits for a run waits for a command that is further
  on, who waits for a row waits for one that waits for nobody, and a circle would
  ascend for ever among finitely many missions (`CommandsMove`).
* `DecisionsStandAlways`: a reviewer in a transaction is alone at its candidate (`Alone`), so
  the number and the status it read are still right as it decides, and the trigger refuses
  nothing; the path of each pair is appended to at its end (`PathStands`). `ClassesHoldAlways`
  is about the search of readers alone: it adds neighbours or is done, the problems are
  finitely many, and so it reaches a set that is closed, and no smaller one is.
* `RawSignalsProofs`: `Kept`, that revisions are only appended, along all posts of a
  collection; what a batch names is in its draft, which becomes the table or is dropped.
* `GroupsHoldAlways`: `Kin` (a post keeps its group, named after one in it) and `OfOneText` are
  inductive only with `OfOneUrl`, which nobody promised: all posts of one URL are in one group.
  It makes the group of a post independent of which of the revisions at its URL or of its
  text is met first (`FirstIsOneOfThem`), and a text that came in two groups would have come
  to the second post when the first was there to be found.
* `Backups` (`ArtifactsProofs`): `KeptOfFewer`: what a tier keeps of many archives it keeps of
  any of them, so a retention that works on an old list, or beside another, never comes upon an
  archive the tiers need of all there ever were (`Removing`). `Publishing`: a new name is new,
  and its checksum is there before it. `OneRestore` is inductive.
* `PointedReportStoredAlways`, `LatestServedAlways`, with kills and power failures at any step:
  one reporter at a time replaces files, and what it has put in place so far is there, with
  its directory (`Exclusive`, `InPlace`, `Housed`); a file that is not durable is about to be
  synced or left behind (`Accounted`); and as the files are, and as a power failure would leave them, the pointer
  names a stored report, is not behind the latest report, and is behind a returned one
  only while the latest report is not durable either (`Pointed`, `NeverBehind`).

* `CollectionProofs`, for any posts, queries, bands and budgets: `CollectionInv`, which TLC
  checked in full on the instance of `mission_safety` before it was proved.
  `LateArrivalsCoveredAlways` rests on `InReach` (what is neither stored nor passed over lies
  behind no watermark of its own source by more than the overlap) and `ListedInTime`; a
  collector brings only posts older than the end of its window (`AnswersFit`, `RepliesFit`),
  so a mark lies before its run, and the oldest watermark of all sources is no later than
  that of one. `RoundsFitAlways` is arithmetic over the jobs of a round: `SplitSums` (shares add
  up to the total), `TurnsDiffer` and `RanksDiffer` (no two candidates and no two sources have
  one place, so no share is given twice), `SharesPlanned` (the jobs of a source take its share,
  and all of them no more than is left), `PageFits` (a page holds no more than was asked for),
  `SumByKey` (what is counted by source and what is counted by job are the same).

Some of these need an induction over data. It is done by a least counterexample: the natural
numbers and the subsets of a finite set are well founded (`LeastNatural`, `LeastSubset`), so a
sum or a search that went wrong would go wrong at a least place, which it does not.

`OneActiveAlways` and `EndedRunsFrozenAlways` have no run of their own: their properties hold by
one guard each, and the theorems rest on nothing TLC would find more cheaply.

Only model-checked are:

* liveness, which is beyond the prover: `RunsEnd`, `CallEnds`, `TaskEnds`, and the fairness of
  `ImplementsResearchRuns`. The safety part of the last is proved, and so is that of `TaskEnds`
  (`ExhaustedByWasteAlways`);
* all disagreements of section 6, which are counterexamples.

## 6. What disagrees with the documentation

* `EveryCallIsRecorded`. `docs/spec-v0.1.md:103` promises a record of every provider call.
  Only a later admission of the *same run* reconciles a call whose worker died or was cut
  off, so the last call of a run that ends at its deadline leaves a lease for good and no
  record.
* `NoDeadlock`. `docs/tasks/integration.md:160` reports the deadlock between semantic calls
  and heartbeat fixed. Task before run is indeed the order of all explicit locks, and
  `OrderedNeverStuck` shows that this is enough for them; but the insert into `agent_calls`
  takes KEY SHARE on the run and then on the task through its foreign keys.
* `ReservationBlocksReplay`. `tests/integration/test_evidence_pipeline.py:1172` expects
  INTEGRITY of the attempt after a crash between reservation and commit. Its store hands out
  the full limits again; `load_context` hands out what is left, which after a first
  collection is nothing. `_collect` returns before it comes to the reservation, the stage
  is committed empty, the requests are given back though they may have been sent, and the
  run succeeds with nothing found.
* `EmptyRunSucceeds`. `docs/tasks/integration.md:149` wants zero-opportunity success, and
  `docs/spec-v0.1.md:167` lets a run without search go on. `_critic` commits an empty batch
  without a call, `_persist_critic` demands the record of one: the run fails.
* `FocusedRoundPublished`. `tests/integration/test_evidence_pipeline.py:1662` expects the
  decisions of a focused second round to keep the other opportunities.
  `_checkpoint_gap_id` looks all of them up in `GAP_R2`, which holds the targets alone: the
  run fails unless all were targets. The tests' store has no persistence in these three.

* `KnownProblemGrows`. `docs/spec-v0.1.md:193` makes a cluster without growth for 90 days
  DORMANT, so clusters are to grow from run to run. The first run that brings evidence for a
  problem another run has stored, in words that `_normalize_clusters` takes for the same,
  fails as it stores the cluster. `tests/integration/test_artifact_persistence.py:154` has a
  later run find a known problem, but persists only GAP to FINAL.

* `ArchivedForGood`. `tests/platform/test_cli.py:77` expects INVALID_STATE of the activation of
  an archived mission. `set_status` checks a status it has read without a lock, and writes
  without looking again: an activation or a pause that has read before an archive commits
  overwrites it. `revise` locks the mission; `set_status` does not.

Not listed as disagreements, since no document decides them or no run shows them:

* `load_context` reads the identity to write under from the row. A worker that loses the lease
  between claim and load writes under the name of the new owner
  (`tests/platform/test_worker.py:192` tests a worker that loses it later). Calls stay fresh
  and stages consistent (`CallsInOrder`, `StagesHaveSources` and `OneCollector` hold
  nevertheless), but the rightful owner may find its source reserved and fail the run with
  INTEGRITY, or have no request left and commit the stage empty under the hands of the other.
* A run that decides RESEARCH_MORE about an opportunity the run before left in RESEARCH_MORE,
  or anything about one it left REJECTED and the new evidence did not reopen, is refused as a
  whole: `transition_lifecycle` knows no such step. So is a run that reopens and then decides
  RESEARCH_MORE. `DecisionsDiffer` is what remains.
* With `KnownProblemGrows` violated, a second validation and the reopening of an
  opportunity whose cluster another run stored are unreachable (`OneRunHasEvidenceAlways`).
* `cluster_state` (`analysis/clustering.py:69`), which would set DORMANT, is called by nobody.
* A second round is resumed from the last committed checkpoint (`docs/spec-v0.1.md:145`) only
  while a request and a signal are left. When its collection has used them up, or was cut
  off with all of them reserved, the next attempt passes it over and publishes the first
  round. `SecondRoundPublished` and `InterruptedRoundPassedOver` say exactly this much.

* `docs/spec-v0.1.md:157` says that no source exceeds 50% of the signals. The cap is on what
  a round has left, so two rounds may bring 100 and 100 posts of one source among 300
  (`RoundsFit` states the cap as the code has it). `allocation` of a window is computed and
  `_collect` does not read it. `max_raw_signals_per_run` has no upper limit (`config.py`), but
  `allocate_signal_budget` raises a ValueError for more than 300, which `SourceShare` leaves
  out. `monitor_overlap_hours` (`runtime/assembly.py:37`) is not read by the collection: a
  MONITOR always looks back 24 hours behind the watermark, and so does `Overlap`.
* A collector that raises is charged no request, whatever it has sent; a Reddit job with one
  request always fails, since the token takes it. Pages of a window behind the last one a
  run could afford are never asked for again, and one cursor serves all queries of a source:
  `LateArrivalsCovered` is about posts that were *not listed* when a run passed.
* A post that is edited back to an older text refuses its whole collection (`Unaccepted`),
  though `docs/spec-v0.1.md:157` has edits create revisions. `source_deleted_at` is never set.
  `normalize_url` drops fragments, so a GitHub comment shares its issue's duplicate group.
* A probe that fails or is too late is reported as AUTH_REQUIRED. The timeout covers neither
  the writing of the request nor the end of the output; descendants that outlive the
  leader are not killed and may hold a call.
* A kill between a rename and its fsync, with a power failure after it, can leave a pointer
  to a report that is not there (`torn`); a new report of that run or a later one repairs it.
* `persist_run` promises to persist a report durably (`reports/artifacts.py:99`). It syncs the
  root for a directory only if it has not found it there. Another may have made the directory
  and not synced it yet, or been killed before it could: then the report is stored in a
  directory that a power failure may take, until somebody syncs the root, which a reporter
  does not whose run is older than the pointer and the latest report (the last two lines of
  `LatestServed`). If it does move the pointer, a power failure before its fsync may leave
  the pointer and not the directory it points into (`PointsAhead`, part of `torn`).
* createdb that is too late, a killed restore and a failed dropdb leave a database in part,
  which every later restore into that name refuses. `create` reports a failure when another
  retention has removed its archive already.
* hunt and monitor may schedule a run of a mission that is archived in between. A monitor whose
  insert is refused for an active run, which ends before it is looked up, loses its whole cycle.

## 7. Not modelled, and plan

Not modelled: rendering, parsing, logging, configuration, health checks and the smoke script,
read queries (but `_accepted_equivalence`) and the contracts they fill; schema migrations but
for their constraints and triggers; floating-point scores and the clustering of one batch; what
is named by its run and meets no other writer (cards, hypotheses, critics, competitors) and
`mappers.py`, which copies it field by field; the search and fetching of competitor pages
(`search/brave.py`, `security/static_fetch.py`): they keep no state.

What could be added: the comments of a GitHub issue as posts of their own in `Collection`;
evidence gates and clustering as operators against a reference; the other steps of refinement
of the abstract specifications, should they be extended.

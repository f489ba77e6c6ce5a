# ContentOS in TLA+

ContentOS turns research into published articles. A FastAPI application and a set of
Celery workers share one PostgreSQL database, a Redis store (broker and execution
locks) and a few HTTP services (AI providers, research APIs, the Publishing API). Every
article is an *editorial work item*: a row with a state, an append-only event history,
and the artifacts of each stage (brief, draft, review, QA report, decision, package).

What is hard in it is not the single service call, which the repository tests well, but
the order of the calls: the API, the autopilot and several workers move the same item
at once; provider calls happen between two transactions; messages are delivered late and
twice; workers die after a side effect and before its record. That is what these
modules model.

Paths below are relative to `src/apps/backend/src/contentos/`.

## Components

| Component | State it keeps | Operations | Talks to | What is hard | What makes it correct |
|---|---|---|---|---|---|
| `workflow` | work item row, event history | create, transition, resolve block, resolve changes, reject blocked | every stage, routes, tasks | sessions write with copies older than the row lock | row projects the history; exits of BLOCKED and CHANGES_REQUESTED derive from it; no release without approval |
| `decisions` | `human_decisions` rows | approve, request changes, reject, revoke; currency and expiry of an approval | workflow, drafts, qa, publishing | the record commits before the transition; reviewers race | an approval covers exactly one content hash, until it is revoked |
| `publishing` | packages, attempts | assemble, schedule, resolve expiry, dispatch | decisions, workflow, Publishing API | redelivery, timeouts, crash between publish and record | only approved content goes out; PUBLISHED has evidence; one recorded success |
| `worker/execution_lock` | one Redis key per task and entity | take, release | every provider-calling task | TTL overrun, crash, duplicates | no two calls for one entity inside the TTL; only the holder releases |
| `worker/editorial_tasks` | none of its own | one task per stage | all stages | provider call between two transactions | each stage commits what its input still justifies |
| `qa` | reports, waivers | run gates, waive | drafts, reviews, media | runs overlap; verdict changes with media | the human is only asked about a ready, current report |
| `drafts`, `reviews`, `media` | drafts (one ACTIVE), reviews, media needs | write, review, satisfy or withdraw a need | ai, qa | late provider results | supersession keeps one ACTIVE artifact that the next stage covers |
| `autopilot` | run rows, daily reservations, settings | sweep, plan, act, reserve | everything by command | sweeps overlap, plans from stale reads, dead ends | never more admissions than the target; an item it owns moves or asks for a human |
| `ai` | attempts per task identity | begin, finish, retry; daily budget | providers | check-then-act, redelivery | attempts are recorded once; the budget holds |
| `ideas`, `opportunities`, `briefs`, `evidence_packs`, `search_intent` | versioned artifacts | select, commission, accept, compose | workflow | supersession, uniqueness under races | one work item per opportunity, one ACTIVE version |
| `missions`, `intake`, `discovery`, `fetching`, `normalization`, `duplicates`, `research`, `sources` | mission phases, intake runs, items, snapshots, evidence | run a step, pause, resume, converge | research APIs, each other | redelivered steps, budgets, one live run per source | phases only advance; a redelivered step changes nothing |
| `integrations` | usage counters, cache | reserve, call, settle | vendors | concurrent reservations | daily limits hold |
| `performance` | measurements, refresh suggestions | record, suggest, approve | workflow | lost after a crash | a published item is measured |
| `auth` | sessions | login, validate, revoke | API | expiry | a revoked session is refused |
| API read models, admin UI, migrations, configuration | none | | | | |

`PROJECT.json` lists all of them with their files and status, and under `hazards` each
place where a test would hardly reach, with the property that watches it.

## Modules

| Module | Models | |
|---|---|---|
| `WorkflowMatrix` | `workflow/enums.py`, the matrix, `_allowed_targets` | constant operators; exits derived from a history |
| `Workflow` | `workflow/service.py`, `repository.py`, `models.py`, `db/session.py` | one item, its history, any number of sessions |
| `WorkflowProofs` | | the theorems about `Workflow` |
| `Publication` | `decisions`, `publishing`, `publish_package`, the second half of `run_qa_gates` | one item from its first human review on |
| `Release` | what publication promises | the abstract specification `Publication` implements |
| `PublicationProofs` | | the theorems about `Publication` |
| `ExecutionLock` | `worker/execution_lock.py`, `exclusive()` | the lock, its TTL and its holders |
| `ExecutionLockProofs` | | the theorems about `ExecutionLock` |
| `AutopilotPlanner` | `autopilot/planner.py` | constant operators: what the autopilot does next, from a snapshot record |
| `Commissioning` | `opportunities`, `ideas`, `evidence_packs`, `search_intent`, `briefs`, their tasks, routes and autopilot actions | one item from the researched document to the accepted brief |
| `CommissioningProofs` | | the theorems about `Commissioning` |
| `EditorialStages` | `drafts`, `reviews`, `qa`, `media`, `ai`, their tasks, routes and autopilot actions | one item from the accepted brief to the human review |
| `EditorialStagesProofs` | | the theorems about `EditorialStages` |
| `Intake` | `intake`, `discovery`, `fetching`, `normalization`, `duplicates`, their tasks and routes, the research start and recovery of `autopilot/daily.py` | the runs of one source and the pipeline behind them |
| `IntakeProofs` | | the theorems about `Intake` |
| `Missions` | `missions`, its tasks and routes | one mission with its runs, its pages and its chain of finalize checks |
| `MissionsProofs` | | the theorems about `Missions` |
| `FiniteFacts` | | lemmas about numbers, finite sets and growing tables that several proofs cite |
| `MCWorkflow`, `MCPublication`, `MCResearch`, `MCCommissioning`, `MCEditorialStages` | | small instances; `MCResearch` extends `ExecutionLock`, `Intake` and `Missions` |

`Workflow`, `Publication` and `AutopilotPlanner` use `WorkflowMatrix`: `Workflow` checks
the engine for every caller; `Commissioning`, `EditorialStages` and `Publication` check
the protocol of the callers, each for one stretch of an item's life, and the last state
of one stretch is the first of the next. `Commissioning` and `EditorialStages` extend
`AutopilotPlanner`, so the two halves are moved by one and the same planner. An operator
commented *Mutation* is no part of a specification: it is a wrong version of the operator after
it, kept to show that the properties notice.

### Workflow

`row` is the committed `editorial_work_items` row, `events` the history, `session[s]`
what a database session holds. `FreshTransition` is a caller without a copy (the API
routes, `transition()` in a new session). `LoadItem` and `HeldTransition` are the callers
that keep a reference: SQLAlchemy's `SELECT ... FOR UPDATE` locks the row but returns the
object of the identity map unrefreshed, so `transition()` validates the copy. The UPDATE
(`Flushed`) carries only the changed columns, and the CHECK constraints (`RowChecks`)
can still roll it back. `resolve_block`, `resolve_changes_requested` and
`reject_blocked` are split where the code reads twice: the check of the copy, the
derivation from the history, the `transition()`. A transition and its commit are one
step, which the row lock justifies.

### Publication

`row`, `entry` (what the newest event into a state pins), `drafts`, `report`,
`decisions`, `packages`, `attempts` are the committed tables; `accepted` is the
Publishing API; `decision`, `request`, `qa` and `delivery` are the program counters of
HTTP requests, QA runs and messages. Each of them checks first and writes later:

- a decision route commits the record (`Record...`), then the transition
  (`ApplyDecision`); it may be refused or die in between (`DropDecision`);
- an operator or the autopilot loads the item (`LoadRequest`), checks (for scheduling,
  the approval and the package), and moves it once the lock is theirs;
- `run_qa_gates` commits a report (`RunQaGates`), then enters human review
  (`EnterHumanReview`);
- `publish_package` loads, re-checks the approval, enters PUBLISHING, looks for a
  success, publishes, numbers and records the attempt, and settles the item, each a step
  that another delivery, a decision or a crash may precede.

`serial` is a history variable: it stays true as long as no transition came between the
checks of another one and that transition. The workflow engine does not ensure it (see
the findings), so properties that need it name it as a premise; those that do not name
it hold whatever the interleaving. `fresh` is the bookkeeping behind `serial`.

Abstracted: the stages before QA only commit their results; the gates' verdict is free
(media needs and waivers change it between runs); text, roles and artifact ids are
left out; a package is its hash. One decision's check and insert are one step, and so are
the delivery's re-check of the approval and its read of the scheduled pin.

`Release` says what all of this amounts to for a reader outside: contents are approved,
packages are made of approved contents, a package goes live, its success is recorded, and
only then is the item shown as published. `ReleasesInOrder` is its specification under the
refinement mapping `Promise`.

### ExecutionLock

A key per task and entity with holder and expiry, executions that wait, run, finish,
crash or leave as duplicates, and the store's clock. An execution may run past its TTL.

### AutopilotPlanner

The planner is a function of a snapshot the runner reads, and the module says it that
way: a snapshot is a record of facts, there is one operator per stage, and `Plan` is the
case distinction over `current_state`. An answer is an enqueue, a command, a wait for a human, or idle with the
reason the code gives (the item is moving by itself, it has ended). Wording is left out.

### Commissioning

One opportunity, its item and what hangs on it. Ideas, packs, analyses and briefs are
append-only sequences whose index is the row's identity, because their rows do not change
but for a brief's status and the resolution of a contradiction. Beside them: the stage
entries with what they pin, the score and disposition of the opportunity, the effective
duplicate decision, the linked sources with their evidence, the effective selection, and
the AI attempts by purpose.

Every generation task is three steps as in `worker/editorial_tasks.py`: the first
transaction (guards, budget, identity lookup, the subject of the call), the provider's
answer with the second transaction, and where the code has one the third with the
transition and the next message. Each message keeps the copy of the item its session
loaded; `fresh` says which copies are still the row, and `serial` that nothing was ever
written on the authority of one that was not. Messages may be redelivered, fail, be
retried up to `MaxRetries`; a worker may die (`Crash`), and when it dies inside
`exclusive()` its redelivery finds the lock taken and is acknowledged as a duplicate
(`CrashLosesMessage`), which `lost` remembers. A route checks in one step and
writes in the next (`request`), so a commissioning, a rejection and an acceptance can
race. Research goes on beside it: linked documents get their evidence, the decision of
the root may change.

Abstracted: a batch of idea candidates stands for its best candidate (the planner selects
by that); an originality check that cannot be made counts as failed, as it does
everywhere it is read; scores, claims, structure and integrity of a brief are free choices made when it
is composed; the day's plan of `DailyPreparationService` is taken to permit; the
operations pause and a broker that refuses a message are left out. Operations without a
caller (`create_operator_idea`, idea revision) are left out. Of what makes a pack
sufficient the distinct sources are counted; whether it has the items and the key fact its
policy asks for as well is a free choice at its assembly (`enough`). Evidence that nothing
has verified counts as of a source of its own. Every pack pins an idea, as
`build_evidence_pack` does; `_resolve_upstream` would take one that pins none. A
commissioning that finds the opportunity commissioned changes nothing, also where
`_resolve_idempotent` answers with a conflict. The autopilot plans and makes a selection in
one step: `select_idea` locks the opportunity and reads nothing else.

### EditorialStages

The same construction for DRAFTING, EDITING, QA_REVIEW and CHANGES_REQUESTED: the last
draft, review and report are the ACTIVE ones; attempts carry purpose, subject and retry
number and are counted against the day's budget; writer, editor, QA and image messages,
the autopilot's steps and one operator request run beside each other. Media needs are
bound, withdrawn, generated and waived. The gates over the text are a free choice. The
brief does not change here, which `Commissioning` shows (`AcceptedBriefStays`).

An execution keeps its lock to its end here: one that outlives the TTL meets another only
in `ExecutionLock`, and then it is the unique constraint on an attempt's identity
(`ai/models.py:49`) that keeps the second row out. `OneAttemptPerIdentity` counts recorded
attempts: a worker that dies during its call has recorded none, and its redelivery asks the
provider again. What other items have spent of the day's budget is fixed at the start, so
`BudgetOvershootIsConcurrency` is about the calls of one item.
`Publication` takes over at the human review and reduces these stages to their results.

### Intake

One source. `status` and `stage` are the rows of its intake runs; `dispatched`,
`promoted` and `today` are the events a run counts its fetches, promotions and the
source's daily budget from, with `aged` and `promoAged` for what is older than the 600 s
after which it is no longer waited for. A step is what `worker/intake_tasks.py` does
under the run's lock: load the run (`LoadRun`), decide from rows that everybody else
changes (`Decide...`), commit (`CommitStep`), then send the messages, of which a dying
worker sends some (`NotSent`). `step[r].out` is the decision held in between: pause, stop
and fetches go on meanwhile, and the commit writes over them, since the session's copy
of the run is as old as the load. A message that finds the lock taken is dropped
(`DropStep`).

Behind the steps is the pipeline of `worker/research_tasks.py`: fetch messages, the HTTP
calls under way (`http`), snapshots, documents, the evaluation with the candidates it has
read (`judging`), the decision with what it saw, and promotion. A fetch task holds its
copy of the lead across the HTTP call; the row lock after it does not refresh the copy.

Abstracted: feeds and pages are leads and the story each tells; similarity is telling the
same story, and a RELATED page is as eligible as a unique one; URL rules are the set
`Listing`; counters, events and HTTP detail are left out. A step that outlives its lock
of 600 s is not modelled here: `ExecutionLock` says what the lock is worth then.

### Missions

`mission` is the status, `rows` the idea rows, `strong` those recommended for promotion,
`page` and `pageDoc` what is known of the pages the ideas cite. A run of the engine
(`engine[x]`) is one step per commit: a stage writes, commits, and goes on, so that a crash
leaves what the stages before it wrote. `Dispatch` and `CommitGrounding` are apart because
the fetches are sent before the commit that accepts their pages; `SendFinalize` is apart
because the chain of checks starts after the last commit. A check reads (`StartCheck`),
commits opportunities and the end of the mission in one transaction (`CommitCheck`), and
sends the next check (`SendNext`). `recent` is the clock of 20 minutes behind
`already_running`, `waited` the one of 15 minutes behind the end of grounding.

Two runs of one mission can be at work: two requests queue two messages, and both tasks may
read the status before either has written RUNNING. The younger one deletes the rows of the
older one, whose next write then fails (`Broken`).

Abstracted: planning, keywords, search, synthesis, clustering and scoring come down to the
ideas a run finds strong (`Finds`), in the order of their quality, and the pages they cite
(`Cites`); a page with a discovery item is known to a run by that item, also one of the
open web; the number of fetches is not bounded; domains whose source cannot be registered,
and a document that is replaced by a later one, are left out. What
fetches and judges a page is a step each: `Intake` has the detail. `orphaned` remembers that
the last message about an open mission was lost.

## Runs

| Run | Checks | Bounds |
|---|---|---|
| `MCWorkflow` | `TypeOK`, `RowProjectsHistory`, `RowExplainsItself`, `BlockedRoundTrip`, `ApprovalBeforeRelease` | two sessions, two reasons, four new events after five different pasts |
| `MCPublicationReview` | `OnlyApprovedContent`, `ReviewCanBeDecided`, `RevokedApprovalStartsNothing` | two reviewers, two drafts of two contents, three decisions, one operator, one QA run, one delivery |
| `MCPublicationDispatch` | `TypeOK`, `PublishedIsProven`, `ReleasesInOrder` | two deliveries, one retry each, one crash, one operator |
| `MCPublicationLive` | `OneSuccess`, `BlockedWasNotPublished`, `DispatchSettles` | one message enqueued up to twice, one retry, two crashes, one operator, fairness |
| `MCResearch` | `TypeOK`, `MutualExclusion`, `OnlyHolderReleases`, `CrashNeverPins` of the lock; `IntakeTypeOK`, `OneLiveRun`, `BudgetPerSource`, `FetchedStays`, `StoryLostOnlyByRace`, `RunSettles`, `FetchedIsJudged` of the intake; `MissionTypeOK`, `DroppedForCause`, `MissionSettles` of a mission | three executions of one key, TTL 2, time 4; two intake runs, two leads of one story, two snapshots, batches, fetches and daily budget of two, one promotion; one retry of a step and of a fetch, one failure, one crash, two commands, one new day, one overlap of fetches; three engine runs, three ideas over three pages, two finalize workers, two checks, two promotions, one command, two page decisions, one crash, one failure; fairness |
| `MCCommissioning` | `TypeOK`, `DraftingRestsOnItsBrief`, `OneDispositionWins`, `AcceptedBriefStays`, `AutopilotCommissions` | one scoring, one idea and one brief message, two pack and two intent messages, one sweep; one retry, two versions, three commands, one failure, one crash, fairness |
| `MCEditorialStages` | `TypeOK`, `HumanSeesReviewedWork`, `OneAttemptPerIdentity`, `BudgetOvershootIsConcurrency`, `ReworkIsBounded`, `WriterAnswersTheRework`, `AutopilotReachesHuman` | one writer, editor and QA message, two image messages, one sweep, one media need; budget 6, one retry, three versions, three commands, three failures, one crash, fairness |

and five runs in which a statement of the documentation fails:

| Run | Property | What the code does |
|---|---|---|
| `MCWorkflowRace` | `NoImpossibleHistory` | a held copy is accepted under the lock; the history gains an event from a state the item had left |
| `MCPublicationResume` | `PublishingNamesItsPackage` | resolving a block of PUBLISHING pins no package; every re-drive raises |
| `MCPublicationTwice` | `OneSuccess` | two deliveries both publish and both record a success |
| `MCPublicationQa` | `ReviewCanBeDecided` | overlapping QA runs send an item to the human over a failing report |
| `MCEditorialStagesIdle` | `IdleMeansMoving` | the planner says the system is moving an item that nothing is going to move |

Why the bounds are enough. The engine's races need two sessions and one history that was
already blocked; four more events are enough to block, resume, rework, re-approve and
schedule. A revocation race needs an approval, a second decision and a revocation, over
a draft that can be superseded: three decisions and two drafts. Two deliveries with one
retry and one crash contain every pair of overlapping dispatches, including one that
times out after the API accepted. One overrun, one successor and one intruder on the same
key, over two TTL periods, cover the lock; keys do not touch each other. `OneSuccess` and
`BlockedWasNotPublished` are checked for one message at a time, because with two they
are not true (`MCPublicationTwice`).

The two stage modules and the intake have too many independent sources of trouble to let
all of them happen at once, so their instances choose a *profile* in the initial state,
and a bound a profile does not use is already spent in it (`failures = MaxFailures` means
that no call fails):

- `MCEditorialStages`: `AutopilotReworks` (the operator is away, reviews ask for
  revisions until the limit), `CallsFail` (provider failures and the end of the budget),
  `WorkersDie` (a crash, an open media need), `OperatorHelps` (commands beside the
  autopilot), `OperatorAlone` (the autopilot is off). Three versions are the first draft
  and the two reworks the autopilot may ask for; the fourth round is the operator's. Two
  image messages are what makes a budget overshoot possible for one item.
  There is one sweep, whose steps race the operator and the tasks; with two that overlap
  the instance is too large. Then a stale command of the second does what the first has
  done already: `ReworkIsBounded` counts it, and its theorem is for any number of sweeps;
  `AutopilotReachesHuman` holds for one sweep only, since a stale `accept_review` may take
  an item from the human back to QA_REVIEW, where its ready report makes the planner wait
  (the state of `MCEditorialStagesIdle`).
- `MCCommissioning`: `CallsFail`, `WorkersDie`, `OperatorAlone` from the start, and
  `OperatorDecides` from five later points (`Start`), one of which is the item that a late
  pack has brought back to BRIEFING over its accepted brief; its `serial` is false, since
  that is how an item gets there. Two packs and two analyses in flight are what the races
  between a reassembly, a late pack and an advancing pipeline need.
- `MCResearch`: `focus` chooses between the lock, the intake, whose steps and fetches
  take such locks, and a mission; the others stand still. An intake starts from one of nine
  `Situations`: a run that is stopped, paused or resumed while another starts, two
  commands on one run, a worker that dies, an attempt that fails (each with and without
  promotion), a day that passes, two pages of one story, and the first run itself, started
  by two actors at once. Two runs and two leads are what a race between an old step and a
  new run needs, and a budget of two is passed by the third dispatch. A
  mission starts from one of four: a worker dies, something fails, the operator accepts and
  fetches a page of the open web, or everything is judged and the mission is run once more,
  with two ideas that compete for one page and a third that comes with the rerun. Two checks
  stand for the sixteen of the code: the last one closes, the others wait.

`CHECK_DEADLOCK FALSE` everywhere: items end (ARCHIVED, REJECTED), bounds are spent,
messages are acknowledged.

Symmetry is used where no constant distinguishes the values (sessions, reviewers,
deliveries, and contents together with their packages), and never under fairness.

## Fairness

- `DispatchSettles` assumes weak fairness of `Work(d)`, the steps of a delivery. Celery is
  configured with late acknowledgement and `reject_on_worker_lost`
  (`worker/editorial_tasks.py:1181-1187`), so an unacknowledged message is redelivered
  and some worker goes on with it. Crashes are bounded by `MaxCrashes`; nothing is
  assumed of operators, reviewers or the API's answers. The retries are bounded by the
  code.
- `AutopilotReachesHuman` and `AutopilotCommissions` assume that what is queued is run and
  a provider answers or times out (Celery and the clients' timeouts), that the sweep comes
  round (each one sends the next with a countdown, `worker/autopilot_tasks.py`), that a request that has
  checked goes on to its write, that research of linked documents continues, and that
  the time inside which an action is not repeated (`IN_FLIGHT_WINDOW`) passes. Failures
  and crashes are bounded by the instance. Nothing is assumed of the operator, who is
  away. `Commissioning` states one weak fairness for all tasks together where the code
  gives one for each: what holds under the weaker assumption holds under the code's.
- `RunSettles` and `FetchedIsJudged` assume that a delivered step, fetch, normalisation or
  evaluation runs to its end (late acknowledgement and redelivery,
  `worker/intake_tasks.py:79-89`, `worker/research_tasks.py:445-460`), that the lock of a
  dead worker expires, that 600 s pass, and that the autopilot's sweep comes round and
  sends a step for a run that stands still (`autopilot/daily.py:85-100`). Nothing is
  assumed of the operator, who may deactivate the source: `RunSettles` says so. Failures
  and crashes are bounded by the instance. The pipeline has one weak fairness for all its
  tasks, and so has a mission: weaker than one for each, which is what the code gives.
- `MissionSettles` assumes that a delivered run or check message is taken up, that the stages
  and checks under way end (every provider call has a timeout, 420 s by default, which is
  also why no stage outlasts the 20 minutes of `LogAges`), and that 15 minutes pass
  (`WaitEnds`). Neither tasks of missions nor their redelivery are configured against the
  loss of a worker process (`worker/mission_tasks.py:151`: no `reject_on_worker_lost`), so a
  crash may also take the message with it: the property says what it is worth then.
- `CrashNeverPins` assumes only that the clock of the store goes on.

## Proofs

`WorkflowProofs` (any sets of sessions and reasons, any starting histories that the
service could have written, histories of any length):

- `WorkflowTypeOK`: the type invariant;
- `RowAlwaysProjectsHistory`: not inductive, because the UPDATE carries only changed
  columns: a copy moved to its own state would append an event and leave a row that
  somebody else moved. `RowInv` adds that every event of the history and every pending
  target is a real move; for `HeldTransition` that is an assumption on the callers
  (`HeldRequestsAssumption`), for the three resolutions it follows from the history;
- `BlockedAlwaysRoundTrips`: when the longer history is chained, the copy that was
  written agrees with the newest event (`ChainedAppend`), and that event alone decides
  the exits of BLOCKED (`BlockedExit`);
- `RowAlwaysExplainsItself`: `ReasonInv` adds that, while the history is chained, every
  copy holds a reason exactly when its state asks for one, so that entering and leaving
  BLOCKED or REJECTED always changes the column and the flush carries it;
- `ApprovalAlwaysBeforeRelease`: a chained history is one the service accumulated with
  fresh copies (`LawfulHistory`), and an accumulated history has the property, since its
  earliest counterexample would have a predecessor that is one itself.

`ExecutionLockProofs` (any executions, keys, TTL): `ExecutionLockTypeOK` and
`YoungExecutionsExclude`. Mutual exclusion is not inductive; the invariant adds that a
running execution younger than its TTL is the holder of its key and that the key expires
exactly one TTL after it started. `HoldersAloneRelease` is the action property, for which
the types are enough.

`IntakeProofs` (any runs, any finite set of leads, any stories and bounds, from any
`IntakeInit`: at most one run, leads without a page):

- `IntakeAlwaysTyped`: a commit writes what its step has decided, so the decisions that
  wait need types too (`OutcomeOK`), and a fetched lead has a snapshot to send on;
- `OneLiveRunAlways`: whatever writes a status either goes from live to live or passes
  the index (`StatusMoves`);
- `BudgetAlwaysPerSource`: `spent` alone says nothing about a decision that waits for its
  commit. `BudgetInv` adds that, while nothing was dispatched for a run that had lost its
  live status, what the live run has decided still fits the day (`FitsTheDay`); a second
  live run, which could have decided on the same remainder, is excluded by
  `OneLiveRunAlways`;
- `FetchedAlwaysStays`: outside the overlaps there is one HTTP call for a lead at a time,
  and none once it has a snapshot (`OneFetchAtATime`), so no late answer can take it back;
- `StoriesAlwaysLostByRace`: what two evaluations have seen is ordered by which read first
  (`SightInv`). Among the pages of a lost story one has seen no more than any other
  (`FirstReader`, by the well-foundedness of strict inclusion on finite sets); it and the
  page it found are in each other's sight.

`PublicationProofs` (any contents, package hashes, also colliding ones, reviewers,
operators, QA runs, deliveries and bounds; runs, requests and messages are different
things, `ActorAssumption`):

- `PublicationTypeOK`, `OnlyApprovedContentAlways`, `PublishedAlwaysProven`, from one
  inductive invariant `Inv`. None of the three is inductive: what the Publishing API
  accepts comes from a delivery, whose package comes from an entry pin, which comes from
  a request, so every one of these must already hold the hash of an approved package
  (`PinsOK`, `RequestsOK`, `Sound`); and PUBLISHED has evidence because a delivery that
  calls itself succeeded has it (`Sound`), and attempts are never taken back (`Grows`);
- `RevokedApprovalNeverStarts` adds `ChecksHold`: what the checks of a request or a
  delivery are worth while nothing has moved the item since. The scheduled package is
  over the ACTIVE draft, which can only change after the item has moved;
- `ReviewAlwaysDecidable` proves `ReviewCanBeDecided` from the premise that no two QA
  runs of the item overlap, which the code does not ensure (`MCPublicationQa`);
- `PublicationImplementsRelease`: under `Inv`, every step maps to one step of `Release`
  or to none, with the approved contents, the packages, the accepted keys, the hashes
  with a recorded success and the published pin as its variables;
- `SucceedsOnce` and `BlockedNeverPublished`, from the premise that at most one message of the
  item is worked on (`OneMessage`), which the code does not ensure (`MCPublicationTwice`).
  `SentOnce` says what such a message knows: from its answer to its record there is no success
  of its package, the item pins that package or none (`SendsOnce`), and an item it has blocked
  is blocked as long as no message is worked on. A stale `resolve-block` takes the pin away
  under a running message, hence `serial` in `BlockedWasNotPublished`: with one operator, as
  in `MCPublicationLive`, the pin is always there, with two TLC finds a block without one;
- `PublicationMovesLegally` ties the module to `WorkflowMatrix`: as long as no stale copy was
  written, every change of the row is one that `transition()` accepts. The actions leave its
  guard out, since it is about the copy; `CopiesCurrent` says that a copy that is still fresh
  shows the row. No run lists this property (`SerialMovesAreLegal` is stated with its proof).

`EditorialStagesProofs` (any messages, texts, bounds and retries, finitely many sweeps and media
needs; `StageMessages` says that messages of different kinds are different things and that
`None` is none of them). Its invariants are about six tables and forty actions, so each
action is first reduced to what it does to one of them: `TaskStep` (to the messages and the
attempts), `ArtifactStep`, `ItemStep`, `RequestEffect`, `MediaEffect` and `FreshStep` are
short disjunctions that every step of `Next` satisfies (the lemmas `Every...`), and the
invariants are proved from these alone.

- `StagesAlwaysTyped`: `TypeInv` adds what the rows hold, in which states a message of each
  kind can be (`KindsTyped`), and that whoever holds an index holds one of a row that exists
  (`HoldersRefer`); tables only grow, so it stays one (`TablesGrow`);
- `AttemptAlwaysOnce`: `CallInv` adds that whoever holds the lock of an entity is alone
  (`LockHeldOnce`) and that nothing is stored for the identity of a call under way
  (`CallsAreNew`); nobody else can store it, since it would hold the same lock. It is about
  the attempts recorded, not about the calls of workers that die;
- `HumanAlwaysSeesReviewedWork`: `EditInv` says what a *fresh* copy is still worth. A report
  that is to go on is over the ACTIVE draft and review as long as its run's copy is fresh
  (`FreshReports`): drafts and reviews only change in the stages before, and every
  transition back there takes the copies away. What the gates found (`ready`, a passing
  review over its draft) stays whatever happens (`ReportsAreReviewed`);
- `ReworkAlwaysBounded`: a step that has planned a rework with a fresh copy has counted fewer
  than `MAX_REWORK_CYCLES` (`FreshSteps`), and the operator pays for each rework with a
  command (`SerialBound`). For old copies `OverlapBound` counts the steps that are about to
  send the draft back beside the cycles: one joins them only below the limit and leaves them
  with the cycle it adds, so finitely many sweeps (`StageSweeps`) exceed the limit by at
  most one less than they are;
- `WritersAnswerTheRework`: a draft written for a rework is newer than the reviewed one
  (`AnswersAreNewer`), also when it is found stored, and a fresh writer works for the rework
  that the entry names (`FreshWriters`, `WriterSubjects`);
- `BudgetAlwaysKept`: inductive beside `CallInv`. A call begins only below the budget, and
  then no more can overlap than there are locks: one writer, one editor and one image for
  each need, by an injection of the calls into them (`CallsOverlap`).

`MissionsProofs` (any ideas, pages, citations, engine runs and finalize workers, from any
knowledge of the pages):

- `MissionAlwaysTyped`: the plan of a check waits for its commit, so it needs types too;
- `DroppedAlwaysForCause`: between the reading of a check and its commit other missions open
  opportunities. `JudgedAreTaken` says what the reading is worth then: the documents it saw
  judged are still taken, or taken by what the check has planned itself (`DropInv`), because
  roots are never given back (`RootsGrow`).

`CommissioningProofs` (any messages, sweeps and bounds, from `Init`: an item that is not
promoted yet; `CommissioningMessages` says that messages of different kinds are different
things, `CommissioningBounds` that bounds are naturals). As for `EditorialStages`, every
step is first reduced to what it does to the messages (`TaskEffect`), to the rows
(`TableEffect`), to the item with its opportunity (`ItemEffect`), to the sources and to
whoever holds a copy.

- `CommissioningAlwaysTyped`: `TypeOK` is not inductive, since a message, a request or a
  planned acceptance brings the index of a row along. `TypeInv` adds that whatever a holder
  names exists (`HoldersRefer`, and `PlannedMeans` for what the planner names), what rows
  refer to (`TablesRefer`) and that the evidence of an item that is not promoted is none;
- `OneDispositionAlwaysWins`: `StageTellsDisposition` says that IDEA_SCORING is open, and
  `Fits` that a message past its guards is about a commissioned opportunity; so a late task
  or acceptance cannot be what moves an item out of IDEA_SCORING;
- `AcceptedBriefAlwaysStays`: a composition supersedes drafts only (`BriefGivesWay`), and the
  unique index refuses every acceptance but that of the same brief;
- `DraftingAlwaysRestsOnItsBrief`: inductive beside `TypeInv`. In DRAFTING nothing adds a
  brief, and what the accepted one rests on is only added to (`RestsStill`): a pack keeps its
  sufficiency when its contradiction is resolved.

Only model-checked: everything temporal beyond `[][A]_vars` (`DispatchSettles`,
`CrashNeverPins`, `AutopilotReachesHuman`, `AutopilotCommissions`, `RunSettles`,
`FetchedIsJudged`, `MissionSettles`), which needs fairness and ENABLED. Every invariant and
every action property of a passing run is stated by a theorem.

## Met while modelling

Dead ends and races of the code that the models contain and the properties are worded
around (the first three lines are the premises of `AutopilotCommissions`):

- Promotion from a mission and from linking admits an input with any effective duplicate
  decision (`missions/engine.py` `_promote`, `opportunities/linking.py:216`), the brief
  gate refuses those that are not UNIQUE. The item is scored, researched and packed, and
  then the gate refuses for ever.
- The READY pack that reassembly leaves behind need not be the one the pipeline advances
  with (`editorial_control.py:952-955`).
- A late pack that holds an old copy of the item pulls it back from DRAFTING or REJECTED.
  The accepted brief is neither superseded nor accepted again, and the planner sees
  nothing to do. A selection changed after the pack wedges the item the same way.
- The brief of an acceptance is read before the item's lock; only the unique index stops
  the second acceptance.
- A resolve-block that holds the copy of an earlier block enters PUBLISHING over PUBLISHING, with
  no package: the running delivery goes on with its own, but a block or a re-drive that
  follows it finds none pinned.
- A worker that crashes while it holds the execution lock is redelivered while the lock
  stands, reports a duplicate and is acknowledged: the message is lost and only the
  planner sends another.
- A resume that comes while a step of the paused run is on its way out answers
  duplicate_in_flight to its own step: the run is RUNNING without a message. The route says
  that resume sends the step again (`api/routes/intake.py:108-109`), but the service accepts
  only a PAUSED run (`intake/service.py:151`); what heals it is the autopilot's recovery.
- A step that was decided before a stop writes COMPLETED, PAUSED or FAILED over STOPPED, and
  dispatches what it decided to, although a stop is "A safe terminal stop: no new intake
  work" (`intake/service.py:166`). Hence the premise `stale` of `BudgetPerSource`.
- Fetches sent again after 600 s count as dispatches of the day but are not held back by the
  budget; and the check `if not fetch_done` (`intake/orchestrator.py:521`) is not reached.
- Two pages of a story that are normalised before either is judged are each other's
  duplicate, and nothing of the story is promoted.
- A fetch that fails late takes a FETCHED lead back, since the lock of
  `fetching/snapshot_service.py:60-61` does not refresh the copy.
- Once its source is deactivated, a run whose fetches are in flight waits for them for ever.
  The autopilot starts research while the operations pause stands.
- A mission whose run message comes back too early, or whose finalize check fails or dies with
  its worker, stays in RUNNING or GROUNDING; the route does not run an open mission again.
  Hence the exception of `MissionSettles`.
- A page of the open web is sent to fetch in DISCOVERED, which the fetch task skips, although
  the mission "dispatches the normal fetch chain" (`docs/RESEARCH_MISSIONS.md:91`): the run
  that finds it waits 15 minutes for it. A rerun, or an operator, accepts it.
- A fetch is sent before the commit that accepts its page, and is skipped when it arrives
  first (`missions/engine.py:911`).
- finalize that looks between a document and its duplicate decision takes the idea out, with
  the rationale that its documents belong to another opportunity. Hence the premise `judged`
  of `DroppedForCause`.
- The promotion slots of a rerun are counted over all strong ideas of the mission: those that
  became opportunities before take the places of new ones (`missions/engine.py:1372-1381`).
- The draft EDITING pins may not be the ACTIVE one, against
  `docs/PHASE4_EDITOR_ARCHITECTURE.md:104-108`.

## Not modelled, and the plan

In this order, each with its runs and the proofs of its invariants:

1. The autopilot's daily reservations and its sweep, whose lock of 18 s is never released.
2. `IntegrationBudget`, `Sessions`, `Performance`, `Sources`.

Left out for good: provider and vendor HTTP clients, prompt and output formats, scoring
formulas, read models, the admin user interface, migrations and configuration. They hold
no shared state that the properties speak of.

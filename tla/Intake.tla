------------------------------- MODULE Intake -------------------------------
(***************************************************************************)
(* Intake of one source: the runs that drive it (contentos.intake and the  *)
(* self-rescheduling step task), and the research pipeline behind them,    *)
(* fetch, normalise, judge duplicates, promote.  Messages are delivered at *)
(* least once and every task re-derives what to do from the rows; a step   *)
(* holds its copy of the run from the moment it loads it until it commits, *)
(* and a fetch holds its copy of the lead across the HTTP call.            *)
(***************************************************************************)
EXTENDS Naturals, FiniteSets

CONSTANTS
  Run, Lead,        \* runs of the source; discovery items of its feed
  Story,            \* lead |-> the story its page tells
  Listing,          \* leads whose URL the prefilter rejects
  Nil,
  PrefilterBatch, FetchBatch, MaxFetches, DailyBudget, MaxPromotions,
  MaxStepRetries, MaxFetchRetries,
  MaxSnapshots,     \* bound: further snapshots of an unchanged page are its last
  MaxFailures, MaxCrashes, MaxCommands, MaxDays,
  MaxOverlaps       \* bound: fetches that start while the lead is being fetched

ASSUME IntakeLeads == IsFiniteSet(Lead)
ASSUME IntakeNil == Nil \notin {"unique", "update_existing", "duplicate"}
ASSUME IntakeBounds ==
  /\ MaxSnapshots \in Nat \ {0}
  /\ {PrefilterBatch, FetchBatch, MaxFetches, DailyBudget, MaxPromotions, MaxStepRetries,
      MaxFetchRetries, MaxFailures, MaxCrashes, MaxCommands, MaxDays, MaxOverlaps} \subseteq Nat

VARIABLES
  status, stage,       \* of each run
  dispatched, aged,    \* leads a run has sent to fetch; those sent 600 s ago
  promoted, promoAged, \* documents a run has sent to promotion; the last 600 s ago
  step,                \* the holder of a run's step lock
  steps,               \* queued step messages of a run: the retries they are at
  starting,            \* who has checked and is about to insert a run
  lead, snaps,         \* state of a lead, its successful snapshots
  fetches, http,       \* queued fetch messages of a lead; HTTP calls for it, by retry
  doc, judging, decision, opportunity,
  toNormalise, toJudge, toPromote,
  today, spent,        \* dispatch events of the day, and those that were not repeats
  researched,          \* the autopilot has started today's run
  env,                 \* source active, its role yields opportunities, intake paused,
                       \* autopilot on
  used,                \* failures, crashes, commands, days and overlaps so far
  stale, overlap       \* history: dispatches by a step whose run was no longer
                       \* running; leads fetched twice at once

runVars == <<status, stage, dispatched, aged, promoted, promoAged, today, spent>>
pipeVars == <<doc, judging, decision, toNormalise, toJudge>>
fetchVars == <<lead, snaps, fetches, http, overlap>>
intakeVars == <<runVars, step, steps, starting, fetchVars, pipeVars, opportunity, toPromote,
          researched, env, used, stale>>

Doc == Lead \X (1..MaxSnapshots)
Live == {"running", "paused"}
Statuses == Live \cup {"absent", "completed", "stopped", "failed"}
Eligible == {"unique", "update_existing"}

\* Mutation: the larger of the two.
Larger(a, b) == IF a < b THEN b ELSE a

Least(a, b) == IF a < b THEN a ELSE b

Chunk(S, n) == {B \in SUBSET S : Cardinality(B) = Least(n, Cardinality(S))}

Fail == used.failures < MaxFailures /\ used' = [used EXCEPT !.failures = @ + 1]
Die == used.crashes < MaxCrashes /\ used' = [used EXCEPT !.crashes = @ + 1]
Command == used.commands < MaxCommands /\ used' = [used EXCEPT !.commands = @ + 1]

-----------------------------------------------------------------------------
(* Lifecycle of a run: contentos.intake.service and its routes.             *)

LiveRuns == {r \in Run : status[r] \in Live}

\* Mutation: the check before the insert is all there is.
IndexMissing(r) == TRUE

\* uq_intake_runs_live_per_source: no other row of the source is live.
IndexAdmits(r) == LiveRuns \subseteq {r}

\* The operator's button or the autopilot's sweep has found no live run.
BeginStart(who) ==
  /\ who \notin starting
  /\ env.active /\ LiveRuns = {}
  /\ IF who = "operator" THEN ~env.paused /\ Command
     ELSE env.autopilot /\ ~researched /\ UNCHANGED used
  /\ starting' = starting \cup {who}
  /\ UNCHANGED <<runVars, step, steps, fetchVars, pipeVars, opportunity, toPromote,
                 researched, env, stale>>

\* The row is inserted and committed, then the step message is sent.
InsertRun(who, r, sent) ==
  /\ who \in starting
  /\ status[r] = "absent" /\ IndexAdmits(r)
  /\ status' = [status EXCEPT ![r] = "running"]
  /\ IF sent THEN steps' = [steps EXCEPT ![r] = @ \cup {0}] /\ UNCHANGED used
     ELSE Die /\ UNCHANGED steps
  /\ starting' = starting \ {who}
  /\ researched' = (researched \/ who = "autopilot")
  /\ UNCHANGED <<stage, dispatched, aged, promoted, promoAged, today, spent, step,
                 fetchVars, pipeVars, opportunity, toPromote, env, stale>>

\* The insert runs into the index: 409 for the operator, a failed sweep.
StartRejected(who) ==
  /\ who \in starting
  /\ \A r \in Run : status[r] = "absent" => ~IndexAdmits(r)
  /\ starting' = starting \ {who}
  /\ UNCHANGED <<runVars, step, steps, fetchVars, pipeVars, opportunity, toPromote,
                 researched, env, used, stale>>

Control(r, from, to) ==
  /\ Command
  /\ status[r] \in from
  /\ status' = [status EXCEPT ![r] = to]
  /\ UNCHANGED <<stage, dispatched, aged, promoted, promoAged, today, spent, step,
                 starting, fetchVars, pipeVars, opportunity, toPromote, researched, env,
                 stale>>

PauseRun(r) == Control(r, {"running"}, "paused") /\ UNCHANGED steps

StopRun(r) == Control(r, Live, "stopped") /\ UNCHANGED steps

\* Resume commits and sends a step; the message may fail to be sent (503).
ResumeRun(r, sent) ==
  /\ Control(r, {"paused"}, "running")
  /\ steps' = IF sent THEN [steps EXCEPT ![r] = @ \cup {0}] ELSE steps

\* The operator pauses or resumes all intake, or the source.
SetEnvironment ==
  /\ Command
  /\ \/ env' = [env EXCEPT !.paused = ~@]
     \/ env' = [env EXCEPT !.active = ~@]
  /\ UNCHANGED <<runVars, step, steps, starting, fetchVars, pipeVars, opportunity,
                 toPromote, researched, stale>>

\* The autopilot's sweep sends a step for a running run whose row has not changed for
\* five minutes, in case the last message was lost.
Recover(r) ==
  /\ env.autopilot /\ env.active
  /\ status[r] = "running"
  /\ 0 \notin steps[r]
  /\ steps' = [steps EXCEPT ![r] = @ \cup {0}]
  /\ UNCHANGED <<runVars, step, starting, fetchVars, pipeVars, opportunity, toPromote,
                 researched, env, used, stale>>

-----------------------------------------------------------------------------
(* One step: take the lock and load the run, decide, commit, publish.       *)

Idle == [pc |-> "idle", retry |-> 0, out |-> Nil]

NoOutcome ==
  [to |-> Nil, stage |-> Nil, leads |-> [l \in {} |-> Nil], fetch |-> {}, again |-> {},
   promote |-> {}, next |-> FALSE]

Holding(r, pc, n, o) == step' = [step EXCEPT ![r] = [pc |-> pc, retry |-> n, out |-> o]]

StepUnchanged ==
  UNCHANGED <<starting, pipeVars, opportunity, researched, env>>

\* The lock is free: the worker takes it and loads the run.
LoadRun(r, n) ==
  /\ n \in steps[r] /\ step[r].pc = "idle"
  /\ Holding(r, IF status[r] = "running" THEN "loaded" ELSE "halting", n, Nil)
  /\ steps' = [steps EXCEPT ![r] = @ \ {n}]
  /\ UNCHANGED <<runVars, fetchVars, toPromote, used, stale>> /\ StepUnchanged

\* The lock is held: the message answers duplicate_in_flight and is gone.
DropStep(r, n) ==
  /\ n \in steps[r] /\ step[r].pc # "idle"
  /\ steps' = [steps EXCEPT ![r] = @ \ {n}]
  /\ UNCHANGED <<runVars, step, fetchVars, toPromote, used, stale>> /\ StepUnchanged

\* The run is not running: nothing is written, nothing is sent.
Halt(r) ==
  /\ step[r].pc = "halting"
  /\ step' = [step EXCEPT ![r] = Idle]
  /\ UNCHANGED <<runVars, steps, fetchVars, toPromote, used, stale>> /\ StepUnchanged

Decides(r, o) ==
  /\ Holding(r, "decided", step[r].retry, o)
  /\ UNCHANGED <<runVars, steps, fetchVars, toPromote, used, stale>> /\ StepUnchanged

InStage(r, s) == step[r].pc = "loaded" /\ ~env.paused /\ stage[r] = s

\* All intake is paused: the run is, too.
DecideOperationalPause(r) ==
  /\ step[r].pc = "loaded" /\ env.paused
  /\ Decides(r, [NoOutcome EXCEPT !.to = "paused"])

\* What a feed may name that was not seen before.
Entries == SUBSET {l \in Lead : lead[l] = "unknown"}

\* What the feed names is admitted as DISCOVERED.
DecideDiscovery(r) ==
  /\ InStage(r, "discovery") /\ env.active
  /\ \E F \in Entries :
       Decides(r, [NoOutcome EXCEPT !.leads = [l \in F |-> "discovered"],
                                    !.stage = "prefilter", !.next = TRUE])

\* The URL rules of the prefilter.
classify_url(l) == IF l \in Listing THEN "rejected" ELSE "accepted"

\* A batch of DISCOVERED leads is accepted or rejected by URL; a short batch is the last.
DecidePrefilter(r) ==
  /\ InStage(r, "prefilter")
  /\ \E B \in Chunk({l \in Lead : lead[l] = "discovered"}, PrefilterBatch) :
       Decides(r, [NoOutcome EXCEPT
         !.leads = [l \in B |-> classify_url(l)],
         !.stage = IF Cardinality(B) < PrefilterBatch THEN "fetch" ELSE Nil,
         !.next = TRUE])

InFlight(r) == {l \in dispatched[r] : lead[l] = "accepted"}

\* Mutation: a fetch message is sent once.
StalledNever(r) == {}

\* Fetches in flight whose first dispatch is 600 s old: they are sent again.
Stalled(r) == InFlight(r) \cap aged[r]

\* Something is in flight: wait.
DecideWait(r) ==
  /\ InStage(r, "fetch") /\ InFlight(r) # {}
  /\ Decides(r, [NoOutcome EXCEPT !.again = Stalled(r), !.next = TRUE])

\* Mutation: the budget counts the dispatches of this run.
RemainingOfRun(r) == DailyBudget - Least(Cardinality(dispatched[r]), DailyBudget)

\* What the source may still dispatch today; every dispatch event counts.
Remaining(r) == DailyBudget - today

Candidates(r) == {l \in Lead : lead[l] = "accepted"} \ dispatched[r]

FetchDone(r) ==
  \/ Cardinality(dispatched[r]) >= MaxFetches
  \/ Remaining(r) = 0
  \/ Candidates(r) = {}

\* Nothing is in flight and there is room: send a batch to fetch.
DecideFetch(r) ==
  /\ InStage(r, "fetch") /\ InFlight(r) = {} /\ ~FetchDone(r)
  /\ \E B \in Chunk(Candidates(r),
                    Least(FetchBatch,
                          Least(MaxFetches - Cardinality(dispatched[r]), Remaining(r)))) :
       Decides(r, [NoOutcome EXCEPT !.fetch = B, !.next = TRUE])

Fetched(r) == InStage(r, "fetch") /\ InFlight(r) = {} /\ FetchDone(r)

\* Documents of the source with an eligible decision and no opportunity.
Promotable(r) ==
  IF ~env.yields \/ Cardinality(promoted[r]) >= MaxPromotions THEN {}
  ELSE {d \in Doc : doc[d] = "normalised" /\ decision[d].outcome \in Eligible}
         \ (opportunity \cup promoted[r])

DecidePromote(r) ==
  /\ Fetched(r) /\ Promotable(r) # {}
  /\ \E B \in Chunk(Promotable(r), MaxPromotions - Cardinality(promoted[r])) :
       Decides(r, [NoOutcome EXCEPT !.promote = B, !.next = TRUE])

\* Promotions sent less than 600 s ago have not all become opportunities.
Pending(r) == ~(promoted[r] \subseteq opportunity) /\ ~promoAged[r]

DecideAwaitPromotions(r) ==
  /\ Fetched(r) /\ Promotable(r) = {} /\ Pending(r)
  /\ Decides(r, [NoOutcome EXCEPT !.next = TRUE])

DecideComplete(r) ==
  /\ Fetched(r) /\ Promotable(r) = {} /\ ~Pending(r)
  /\ Decides(r, [NoOutcome EXCEPT !.to = "completed"])

\* Messages go out after the commit: fetches and promotions, then the next step.
Send(F, P) ==
  /\ fetches' = [l \in Lead |-> IF l \in F THEN fetches[l] \cup {0} ELSE fetches[l]]
  /\ toPromote' = toPromote \cup P

Sent(r, o) ==
  /\ Send(o.fetch \cup o.again, o.promote)
  /\ steps' = IF o.next THEN [steps EXCEPT ![r] = @ \cup {0}] ELSE steps
  /\ UNCHANGED used

\* The worker died between the commit and the last message; its own comes back.
NotSent(r, o) ==
  /\ Die
  /\ \E F \in SUBSET (o.fetch \cup o.again), P \in SUBSET o.promote : Send(F, P)
  /\ steps' = [steps EXCEPT ![r] = @ \cup {step[r].retry}]

\* A lead another step has admitted is not admitted again; the rest is written as decided.
LeadsWith(o) ==
  [l \in Lead |->
     IF l \in DOMAIN o.leads /\ (o.leads[l] = "discovered" => lead[l] = "unknown")
     THEN o.leads[l] ELSE lead[l]]

\* The outcome is written over whatever the rows have become since.
CommitStep(r) ==
  LET o == step[r].out
      n == Cardinality(o.fetch) IN
  /\ step[r].pc = "decided"
  /\ o.to \in Live => IndexAdmits(r)
  /\ status' = IF o.to = Nil THEN status ELSE [status EXCEPT ![r] = o.to]
  /\ stage' = IF o.stage = Nil THEN stage ELSE [stage EXCEPT ![r] = o.stage]
  /\ lead' = LeadsWith(o)
  /\ dispatched' = [dispatched EXCEPT ![r] = @ \cup o.fetch]
  /\ promoted' = [promoted EXCEPT ![r] = @ \cup o.promote]
  /\ promoAged' = [promoAged EXCEPT ![r] = @ /\ o.promote = {}]
  /\ today' = Least(today + n + Cardinality(o.again), DailyBudget)
  /\ spent' = spent + n
  /\ stale' = (stale \/ (n > 0 /\ status[r] # "running"))
  /\ overlap' = overlap \cup {l \in DOMAIN o.leads : snaps[l] > 0}
  /\ step' = [step EXCEPT ![r] = Idle]
  /\ Sent(r, o) \/ NotSent(r, o)
  /\ UNCHANGED <<aged, snaps, http>> /\ StepUnchanged

\* The step raises: it rolls back and retries, and the last retry fails the run,
\* whatever its status is by then.
Raise(r) ==
  /\ step' = [step EXCEPT ![r] = Idle]
  /\ IF step[r].retry < MaxStepRetries
     THEN /\ steps' = [steps EXCEPT ![r] = @ \cup {step[r].retry + 1}]
          /\ UNCHANGED status
     ELSE status' = [status EXCEPT ![r] = "failed"] /\ UNCHANGED steps
  /\ UNCHANGED <<stage, dispatched, aged, promoted, promoAged, today, spent, fetchVars,
                 toPromote, stale>>
  /\ StepUnchanged

\* An unexpected failure, for one of the feed.
StepFails(r) == step[r].pc = "loaded" /\ Raise(r) /\ Fail

\* Discovery refuses a source that is not active; the index refuses a second live run.
StepRefused(r) ==
  /\ \/ InStage(r, "discovery") /\ ~env.active
     \/ step[r].pc = "decided" /\ step[r].out.to \in Live /\ ~IndexAdmits(r)
  /\ Raise(r)
  /\ UNCHANGED used

\* The worker dies inside the step: the message comes back, the lock stays.
StepDies(r) ==
  /\ step[r].pc \in {"loaded", "decided", "halting"}
  /\ Die
  /\ Holding(r, "dead", 0, Nil)
  /\ steps' = [steps EXCEPT ![r] = @ \cup {step[r].retry}]
  /\ UNCHANGED <<runVars, fetchVars, toPromote, stale>> /\ StepUnchanged

\* The lock's TTL of 600 s passes.
LockExpires(r) ==
  /\ step[r].pc = "dead"
  /\ step' = [step EXCEPT ![r] = Idle]
  /\ UNCHANGED <<runVars, steps, fetchVars, toPromote, used, stale>> /\ StepUnchanged

\* 600 s pass since a dispatch.
Age(r) ==
  /\ \/ /\ aged' = [aged EXCEPT ![r] = dispatched[r]] /\ aged[r] # dispatched[r]
        /\ UNCHANGED promoAged
     \/ /\ promoAged' = [promoAged EXCEPT ![r] = TRUE] /\ ~promoAged[r] /\ promoted[r] # {}
        /\ UNCHANGED aged
  /\ UNCHANGED <<status, stage, dispatched, promoted, today, spent, step, steps, starting,
                 fetchVars, pipeVars, opportunity, toPromote, researched, env, used, stale>>

NewDay ==
  /\ used.days < MaxDays /\ used' = [used EXCEPT !.days = @ + 1]
  /\ today' = 0 /\ spent' = 0 /\ researched' = FALSE
  /\ UNCHANGED <<status, stage, dispatched, aged, promoted, promoAged, step, steps,
                 starting, fetchVars, pipeVars, opportunity, toPromote, env, stale>>

-----------------------------------------------------------------------------
(* The pipeline behind the run: contentos.worker.research_tasks.            *)

PipelineUnchanged ==
  UNCHANGED <<runVars, step, steps, starting, opportunity, toPromote, researched, env,
              stale>>

\* Mutation: a fetched lead is done with, whatever was sent after its fetch.
ReuseNothing(l) == {}

\* A fetched lead is not fetched again: its last snapshot is sent on.
Reused(l) == IF lead[l] = "fetched" THEN {<<l, snaps[l]>>} ELSE {}

\* Mutation: whatever its state, a lead is fetched when a message says so.
FetchAlways(l) == env.active

\* Only an ACCEPTED lead of an active source is fetched.
MayFetch(l) == lead[l] = "accepted" /\ env.active

SkipFetch(l, n) ==
  /\ n \in fetches[l] /\ ~MayFetch(l)
  /\ toNormalise' = toNormalise \cup Reused(l)
  /\ fetches' = [fetches EXCEPT ![l] = @ \ {n}]
  /\ UNCHANGED <<lead, snaps, http, overlap, doc, judging, decision, toJudge, used>>
  /\ PipelineUnchanged

Flying(l) == \E n \in 0..MaxFetchRetries : http[l][n] > 0

StartFetch(l, n) ==
  /\ n \in fetches[l] /\ MayFetch(l)
  /\ IF Flying(l)
     THEN used.overlaps < MaxOverlaps /\ used' = [used EXCEPT !.overlaps = @ + 1]
     ELSE UNCHANGED used
  /\ fetches' = [fetches EXCEPT ![l] = @ \ {n}]
  /\ http' = [http EXCEPT ![l][n] = @ + 1]
  /\ overlap' = IF Flying(l) THEN overlap \cup {l} ELSE overlap
  /\ UNCHANGED <<lead, snaps, pipeVars>> /\ PipelineUnchanged

\* The attempt is appended; the row is locked, but its state is the one the task has held
\* since before the HTTP call, ACCEPTED, and the new state is written over any other.
Attempted(l, state, k) ==
  /\ lead' = [lead EXCEPT ![l] = state]
  /\ snaps' = [snaps EXCEPT ![l] = k]

\* A snapshot is appended and the lead, as the task holds it, becomes FETCHED; after the
\* commit the snapshot is sent to be normalised, unless the worker dies first.
FetchSucceeds(l, n, sent) ==
  LET k == Least(snaps[l] + 1, MaxSnapshots) IN
  /\ http[l][n] > 0
  /\ http' = [http EXCEPT ![l][n] = @ - 1]
  /\ Attempted(l, "fetched", k)
  /\ IF sent THEN toNormalise' = toNormalise \cup {<<l, k>>} /\ UNCHANGED <<fetches, used>>
     ELSE /\ Die /\ fetches' = [fetches EXCEPT ![l] = @ \cup {n}]
          /\ UNCHANGED toNormalise
  /\ UNCHANGED <<overlap, doc, judging, decision, toJudge>> /\ PipelineUnchanged

\* The attempt failed: retry what may be retried, else the lead is FETCH_FAILED.
FetchFails(l, n) ==
  /\ http[l][n] > 0 /\ Fail
  /\ http' = [http EXCEPT ![l][n] = @ - 1]
  /\ \/ /\ n < MaxFetchRetries
        /\ Attempted(l, "accepted", snaps[l])
        /\ fetches' = [fetches EXCEPT ![l] = @ \cup {n + 1}]
     \/ Attempted(l, "fetch_failed", snaps[l]) /\ UNCHANGED fetches
  /\ UNCHANGED <<overlap, pipeVars>> /\ PipelineUnchanged

FetchDies(l, n) ==
  /\ http[l][n] > 0 /\ Die
  /\ http' = [http EXCEPT ![l][n] = @ - 1]
  /\ fetches' = [fetches EXCEPT ![l] = @ \cup {n}]
  /\ UNCHANGED <<lead, snaps, overlap, pipeVars>> /\ PipelineUnchanged

\* One document per snapshot and extractor; a redelivery finds it and sends it on.
Normalise(d, sent) ==
  /\ d \in toNormalise
  /\ doc' = [doc EXCEPT ![d] = IF @ = "absent" THEN "normalised" ELSE @]
  /\ IF sent THEN /\ toNormalise' = toNormalise \ {d}
                  /\ toJudge' = IF doc'[d] = "normalised" THEN toJudge \cup {d} ELSE toJudge
                  /\ UNCHANGED used
     ELSE Die /\ UNCHANGED <<toNormalise, toJudge>>
  /\ UNCHANGED <<fetchVars, judging, decision>> /\ PipelineUnchanged

\* The extractor cannot use the page: the failure is the document.
NormaliseFails(d) ==
  /\ d \in toNormalise /\ doc[d] = "absent" /\ Fail
  /\ doc' = [doc EXCEPT ![d] = "failed"]
  /\ toNormalise' = toNormalise \ {d}
  /\ UNCHANGED <<fetchVars, judging, decision, toJudge>> /\ PipelineUnchanged

\* Mutation: the document is compared with itself as well.
AllNormalised(d) == {e \in Doc : doc[e] = "normalised"}

\* The documents a document is compared with: all others that are normalised, judged
\* or not.
Comparable(d) == {e \in Doc \ {d} : doc[e] = "normalised"}

\* The evaluation reads its candidates, unless the document has its decision.
ReadCandidates(d) ==
  /\ d \in toJudge /\ judging[d] = Nil
  /\ IF decision[d].outcome # Nil THEN toJudge' = toJudge \ {d} /\ UNCHANGED judging
     ELSE judging' = [judging EXCEPT ![d] = Comparable(d)] /\ UNCHANGED toJudge
  /\ UNCHANGED <<fetchVars, doc, decision, toNormalise, used>> /\ PipelineUnchanged

SameStory(d, S) == {e \in S : Story[e[1]] = Story[d[1]]}

\* What the engine can answer: a page that tells the same story is a DUPLICATE; the same
\* page again may also have changed, which makes it an update.  A RELATED page is as
\* eligible as a unique one.
Outcomes(d, S) ==
  IF SameStory(d, S) = {} THEN {"unique"}
  ELSE IF \A e \in SameStory(d, S) : e[1] = d[1] THEN {"duplicate", "update_existing"}
  ELSE {"duplicate"}

RecordDecision(d) ==
  /\ judging[d] # Nil
  /\ \E o \in Outcomes(d, judging[d]) :
       decision' = [decision EXCEPT ![d] = [outcome |-> o, saw |-> judging[d]]]
  /\ judging' = [judging EXCEPT ![d] = Nil]
  /\ toJudge' = toJudge \ {d}
  /\ UNCHANGED <<fetchVars, doc, toNormalise, used>> /\ PipelineUnchanged

\* A promotion of an eligible document creates its opportunity once, by its root; the
\* task may also fail, and is then gone.
Promote(d, done) ==
  /\ d \in toPromote
  /\ toPromote' = toPromote \ {d}
  /\ IF done THEN opportunity' = opportunity \cup {d} /\ UNCHANGED used
     ELSE Fail /\ UNCHANGED opportunity
  /\ UNCHANGED <<runVars, step, steps, starting, fetchVars, pipeVars, researched, env, stale>>

-----------------------------------------------------------------------------
\* Every instance starts from some runs and leads; nothing is under way but the step
\* messages of the running runs, and no page has been stored.
InitWith(runs, leads, e, u, again, sent) ==
  /\ status = [r \in Run |-> IF r \in runs THEN "running" ELSE "absent"]
  /\ stage = [r \in Run |-> IF r \in runs THEN "fetch" ELSE "discovery"]
  /\ lead = leads
  /\ dispatched = [r \in Run |-> {}] /\ aged = [r \in Run |-> {}]
  /\ promoted = [r \in Run |-> {}] /\ promoAged = [r \in Run |-> FALSE]
  /\ step = [r \in Run |-> Idle] /\ steps = [r \in Run |-> IF r \in runs THEN {0} ELSE {}]
  /\ starting = {}
  /\ snaps = [l \in Lead |-> 0]
  /\ fetches = [l \in Lead |-> {}]
  /\ http = [l \in Lead |-> [n \in 0..MaxFetchRetries |-> 0]]
  /\ doc = [d \in Doc |-> "absent"] /\ judging = [d \in Doc |-> Nil]
  /\ decision = [d \in Doc |-> [outcome |-> Nil, saw |-> {}]]
  /\ opportunity = {} /\ toNormalise = {} /\ toJudge = {} /\ toPromote = {}
  /\ today = sent /\ spent = sent /\ researched = ~again
  /\ env = e /\ used = u
  /\ stale = FALSE /\ overlap = {}

StepMessage(r) == \E n \in 0..MaxStepRetries : LoadRun(r, n) \/ DropStep(r, n)

StepWork(r) ==
  \/ Halt(r) \/ CommitStep(r) \/ StepRefused(r)
  \/ DecideOperationalPause(r) \/ DecideDiscovery(r) \/ DecidePrefilter(r)
  \/ DecideWait(r) \/ DecideFetch(r) \/ DecidePromote(r) \/ DecideAwaitPromotions(r)
  \/ DecideComplete(r)

FetchWork(l) ==
  \E n \in 0..MaxFetchRetries :
    SkipFetch(l, n) \/ StartFetch(l, n) \/ FetchSucceeds(l, n, TRUE) \/ FetchFails(l, n)

DocumentWork(d) ==
  Normalise(d, TRUE) \/ ReadCandidates(d) \/ RecordDecision(d) \/ Promote(d, TRUE)

Faults ==
  \/ \E r \in Run : StepFails(r) \/ StepDies(r)
  \/ \E l \in Lead, n \in 0..MaxFetchRetries : FetchSucceeds(l, n, FALSE) \/ FetchDies(l, n)
  \/ \E d \in Doc : Normalise(d, FALSE) \/ NormaliseFails(d) \/ Promote(d, FALSE)

Starts ==
  \E who \in {"operator", "autopilot"} :
    \/ BeginStart(who) \/ StartRejected(who)
    \/ \E r \in Run, sent \in BOOLEAN : InsertRun(who, r, sent)

Operator ==
  \/ SetEnvironment
  \/ \E r \in Run :
       PauseRun(r) \/ StopRun(r) \/ \E sent \in BOOLEAN : ResumeRun(r, sent)

IntakeNext ==
  \/ Starts \/ Operator \/ Faults \/ NewDay
  \/ \E r \in Run : StepMessage(r) \/ StepWork(r) \/ Recover(r) \/ LockExpires(r) \/ Age(r)
  \/ \E l \in Lead : FetchWork(l)
  \/ \E d \in Doc : DocumentWork(d)

-----------------------------------------------------------------------------
(* Properties.                                                              *)

\* The variables have their types.
IntakeTypeOK ==
  /\ status \in [Run -> Statuses] /\ stage \in [Run -> {"discovery", "prefilter", "fetch"}]
  /\ dispatched \in [Run -> SUBSET Lead] /\ aged \in [Run -> SUBSET Lead]
  /\ promoted \in [Run -> SUBSET Doc] /\ promoAged \in [Run -> BOOLEAN]
  /\ steps \in [Run -> SUBSET (0..MaxStepRetries)]
  /\ \A r \in Run : step[r].pc \in {"idle", "loaded", "halting", "decided", "dead"}
  /\ lead \in [Lead -> {"elsewhere", "unknown", "discovered", "accepted", "rejected",
                        "fetched", "fetch_failed"}]
  /\ snaps \in [Lead -> 0..MaxSnapshots] /\ overlap \subseteq Lead
  /\ fetches \in [Lead -> SUBSET (0..MaxFetchRetries)]
  /\ http \in [Lead -> [0..MaxFetchRetries -> Nat]]
  /\ doc \in [Doc -> {"absent", "normalised", "failed"}]
  /\ \A d \in Doc : decision[d].outcome \in Eligible \cup {"duplicate", Nil}
  /\ opportunity \cup toNormalise \cup toJudge \cup toPromote \subseteq Doc
  /\ today \in 0..DailyBudget /\ spent \in Nat

\* A source has one live run, though two actors start runs after a check, and a step that
\* was overtaken by a stop still writes the status it decided on (intake/models.py:43).
OneLiveRun == Cardinality(LiveRuns) <= 1

\* More leads are dispatched in a day than the source's budget only when a step went on
\* for a run that had been stopped or paused under it: the lock is per run, the budget per
\* source (orchestrator.py:308).
BudgetPerSource == spent > DailyBudget => stale

\* A lead with a stored page is out of FETCHED only if two fetches of it overlapped or a
\* late step wrote over it: a redelivered or repeated message alone never takes a fetched
\* lead back (research_tasks.py:240).
FetchedStays ==
  \A l \in Lead : (snaps[l] > 0 /\ lead[l] # "fetched") => l \in overlap

Copies(s) == {d \in Doc : doc[d] = "normalised" /\ Story[d[1]] = s}

\* A story none of whose pages can be promoted was lost to a race: two of its pages were
\* normalised before either was judged, and each is the other's duplicate
\* (duplicates/repository.py:89).
StoryLostOnlyByRace ==
  \A l \in Lead :
    LET C == Copies(Story[l]) IN
    (C # {} /\ \A d \in C : decision[d].outcome = "duplicate") =>
      \E d, e \in C : d # e /\ d \in decision[e].saw /\ e \in decision[d].saw

\* Under an autopilot that takes care of its runs, a source does not stay with a running
\* run: it comes to an end or to a pause, whatever messages are lost with a worker or
\* dropped at the lock, unless the source itself is deactivated.
RunSettles ==
  (env.autopilot /\ \E r \in Run : status[r] = "running")
    ~> (~env.active \/ \A r \in Run : status[r] # "running")

Judged(l) ==
  \E k \in 1..MaxSnapshots : doc[<<l, k>>] = "failed" \/ decision[<<l, k>>].outcome # Nil

Waiting == {l \in Lead : lead[l] = "fetched" /\ ~Judged(l)}

\* Fetched leads do not wait for their judgement for ever: the message to normalise a
\* page is not lost with the worker that fetched it.
FetchedIsJudged == Waiting # {} ~> Waiting = {}
=============================================================================

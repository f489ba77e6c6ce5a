-------------------------- MODULE EditorialStages --------------------------
(***************************************************************************)
(* From the accepted brief to the human review, for one work item: drafts, *)
(* editor reviews and QA reports with their supersession, the AI attempts  *)
(* behind them, the writer, editor, QA and image tasks, the operator's     *)
(* commands and the autopilot, which all move the same row.                *)
(*                                                                         *)
(* The last element of drafts, reviews and reports is the ACTIVE one, and  *)
(* its index is its identity.  A task or an autopilot step that has loaded *)
(* the item keeps that copy, and the row lock does not refresh it          *)
(* (Workflow): it writes with the authority of checks that may be old.     *)
(* The accepted brief is fixed: nothing may supersede it (briefs/service). *)
(***************************************************************************)
EXTENDS AutopilotPlanner, FiniteSets

CONSTANTS
  Writer,       \* generate_writer_draft messages
  Editor,       \* generate_editor_review messages
  QaRun,        \* run_qa_gates messages
  Image,        \* generate_media_image messages
  Sweep,        \* autopilot step executions
  Body,         \* texts an operator may submit
  Need,         \* the media needs of the brief
  MaxRetries,   \* MAX_RETRIES of the tasks
  Budget,       \* ai_daily_attempt_budget: attempts of the day
  MaxRetry,     \* bound on the retry numbers an operator asks for
  MaxVersions,  \* bound on the versions of an artifact
  MaxCommands,  \* bound on the operator's commands
  MaxFailures,  \* bound on the provider calls that fail
  MaxCrashes    \* bound on the workers that die

ASSUME StageMessages ==
  /\ Writer \cap (Editor \cup QaRun \cup Image \cup Sweep) = {}
  /\ Editor \cap (QaRun \cup Image \cup Sweep) = {}
  /\ QaRun \cap (Image \cup Sweep) = {} /\ Image \cap Sweep = {}
  /\ None \notin Writer \cup Editor \cup QaRun \cup Image \cup Sweep \cup Body
ASSUME StageNeeds == IsFiniteSet(Need)
ASSUME StageSweeps == IsFiniteSet(Sweep)
ASSUME StageBounds ==
  {MaxRetries, Budget, MaxRetry, MaxVersions, MaxCommands, MaxFailures, MaxCrashes} \subseteq Nat

VARIABLES
  row,        \* editorial_work_items.current_state
  entry,      \* what the newest event that entered a stage pins
  cycles,     \* events that entered CHANGES_REQUESTED
  fresh,      \* the copies of the item no transition came after
  serial,     \* nothing has been written yet on an old copy's authority
  drafts, reviews, reports,
  bound,      \* needs with an ACTIVE media satisfaction
  candidate,  \* needs with a generated image waiting
  waived,     \* a human waived the media gate
  attempts,   \* the item's ai_generation_attempts rows, by purpose
  spent,      \* attempts of other items today
  away,       \* the operator gives no command
  mode,       \* the autopilot's mode
  task,       \* per message: where its execution is
  step,       \* per autopilot step: the action it has planned
  request,    \* the operator's request that has checked and not yet written
  recent,     \* actions the autopilot took inside IN_FLIGHT_WINDOW
  lost,         \* a redelivery met the execution lock of the worker that died
  commands, failures, crashes

item      == <<row, entry, cycles, fresh, serial>>
artifacts == <<drafts, reviews, reports>>
media     == <<bound, candidate, waived>>
day       == <<spent, away, mode>>
bounds    == <<day, lost, commands, failures, crashes>>
vars      == <<item, artifacts, media, attempts, task, step, request, recent, bounds>>

Generation == Writer \cup Editor \cup Image
Message == Generation \cup QaRun

NoTask == [pc |-> "idle", retry |-> 0, retries |-> 0, reason |-> FALSE, subject |-> 0, result |-> 0]
Queued(retry) == [NoTask EXCEPT !.pc = "queued", !.retry = retry]
NoStep == [pc |-> "idle", action |-> Idle(None)]
NoRequest == [pc |-> "idle", draft |-> 0, review |-> 0]

-----------------------------------------------------------------------------
(* What the services read.                                                  *)

ActiveDraft  == Len(drafts)
ActiveReview == Len(reviews)
ActiveReport == Len(reports)

\* EditorVerdictPolicy.compute: a BLOCKING or MAJOR finding asks for a revision;
\* a review that passes may still note minor findings.
ReviewVerdict == {"pass", "pass_with_notes", "revise"}
MediaOutcome == {"not_applicable", "satisfied", "waived_by_human", "unsatisfied"}

\* The rows, as far as the stages read them; attempt 0 is a human author.
ContentDraft    == [attempt : Nat, body : Body \cup {None}]
EditorialReview == [draft : Nat, verdict : ReviewVerdict, attempt : Nat]
QaReport        == [draft : Nat, review : Nat, media : MediaOutcome, ready : BOOLEAN]

Passes(r) == reviews[r].verdict # "revise"

\* The ACTIVE review is over the ACTIVE draft.
ReviewCovers == reviews # <<>> /\ reviews[ActiveReview].draft = ActiveDraft

PassingReviewCovers == ReviewCovers /\ Passes(ActiveReview)

\* resolve_package: the entry pins the ACTIVE pair, which passes.
PackageResolves ==
  /\ entry.qa_review = [draft |-> ActiveDraft, review |-> ActiveReview]
  /\ PassingReviewCovers

\* _require_pinned_active_draft
EditingPinsActive == entry.editing = ActiveDraft /\ ActiveDraft # 0

\* The media gate over the needs of the brief.
MediaResult ==
  IF Need = {} THEN "not_applicable"
  ELSE IF Need \subseteq bound THEN "satisfied"
  ELSE IF waived THEN "waived_by_human" ELSE "unsatisfied"

\* Mutation: the writer's input does not name the findings it answers.
NoReworkReview == 0

\* The rework findings a writer's input names: the review pinned by the entry
\* into CHANGES_REQUESTED that DRAFTING was entered from, if it found anything.
ReworkReview ==
  IF entry.drafting /\ entry.rework.review # 0
     /\ reviews[entry.rework.review].verdict # "pass"
    THEN entry.rework.review ELSE 0

\* provider_error and timeout are treated alike.
GenerationStatus == {"succeeded", "validation_failed", "provider_failure"}
AiGenerationAttempt == [subject : Nat \cup Need, retry : Nat, status : GenerationStatus]
Retryable(status) == status = "provider_failure"

GenerationPurpose == {"writer", "editor", "image"}

\* The attempts the item has made.
Calls == Len(attempts["writer"]) + Len(attempts["editor"]) + Len(attempts["image"])

\* Mutation: a stored failure does not answer for its identity.
StoredSuccess(purpose, subject, retry) ==
  {i \in DOMAIN attempts[purpose] : attempts[purpose][i].status = "succeeded"
     /\ attempts[purpose][i].subject = subject /\ attempts[purpose][i].retry = retry}

\* get_by_identity_hash: the input is named by the subject it is built from.
Stored(purpose, subject, retry) ==
  {i \in DOMAIN attempts[purpose] :
     attempts[purpose][i].subject = subject /\ attempts[purpose][i].retry = retry}

\* Mutation: the retry number of the newest attempt is used again.
LastRetryNumber(purpose) ==
  LET used == {attempts[purpose][i].retry : i \in DOMAIN attempts[purpose]}
  IN IF used = {} THEN 0 ELSE CHOOSE n \in used : \A m \in used : m <= n

NextRetryNumber(purpose) ==
  LET used == {attempts[purpose][i].retry : i \in DOMAIN attempts[purpose]}
  IN IF used = {} THEN 0 ELSE 1 + CHOOSE n \in used : \A m \in used : m <= n

\* consecutive_provider_failures reaches MAX_PROVIDER_FAILURE_STREAK.
MAX_PROVIDER_FAILURE_STREAK == 3
ProviderExhausted(purpose) ==
  LET rows == attempts[purpose] IN
  /\ Len(rows) >= MAX_PROVIDER_FAILURE_STREAK
  /\ \A i \in Len(rows) - MAX_PROVIDER_FAILURE_STREAK + 1 .. Len(rows) : Retryable(rows[i].status)

DraftOf(attempt)  == {d \in DOMAIN drafts : drafts[d].attempt = attempt}

-----------------------------------------------------------------------------
(* Writes to the item and its artifacts.  x is the holder of the copy the   *)
(* write relies on, or None for a caller that reads the row under its lock.  *)

OnCopyOf(x) == serial' = (serial /\ (x = None \/ x \in fresh))

Move(x, to) == row' = to /\ fresh' = {} /\ OnCopyOf(x)

Load(x)   == fresh' = fresh \cup {x} /\ UNCHANGED <<row, entry, cycles, serial>>
Forget(x) == fresh' = fresh \ {x} /\ UNCHANGED <<row, entry, cycles, serial>>

\* Into EDITING with this draft pinned.
MoveToEditing(x, draft) ==
  Move(x, "editing") /\ entry' = [entry EXCEPT !.editing = draft] /\ UNCHANGED cycles

MoveToQaReview(x, draft, review) ==
  /\ Move(x, "qa_review")
  /\ entry' = [entry EXCEPT !.qa_review = [draft |-> draft, review |-> review]]
  /\ UNCHANGED cycles

MoveToRework(x, responsible) ==
  /\ Move(x, "changes_requested")
  /\ entry' = [entry EXCEPT !.rework = [responsible |-> responsible, review |-> ActiveReview]]
  /\ cycles' = cycles + 1

\* resolve_changes_requested: to the recorded stage, with nothing pinned.
Resolved(e, responsible) ==
  CASE responsible = "drafting"  -> [e EXCEPT !.drafting = TRUE]
    [] responsible = "editing"   -> [e EXCEPT !.editing = 0]
    [] responsible = "qa_review" -> [e EXCEPT !.qa_review = [draft |-> 0, review |-> 0]]

\* _create_draft supersedes the ACTIVE draft.
AddDraft(attempt, body) == drafts' = Append(drafts, [attempt |-> attempt, body |-> body])

AddAttempt(purpose, t, status) ==
  /\ IF status = "succeeded" THEN UNCHANGED failures
     ELSE failures < MaxFailures /\ failures' = failures + 1
  /\ attempts' = [attempts EXCEPT ![purpose] =
                 Append(@, [subject |-> t.subject, retry |-> t.retry + t.retries, status |-> status])]

Put(m, t) == task' = [task EXCEPT ![m] = t]
Finish(m) == Put(m, NoTask)

\* Mutation: an attempt more than MAX_RETRIES allows.
MayRetryOnceMore(m) == task[m].retries <= MaxRetries

MayRetry(m) == task[m].retries < MaxRetries

\* A retryable failure is asked for again until MAX_RETRIES.
RetryOrFinish(m, status) ==
  IF Retryable(status) /\ MayRetry(m)
    THEN Put(m, [task[m] EXCEPT !.pc = "queued", !.retries = @ + 1,
                             !.subject = IF m \in Image THEN @ ELSE 0])
    ELSE Finish(m)

\* exclusive: an execution of the same task holds the lock of the entity, which
\* is the brief, the item, or the item and the media need.  It holds it to its
\* end: an execution that outlives the lock's TTL is ExecutionLock's matter.
Locked(m) ==
  \E kind \in {Writer, Editor, Image} : \E k \in kind :
    /\ m \in kind /\ task[k].pc \notin {"idle", "queued"}
    /\ kind = Image => task[k].subject = task[m].subject

\* Put a message on the queue; with none to spare the request does not happen.
Send(kind, t) == \E m \in kind : task[m].pc = "idle" /\ Put(m, t)

\* Mutation: one attempt more than the day allows.
BudgetAlmostSpent == spent + Calls > Budget

BudgetSpent == spent + Calls >= Budget

\* ensure_daily_attempt_budget, before the engine runs: the task ends as a no-op.
BudgetRefused(m) ==
  /\ task[m].pc = "queued" /\ ~Locked(m)
  /\ ~(m \in Writer /\ row = "editing")
  /\ BudgetSpent
  /\ Finish(m)
  /\ UNCHANGED <<item, artifacts, media, attempts, step, request, recent, bounds>>

\* A delivery that finds the lock taken is dropped.
DuplicateInFlight(m) ==
  /\ task[m].pc = "queued" /\ Locked(m)
  /\ Finish(m)
  /\ UNCHANGED <<item, artifacts, media, attempts, step, request, recent, bounds>>

-----------------------------------------------------------------------------
(* generate_writer_draft                                                    *)

\* The execution loads the item and finds what there is to do.
StartWriter(w) ==
  /\ task[w].pc = "queued" /\ ~Locked(w)
  /\ row = "editing" \/ ~BudgetSpent
  /\ \/ \* Redelivered after its own transition: only the dispatch is repeated.
        /\ row = "editing"
        /\ IF EditingPinsActive
             THEN Put(w, [task[w] EXCEPT !.pc = "dispatching"])
             ELSE Finish(w)
        /\ UNCHANGED item
     \/ /\ row \notin {"editing", "drafting"}
        /\ Finish(w) /\ UNCHANGED item
     \/ /\ row = "drafting" /\ Load(w)
        /\ LET found == Stored("writer", ReworkReview, task[w].retry + task[w].retries) IN
           \/ /\ found = {}
              /\ Put(w, [task[w] EXCEPT !.pc = "calling", !.subject = ReworkReview])
           \/ \E i \in found :
                /\ attempts["writer"][i].status = "succeeded"
                /\ IF DraftOf(i) = {}
                     THEN Finish(w)
                     ELSE \E d \in DraftOf(i) :
                            Put(w, [task[w] EXCEPT !.pc = "drafted", !.result = d])
           \/ \E i \in found :
                attempts["writer"][i].status # "succeeded" /\ RetryOrFinish(w, attempts["writer"][i].status)
  /\ UNCHANGED <<artifacts, media, attempts, step, request, recent, bounds>>

\* The provider answers: the attempt is recorded and, with a usable output, the
\* draft; the stage it is checked against is the one the execution loaded.
WriterAnswered(w, status) ==
  /\ task[w].pc = "calling"
  /\ AddAttempt("writer", task[w], status)
  /\ IF status = "succeeded" /\ (drafts = <<>> \/ task[w].reason)
       THEN /\ Len(drafts) < MaxVersions
            /\ AddDraft(Len(attempts["writer"]) + 1, None)
            /\ Put(w, [task[w] EXCEPT !.pc = "drafted", !.result = Len(drafts) + 1])
            /\ OnCopyOf(w) /\ UNCHANGED <<row, entry, cycles, fresh>>
       ELSE /\ RetryOrFinish(w, status) /\ Forget(w)
            /\ UNCHANGED drafts
  /\ UNCHANGED <<reviews, reports, media, step, request, recent, day, lost, commands, crashes>>

\* The second transaction moves the item with the draft pinned.
WriterAdvances(w) ==
  /\ task[w].pc = "drafted"
  /\ MoveToEditing(w, task[w].result)
  /\ Put(w, [task[w] EXCEPT !.pc = "dispatching"])
  /\ UNCHANGED <<artifacts, media, attempts, step, request, recent, bounds>>

\* dispatch_next, after the commit.
WriterDispatches(w) ==
  /\ task[w].pc = "dispatching"
  /\ \E e \in Editor :
       /\ task[e].pc = "idle"
       /\ task' = [task EXCEPT ![w] = NoTask, ![e] = Queued(0)]
  /\ UNCHANGED <<item, artifacts, media, attempts, step, request, recent, bounds>>

-----------------------------------------------------------------------------
(* generate_editor_review                                                   *)

\* A plain delivery whose work is done.
ReviewReused(e) == task[e].retry = 0 /\ ~task[e].reason /\ drafts # <<>> /\ ReviewCovers

StartEditor(e) ==
  /\ task[e].pc = "queued" /\ ~Locked(e)
  /\ ~BudgetSpent
  /\ LET found == Stored("editor", ActiveDraft, task[e].retry + task[e].retries) IN
     IF ReviewReused(e) \/ row # "editing" \/ ~EditingPinsActive
       THEN Finish(e)
       ELSE \/ /\ found = {}
               /\ Put(e, [task[e] EXCEPT !.pc = "calling", !.subject = ActiveDraft])
            \/ \E i \in found :
                 \* A stored success has its review, or none will ever come of it.
                 IF attempts["editor"][i].status = "succeeded" THEN Finish(e)
                 ELSE RetryOrFinish(e, attempts["editor"][i].status)
  /\ UNCHANGED <<item, artifacts, media, attempts, step, request, recent, bounds>>

EditorFailed(e, status) ==
  /\ task[e].pc = "calling" /\ status # "succeeded"
  /\ AddAttempt("editor", task[e], status)
  /\ RetryOrFinish(e, status)
  /\ UNCHANGED <<item, artifacts, media, step, request, recent, day, lost, commands, crashes>>

\* create_review refuses its inputs: the attempt stays, without a review.
ReviewRefused(e) ==
  \/ entry.editing # ActiveDraft
  \/ ReviewCovers /\ ~task[e].reason

\* The stage, the pin or the draft changed while the provider ran: everything
\* is rolled back, the attempt included.
ReviewRolledBack(e) ==
  row # "editing" \/ entry.editing = 0 \/ (EditingPinsActive /\ task[e].subject # ActiveDraft)

\* The findings may be those of the ACTIVE review; with none on both sides they are.
SameReview(verdict) == ReviewCovers /\ reviews[ActiveReview].verdict = verdict

EditorAnswered(e, verdict) ==
  /\ task[e].pc = "calling"
  /\ IF ReviewRolledBack(e) THEN UNCHANGED <<attempts, failures, reviews>>
     ELSE /\ AddAttempt("editor", task[e], "succeeded")
          /\ \/ /\ ReviewRefused(e) \/ SameReview(verdict)
                /\ UNCHANGED reviews
             \/ /\ ~ReviewRefused(e) /\ ~(SameReview(verdict) /\ verdict = "pass")
                /\ Len(reviews) < MaxVersions
                /\ reviews' = Append(reviews, [draft |-> ActiveDraft, verdict |-> verdict,
                                                 attempt |-> Len(attempts["editor"]) + 1])
  /\ Finish(e)
  /\ UNCHANGED <<item, drafts, reports, media, step, request, recent, day, lost, commands, crashes>>

-----------------------------------------------------------------------------
(* run_qa_gates                                                             *)

\* persist_report: an identical report is the ACTIVE one, another supersedes it.
Persisted(report) ==
  IF reports # <<>> /\ reports[ActiveReport] = report THEN reports ELSE Append(reports, report)

\* Mutation: the outcome of the report is not looked at.
AnyReportGoesOn(report) == TRUE

GoesOn(report) == report.ready

\* The gates and their report; ok says whether the gates over the text hold.
RunGates(q, ok) ==
  LET result == MediaResult
      report == [draft |-> ActiveDraft, review |-> ActiveReview, media |-> result,
                 ready |-> ok /\ result # "unsatisfied"]
  IN
  /\ task[q].pc = "queued"
  /\ IF row = "qa_review" /\ PackageResolves
       THEN /\ Len(reports) < MaxVersions
            /\ reports' = Persisted(report)
            /\ IF GoesOn(report)
                 THEN /\ Put(q, [task[q] EXCEPT !.pc = "reported", !.result = Len(reports')])
                      /\ Load(q)
                 ELSE Finish(q) /\ UNCHANGED item
       ELSE Finish(q) /\ UNCHANGED <<item, reports>>
  /\ UNCHANGED <<drafts, reviews, media, attempts, step, request, recent, bounds>>

\* The second transaction sends the package to the human review.
QaAdvances(q) ==
  /\ task[q].pc = "reported"
  /\ Move(q, "awaiting_human_review")
  /\ entry' = [entry EXCEPT !.human = task[q].result]
  /\ Finish(q)
  /\ UNCHANGED <<cycles, artifacts, media, attempts, step, request, recent, bounds>>

-----------------------------------------------------------------------------
(* A worker dies: the message is delivered again (acks_late), but a task that *)
(* calls a provider leaves its execution lock behind until it expires, and   *)
(* the redelivery that meets it is answered as a duplicate and acknowledged. *)

WorkerDies(m) ==
  /\ crashes < MaxCrashes /\ crashes' = crashes + 1
  /\ task[m].pc \notin {"idle", "queued"}
  /\ Forget(m)
  /\ UNCHANGED <<artifacts, media, attempts, step, request, recent, day, commands, failures>>

Crash(m) ==
  /\ WorkerDies(m)
  /\ Put(m, [task[m] EXCEPT !.pc = "queued", !.result = 0,
                           !.subject = IF m \in Image THEN @ ELSE 0])
  /\ UNCHANGED lost

CrashLosesMessage(m) ==
  /\ m \in Generation /\ WorkerDies(m)
  /\ Finish(m) /\ lost' = TRUE

-----------------------------------------------------------------------------
(* The operator's commands.                                                 *)

OperatorCommand == ~away /\ commands < MaxCommands /\ commands' = commands + 1 /\ UNCHANGED <<day, lost, failures, crashes>>

\* generate-draft: regeneration names a retry number and a reason.
RequestDraft(retry, reason) ==
  /\ OperatorCommand /\ Send(Writer, [Queued(retry) EXCEPT !.reason = reason])
  /\ UNCHANGED <<item, artifacts, media, attempts, step, request, recent>>

\* generate-editor-review
RequestReview(retry, reason) ==
  /\ OperatorCommand /\ Send(Editor, [Queued(retry) EXCEPT !.reason = reason])
  /\ UNCHANGED <<item, artifacts, media, attempts, step, request, recent>>

\* run-qa
RequestQa ==
  /\ OperatorCommand /\ Send(QaRun, Queued(0))
  /\ UNCHANGED <<item, artifacts, media, attempts, step, request, recent>>

\* submit-draft, first transaction: a body submitted before is that draft.
SubmitDraft(body, reason) ==
  LET same == {d \in DOMAIN drafts : drafts[d].body = body} IN
  /\ OperatorCommand
  /\ request.pc = "idle" /\ row = "drafting"
  /\ IF same # {}
       THEN /\ \E d \in same : request' = [NoRequest EXCEPT !.pc = "submitted", !.draft = d]
            /\ UNCHANGED drafts
       ELSE /\ drafts = <<>> \/ reason
            /\ Len(drafts) < MaxVersions
            /\ AddDraft(0, body)
            /\ request' = [NoRequest EXCEPT !.pc = "submitted", !.draft = Len(drafts) + 1]
  /\ UNCHANGED <<item, reviews, reports, media, attempts, task, step, recent>>

\* submit-draft, second transaction: the row is read under its lock; the editor
\* is asked for when the item is in EDITING, and the transport may fail.
AdvanceSubmitted ==
  /\ request.pc = "submitted"
  /\ IF row = "drafting" THEN MoveToEditing(None, request.draft) ELSE UNCHANGED item
  /\ request' = NoRequest
  /\ \/ row \in {"drafting", "editing"} /\ Send(Editor, Queued(0))
     \/ UNCHANGED task
  /\ UNCHANGED <<artifacts, media, attempts, step, recent, bounds>>

\* accept-review checks the review, and then takes the lock.
CheckReview ==
  /\ OperatorCommand
  /\ request.pc = "idle" /\ PassingReviewCovers
  /\ request' = [pc |-> "accepting", draft |-> ActiveDraft, review |-> ActiveReview]
  /\ UNCHANGED <<item, artifacts, media, attempts, task, step, recent>>

AcceptReview ==
  /\ request.pc = "accepting"
  /\ \/ /\ row = "editing"
        /\ MoveToQaReview(None, request.draft, request.review)
        /\ Send(QaRun, Queued(0)) \/ UNCHANGED task
     \/ row # "editing" /\ UNCHANGED <<item, task>>
  /\ request' = NoRequest
  /\ UNCHANGED <<artifacts, media, attempts, step, recent, bounds>>

\* request-rework
RequestRework(responsible) ==
  /\ OperatorCommand
  /\ "changes_requested" \in STRUCTURAL_TRANSITIONS(row)
  /\ responsible \in PERMITTED_RESPONSIBLE_STATES(row)
  /\ MoveToRework(None, responsible)
  /\ UNCHANGED <<artifacts, media, attempts, task, step, request, recent>>

\* resolve-changes-requested
ResolveChanges ==
  /\ OperatorCommand
  /\ row = "changes_requested"
  /\ Move(None, entry.rework.responsible)
  /\ entry' = Resolved(entry, entry.rework.responsible)
  /\ UNCHANGED <<cycles, artifacts, media, attempts, task, step, request, recent>>

PERMITTED_MEDIA_STATES == {"drafting", "editing", "qa_review", "changes_requested"}

\* satisfy and unsatisfy: the stage is read without a lock and written after.
CheckMedia ==
  /\ OperatorCommand
  /\ request.pc = "idle" /\ row \in PERMITTED_MEDIA_STATES
  /\ request' = [NoRequest EXCEPT !.pc = "media"]
  /\ UNCHANGED <<item, artifacts, media, attempts, task, step, recent>>

BindMedia(need) ==
  /\ request.pc = "media"
  /\ bound' = IF need \in bound THEN bound \ {need} ELSE bound \cup {need}
  /\ request' = NoRequest
  /\ UNCHANGED <<item, artifacts, candidate, waived, attempts, task, step, recent, bounds>>

\* waive-qa-gate
WaiveMediaGate ==
  /\ OperatorCommand
  /\ row = "qa_review"
  /\ waived' = TRUE
  /\ UNCHANGED <<item, artifacts, bound, candidate, attempts, task, step, request, recent>>

\* media/{need}/generate
RequestImage(need, retry) ==
  /\ OperatorCommand
  /\ row \in PERMITTED_MEDIA_STATES
  /\ Send(Image, [Queued(retry) EXCEPT !.subject = need])
  /\ UNCHANGED <<item, artifacts, media, attempts, step, request, recent>>

-----------------------------------------------------------------------------
(* generate_media_image: a candidate that a human may bind.                  *)

StartImage(i) ==
  /\ task[i].pc = "queued" /\ ~Locked(i)
  /\ ~BudgetSpent
  /\ LET found == Stored("image", task[i].subject, task[i].retry + task[i].retries) IN
     IF row \notin PERMITTED_MEDIA_STATES THEN Finish(i)
     ELSE IF found = {} THEN Put(i, [task[i] EXCEPT !.pc = "calling"])
     ELSE \E a \in found : RetryOrFinish(i, attempts["image"][a].status)
  /\ UNCHANGED <<item, artifacts, media, attempts, step, request, recent, bounds>>

ImageAnswered(i, status) ==
  /\ task[i].pc = "calling"
  /\ AddAttempt("image", task[i], status)
  /\ candidate' = IF status = "succeeded" THEN candidate \cup {task[i].subject} ELSE candidate
  /\ RetryOrFinish(i, status)
  /\ UNCHANGED <<item, artifacts, bound, waived, step, request, recent, day, lost, commands, crashes>>

-----------------------------------------------------------------------------
(* The autopilot: AutopilotRunner.step for one item.                         *)

OpenNeeds == IF row = "qa_review" THEN Need \ bound ELSE {}

\* A review that passes with notes has the verdict "pass".
Snapshot ==
  [state |-> row,
   brief_status |-> "accepted_for_drafting",
   draft |-> ActiveDraft,
   review_verdict |-> IF reviews = <<>> THEN None ELSE IF Passes(ActiveReview) THEN "pass" ELSE "revise",
   review_is_stale |-> reviews # <<>> /\ ActiveDraft # 0 /\ ~ReviewCovers,
   rework_cycles |-> cycles,
   qa_outcome |-> IF reports = <<>> THEN None
                  ELSE IF reports[ActiveReport].ready THEN "ready_for_human_review" ELSE "not_ready",
   media_needs |-> OpenNeeds,
   media_candidates |-> IF OpenNeeds = {} THEN {} ELSE candidate,
   in_flight |-> recent]

Planned == Plan(Snapshot, mode)

PURPOSE_BY_ACTION(name) ==
  CASE name \in {"generate_draft", "rewrite"} -> "writer"
    [] name = "generate_review"              -> "editor"
    [] name = "generate_image"               -> "image"
    [] OTHER                                 -> None

\* After three provider failures in a row the step waits for a human.
WaitsForProvider(action) ==
  action.kind = "enqueue" /\ PURPOSE_BY_ACTION(action.name) # None
    /\ ProviderExhausted(PURPOSE_BY_ACTION(action.name))

\* A step loads the item, reads the facts and plans.  One that has nothing to
\* perform records at most what the item is waiting for.
AutopilotPlans(a) ==
  /\ step[a].pc = "idle" /\ row \in ACTIONABLE_STATES
  /\ Planned.kind \in {"enqueue", "command"} /\ ~WaitsForProvider(Planned)
  /\ step' = [step EXCEPT ![a] = [pc |-> "planned", action |-> Planned]]
  /\ Load(a)
  /\ UNCHANGED <<artifacts, media, attempts, task, request, recent, bounds>>

Recorded(a) ==
  /\ recent' = recent \cup {ActionName(step[a].action)}
  /\ step' = [step EXCEPT ![a] = NoStep]

\* _perform_enqueue, with a retry number of its own.
AutopilotEnqueues(a) ==
  LET name == step[a].action.name IN
  /\ step[a].pc = "planned" /\ step[a].action.kind = "enqueue"
  /\ CASE name = "generate_draft"  -> Send(Writer, Queued(NextRetryNumber("writer")))
       [] name = "rewrite"         -> Send(Writer, [Queued(NextRetryNumber("writer")) EXCEPT !.reason = TRUE])
       [] name = "generate_review" -> Send(Editor, Queued(NextRetryNumber("editor")))
       [] name = "run_qa"          -> Send(QaRun, Queued(0))
       [] name = "generate_image"  -> \E need \in Need \ candidate :
            Send(Image, [Queued(NextRetryNumber("image")) EXCEPT !.subject = need])
  /\ Recorded(a) /\ Forget(a)
  /\ UNCHANGED <<artifacts, media, attempts, request, bounds>>

Commands(a, name) ==
  /\ step[a].pc = "planned" /\ step[a].action = Command(name)
  /\ UNCHANGED <<artifacts, media, attempts, task, request, bounds>>

\* _accept_review reads the review and the draft again; QA is not asked for.
AutopilotAcceptsReview(a) ==
  /\ Commands(a, "accept_review")
  /\ PassingReviewCovers
  /\ MoveToQaReview(a, ActiveDraft, ActiveReview)
  /\ Recorded(a)

\* _request_rework goes through CHANGES_REQUESTED in one transaction.
AutopilotRequestsRework(a) ==
  /\ Commands(a, "request_rework")
  /\ ReviewCovers
  /\ Move(a, "drafting")
  /\ cycles' = cycles + 1
  /\ entry' = [entry EXCEPT !.rework = [responsible |-> "drafting", review |-> ActiveReview],
                            !.drafting = TRUE]
  /\ Recorded(a)

AutopilotResolvesChanges(a) ==
  /\ Commands(a, "resolve_changes")
  /\ Move(a, entry.rework.responsible)
  /\ entry' = Resolved(entry, entry.rework.responsible)
  /\ UNCHANGED cycles
  /\ Recorded(a)

\* A command whose facts have changed fails: an error row, and the next sweep.
AutopilotFails(a) ==
  /\ \/ Commands(a, "accept_review") /\ ~PassingReviewCovers
     \/ Commands(a, "request_rework") /\ ~ReviewCovers
  /\ step' = [step EXCEPT ![a] = NoStep]
  /\ Forget(a) /\ UNCHANGED recent

InFlightWindowPasses ==
  /\ recent # {} /\ recent' = {}
  /\ UNCHANGED <<item, artifacts, media, attempts, task, step, request, bounds>>

-----------------------------------------------------------------------------

Init ==
  /\ row = "drafting"
  /\ entry = [drafting |-> FALSE, editing |-> 0, qa_review |-> [draft |-> 0, review |-> 0],
              human |-> 0, rework |-> [responsible |-> None, review |-> 0]]
  /\ cycles = 0 /\ fresh = {} /\ serial = TRUE
  /\ drafts = <<>> /\ reviews = <<>> /\ reports = <<>>
  /\ bound \in SUBSET Need /\ candidate = {} /\ waived = FALSE
  /\ attempts = [purpose \in GenerationPurpose |-> <<>>]
  /\ spent \in 0..Budget /\ away \in BOOLEAN /\ mode \in AutopilotMode
  /\ task = [m \in Message |-> NoTask]
  /\ step = [a \in Sweep |-> NoStep]
  /\ request = NoRequest
  /\ recent = {} /\ lost = FALSE /\ commands \in 0..MaxCommands /\ failures \in 0..MaxFailures
  /\ crashes \in 0..MaxCrashes

GuardStep(m) == DuplicateInFlight(m) \/ BudgetRefused(m)

WriterStep(w) ==
  \/ GuardStep(w) \/ StartWriter(w) \/ WriterAdvances(w) \/ WriterDispatches(w)
  \/ \E status \in GenerationStatus : WriterAnswered(w, status)

EditorStep(e) ==
  \/ GuardStep(e) \/ StartEditor(e)
  \/ \E status \in GenerationStatus : EditorFailed(e, status)
  \/ \E verdict \in ReviewVerdict : EditorAnswered(e, verdict)

QaStep(q) == (\E ok \in BOOLEAN : RunGates(q, ok)) \/ QaAdvances(q)

ImageStep(i) == GuardStep(i) \/ StartImage(i) \/ \E status \in GenerationStatus : ImageAnswered(i, status)

AutopilotPerforms(a) ==
  \/ AutopilotEnqueues(a) \/ AutopilotAcceptsReview(a) \/ AutopilotRequestsRework(a)
  \/ AutopilotResolvesChanges(a) \/ AutopilotFails(a)

OperatorStep ==
  \/ \E retry \in 0..MaxRetry, reason \in BOOLEAN : RequestDraft(retry, reason) \/ RequestReview(retry, reason)
  \/ RequestQa
  \/ \E body \in Body, reason \in BOOLEAN : SubmitDraft(body, reason)
  \/ CheckReview
  \/ \E responsible \in WorkflowState : RequestRework(responsible)
  \/ ResolveChanges
  \/ CheckMedia
  \/ WaiveMediaGate
  \/ \E need \in Need, retry \in 0..MaxRetry : RequestImage(need, retry)

\* The second transaction of a request that is under way.
RequestStep == AdvanceSubmitted \/ AcceptReview \/ \E need \in Need : BindMedia(need)

Next ==
  \/ \E w \in Writer : WriterStep(w)
  \/ \E e \in Editor : EditorStep(e)
  \/ \E q \in QaRun : QaStep(q)
  \/ \E i \in Image : ImageStep(i)
  \/ \E m \in Message : Crash(m) \/ CrashLosesMessage(m)
  \/ \E a \in Sweep : AutopilotPlans(a) \/ AutopilotPerforms(a)
  \/ OperatorStep
  \/ RequestStep
  \/ InFlightWindowPasses

\* Celery runs what is queued, a provider answers or times out, the sweep comes
\* round every 20 seconds and the window of an action passes.
StageFairness ==
  /\ \A w \in Writer : WF_vars(WriterStep(w))
  /\ \A e \in Editor : WF_vars(EditorStep(e))
  /\ \A q \in QaRun : WF_vars(QaStep(q))
  /\ \A i \in Image : WF_vars(ImageStep(i))
  /\ \A a \in Sweep : WF_vars(AutopilotPlans(a)) /\ WF_vars(AutopilotPerforms(a))
  /\ WF_vars(RequestStep) /\ WF_vars(InFlightWindowPasses)

Spec == Init /\ [][Next]_vars /\ StageFairness

-----------------------------------------------------------------------------
(* Properties.                                                               *)

TypeOK ==
  /\ row \in WorkflowState
  /\ entry.editing \in 0..Len(drafts) /\ entry.human \in 0..Len(reports)
  /\ entry.qa_review.draft \in 0..Len(drafts) /\ entry.qa_review.review \in 0..Len(reviews)
  /\ entry.rework.responsible \in WorkflowState \cup {None} /\ entry.rework.review \in 0..Len(reviews)
  /\ \A r \in DOMAIN reviews : /\ reviews[r] \in EditorialReview
                               /\ reviews[r].draft \in DOMAIN drafts
                               /\ reviews[r].attempt \in DOMAIN attempts["editor"]
  /\ \A d \in DOMAIN drafts : /\ drafts[d] \in ContentDraft
                              /\ drafts[d].attempt \in DOMAIN attempts["writer"] \cup {0}
  /\ \A r \in DOMAIN reports : /\ reports[r] \in QaReport
                               /\ reports[r].draft \in DOMAIN drafts /\ reports[r].review \in DOMAIN reviews
  /\ \A purpose \in GenerationPurpose : \A i \in DOMAIN attempts[purpose] :
       attempts[purpose][i] \in AiGenerationAttempt
  /\ bound \cup candidate \subseteq Need
  /\ \A m \in Message : task[m].pc \in {"idle", "queued", "calling", "drafted", "dispatching", "reported"}
                          /\ task[m].retries \in 0..MaxRetries
  /\ fresh \subseteq Message \cup Sweep

\* What waits for the human approval passed the gates over a draft that an
\* editor review lets pass, and while no stale copy was written that draft and
\* that review are the ACTIVE ones: the pins of accept-review, the QA task's
\* resolve_package and its second transaction, with reworks in between.
HumanSeesReviewedWork ==
  row = "awaiting_human_review" =>
    LET report == reports[entry.human] IN
    /\ report.ready /\ Passes(report.review) /\ reviews[report.review].draft = report.draft
    /\ serial => report.draft = ActiveDraft /\ report.review = ActiveReview

\* A writer that was sent back with findings comes to EDITING with a draft that
\* is newer than the one they are about, never with the one already reviewed, unless it writes on a stale copy.
WriterAnswersTheRework ==
  [][row = "drafting" /\ row' = "editing" /\ entry.drafting /\ entry.rework.review # 0
       /\ reviews[entry.rework.review].verdict # "pass" /\ drafts[entry'.editing].body = None /\ serial'
       => entry'.editing > reviews[entry.rework.review].draft]_vars

\* One attempt is recorded for each purpose, input and retry number, by the
\* lookup before the call and the lock around it: redelivered, repeated and
\* regenerated requests included.  A worker that dies during its call records
\* none, and the provider is asked again.
OneAttemptPerIdentity ==
  \A purpose \in GenerationPurpose : \A i, j \in DOMAIN attempts[purpose] :
    i # j => <<attempts[purpose][i].subject, attempts[purpose][i].retry>>
               # <<attempts[purpose][j].subject, attempts[purpose][j].retry>>

\* The day's budget is checked before a call and counted after it: with what the
\* other items have spent fixed, it is exceeded by no more than the calls of this
\* item that overlap.
BudgetOvershootIsConcurrency ==
  spent + Calls + Cardinality({m \in Generation : task[m].pc = "calling"})
    <= Budget + 1 + Cardinality(Need)

\* The autopilot sends a draft back at most twice; the rest is the operator's.
\* A command planned on a copy that another step or the operator has outdated is
\* still carried out: each further step that overlaps adds at most one cycle.
ReworkIsBounded ==
  cycles <= MAX_REWORK_CYCLES + (IF away THEN 0 ELSE commands)
              + (IF serial THEN 0 ELSE Cardinality(Sweep) - 1)

\* The item has come to the human, or its next step is a human's, or it waits
\* for the provider or for the next day's budget.
AwaitsSomebody ==
  \/ row = "awaiting_human_review" \/ Planned.kind = "wait"
  \/ WaitsForProvider(Planned) \/ BudgetSpent

\* Left alone, the autopilot brings every item to such a point and it stays
\* there, however often providers fail and workers die, unless a message was lost.
AutopilotReachesHuman == (away /\ mode = "autonomous") => <>[](AwaitsSomebody \/ lost)

\* When the planner does nothing because the system is moving the item, a task
\* or a request is on its way to move it, or was lost on its way.
IdleMeansMoving ==
  Planned \in {Idle("moving_to_editing"), Idle("moving_to_human_review")} =>
    lost \/ request.pc # "idle" \/ \E m \in Message : task[m].pc # "idle"
=============================================================================

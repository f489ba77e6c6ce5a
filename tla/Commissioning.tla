--------------------------- MODULE Commissioning ---------------------------
(***************************************************************************)
(* From a researched document to the accepted brief, for one work item:    *)
(* promotion, scoring, commissioning, ideas and their selection, evidence  *)
(* packs, search intent, briefs, and who moves them: the tasks, the        *)
(* operator and the autopilot.                                             *)
(*                                                                         *)
(* Artifacts are never changed once written, apart from the status of a    *)
(* brief and the resolution of a contradiction; an index is an identity.   *)
(* Writers hold copies of the item as in Workflow and EditorialStages.     *)
(***************************************************************************)
EXTENDS AutopilotPlanner, FiniteSets

CONSTANTS
  ScoreTask,    \* evaluate_opportunity messages
  IdeaTask,     \* generate_idea_candidates messages
  PackTask,     \* build_evidence_pack messages
  IntentTask,   \* analyze_search_intent messages
  BriefTask,    \* compose_content_brief messages
  Sweep,        \* autopilot step executions
  MaxRetries,   \* MAX_RETRIES of the tasks
  MaxRetry,     \* bound on the retry numbers an operator asks for
  MaxVersions,  \* bound on the versions of an artifact
  MaxCommands,  \* bound on the operator's commands
  MaxFailures,  \* bound on the provider calls that come to nothing
  MaxCrashes    \* bound on the workers that die

ASSUME CommissioningMessages ==
  /\ ScoreTask \cap (IdeaTask \cup PackTask \cup IntentTask \cup BriefTask) = {}
  /\ IdeaTask \cap (PackTask \cup IntentTask \cup BriefTask) = {}
  /\ PackTask \cap (IntentTask \cup BriefTask) = {} /\ IntentTask \cap BriefTask = {}
ASSUME CommissioningBounds ==
  {MaxRetries, MaxRetry, MaxVersions, MaxCommands, MaxFailures, MaxCrashes} \subseteq Nat

Generation == IdeaTask \cup IntentTask \cup BriefTask
Message == Generation \cup PackTask \cup ScoreTask

VARIABLES
  row,          \* editorial_work_items.current_state; None before the promotion
  entry,        \* what the newest event that entered a stage pins
  fresh,        \* the copies of the item no transition came after
  serial,       \* nothing has been written yet on an old copy's authority
  opportunity,  \* the editorial_opportunities row and its newest score
  decision,     \* the effective duplicate decision of the promotion root
  sources,      \* the inputs, the documents linking may still add, their evidence
  ideas, packs, intents, briefs,
  selected,     \* the effective selection: an index into ideas, or 0
  attempts,     \* the item's ai_generation_attempts rows, by purpose
  task, step, request, recent,
  away, mode,   \* the operator gives no command; the autopilot's mode
  exhausted,    \* the day's attempt budget is spent
  lost,         \* a redelivery met the execution lock of the worker that died
  commands, failures, crashes

item      == <<row, entry, fresh, serial>>
artifacts == <<ideas, packs, intents, briefs>>
facts     == <<opportunity, decision, sources, selected>>
settings  == <<away, mode, exhausted>>
bounds    == <<settings, lost, commands, failures, crashes>>
vars      == <<item, artifacts, facts, attempts, task, step, request, recent, bounds>>

OpportunityDisposition == {"open", "commissioned", "rejected"}
ScoreEligibility == {"commissionable", "needs_operator_review"}
DuplicateDecisionOutcome == {"unique", "duplicate", "reject"}
OriginalityStatus == {"passed", "failed"}
Contradiction == {"none", "unresolved", "resolved"}
EvidencePackSufficiency == {"ready", "insufficient", "conflicted"}
BriefStatus == {"draft", "accepted_for_drafting", "superseded"}

\* unique stands for unique, related and update_existing.
ELIGIBLE_OUTCOMES == {"unique"}

NoOpportunity == [disposition |-> None, override |-> FALSE, idea_led |-> FALSE, score |-> None]
NoTask == [pc |-> "idle", retry |-> 0, retries |-> 0, idea |-> 0, pack |-> 0, intent |-> 0, evidence |-> 0,
           contradicted |-> FALSE, reason |-> FALSE, subject |-> <<>>, copy |-> None, result |-> 0]
Queued(retry) == [NoTask EXCEPT !.pc = "queued", !.retry = retry]
NoStep == [pc |-> "idle", action |-> Idle(None), brief |-> 0, disposition |-> None, status |-> None]
NoRequest == [pc |-> "idle", disposition |-> None, override |-> FALSE, brief |-> 0, status |-> None]

\* The rows, as far as anything reads them: a pack keeps the contradiction it was
\* assembled with; title, claims and structure of a brief are one bit, sound.
EditorialOpportunity ==
  [disposition : OpportunityDisposition \cup {None}, override : BOOLEAN, idea_led : BOOLEAN,
   score : ScoreEligibility \cup {None}]
Idea == [originality : OriginalityStatus, inputs : Nat]
EvidencePack ==
  [idea : DOMAIN ideas, evidence : Nat, assembled : Contradiction, contradiction : Contradiction,
   sufficiency : EvidencePackSufficiency]
SearchIntentAnalysis == [idea : DOMAIN ideas, attempt : DOMAIN attempts["intent_synthesis"]]
ContentBrief ==
  [idea : DOMAIN ideas, pack : DOMAIN packs, intent : DOMAIN intents, status : BriefStatus, sound : BOOLEAN]

\* sources: inputs and related count documents of distinct sources, evidence those
\* with verified evidence, pending those no model has read; observed says whether
\* there is other evidence, rejected whether an input pins a REJECT decision.
NoSources == [inputs |-> 0, related |-> 0, evidence |-> 0, pending |-> 0,
              observed |-> FALSE, extracting |-> FALSE, rejected |-> FALSE]

-----------------------------------------------------------------------------
(* What the services read.                                                  *)

\* commissioning_admits; the stage is the one of the copy.
CommissioningAdmits(o, override_gate) ==
  /\ o.disposition = "open"
  /\ o.score # None
  /\ override_gate \/ o.score = "commissionable"

\* DEFAULT_* and IDEA_LED_* policies: how many distinct sources are enough.
MinDistinctSources == IF opportunity.idea_led THEN 1 ELSE 2

\* evaluate_originality; NOT_CHECKABLE is not told apart from FAILED, and title
\* says whether the title differs from the titles of the inputs.
Originality(title) ==
  IF title /\ sources.inputs >= MinDistinctSources THEN "passed" ELSE "failed"

\* _evaluate_sufficiency: a pack keeps what it found when it was assembled.
\* evidence counts the distinct sources of the rows it selects; enough says whether
\* these are the three items and the key fact that an opportunity not led by an
\* idea needs (one led by an idea needs no more than its one source gives).
Sufficiency(evidence, contradiction, enough) ==
  IF contradiction = "unresolved" THEN "conflicted"
  ELSE IF evidence >= MinDistinctSources /\ (enough \/ opportunity.idea_led)
    THEN "ready" ELSE "insufficient"

Ready(p) == p # 0 /\ packs[p].sufficiency = "ready"

\* The identity of an assembly: idea, selections and contradictions as they are.
SamePack(idea, evidence, contradiction) ==
  {p \in DOMAIN packs : packs[p].idea = idea /\ packs[p].evidence = evidence
                          /\ packs[p].assembled = contradiction}

IntentsOf(idea) == {n \in DOMAIN intents : intents[n].idea = idea}
SameBrief(t) ==
  {b \in DOMAIN briefs : briefs[b].idea = t.idea /\ briefs[b].pack = t.pack /\ briefs[b].intent = t.intent}
ActiveBriefs == {b \in DOMAIN briefs : briefs[b].status # "superseded"}

\* _resolve_upstream: pack and analysis are over this idea version.  It would take
\* a pack that pins no idea, too; every build pins the selected one.
UpstreamAgrees(t) == packs[t.pack].idea = t.idea /\ intents[t.intent].idea = t.idea

\* _require_duplicate_gate: the inputs' pinned decisions, and the decision of the
\* root as it is today.
DuplicateGate ==
  /\ ~sources.rejected
  /\ decision \in ELIGIBLE_OUTCOMES \/ (decision = "duplicate" /\ opportunity.override)

GenerationPurpose == {"idea_candidates", "intent_synthesis", "brief_composition"}
GenerationStatus == {"succeeded", "validation_failed", "provider_failure"}
Purpose(m) == IF m \in IdeaTask THEN "idea_candidates"
              ELSE IF m \in IntentTask THEN "intent_synthesis" ELSE "brief_composition"
Retryable(status) == status = "provider_failure"

\* get_by_identity_hash
Stored(m, subject) ==
  {i \in DOMAIN attempts[Purpose(m)] :
     /\ attempts[Purpose(m)][i].subject = subject
     /\ attempts[Purpose(m)][i].retry = task[m].retry + task[m].retries}

\* Mutation: the newest number is used again.
LastRetryNumber(purpose) ==
  LET used == {attempts[purpose][i].retry : i \in DOMAIN attempts[purpose]}
  IN IF used = {} THEN 0 ELSE CHOOSE n \in used : \A m \in used : m <= n

\* next_retry_number
NextRetryNumber(purpose) ==
  LET used == {attempts[purpose][i].retry : i \in DOMAIN attempts[purpose]}
  IN IF used = {} THEN 0 ELSE 1 + CHOOSE n \in used : \A m \in used : m <= n

MAX_PROVIDER_FAILURE_STREAK == 3
\* consecutive_provider_failures
ProviderExhausted(purpose) ==
  LET rows == attempts[purpose] IN
  /\ Len(rows) >= MAX_PROVIDER_FAILURE_STREAK
  /\ \A i \in Len(rows) - MAX_PROVIDER_FAILURE_STREAK + 1 .. Len(rows) : Retryable(rows[i].status)

-----------------------------------------------------------------------------
(* Writes.  x is the holder of the copy a write relies on, or None for a    *)
(* caller that reads the row under its lock.                                *)

OnCopyOf(x) == serial' = (serial /\ (x = None \/ x \in fresh))

Move(x, to) == row' = to /\ fresh' = {} /\ OnCopyOf(x)

Load(x)   == fresh' = fresh \cup {x} /\ UNCHANGED <<row, entry, serial>>
Forget(x) == fresh' = fresh \ {x} /\ UNCHANGED <<row, entry, serial>>

Put(m, t) == task' = [task EXCEPT ![m] = t]
Finish(m) == Put(m, NoTask)

\* Put a message on the queue; with none to spare the request does not happen.
Spare(kind) == {m \in kind : task[m].pc = "idle"}
Send(kind, t) == Spare(kind) # {} /\ Put(CHOOSE m \in Spare(kind) : TRUE, t)

RetryOrFinish(m, status) ==
  IF Retryable(status) /\ task[m].retries < MaxRetries
    THEN Put(m, [task[m] EXCEPT !.pc = "queued", !.retries = @ + 1, !.subject = <<>>])
    ELSE Finish(m)

Fault == failures < MaxFailures /\ failures' = failures + 1
OperatorCommand ==
  ~away /\ commands < MaxCommands /\ commands' = commands + 1
    /\ UNCHANGED <<settings, lost, failures, crashes>>

\* link_related_research_inputs: what is related by now becomes an input, with
\* whatever its duplicate decision says.
LinkRelated ==
  \E n \in 0..sources.related, reject \in BOOLEAN :
    sources' = [sources EXCEPT !.inputs = @ + n, !.related = @ - n, !.pending = @ + n,
                               !.rejected = @ \/ (n > 0 /\ reject)]

-----------------------------------------------------------------------------
(* Promotion and scoring.                                                   *)

\* One root, one opportunity: a second promotion finds the first.
CreatePromotion(override, idea_led) ==
  /\ row = None
  /\ row' = "idea_scoring"
  /\ opportunity' = [disposition |-> "open", override |-> override, idea_led |-> idea_led, score |-> None]
  /\ UNCHANGED <<entry, fresh, serial, decision, selected, artifacts, attempts, step, request, recent>>

\* Mutation: the root is no input of its own.
LinkedInputs(n, reject) ==
  sources' = [sources EXCEPT !.inputs = n, !.pending = n + 1, !.related = @ - n, !.rejected = reject]

\* The root and n other documents; a document may carry a REJECT decision.
FirstInputs(n, reject) ==
  sources' = [sources EXCEPT !.inputs = n + 1, !.pending = n + 1, !.related = @ - n, !.rejected = reject]

\* promote_research: an eligible root, whatever is related to it, and its score.
PromoteResearch ==
  /\ decision \in ELIGIBLE_OUTCOMES
  /\ CreatePromotion(FALSE, FALSE)
  /\ \E n \in 0..sources.related, reject \in BOOLEAN : FirstInputs(n, n > 0 /\ reject)
  /\ Send(ScoreTask, Queued(0))
  /\ UNCHANGED bounds

\* reopen-duplicate: the operator's override of a DUPLICATE; nothing is scored.
PromoteDuplicateOverride ==
  /\ OperatorCommand
  /\ decision = "duplicate"
  /\ CreatePromotion(TRUE, FALSE)
  /\ FirstInputs(0, FALSE)
  /\ UNCHANGED task

\* ResearchMissionEngine._promote: any decision will do, and nothing asks which.
PromoteMission ==
  /\ CreatePromotion(FALSE, TRUE)
  /\ \E n \in 0..sources.related, reject \in BOOLEAN :
       FirstInputs(n, decision = "reject" \/ (n > 0 /\ reject))
  /\ Send(ScoreTask, Queued(0))
  /\ UNCHANGED bounds

\* evaluate_opportunity: the newest score is the effective one.
EvaluateOpportunity(m) ==
  /\ task[m].pc = "queued"
  /\ \E score \in ScoreEligibility : opportunity' = [opportunity EXCEPT !.score = score]
  /\ Finish(m)
  /\ UNCHANGED <<item, artifacts, decision, sources, selected, attempts, step, request, recent, bounds>>

\* The research pipeline decides again.
DecideDuplicate ==
  /\ row # None /\ Fault
  /\ \E outcome \in DuplicateDecisionOutcome \ {decision} : decision' = outcome
  /\ UNCHANGED <<item, artifacts, opportunity, sources, selected, attempts, task, step, request, recent,
                 settings, lost, commands, crashes>>

\* extract_model_evidence, of every document that no attempt has read.
ExtractEvidence ==
  /\ sources.extracting
  /\ \/ exhausted /\ sources' = [sources EXCEPT !.extracting = FALSE]
     \/ /\ ~exhausted
        /\ \E n \in 0..sources.pending :
             sources' = [sources EXCEPT !.evidence = @ + n, !.pending = 0, !.extracting = FALSE]
  /\ UNCHANGED <<item, artifacts, opportunity, decision, selected, attempts, task, step, request, recent, bounds>>

\* Other work spends the rest of the day's attempts.
BudgetSpends ==
  /\ ~exhausted /\ Fault /\ exhausted' = TRUE
  /\ UNCHANGED <<item, artifacts, facts, attempts, task, step, request, recent, away, mode, lost, commands, crashes>>

-----------------------------------------------------------------------------
(* Commissioning and rejection: the opportunity is read, then the row lock   *)
(* is waited for, then the opportunity is read again.                        *)

\* Mutation: the opportunity is not read again under the lock.
KeepsCopy(disposition) == disposition

\* session.refresh(opportunity)
Refreshed(disposition) == opportunity.disposition

\* commission_opportunity under the lock; state is the one of the caller's copy.
\* One that is commissioned stays as it is, whether _resolve_idempotent answers
\* so or finds that EVIDENCE_BUILDING was entered last from BLOCKED and refuses.
Commission(x, state, disposition, override_gate) ==
  LET o == [opportunity EXCEPT !.disposition = Refreshed(disposition)] IN
  IF state = "idea_scoring" /\ CommissioningAdmits(o, override_gate)
    THEN /\ opportunity' = [opportunity EXCEPT !.disposition = "commissioned"]
         /\ Move(x, "evidence_building") /\ UNCHANGED entry
         /\ LinkRelated
    ELSE UNCHANGED <<item, opportunity, sources>>

StartRequest(r) == request.pc = "idle" /\ row # None /\ request' = r
EndRequest(pc) == request.pc = pc /\ request' = NoRequest

\* commission, reject and accept a brief.
RequestCommission(override) ==
  /\ OperatorCommand
  /\ StartRequest([NoRequest EXCEPT !.pc = "commission", !.override = override,
                                    !.disposition = opportunity.disposition])
  /\ UNCHANGED <<item, artifacts, facts, attempts, task, step, recent>>

RequestRejection ==
  /\ OperatorCommand
  /\ StartRequest([NoRequest EXCEPT !.pc = "reject", !.disposition = opportunity.disposition])
  /\ UNCHANGED <<item, artifacts, facts, attempts, task, step, recent>>

CommissionOpportunity ==
  /\ EndRequest("commission")
  /\ Commission(None, row, request.disposition, request.override)
  /\ UNCHANGED <<artifacts, decision, selected, attempts, task, step, recent, bounds>>

RejectOpportunity ==
  /\ EndRequest("reject")
  /\ IF Refreshed(request.disposition) = "open" /\ row = "idea_scoring"
       THEN /\ opportunity' = [opportunity EXCEPT !.disposition = "rejected"]
            /\ Move(None, "rejected") /\ UNCHANGED entry
       ELSE UNCHANGED <<item, opportunity>>
  /\ UNCHANGED <<artifacts, decision, sources, selected, attempts, task, step, recent, bounds>>

-----------------------------------------------------------------------------
(* generate_idea_candidates, analyze_search_intent, compose_content_brief:   *)
(* each asks a provider once for an identity and keeps what it answers.      *)

\* exclusive: one execution of a kind per opportunity or item.
Locked(m) ==
  \E kind \in {IdeaTask, IntentTask, BriefTask} :
    m \in kind /\ \E k \in kind : task[k].pc \notin {"idle", "queued"}

\* A delivery that finds the lock taken is dropped.
DuplicateInFlight(m) ==
  /\ task[m].pc = "queued" /\ Locked(m)
  /\ Finish(m)
  /\ UNCHANGED <<item, artifacts, facts, attempts, step, request, recent, bounds>>

Commissioned == opportunity.disposition = "commissioned"

\* What a task and its engine check before the provider is called.
AdmitsIdeas == Commissioned /\ row = "evidence_building"

AdmitsIntent(t) ==
  /\ Commissioned /\ row \in {"seo_research", "briefing"}
  /\ Ready(t.pack) /\ packs[t.pack].idea = t.idea /\ selected = t.idea

AdmitsBrief(t) ==
  /\ Commissioned /\ row = "briefing"
  /\ UpstreamAgrees(t) /\ selected = t.idea /\ Ready(t.pack)

Admits(m) ==
  /\ ~exhausted
  /\ \/ m \in IdeaTask /\ AdmitsIdeas
     \/ m \in IntentTask /\ AdmitsIntent(task[m])
     \/ m \in BriefTask /\ AdmitsBrief(task[m])

\* The input the identity hash is taken over; an analysis does not name its pack.
IdeaSubject      == <<sources.inputs, sources.evidence>>
IntentSubject(t) == <<t.idea>>
BriefSubject(t)  == <<t.idea, t.pack, t.intent>>

Subject(m) ==
  CASE m \in IdeaTask   -> IdeaSubject
    [] m \in IntentTask -> IntentSubject(task[m])
    [] m \in BriefTask  -> BriefSubject(task[m])

\* _reuse_existing_brief
ReusesBrief(m) == m \in BriefTask /\ SameBrief(task[m]) # {}

\* The intent task keeps the item it has loaded.
Called(m) ==
  IF m \in IntentTask THEN Load(m) ELSE UNCHANGED item

AnalysisOf(attempt) == {n \in DOMAIN intents : intents[n].attempt = attempt}

StartGeneration(m) ==
  /\ task[m].pc = "queued" /\ ~Locked(m)
  /\ LET found == Stored(m, Subject(m))
         running == [task[m] EXCEPT !.subject = Subject(m), !.copy = row]
     IN
     \/ /\ ~Admits(m) \/ ReusesBrief(m)
        /\ Finish(m) /\ UNCHANGED item
     \/ /\ Admits(m) /\ ~ReusesBrief(m)
        /\ \/ found = {} /\ Put(m, [running EXCEPT !.pc = "calling"]) /\ Called(m)
           \/ \E i \in found :
                IF attempts[Purpose(m)][i].status # "succeeded"
                  THEN RetryOrFinish(m, attempts[Purpose(m)][i].status) /\ UNCHANGED item
                ELSE IF m \in IntentTask
                  THEN \E n \in AnalysisOf(i) :
                         Put(m, [running EXCEPT !.pc = "analysed", !.result = n]) /\ Load(m)
                ELSE Finish(m) /\ UNCHANGED item
  /\ UNCHANGED <<artifacts, facts, attempts, step, request, recent, bounds>>

AddAttempt(m, status) ==
  /\ IF status = "succeeded" THEN UNCHANGED failures ELSE Fault
  /\ attempts' = [attempts EXCEPT ![Purpose(m)] =
       Append(@, [subject |-> task[m].subject, retry |-> task[m].retry + task[m].retries, status |-> status])]

Answered(m, status) ==
  /\ task[m].pc = "calling"
  /\ AddAttempt(m, status)
  /\ UNCHANGED <<facts, step, request, recent, settings, lost, commands, crashes>>

GenerationFailed(m, status) ==
  /\ status # "succeeded"
  /\ Answered(m, status)
  /\ RetryOrFinish(m, status) /\ Forget(m)
  /\ UNCHANGED artifacts

\* A batch of candidates stands for the best of them.
IdeasAnswered(m, title) ==
  /\ m \in IdeaTask /\ Len(ideas) < MaxVersions
  /\ Answered(m, "succeeded")
  /\ ideas' = Append(ideas, [originality |-> Originality(title), inputs |-> sources.inputs])
  /\ Finish(m)
  /\ UNCHANGED <<item, packs, intents, briefs>>

\* The first transaction writes the analysis, whatever the stage is by now.
IntentAnswered(m) ==
  /\ m \in IntentTask /\ Len(intents) < MaxVersions
  /\ Answered(m, "succeeded")
  /\ intents' = Append(intents, [idea |-> task[m].idea, attempt |-> Len(attempts[Purpose(m)]) + 1])
  /\ Put(m, [task[m] EXCEPT !.pc = "analysed", !.result = Len(intents) + 1])
  /\ UNCHANGED <<item, ideas, packs, briefs>>

\* The second transaction writes what the copy allows; a copy that was in
\* BRIEFING already must find this analysis pinned, and changes nothing.
IntentAdvances(m) ==
  /\ task[m].pc = "analysed"
  /\ IF task[m].copy = "seo_research"
       THEN /\ Move(m, "briefing")
            /\ entry' = [entry EXCEPT !.briefing = [pack |-> task[m].pack, intent |-> task[m].result]]
       ELSE Forget(m)
  /\ Finish(m)
  /\ UNCHANGED <<artifacts, facts, attempts, step, request, recent, bounds>>

\* Mutation: an accepted brief gives way to a newer one.
BriefReplaced(m) ==
  IF ActiveBriefs = {} THEN TRUE ELSE task[m].reason

\* Only a draft gives way, and only for a reason.
BriefGivesWay(m) ==
  \A b \in ActiveBriefs : briefs[b].status = "draft" /\ task[m].reason

\* create_composed_draft reads the item under its lock.
BriefAnswered(m, sound) ==
  LET t == task[m]
      new == [idea |-> t.idea, pack |-> t.pack, intent |-> t.intent, status |-> "draft", sound |-> sound]
  IN
  /\ m \in BriefTask /\ Len(briefs) < MaxVersions
  /\ Answered(m, "succeeded")
  /\ briefs' = IF row = "briefing" /\ selected = t.idea /\ SameBrief(t) = {} /\ BriefGivesWay(m)
                 THEN Append([b \in DOMAIN briefs |-> [briefs[b] EXCEPT !.status = "superseded"]], new)
                 ELSE briefs
  /\ Finish(m)
  /\ UNCHANGED <<item, ideas, packs, intents>>

-----------------------------------------------------------------------------
(* build_evidence_pack                                                      *)

NewPack(idea, evidence, contradiction, enough) ==
  [idea |-> idea, evidence |-> evidence, assembled |-> contradiction, contradiction |-> contradiction,
   sufficiency |-> Sufficiency(evidence, contradiction, enough)]

\* _persist_pack: an assembly of the same identity is that pack.
Assembled(idea, evidence, contradiction, enough) ==
  IF SamePack(idea, evidence, contradiction) = {}
    THEN Append(packs, NewPack(idea, evidence, contradiction, enough)) ELSE packs

\* First transaction.
AssemblePack(m) ==
  LET t == task[m]
      contradiction == IF t.contradicted THEN "unresolved" ELSE "none"
  IN
  /\ task[m].pc = "queued" /\ m \in PackTask
  /\ IF Commissioned /\ row \in {"evidence_building", "seo_research", "blocked"} /\ selected = t.idea
       THEN /\ \E enough \in BOOLEAN : packs' = Assembled(t.idea, t.evidence, contradiction, enough)
            /\ Len(packs') <= MaxVersions
            /\ \E p \in DOMAIN packs' :
                 /\ packs'[p].idea = t.idea /\ packs'[p].evidence = t.evidence
                 /\ packs'[p].assembled = contradiction
                 /\ Put(m, [t EXCEPT !.pc = "packed", !.copy = row, !.result = p])
            /\ Load(m)
       ELSE Finish(m) /\ UNCHANGED <<item, packs>>
  /\ UNCHANGED <<ideas, intents, briefs, facts, attempts, step, request, recent, bounds>>

\* Second transaction, on the copy of the first: a READY pack goes on, another
\* blocks, and an item that was elsewhere must have this pack pinned.
PackAdvances(m) ==
  LET p == task[m].result IN
  /\ task[m].pc = "packed"
  /\ CASE Ready(p) /\ task[m].copy = "evidence_building" ->
            /\ Move(m, "seo_research") /\ entry' = [entry EXCEPT !.seo = p]
            /\ Put(m, [task[m] EXCEPT !.pc = "dispatching"])
       [] Ready(p) /\ task[m].copy # "evidence_building" ->
            /\ IF entry.seo = p /\ task[m].copy = "seo_research"
                 THEN Put(m, [task[m] EXCEPT !.pc = "dispatching"]) ELSE Finish(m)
            /\ Forget(m)
       [] ~Ready(p) /\ task[m].copy = "evidence_building" ->
            /\ Move(m, "blocked") /\ UNCHANGED entry /\ Finish(m)
       [] OTHER -> Finish(m) /\ Forget(m)
  /\ UNCHANGED <<artifacts, facts, attempts, step, request, recent, bounds>>

\* dispatch_next, after the commit.
PackDispatches(m) ==
  /\ task[m].pc = "dispatching"
  /\ Spare(IntentTask) # {}
  /\ task' = [task EXCEPT ![m] = NoTask,
                         ![CHOOSE n \in Spare(IntentTask) : TRUE] =
                            [Queued(0) EXCEPT !.idea = task[m].idea, !.pack = task[m].result]]
  /\ UNCHANGED <<item, artifacts, facts, attempts, step, request, recent, bounds>>

-----------------------------------------------------------------------------
(* A worker dies: the message is delivered again, but a task that had taken  *)
(* the execution lock leaves it until it expires, and the redelivery that    *)
(* meets it is a duplicate in flight.                                        *)

WorkerDies(m) ==
  /\ crashes < MaxCrashes /\ crashes' = crashes + 1
  /\ task[m].pc \notin {"idle", "queued"}
  /\ Forget(m)
  /\ UNCHANGED <<artifacts, facts, attempts, step, request, recent, settings, commands, failures>>

Crash(m) ==
  /\ WorkerDies(m)
  /\ Put(m, [task[m] EXCEPT !.pc = "queued", !.subject = <<>>, !.copy = None, !.result = 0])
  /\ UNCHANGED lost

CrashLosesMessage(m) ==
  /\ m \in Generation /\ WorkerDies(m)
  /\ Finish(m) /\ lost' = TRUE

-----------------------------------------------------------------------------
(* Acceptance of a brief: the brief is read, then the row lock is waited     *)
(* for; nothing reads the brief again.                                       *)

\* Mutation: no unique index.
AnyActiveBrief(b) == TRUE

\* uq_content_briefs_one_active: the index refuses what was superseded meanwhile.
UniqueActiveBrief(b) == ActiveBriefs \subseteq {b}

\* _require_current_selection
SelectionIsCurrent(b) == selected = briefs[b].idea

\* The claim gates, the structure guard, the content hash and the attempt.
Sound(b) == briefs[b].sound

GatesHold(b) ==
  /\ UpstreamAgrees(briefs[b]) /\ SelectionIsCurrent(b)
  /\ ideas[briefs[b].idea].originality = "passed"
  /\ Commissioned /\ DuplicateGate /\ Ready(briefs[b].pack)
  /\ Sound(b)

\* The status is the one of the copy.
Acceptable(state, b, status) ==
  status = "draft" /\ state = "briefing" /\ GatesHold(b) /\ UniqueActiveBrief(b)

\* accept_for_drafting under the lock, with the copies of item and brief.
AcceptForDrafting(x, state, b, status) ==
  IF Acceptable(state, b, status)
    THEN /\ briefs' = [briefs EXCEPT ![b].status = "accepted_for_drafting"]
         /\ Move(x, "drafting") /\ entry' = [entry EXCEPT !.drafting = b]
    ELSE UNCHANGED <<item, briefs>>

RequestAcceptance(b) ==
  /\ OperatorCommand
  /\ StartRequest([NoRequest EXCEPT !.pc = "accept", !.brief = b, !.status = briefs[b].status])
  /\ UNCHANGED <<item, artifacts, facts, attempts, task, step, recent>>

AcceptBrief ==
  /\ EndRequest("accept")
  /\ AcceptForDrafting(None, row, request.brief, request.status)
  /\ UNCHANGED <<ideas, packs, intents, facts, attempts, task, step, recent, bounds>>

-----------------------------------------------------------------------------
(* The operator's other commands.                                           *)

\* evaluate, generate-ideas, evidence-packs/build, analyze-search-intent and
\* compose-brief queue a task; only the analysis looks at the stage.
RequestTask(kind, t) ==
  /\ OperatorCommand /\ row # None
  /\ Send(kind, t)
  /\ UNCHANGED <<item, artifacts, facts, attempts, step, request, recent>>

RequestPack(idea, evidence, contradicted) ==
  RequestTask(PackTask, [Queued(0) EXCEPT !.idea = idea, !.evidence = evidence, !.contradicted = contradicted])

RequestAnalysis(idea, pack, retry) ==
  row = "seo_research" /\ RequestTask(IntentTask, [Queued(retry) EXCEPT !.idea = idea, !.pack = pack])

RequestBrief(idea, pack, intent, retry, reason) ==
  RequestTask(BriefTask, [Queued(retry) EXCEPT !.idea = idea, !.pack = pack, !.intent = intent, !.reason = reason])

\* ideas/select and deselect, at any stage.
SelectIdea(idea) ==
  /\ OperatorCommand
  /\ selected' = IF selected = idea THEN 0 ELSE idea
  /\ UNCHANGED <<item, artifacts, opportunity, decision, sources, attempts, task, step, request, recent>>

\* contradictions/resolve: the pack keeps the sufficiency it was given.
ResolveContradiction(p) ==
  /\ OperatorCommand
  /\ packs[p].contradiction = "unresolved"
  /\ packs' = [packs EXCEPT ![p].contradiction = "resolved"]
  /\ UNCHANGED <<item, ideas, intents, briefs, facts, attempts, task, step, request, recent>>

\* evidence-packs/reassemble: a pack like the old one, contradictions as they are.
ReassemblePack(p) ==
  /\ OperatorCommand
  /\ Len(packs) < MaxVersions
  /\ \E enough \in BOOLEAN :
       packs' = Assembled(packs[p].idea, packs[p].evidence, packs[p].contradiction, enough)
  /\ UNCHANGED <<item, ideas, intents, briefs, facts, attempts, task, step, request, recent>>

\* resolve-block goes back to where the item was blocked, which is
\* EVIDENCE_BUILDING here; reject-blocked ends it.
LeaveBlocked(to) ==
  /\ OperatorCommand
  /\ row = "blocked" /\ to \in {"evidence_building", "rejected"}
  /\ Move(None, to) /\ UNCHANGED entry
  /\ UNCHANGED <<artifacts, facts, attempts, task, step, request, recent>>

-----------------------------------------------------------------------------
(* The autopilot.                                                            *)

BestIdeas == {i \in DOMAIN ideas : ideas[i].originality = "passed"}
Latest(set) == IF set = {} THEN 0 ELSE CHOOSE n \in set : \A m \in set : m <= n
Oldest(set) == CHOOSE n \in set : \A m \in set : n <= m

\* Evidence that nothing has verified counts as of a source of its own.
EligibleEvidence == sources.evidence + IF sources.observed THEN 1 ELSE 0

\* The ACTIVE brief, or else the latest.
BriefForStage == IF ActiveBriefs # {} THEN Latest(ActiveBriefs) ELSE Len(briefs)

Snapshot ==
  [state |-> row,
   disposition |-> opportunity.disposition,
   commission_eligible |-> row = "idea_scoring" /\ CommissioningAdmits(opportunity, FALSE),
   ideas |-> Len(ideas),
   selected_idea |-> selected,
   best_idea |-> BestIdeas # {},
   ideas_predate_inputs |-> ideas # <<>> /\ ideas[Len(ideas)].inputs < sources.inputs,
   distinct_sources |-> sources.inputs,
   idea_led |-> opportunity.idea_led,
   selected_idea_passed |-> selected # 0 => ideas[selected].originality = "passed",
   pack |-> Len(packs),
   pack_sufficiency |-> IF packs = <<>> THEN None ELSE packs[Len(packs)].sufficiency,
   verified_evidence |-> sources.evidence,
   documents_pending |-> sources.pending > 0,
   eligible_evidence |-> EligibleEvidence,
   intent |-> Latest(IntentsOf(selected)),
   brief_status |-> IF briefs = <<>> THEN None ELSE briefs[BriefForStage].status,
   in_flight |-> recent]

STAGES == {"idea_scoring", "evidence_building", "seo_research", "briefing", "blocked"}
Planned == IF row \in STAGES THEN Plan(Snapshot, mode) ELSE Idle("no_step")

PURPOSE_BY_ACTION(name) ==
  CASE name = "generate_ideas" -> "idea_candidates"
    [] name = "analyze_intent" -> "intent_synthesis"
    [] name = "compose_brief"  -> "brief_composition"
    [] OTHER                   -> None

WaitsForProvider(action) ==
  action.kind = "enqueue" /\ PURPOSE_BY_ACTION(action.name) # None
    /\ ProviderExhausted(PURPOSE_BY_ACTION(action.name))

Recorded(name) == recent' = recent \cup {name}

\* A step that enqueues: what it queues is settled when it plans.
AutopilotEnqueues(action) ==
  LET retry == NextRetryNumber(PURPOSE_BY_ACTION(action.name)) IN
  /\ row \in ACTIONABLE_STATES
  /\ action.kind = "enqueue" /\ ~WaitsForProvider(action)
  /\ \/ action.name = "generate_ideas" /\ Send(IdeaTask, Queued(retry)) /\ UNCHANGED sources
     \/ /\ action.name = "analyze_intent" /\ UNCHANGED sources
        /\ Send(IntentTask, [Queued(retry) EXCEPT !.idea = selected, !.pack = Len(packs)])
     \/ /\ action.name = "compose_brief" /\ UNCHANGED sources
        /\ Send(BriefTask, [Queued(retry) EXCEPT !.idea = selected, !.pack = Len(packs),
                                                !.intent = Latest(IntentsOf(selected))])
     \/ /\ action.name = "extract_evidence" /\ UNCHANGED task
        /\ sources' = [sources EXCEPT !.extracting = TRUE]
     \/ \* build_pack links first and selects every eligible row.
        /\ action.name = "build_pack" /\ LinkRelated
        /\ Send(PackTask, [Queued(0) EXCEPT !.idea = selected, !.evidence = EligibleEvidence])
  /\ Recorded(action.name)
  /\ UNCHANGED <<item, artifacts, opportunity, decision, selected, attempts, step, request, bounds>>

\* The oldest idea that passed.  select_idea locks the opportunity and adds the
\* event that selects the idea the step has planned with; it reads nothing else
\* and leaves the item alone, so planning and selecting are one step here.
AutopilotSelectsIdea(action) ==
  /\ action = Command("select_idea")
  /\ selected' = Oldest(BestIdeas)
  /\ Recorded("select_idea")
  /\ UNCHANGED <<item, artifacts, opportunity, decision, sources, attempts, task, step, request, bounds>>

\* A command on the item keeps the copy it was planned with; accept_brief reads
\* the brief, too, before it waits for the lock.
AutopilotPlans(a, action) ==
  /\ action \in {Command("commission"), Command("accept_brief")}
  /\ step' = [step EXCEPT ![a] = [pc |-> "planned", action |-> action, brief |-> BriefForStage,
                                  disposition |-> opportunity.disposition,
                                  status |-> Snapshot.brief_status]]
  /\ Load(a)
  /\ UNCHANGED <<artifacts, facts, attempts, task, request, recent, bounds>>

Performs(a, name) ==
  /\ step[a].pc = "planned" /\ step[a].action = Command(name)
  /\ step' = [step EXCEPT ![a] = NoStep]

\* A refusal is recorded as an error and leaves no action behind.
RecordedIf(done, name) == IF done THEN Recorded(name) ELSE UNCHANGED recent

\* Already commissioned is done, too.
AutopilotCommissionsItem(a) ==
  /\ Performs(a, "commission")
  /\ Commission(a, "idea_scoring", step[a].disposition, FALSE)
  /\ RecordedIf(opportunity'.disposition = "commissioned", "commission")
  /\ UNCHANGED <<artifacts, decision, selected, attempts, task, request, bounds>>

AutopilotAcceptsBrief(a) ==
  /\ Performs(a, "accept_brief")
  /\ AcceptForDrafting(a, "briefing", step[a].brief, step[a].status)
  /\ RecordedIf(Acceptable("briefing", step[a].brief, step[a].status), "accept_brief")
  /\ UNCHANGED <<ideas, packs, intents, facts, attempts, task, request, bounds>>

Quiet == ~sources.extracting /\ \A m \in Message : task[m].pc = "idle"

\* The window is longer than its task, or the task counts as a failure.
InFlightWindowPasses ==
  /\ recent # {} /\ recent' = {}
  /\ IF Quiet THEN UNCHANGED failures ELSE Fault
  /\ UNCHANGED <<item, artifacts, facts, attempts, task, step, request, settings, lost, commands, crashes>>

-----------------------------------------------------------------------------

Init ==
  /\ row = None /\ fresh = {} /\ serial = TRUE
  /\ entry = [seo |-> 0, briefing |-> [pack |-> 0, intent |-> 0], drafting |-> 0]
  /\ opportunity = NoOpportunity /\ decision \in DuplicateDecisionOutcome
  /\ \E related \in 0..1, observed \in BOOLEAN :
       sources = [NoSources EXCEPT !.related = related, !.observed = observed]
  /\ ideas = <<>> /\ packs = <<>> /\ intents = <<>> /\ briefs = <<>> /\ selected = 0
  /\ attempts = [purpose \in GenerationPurpose |-> <<>>]
  /\ task = [m \in Message |-> NoTask]
  /\ step = [a \in Sweep |-> NoStep] /\ request = NoRequest /\ recent = {}
  /\ away \in BOOLEAN /\ mode \in AutopilotMode /\ exhausted = FALSE /\ lost = FALSE
  /\ commands \in 0..MaxCommands /\ failures \in 0..MaxFailures /\ crashes \in 0..MaxCrashes

GenerationStep(m) ==
  \/ DuplicateInFlight(m) \/ StartGeneration(m)
  \/ \E status \in GenerationStatus : GenerationFailed(m, status)
  \/ \E title \in BOOLEAN : IdeasAnswered(m, title)
  \/ IntentAnswered(m) \/ IntentAdvances(m)
  \/ \E sound \in BOOLEAN : BriefAnswered(m, sound)

PackStep(m) == AssemblePack(m) \/ PackAdvances(m) \/ PackDispatches(m)

TaskStep ==
  \/ \E m \in ScoreTask : EvaluateOpportunity(m)
  \/ \E m \in Generation : GenerationStep(m)
  \/ \E m \in PackTask : PackStep(m)

ResearchStep == PromoteResearch \/ PromoteMission \/ ExtractEvidence

AutopilotStep(a) ==
  \/ /\ step[a].pc = "idle"
     /\ LET action == Planned IN
          AutopilotEnqueues(action) \/ AutopilotSelectsIdea(action) \/ AutopilotPlans(a, action)
  \/ AutopilotCommissionsItem(a) \/ AutopilotAcceptsBrief(a)

OperatorStep ==
  \/ PromoteDuplicateOverride
  \/ \E override \in BOOLEAN : RequestCommission(override)
  \/ RequestRejection
  \/ \E b \in DOMAIN briefs : RequestAcceptance(b)
  \/ RequestTask(ScoreTask, Queued(0))
  \/ \E retry \in 0..MaxRetry : RequestTask(IdeaTask, Queued(retry))
  \/ \E idea \in DOMAIN ideas :
       \/ SelectIdea(idea)
       \/ \E evidence \in 0..EligibleEvidence, contradicted \in BOOLEAN : RequestPack(idea, evidence, contradicted)
       \/ \E pack \in DOMAIN packs, retry \in 0..MaxRetry :
            \/ RequestAnalysis(idea, pack, retry)
            \/ \E intent \in DOMAIN intents, reason \in BOOLEAN : RequestBrief(idea, pack, intent, retry, reason)
  \/ \E p \in DOMAIN packs : ResolveContradiction(p) \/ ReassemblePack(p)
  \/ \E to \in {"evidence_building", "rejected"} : LeaveBlocked(to)

\* The second half of a request that is under way.
RequestStep == CommissionOpportunity \/ RejectOpportunity \/ AcceptBrief

Next ==
  \/ ResearchStep \/ DecideDuplicate \/ BudgetSpends
  \/ TaskStep
  \/ \E m \in Message : Crash(m) \/ CrashLosesMessage(m)
  \/ \E a \in Sweep : AutopilotStep(a)
  \/ OperatorStep
  \/ RequestStep
  \/ InFlightWindowPasses

\* Celery runs what is queued, a provider answers or times out, research goes on,
\* a request ends, the sweep comes round and the window of an action passes.
CommissioningFairness ==
  /\ WF_vars(TaskStep) /\ WF_vars(ResearchStep) /\ WF_vars(RequestStep)
  /\ WF_vars(\E a \in Sweep : AutopilotStep(a)) /\ WF_vars(InFlightWindowPasses)

Spec == Init /\ [][Next]_vars /\ CommissioningFairness

-----------------------------------------------------------------------------
(* Properties.                                                               *)

TypeOK ==
  /\ row \in WorkflowState \cup {None}
  /\ entry.seo \in 0..Len(packs) /\ entry.drafting \in 0..Len(briefs)
  /\ entry.briefing.pack \in 0..Len(packs) /\ entry.briefing.intent \in 0..Len(intents)
  /\ opportunity \in EditorialOpportunity
  /\ decision \in DuplicateDecisionOutcome /\ selected \in 0..Len(ideas)
  /\ sources.evidence + sources.pending <= sources.inputs
  /\ \A i \in DOMAIN ideas : ideas[i] \in Idea
  /\ \A p \in DOMAIN packs : packs[p] \in EvidencePack
  /\ \A n \in DOMAIN intents : intents[n] \in SearchIntentAnalysis
  /\ \A b \in DOMAIN briefs : briefs[b] \in ContentBrief
  /\ \A m \in Message : task[m].pc \in {"idle", "queued", "calling", "analysed", "packed", "dispatching"}

\* Of a commissioning and a rejection that race, whoever waited for the row lock,
\* one wins for good, and the item leaves IDEA_SCORING the way the winner says.
OneDispositionWins ==
  [][/\ opportunity.disposition \in {"commissioned", "rejected"} =>
            opportunity'.disposition = opportunity.disposition
     /\ row = "idea_scoring" /\ row' # row =>
            opportunity'.disposition = IF row' = "rejected" THEN "rejected" ELSE "commissioned"]_vars

\* What the writer starts from: DRAFTING pins the one brief that is not superseded;
\* it is accepted, and its idea, its READY pack and its analysis belong together.
DraftingRestsOnItsBrief ==
  row = "drafting" =>
    LET b == entry.drafting IN
    /\ ActiveBriefs = {b} /\ briefs[b].status = "accepted_for_drafting"
    /\ UpstreamAgrees(briefs[b]) /\ Ready(briefs[b].pack)
    /\ ideas[briefs[b].idea].originality = "passed"

\* An accepted brief is never taken back, not even when a late task has dragged
\* the item back to where briefs are composed: drafts and reviews rest on it.
AcceptedBriefStays ==
  [][\A b \in DOMAIN briefs : briefs[b].status = "accepted_for_drafting" => briefs'[b] = briefs[b]]_vars

\* The brief in BRIEFING waits for an acceptance its gates will never grant: its
\* structure, a pinned REJECT input or the root's decision is against it.
BriefRefused(action) ==
  row = "briefing" /\ briefs # <<>> /\ action = Command("accept_brief") /\ ~GatesHold(BriefForStage)

\* The item is with the writer or rejected, or its next step is a human's, or it
\* waits for the provider or the next day's budget.
Settled(action) ==
  row \in {None, "drafting", "rejected"} \/ exhausted \/ action.kind = "wait" \/ WaitsForProvider(action)

\* Left alone, the autopilot brings every item there and it stays there, unless a
\* message was lost, an old copy was written, or the gates refuse its brief.
AutopilotCommissions ==
  (away /\ mode = "autonomous") =>
    <>[](LET action == Planned IN lost \/ ~serial \/ Settled(action) \/ BriefRefused(action))
=============================================================================

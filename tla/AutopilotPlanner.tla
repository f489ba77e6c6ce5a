-------------------------- MODULE AutopilotPlanner --------------------------
(***************************************************************************)
(* contentos.autopilot.planner: one next action from the durable facts of  *)
(* a work item.  A snapshot is a record of those facts; an action says     *)
(* whether a task is enqueued, a domain command is run, a human is awaited *)
(* or nothing is done because the system is already moving the item.       *)
(***************************************************************************)
EXTENDS WorkflowMatrix

MAX_REWORK_CYCLES == 2

AutopilotMode == {"off", "supervised", "autonomous"}

PRODUCTION_ACTIONS ==
  {"generate_ideas", "build_pack", "analyze_intent", "compose_brief",
   "generate_draft", "generate_review", "run_qa", "generate_image"}

ACCEPTANCE_ACTIONS ==
  {"commission", "select_idea", "accept_brief", "accept_review", "request_rework",
   "resolve_changes", "assemble_package", "schedule_publication"}

Enqueue(name) == [kind |-> "enqueue", name |-> name]
Command(name) == [kind |-> "command", name |-> name]
Wait(name)    == [kind |-> "wait", name |-> name]
\* The reason says what the item is waiting for.
Idle(reason)  == [kind |-> "none", name |-> reason]

\* A step that is an acceptance: the autopilot's own only when autonomous.
Acceptance(mode, command, wait) ==
  IF mode = "autonomous" THEN Command(command) ELSE Wait(wait)

-----------------------------------------------------------------------------
(* One operator per stage of _plan; s is the snapshot.                      *)

PlanIdeaScoring(s, mode) ==
  IF s.disposition # "open" THEN Idle("no_open_opportunity")
  ELSE IF ~s.commission_eligible THEN Wait("commission_gate")
  ELSE Acceptance(mode, "commission", "commission_decision")

PlanIdeaSelection(s, mode) ==
  IF s.best_idea /\ mode = "autonomous" THEN Command("select_idea")
  ELSE IF s.best_idea THEN Wait("idea_selection")
  ELSE IF s.ideas_predate_inputs /\ (s.distinct_sources >= 2 \/ s.idea_led) THEN Enqueue("generate_ideas")
  ELSE Wait("idea_originality")

PlanPack(s) ==
  IF s.verified_evidence = 0 /\ s.documents_pending THEN Enqueue("extract_evidence")
  ELSE IF s.eligible_evidence = 0 THEN Wait("no_evidence")
  ELSE Enqueue("build_pack")

PlanEvidenceBuilding(s, mode) ==
  IF s.ideas = 0 THEN Enqueue("generate_ideas")
  ELSE IF s.selected_idea = 0 THEN PlanIdeaSelection(s, mode)
  ELSE IF s.pack = 0 THEN PlanPack(s)
  ELSE IF s.pack_sufficiency = "ready" THEN Idle("moving_to_seo_research")
  ELSE Wait("pack_insufficient")

PlanSeoResearch(s) ==
  IF s.selected_idea = 0 \/ s.pack = 0 THEN Idle("artifacts_missing")
  ELSE IF s.intent = 0 THEN Enqueue("analyze_intent")
  ELSE Idle("moving_to_briefing")

PlanBriefing(s, mode) ==
  IF ~s.selected_idea_passed THEN Wait("idea_originality")
  ELSE IF s.brief_status = None /\ 0 \in {s.selected_idea, s.pack, s.intent} THEN Idle("artifacts_missing")
  ELSE IF s.brief_status = None THEN Enqueue("compose_brief")
  ELSE IF s.brief_status = "draft" THEN Acceptance(mode, "accept_brief", "brief_acceptance")
  ELSE Idle("moving_to_drafting")

\* The ACTIVE review judges the ACTIVE draft.
ReviewIsCurrent(s) == s.review_verdict # None /\ ~s.review_is_stale

PlanDrafting(s) ==
  IF s.brief_status = None THEN Idle("no_brief")
  ELSE IF s.draft = 0 THEN Enqueue("generate_draft")
  ELSE IF s.review_verdict = "revise" /\ s.rework_cycles > 0 /\ ~s.review_is_stale THEN Enqueue("rewrite")
  ELSE Idle("moving_to_editing")

\* Mutation: one cycle more than the limit.
ReworkLimitPassed(s) == s.rework_cycles > MAX_REWORK_CYCLES

ReworkLimitReached(s) == s.rework_cycles >= MAX_REWORK_CYCLES

PlanEditing(s, mode) ==
  IF s.draft = 0 THEN Wait("no_active_draft")
  ELSE IF ~ReviewIsCurrent(s) THEN Enqueue("generate_review")
  ELSE IF s.review_verdict = "pass" THEN Acceptance(mode, "accept_review", "review_acceptance")
  ELSE IF mode # "autonomous" THEN Wait("review_revise")
  ELSE IF ReworkLimitReached(s) THEN Wait("rework_limit")
  ELSE Command("request_rework")

PlanQaReview(s, mode) ==
  IF s.qa_outcome = None THEN Enqueue("run_qa")
  ELSE IF s.qa_outcome = "ready_for_human_review" THEN Idle("moving_to_human_review")
  ELSE IF s.media_needs # {} /\ mode = "autonomous" /\ s.media_needs \ s.media_candidates # {} THEN Enqueue("generate_image")
  ELSE IF s.media_needs # {} THEN Wait("media_satisfaction")
  ELSE Wait("qa_not_ready")

PlanApproved(s, mode) ==
  IF mode # "autonomous" THEN Wait("publication")
  ELSE IF s.package = 0 THEN Command("assemble_package")
  ELSE Command("schedule_publication")

PlanScheduled(mode) ==
  IF mode = "autonomous" THEN Enqueue("publish") ELSE Wait("publish")

PlanStage(s, mode) ==
  CASE s.state = "idea_scoring"          -> PlanIdeaScoring(s, mode)
    [] s.state = "evidence_building"     -> PlanEvidenceBuilding(s, mode)
    [] s.state = "seo_research"          -> PlanSeoResearch(s)
    [] s.state = "briefing"              -> PlanBriefing(s, mode)
    [] s.state = "drafting"              -> PlanDrafting(s)
    [] s.state = "editing"               -> PlanEditing(s, mode)
    [] s.state = "changes_requested"     -> Acceptance(mode, "resolve_changes", "changes_requested")
    [] s.state = "qa_review"             -> PlanQaReview(s, mode)
    [] s.state = "awaiting_human_review" -> Wait("final_approval")
    [] s.state = "approved"              -> PlanApproved(s, mode)
    [] s.state = "scheduled"             -> PlanScheduled(mode)
    [] s.state = "blocked"               -> Wait("blocked")
    [] OTHER                             -> Idle("no_step")

\* "rewrite" is generate_draft with the reason that supersedes the old draft.
\* The name an action is recorded and looked up under.
ActionName(action) == IF action.name = "rewrite" THEN "generate_draft" ELSE action.name

\* A step taken for the item less than IN_FLIGHT_WINDOW ago is not repeated.
Plan(s, mode) ==
  LET action == PlanStage(s, mode) IN
  IF mode = "off" THEN Idle("autopilot_off")
  ELSE IF action.kind \in {"enqueue", "command"} /\ ActionName(action) \in s.in_flight
    THEN Idle("in_flight")
  ELSE action

\* The states a sweep enqueues steps for.
ACTIONABLE_STATES ==
  {"idea_scoring", "evidence_building", "seo_research", "briefing", "drafting",
   "editing", "changes_requested", "qa_review", "approved", "scheduled"}
=============================================================================

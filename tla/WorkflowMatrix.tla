--------------------------- MODULE WorkflowMatrix ---------------------------
(***************************************************************************)
(* The canonical editorial state machine of contentos.workflow as constant *)
(* operators: the states, the structural transition matrix, the states a   *)
(* rework may be routed to, and the derivation of the exits of BLOCKED and *)
(* CHANGES_REQUESTED from the durable event history.                       *)
(***************************************************************************)
EXTENDS Naturals, Sequences

None == "none"   \* Python's None, for a state, a reason or an event field

WorkflowState ==
  {"discovered", "researching", "normalized", "duplicate_check", "duplicate",
   "idea_scoring", "evidence_building", "seo_research", "briefing",
   "drafting", "editing", "qa_review", "awaiting_human_review", "approved",
   "scheduled", "publishing", "published", "pinterest_pending",
   "distributed", "measuring", "refresh_candidate", "changes_requested",
   "blocked", "approval_expired", "rejected", "archived"}

INITIAL_STATE == "idea_scoring"

STRUCTURAL_TRANSITIONS(s) ==
  CASE s = "discovered"            -> {"researching", "rejected"}
    [] s = "researching"           -> {"normalized", "blocked", "rejected"}
    [] s = "normalized"            -> {"duplicate_check"}
    [] s = "duplicate_check"       -> {"duplicate", "idea_scoring", "blocked"}
    [] s = "duplicate"             -> {"rejected", "researching"}
    [] s = "idea_scoring"          -> {"evidence_building", "rejected", "blocked"}
    [] s = "evidence_building"     -> {"seo_research", "blocked", "rejected"}
    [] s = "seo_research"          -> {"briefing", "blocked"}
    [] s = "briefing"              -> {"drafting", "changes_requested"}
    [] s = "drafting"              -> {"editing", "blocked"}
    [] s = "editing"               -> {"qa_review", "changes_requested", "rejected"}
    [] s = "qa_review"             -> {"awaiting_human_review", "changes_requested", "blocked"}
    [] s = "awaiting_human_review" -> {"approved", "changes_requested", "rejected"}
    [] s = "approved"              -> {"scheduled", "changes_requested"}
    [] s = "scheduled"             -> {"publishing", "approval_expired", "blocked"}
    [] s = "publishing"            -> {"published", "blocked"}
    [] s = "published"             -> {"pinterest_pending", "measuring"}
    [] s = "pinterest_pending"     -> {"distributed", "blocked", "measuring"}
    [] s = "distributed"           -> {"measuring"}
    [] s = "measuring"             -> {"refresh_candidate", "archived", "measuring"}
    [] s = "refresh_candidate"     -> {"researching", "archived"}
    [] s = "approval_expired"      -> {"qa_review", "awaiting_human_review"}
    [] s \in {"rejected", "archived"} -> {"researching"}
    [] OTHER                       -> {}

\* Mutation: the vocabulary of the human review also names a release stage.
PermitsRelease(s) ==
  CASE s = "editing"   -> {"drafting"}
    [] s = "qa_review" -> {"drafting", "editing"}
    [] s \in {"awaiting_human_review", "approved"} ->
         {"drafting", "editing", "qa_review", "scheduled"}
    [] OTHER -> {}

PERMITTED_RESPONSIBLE_STATES(s) ==
  CASE s = "editing"   -> {"drafting"}
    [] s = "qa_review" -> {"drafting", "editing"}
    [] s \in {"awaiting_human_review", "approved"} -> {"drafting", "editing", "qa_review"}
    [] OTHER -> {}

-----------------------------------------------------------------------------
(* One row of editorial_workflow_events. The append order is the row id.    *)
Event(Reasons) ==
  [from_state : WorkflowState \cup {None}, to_state : WorkflowState,
   responsible_state : WorkflowState \cup {None}, reason : Reasons]

Entries(events, s) == {i \in DOMAIN events : events[i].to_state = s}

\* Mutation: get_latest_entry_event orders its rows ascending.
OldestEntry(events, s) ==
  {i \in Entries(events, s) : \A j \in Entries(events, s) : i <= j}

\* get_latest_entry_event: the newest event that entered s, if there is one.
LatestEntry(events, s) ==
  {i \in Entries(events, s) : \A j \in Entries(events, s) : j <= i}

\* _entry_from_state: the state the item last entered s from, if recorded.
EntryFromState(events, s) ==
  {events[i].from_state : i \in LatestEntry(events, s)} \ {None}

\* Where CHANGES_REQUESTED returns to: the recorded responsible state, else
\* the state it was entered from.
ReworkTarget(events) ==
  {IF events[i].responsible_state # None
     THEN events[i].responsible_state
     ELSE events[i].from_state : i \in LatestEntry(events, "changes_requested")} \ {None}

\* _allowed_targets: what the state held in memory may move to, given the
\* durable history as it reads under the row lock.
AllowedTargets(current, events) ==
  CASE current = "blocked"           -> {"rejected"} \cup EntryFromState(events, "blocked")
    [] current = "changes_requested" -> ReworkTarget(events)
    [] OTHER                         -> STRUCTURAL_TRANSITIONS(current)
=============================================================================

----------------------------- MODULE MCWorkflow -----------------------------
(***************************************************************************)
(* Workflow on small instances.                                            *)
(***************************************************************************)
EXTENDS Workflow, FiniteSets, TLC

CONSTANTS s1, s2, r1, r2

\* The canonical path of docs/WORKFLOW.md, up to a published and measured item.
CanonicalPath ==
  <<"idea_scoring", "evidence_building", "seo_research", "briefing", "drafting",
    "editing", "qa_review", "awaiting_human_review", "approved", "scheduled",
    "publishing", "published", "measuring">>

PathEvent(i) ==
  [from_state |-> IF i = 1 THEN None ELSE CanonicalPath[i - 1],
   to_state |-> CanonicalPath[i], responsible_state |-> None, reason |-> r1]

\* An item that was blocked once while it was scored, and moved on.
BlockedOnce ==
  <<PathEvent(1),
    [from_state |-> "idea_scoring", to_state |-> "blocked",
     responsible_state |-> None, reason |-> r1],
    [from_state |-> "blocked", to_state |-> "idea_scoring",
     responsible_state |-> None, reason |-> r1],
    PathEvent(2)>>

\* Items that followed the path for n steps, and that one.
MCPast == {[i \in 1..n |-> PathEvent(i)] : n \in {6, 8, 9, 11}} \cup {BlockedOnce}

\* Who keeps the item across its own transition: evidence, search-intent, writer,
\* QA and publication tasks, scheduling, expiry, refresh approval and the autopilot.
MCHeldRequests ==
  [s \in WorkflowState |->
     CASE s = "idea_scoring"      -> {"evidence_building"}
       [] s = "evidence_building" -> {"seo_research", "blocked"}
       [] s = "seo_research"      -> {"briefing"}
       [] s = "briefing"          -> {"drafting"}
       [] s = "drafting"          -> {"editing"}
       [] s = "editing"           -> {"qa_review", "changes_requested"}
       [] s = "qa_review"         -> {"awaiting_human_review", "changes_requested"}
       [] s = "approved"          -> {"scheduled"}
       [] s = "scheduled"         -> {"publishing", "approval_expired"}
       [] s = "publishing"        -> {"published", "blocked"}
       [] s = "approval_expired"  -> {"qa_review", "awaiting_human_review"}
       [] s \in {"published", "pinterest_pending", "distributed"} -> {"measuring"}
       [] s = "measuring"         -> {"refresh_candidate"}
       [] OTHER                   -> {}]

MCSymmetry == Permutations({s1, s2})
=============================================================================

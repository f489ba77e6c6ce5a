---------------------------- MODULE Publication ----------------------------
(***************************************************************************)
(* From the human review to the live article: the decision records, the    *)
(* publication packages, scheduling, and the publish_package deliveries    *)
(* that hand a package to the Publishing API, for one work item.           *)
(*                                                                         *)
(* A delivery, a QA run and an operator or autopilot request check the     *)
(* item first and make their transition later, when the row lock is theirs;*)
(* the deliveries, the runs and the autopilot keep the copy they loaded    *)
(* (Workflow explains why the lock does not refresh it) and so write even  *)
(* over an item that has moved on.  The decision routes read it afresh.    *)
(* What the stages before QA do is reduced to their committed result.      *)
(***************************************************************************)
EXTENDS WorkflowMatrix, FiniteSets

CONSTANTS
  Content,        \* content hashes a draft may have
  PackageHash,    \* hashes of a payload and its media manifest
  HashOf,         \* content |-> the hash of the package assembled over it
  QaRun,          \* run_qa_gates executions in flight
  Reviewer,       \* decision requests in flight
  Operator,       \* operator and autopilot requests in flight
  Delivery,       \* publish_package messages in flight
  MaxRetries,     \* MAX_RETRIES of the task
  MaxDrafts,      \* bound on the drafts of the item
  MaxDecisions,   \* bound on its human decisions
  MaxEnqueued,    \* bound on the times publication is asked for
  MaxCrashes      \* bound on the workers that die

ASSUME ContentAssumption == None \notin Content /\ None \notin PackageHash
ASSUME HashAssumption == HashOf \in [Content -> PackageHash]
\* A run, a request and a message are different things.
ASSUME ActorAssumption == QaRun \cap Operator = {} /\ (QaRun \cup Operator) \cap Delivery = {}
ASSUME PublicationBounds ==
  {MaxRetries, MaxDrafts, MaxDecisions, MaxEnqueued, MaxCrashes} \subseteq Nat

VARIABLES
  row,        \* editorial_work_items.current_state
  serial,     \* no transition yet came between another one and the checks made for it
  fresh,      \* the requests, runs and deliveries no transition came after
  entry,      \* what the newest event that entered a state pins, per state
  drafts,     \* contents of the drafts; the last one is ACTIVE
  report,     \* the ACTIVE QA report: the draft it covers and its outcome
  qa,         \* per QA run: the draft its ready report covers, or 0
  decisions,  \* the human_decisions rows
  packages,   \* the publication_packages rows
  attempts,   \* per package: the publication_attempts rows, the succeeded ones
  accepted,   \* idempotency keys the Publishing API has published (external)
  decision,   \* per reviewer: the transition its recorded decision asks for
  request,    \* per operator: the state its copy shows, the package it chose
  delivery,   \* per message: where its execution is
  spent       \* messages enqueued and workers lost so far

item      == <<row, serial, fresh, entry>>
editorial == <<drafts, report, qa>>
human     == <<decisions, decision>>
dispatch  == <<attempts, accepted, delivery, spent>>
vars      == <<item, editorial, human, packages, request, dispatch>>

Outcome == {"succeeded", "transient", "rejected_by_api"}
Responsible == {"drafting", "editing", "qa_review"}

NoRequest == [view |-> None, package |-> None]
NoDecision == [to |-> None, responsible |-> None]
NoDelivery ==
  [pc |-> "idle", view |-> None, package |-> None, outcome |-> None,
   number |-> 0, retries |-> 0]

-----------------------------------------------------------------------------
(* What the services read.                                                  *)

ActiveContent == drafts[Len(drafts)]

\* The ACTIVE report is ready_for_human_review over the ACTIVE draft.
ReportCovers == report.ready /\ report.draft = Len(drafts)

Revoked == {decisions[i].revokes : i \in DOMAIN decisions}

\* Mutation: every kind of decision counts as an approval.
AnyUnrevokedDecision == DOMAIN decisions \ Revoked

UnrevokedApprovals == {i \in DOMAIN decisions : decisions[i].kind = "approved"} \ Revoked

\* _latest_unrevoked_approval: at most one.
LatestApproval == {i \in UnrevokedApprovals : \A j \in UnrevokedApprovals : j <= i}

ApprovedContent == {decisions[i].content : i \in LatestApproval}

\* Mutation: an approval that was revoked still counts.
SomeApprovalCovers ==
  \E i \in DOMAIN decisions :
    decisions[i].kind = "approved" /\ decisions[i].content = ActiveContent

\* approval_is_current: the latest unrevoked approval still covers the ACTIVE draft.
ApprovalIsCurrent == ActiveContent \in ApprovedContent

\* Mutation: a transient failure counts as an accepted package.
SucceededOrUnknown(outcome) == outcome # "rejected_by_api"

Succeeded(outcome) == outcome = "succeeded"

\* Mutation: one execution too many.
MayRetryOnceMore(retries) == retries <= MaxRetries

MayRetry(retries) == retries < MaxRetries

\* Mutation: prior attempts are not looked up.
NoPriorSuccess(h) == 0

\* successful_attempt reads these rows; more than one is an error.
PriorSuccess(h) == attempts[h].succeeded

-----------------------------------------------------------------------------
(* WorkflowService.transition, by the holders of older checks (copies) or by *)
(* a caller that has none and reads the row under the lock (copies = {}).    *)

Write(copies, to) ==
  /\ row' = to
  /\ serial' = (serial /\ copies \subseteq fresh)

Move(copies, to) == Write(copies, to) /\ fresh' = {}

MoveUnpinned(copies, to) == Move(copies, to) /\ UNCHANGED entry

MovePinned(copies, to, pin) == Move(copies, to) /\ entry' = [entry EXCEPT ![to] = pin]

\* x checks the item: nothing has come after its checks.
Load(x) == fresh' = fresh \cup {x} /\ UNCHANGED <<row, serial, entry>>

\* x ends.
Forget(x) == fresh' = fresh \ {x} /\ UNCHANGED <<row, serial, entry>>

-----------------------------------------------------------------------------
(* The editorial stages, reduced to what they commit.                       *)

\* request-rework: an operator sends the item back; no decision is recorded.
RequestRework(responsible) ==
  /\ "changes_requested" \in STRUCTURAL_TRANSITIONS(row)
  /\ responsible \in PERMITTED_RESPONSIBLE_STATES(row) \ {"qa_review"}
  /\ MovePinned({}, "changes_requested", responsible)
  /\ UNCHANGED <<editorial, human, packages, request, dispatch>>

\* resolve-changes-requested: to the recorded stage, with no artifact pinned.
ResolveChangesRequested ==
  /\ row = "changes_requested"
  /\ IF entry.changes_requested = "qa_review"
       THEN MovePinned({}, "qa_review", 0)
       ELSE MoveUnpinned({}, entry.changes_requested)
  /\ UNCHANGED <<editorial, human, packages, request, dispatch>>

\* generate_writer_draft or an operator draft: supersedes the ACTIVE draft.
WriteDraft(content) ==
  /\ row = "drafting"
  /\ Len(drafts) < MaxDrafts
  /\ drafts' = Append(drafts, content)
  /\ MoveUnpinned({}, "editing")
  /\ UNCHANGED <<report, qa, human, packages, request, dispatch>>

\* accept-review: a passing review covers the ACTIVE draft, which is pinned.
AcceptReview ==
  /\ row = "editing"
  /\ MovePinned({}, "qa_review", Len(drafts))
  /\ UNCHANGED <<editorial, human, packages, request, dispatch>>

\* Mutation: every report sends the item on.
AnyReportGoesOn(ready) == TRUE

GoesOn(ready) == ready

\* run_qa_gates, first transaction: the report replaces the ACTIVE one.  The gates read
\* media bindings and waivers that change between two runs over one draft.
RunQaGates(r, ready) ==
  /\ qa[r] = 0
  /\ row = "qa_review"
  /\ entry.qa_review = Len(drafts)
  /\ report' = [draft |-> Len(drafts), ready |-> ready]
  /\ qa' = [qa EXCEPT ![r] = IF GoesOn(ready) THEN Len(drafts) ELSE 0]
  /\ IF GoesOn(ready) THEN Load(r) ELSE UNCHANGED item
  /\ UNCHANGED <<drafts, human, packages, request, dispatch>>

\* ... second transaction: the run pins the draft it evaluated.
EnterHumanReview(r) ==
  /\ qa[r] # 0
  /\ MovePinned({r}, "awaiting_human_review", drafts[qa[r]])
  /\ qa' = [qa EXCEPT ![r] = 0]
  /\ UNCHANGED <<drafts, report, human, packages, request, dispatch>>

\* The worker dies in between; a redelivery is another run.
LoseQaRun(r) ==
  /\ qa[r] # 0
  /\ qa' = [qa EXCEPT ![r] = 0]
  /\ Forget(r)
  /\ UNCHANGED <<drafts, report, human, packages, request, dispatch>>

-----------------------------------------------------------------------------
(* Human decisions: the record is committed first, the transition second.   *)

Record(h, kind, revokes, to, responsible) ==
  /\ decision[h] = NoDecision
  /\ report.draft = Len(drafts)
  /\ Len(decisions) < MaxDecisions
  /\ decisions' = Append(decisions, [kind |-> kind, content |-> ActiveContent,
                                     revokes |-> revokes])
  /\ decision' = [decision EXCEPT ![h] = [to |-> to, responsible |-> responsible]]
  /\ UNCHANGED <<item, editorial, packages, request, dispatch>>

RecordApproval(h) ==
  /\ row = "awaiting_human_review"
  /\ report.ready
  /\ entry.awaiting_human_review = ActiveContent
  /\ Record(h, "approved", 0, "approved", None)

RecordChangesRequested(h, responsible) ==
  /\ row = "awaiting_human_review"
  /\ Record(h, "changes_requested", 0, "changes_requested", responsible)

RecordRejection(h) ==
  /\ row = "awaiting_human_review"
  /\ Record(h, "rejected", 0, "rejected", None)

RecordRevocation(h, responsible) ==
  /\ row = "approved"
  /\ \E i \in LatestApproval :
       Record(h, "approval_revoked", i, "changes_requested", responsible)

\* The transition of a recorded decision: the item is read under the lock.
ApplyDecision(h) ==
  /\ \/ decision[h].to \in STRUCTURAL_TRANSITIONS(row)
     \/ row = "blocked" /\ decision[h].to = "rejected"
  /\ decision[h].responsible \in PERMITTED_RESPONSIBLE_STATES(row) \cup {None}
  /\ IF decision[h].to = "changes_requested"
       THEN MovePinned({}, "changes_requested", decision[h].responsible)
       ELSE MoveUnpinned({}, decision[h].to)
  /\ decision' = [decision EXCEPT ![h] = NoDecision]
  /\ UNCHANGED <<decisions, editorial, packages, request, dispatch>>

\* The transition is refused (409), or the request dies between its commits.
DropDecision(h) ==
  /\ decision[h] # NoDecision
  /\ decision' = [decision EXCEPT ![h] = NoDecision]
  /\ UNCHANGED <<item, decisions, editorial, packages, request, dispatch>>

-----------------------------------------------------------------------------
(* Packages and scheduling.                                                 *)

\* assemble-publication-package: identical payloads converge on one package.
Assemble ==
  /\ row = "approved"
  /\ ApprovalIsCurrent
  /\ ReportCovers
  /\ packages' =
       IF \E p \in packages : p.hash = HashOf[ActiveContent]
         THEN packages
         ELSE packages \cup {[hash |-> HashOf[ActiveContent], content |-> ActiveContent]}
  /\ UNCHANGED <<item, editorial, human, request, dispatch>>

\* A request loads the item in one of the states its command is for.
LoadRequest(o) ==
  /\ request[o] = NoRequest
  /\ row \in {"approved", "approval_expired", "blocked"}
  /\ request' = [request EXCEPT ![o].view = row]
  /\ Load(o)
  /\ UNCHANGED <<editorial, human, packages, dispatch>>

EndRequest(o) == request' = [request EXCEPT ![o] = NoRequest]

\* resolve_schedulable_package: a package over the content of a current approval ...
ResolveSchedulablePackage(o) ==
  /\ request[o] = [view |-> "approved", package |-> None]
  /\ ApprovalIsCurrent
  /\ \E p \in packages :
       /\ p.content \in ApprovedContent
       /\ request' = [request EXCEPT ![o].package = p.hash]
  /\ UNCHANGED <<item, editorial, human, packages, dispatch>>

\* ... and, once the row lock is granted, the transition that pins it.
SchedulePublication(o) ==
  /\ request[o].package # None
  /\ MovePinned({o}, "scheduled", request[o].package)
  /\ EndRequest(o)
  /\ UNCHANGED <<editorial, human, packages, dispatch>>

\* resolve-approval-expired: the report decides where the item returns to.
ResolveApprovalExpired(o) ==
  /\ request[o].view = "approval_expired"
  /\ IF ReportCovers
       THEN MovePinned({o}, "awaiting_human_review", ActiveContent)
       ELSE MovePinned({o}, "qa_review", Len(drafts))
  /\ EndRequest(o)
  /\ UNCHANGED <<editorial, human, packages, dispatch>>

\* resolve-block: back into the dispatch, with no package pinned.
ResolveBlock(o) ==
  /\ request[o].view = "blocked"
  /\ MovePinned({o}, "publishing", None)
  /\ EndRequest(o)
  /\ UNCHANGED <<editorial, human, packages, dispatch>>

RejectBlocked(o) ==
  /\ request[o].view = "blocked"
  /\ MoveUnpinned({o}, "rejected")
  /\ EndRequest(o)
  /\ UNCHANGED <<editorial, human, packages, dispatch>>

\* The request is refused or dies.
DropRequest(o) ==
  /\ request[o] # NoRequest
  /\ EndRequest(o)
  /\ Forget(o)
  /\ UNCHANGED <<editorial, human, packages, dispatch>>

-----------------------------------------------------------------------------
(* publish_package.  The transport is configured: without one a delivery    *)
(* ends before it changes anything.                                         *)

Step(d, pc) == delivery' = [delivery EXCEPT ![d].pc = pc]
Acknowledge(d) == delivery' = [delivery EXCEPT ![d] = NoDelivery]

\* publish_work_item, or the autopilot: one more message.
EnqueuePublish(d) ==
  /\ row \in {"scheduled", "publishing"}
  /\ delivery[d].pc = "idle"
  /\ spent.enqueued < MaxEnqueued
  /\ Step(d, "queued")
  /\ spent' = [spent EXCEPT !.enqueued = @ + 1]
  /\ UNCHANGED <<item, editorial, human, packages, request, attempts, accepted>>

StartDelivery(d) ==
  /\ delivery[d].pc = "queued"
  /\ row \in {"scheduled", "publishing"}
  /\ delivery' = [delivery EXCEPT ![d].pc = "loaded", ![d].view = row]
  /\ Load(d)
  /\ UNCHANGED <<editorial, human, packages, request, attempts, accepted, spent>>

\* Already published, or not publishable: nothing is changed.
IgnoreDelivery(d) ==
  /\ delivery[d].pc = "queued"
  /\ row \notin {"scheduled", "publishing"}
  /\ Acknowledge(d)
  /\ UNCHANGED <<item, editorial, human, packages, request, attempts, accepted, spent>>

\* The approval is checked again; a stale one expires instead of publishing.
RecheckApproval(d) ==
  /\ delivery[d].pc = "loaded" /\ delivery[d].view = "scheduled"
  /\ IF ApprovalIsCurrent
       THEN delivery' = [delivery EXCEPT ![d].pc = "approved", ![d].package = entry.scheduled]
       ELSE Step(d, "stale")
  /\ UNCHANGED <<item, editorial, human, packages, request, attempts, accepted, spent>>

ExpireStaleApproval(d) ==
  /\ delivery[d].pc = "stale"
  /\ MoveUnpinned({d}, "approval_expired")
  /\ Acknowledge(d)
  /\ UNCHANGED <<editorial, human, packages, request, attempts, accepted, spent>>

\* SCHEDULED -> PUBLISHING, pinned to the scheduled package.
StartDispatch(d) ==
  /\ delivery[d].pc = "approved"
  /\ Write({d}, "publishing")
  /\ fresh' = {d}
  /\ entry' = [entry EXCEPT !.publishing = delivery[d].package]
  /\ delivery' = [delivery EXCEPT ![d].pc = "resolved", ![d].view = "publishing"]
  /\ UNCHANGED <<editorial, human, packages, request, attempts, accepted, spent>>

\* A delivery that finds PUBLISHING takes the package its entry pins.
ResumeDispatch(d) ==
  /\ delivery[d].pc = "loaded" /\ delivery[d].view = "publishing"
  /\ entry.publishing # None
  /\ delivery' = [delivery EXCEPT ![d].pc = "resolved", ![d].package = entry.publishing]
  /\ UNCHANGED <<item, editorial, human, packages, request, attempts, accepted, spent>>

\* No package is pinned, or two attempts succeeded: the task raises.
RaiseConflict(d) ==
  /\ \/ /\ delivery[d].pc = "loaded" /\ delivery[d].view = "publishing"
        /\ entry.publishing = None
     \/ /\ delivery[d].pc = "resolved"
        /\ PriorSuccess(delivery[d].package) > 1
  /\ Acknowledge(d)
  /\ Forget(d)
  /\ UNCHANGED <<editorial, human, packages, request, attempts, accepted, spent>>

\* An attempt that succeeded is reused.
ReuseSuccess(d) ==
  /\ delivery[d].pc = "resolved"
  /\ PriorSuccess(delivery[d].package) = 1
  /\ Step(d, "succeeded")
  /\ UNCHANGED <<item, editorial, human, packages, request, attempts, accepted, spent>>

\* The Publishing API answers a request under key h (external): it replays an
\* accepted key, and a request without an answer may have been accepted or not.
RemoteAnswer(h, outcome) ==
  CASE outcome = "succeeded"       -> accepted' = accepted \cup {h}
    [] outcome = "transient"       -> accepted' \in {accepted, accepted \cup {h}}
    [] outcome = "rejected_by_api" -> h \notin accepted /\ UNCHANGED accepted

\* transport.publish under the idempotency key of the package.
Publish(d) ==
  /\ delivery[d].pc = "resolved"
  /\ PriorSuccess(delivery[d].package) = 0
  /\ \E outcome \in Outcome :
       /\ RemoteAnswer(delivery[d].package, outcome)
       /\ delivery' = [delivery EXCEPT ![d].pc = "answered", ![d].outcome = outcome]
  /\ UNCHANGED <<item, editorial, human, packages, request, attempts, spent>>

\* record_attempt: the next number is read ...
NumberAttempt(d) ==
  /\ delivery[d].pc = "answered"
  /\ delivery' = [delivery EXCEPT ![d].pc = "numbered",
                                  ![d].number = attempts[delivery[d].package].rows + 1]
  /\ UNCHANGED <<item, editorial, human, packages, request, attempts, accepted, spent>>

\* ... and the row is inserted and committed before anything else happens.
RecordAttempt(d) ==
  LET h == delivery[d].package
      ok == Succeeded(delivery[d].outcome)
  IN /\ delivery[d].pc = "numbered"
     /\ delivery[d].number = attempts[h].rows + 1
     /\ attempts' = [attempts EXCEPT ![h] =
          [rows |-> @.rows + 1,
           succeeded |-> IF delivery[d].outcome = "succeeded" THEN @.succeeded + 1
                         ELSE @.succeeded]]
     /\ Step(d, IF ok THEN "succeeded" ELSE "failed")
     /\ UNCHANGED <<item, editorial, human, packages, request, accepted, spent>>

\* Another delivery took the number: the UNIQUE constraint fails the task.
LoseAttempt(d) ==
  /\ delivery[d].pc = "numbered"
  /\ delivery[d].number # attempts[delivery[d].package].rows + 1
  /\ Acknowledge(d)
  /\ Forget(d)
  /\ UNCHANGED <<editorial, human, packages, request, attempts, accepted, spent>>

\* A transient failure is retried as a new execution of the message.
Retry(d) ==
  /\ delivery[d].pc = "failed"
  /\ delivery[d].outcome = "transient" /\ MayRetry(delivery[d].retries)
  /\ delivery' = [delivery EXCEPT
       ![d] = [NoDelivery EXCEPT !.pc = "queued", !.retries = delivery[d].retries + 1]]
  /\ Forget(d)
  /\ UNCHANGED <<editorial, human, packages, request, attempts, accepted, spent>>

\* A terminal failure blocks the item.
BlockItem(d) ==
  /\ delivery[d].pc = "failed"
  /\ delivery[d].outcome = "transient" => ~MayRetry(delivery[d].retries)
  /\ MoveUnpinned({d}, "blocked")
  /\ Acknowledge(d)
  /\ UNCHANGED <<editorial, human, packages, request, attempts, accepted, spent>>

\* PUBLISHING -> PUBLISHED; the copy the task holds always says PUBLISHING.
CompletePublication(d) ==
  /\ delivery[d].pc = "succeeded"
  /\ MovePinned({d}, "published", delivery[d].package)
  /\ Acknowledge(d)
  /\ UNCHANGED <<editorial, human, packages, request, attempts, accepted, spent>>

\* Mutation: the message is acknowledged when it is taken, not when it is done.
LoseMessage(d) ==
  /\ delivery[d].pc \notin {"idle", "queued"}
  /\ spent.crashes < MaxCrashes
  /\ Acknowledge(d)
  /\ spent' = [spent EXCEPT !.crashes = @ + 1]
  /\ Forget(d)
  /\ UNCHANGED <<editorial, human, packages, request, attempts, accepted>>

\* The worker dies; the message was not acknowledged and is delivered again.
WorkerLost(d) ==
  /\ delivery[d].pc \notin {"idle", "queued"}
  /\ spent.crashes < MaxCrashes
  /\ delivery' = [delivery EXCEPT
       ![d] = [NoDelivery EXCEPT !.pc = "queued", !.retries = delivery[d].retries]]
  /\ spent' = [spent EXCEPT !.crashes = @ + 1]
  /\ Forget(d)
  /\ UNCHANGED <<editorial, human, packages, request, attempts, accepted>>

-----------------------------------------------------------------------------
\* The item first enters human review: one draft, a ready report over it.
Init ==
  /\ row = "awaiting_human_review"
  /\ serial = TRUE
  /\ fresh = {}
  /\ \E content \in Content :
       /\ drafts = <<content>>
       /\ entry = [qa_review |-> 1, awaiting_human_review |-> content,
                   changes_requested |-> None, scheduled |-> None,
                   publishing |-> None, published |-> None]
  /\ report = [draft |-> 1, ready |-> TRUE]
  /\ qa = [r \in QaRun |-> 0]
  /\ decisions = <<>>
  /\ packages = {}
  /\ attempts = [h \in PackageHash |-> [rows |-> 0, succeeded |-> 0]]
  /\ accepted = {}
  /\ decision = [h \in Reviewer |-> NoDecision]
  /\ request = [o \in Operator |-> NoRequest]
  /\ delivery = [d \in Delivery |-> NoDelivery]
  /\ spent = [enqueued |-> 0, crashes |-> 0]

Editorial ==
  \/ \E responsible \in Responsible : RequestRework(responsible)
  \/ ResolveChangesRequested
  \/ \E content \in Content : WriteDraft(content)
  \/ AcceptReview
  \/ \E r \in QaRun :
       \/ \E ready \in BOOLEAN : RunQaGates(r, ready)
       \/ EnterHumanReview(r) \/ LoseQaRun(r)

Decide(h) ==
  \/ RecordApproval(h) \/ RecordRejection(h)
  \/ \E responsible \in Responsible :
       RecordChangesRequested(h, responsible) \/ RecordRevocation(h, responsible)
  \/ ApplyDecision(h) \/ DropDecision(h)

Operate(o) ==
  \/ LoadRequest(o) \/ DropRequest(o)
  \/ ResolveSchedulablePackage(o) \/ SchedulePublication(o) \/ ResolveApprovalExpired(o)
  \/ ResolveBlock(o) \/ RejectBlocked(o)

\* What a worker does once it has the message.
Work(d) ==
  \/ StartDelivery(d) \/ IgnoreDelivery(d) \/ RecheckApproval(d)
  \/ ExpireStaleApproval(d) \/ StartDispatch(d) \/ ResumeDispatch(d) \/ RaiseConflict(d)
  \/ ReuseSuccess(d) \/ Publish(d) \/ NumberAttempt(d)
  \/ RecordAttempt(d) \/ LoseAttempt(d)
  \/ Retry(d) \/ BlockItem(d) \/ CompletePublication(d)

Next ==
  \/ Editorial
  \/ \E h \in Reviewer : Decide(h)
  \/ Assemble
  \/ \E o \in Operator : Operate(o)
  \/ \E d \in Delivery : EnqueuePublish(d) \/ Work(d) \/ WorkerLost(d)

Spec == Init /\ [][Next]_vars

\* Celery keeps redelivering an unacknowledged message and some worker runs it.
FairSpec == Spec /\ \A d \in Delivery : WF_vars(Work(d))

-----------------------------------------------------------------------------
(* Properties.                                                              *)

\* The variables have their types.
TypeOK ==
  /\ row \in WorkflowState /\ serial \in BOOLEAN /\ fresh \subseteq QaRun \cup Operator \cup Delivery
  /\ entry.qa_review \in 0..Len(drafts)
  /\ entry.awaiting_human_review \in Content
  /\ entry.changes_requested \in Responsible \cup {None}
  /\ {entry.scheduled, entry.publishing, entry.published} \subseteq PackageHash \cup {None}
  /\ drafts \in Seq(Content) /\ report \in [draft : 1..Len(drafts), ready : BOOLEAN]
  /\ qa \in [QaRun -> 0..Len(drafts)]
  /\ decisions \in Seq([kind : {"approved", "changes_requested", "rejected", "approval_revoked"},
                        content : Content, revokes : Nat])
  /\ packages \subseteq [hash : PackageHash, content : Content]
  /\ attempts \in [PackageHash -> [rows : Nat, succeeded : Nat]]
  /\ accepted \subseteq PackageHash
  /\ decision \in [Reviewer -> [to : {"approved", "changes_requested", "rejected", None},
                                responsible : Responsible \cup {None}]]
  /\ request \in [Operator -> [view : {"approved", "approval_expired", "blocked", None},
                              package : PackageHash \cup {None}]]
  /\ \A d \in Delivery :
       /\ delivery[d].package \in PackageHash \cup {None}
       /\ delivery[d].pc \in {"approved", "resolved", "answered", "numbered", "succeeded", "failed"} =>
            delivery[d].package # None
       /\ delivery[d].number \in Nat
       /\ delivery[d].retries \in 0..MaxRetries

\* Nothing a human did not approve is ever packaged, sent or live, whatever the order
\* in which decisions are recorded and applied: two reviewers may decide at once, and
\* the approval of an older draft may be applied to a newer one.
OnlyApprovedContent ==
  /\ \A p \in packages :
       \E i \in DOMAIN decisions :
         decisions[i].kind = "approved" /\ decisions[i].content = p.content
  /\ accepted \subseteq {p.hash : p \in packages}

\* As long as transitions are serial, a delivery goes on to dispatch only what a human
\* approved and nobody has revoked by then: a revocation recorded while the item was
\* being scheduled stops the publication although its own transition is refused, and
\* the package that was scheduled is one over the content approved now.
RevokedApprovalStartsNothing ==
  [][\A d \in Delivery :
       (delivery[d].pc = "loaded" /\ delivery'[d].pc = "approved" /\ serial /\ d \in fresh) =>
         \E p \in packages, i \in DOMAIN decisions :
           /\ p.hash = delivery'[d].package
           /\ decisions[i].kind = "approved" /\ decisions[i].content = p.content
           /\ \A j \in DOMAIN decisions :
                decisions[j].kind = "approval_revoked" => decisions[j].revokes # i]_vars

\* PUBLISHED is never claimed without evidence: the pinned package was accepted by the
\* Publishing API and its succeeded attempt was recorded first, whatever crashed,
\* timed out or was delivered twice in between.
PublishedIsProven ==
  /\ row = "published" => entry.published # None
  /\ entry.published # None =>
       entry.published \in accepted /\ attempts[entry.published].succeeded > 0

\* As long as transitions are serial, an item that waits for a human can be decided: the
\* ACTIVE report is ready and covers the ACTIVE draft, and the entry pins its hash, by
\* whichever way the item came (first review, rework, expired approval).
ReviewCanBeDecided ==
  (row = "awaiting_human_review" /\ serial) =>
    /\ report = [draft |-> Len(drafts), ready |-> TRUE]
    /\ entry.awaiting_human_review = ActiveContent

\* A package is dispatched until it succeeds and then never again: no two of its
\* attempts succeeded.
OneSuccess == \A h \in PackageHash : attempts[h].succeeded <= 1

\* A package with a recorded success is never the reason the item is BLOCKED; and as long
\* as transitions are serial the item names the package it was blocked over (a stale
\* resolve-block unpins it under a running delivery).
BlockedWasNotPublished ==
  row = "blocked" =>
    /\ serial => entry.publishing # None
    /\ entry.publishing # None => attempts[entry.publishing].succeeded = 0

Promise == INSTANCE Release WITH
  approved <- {decisions[i].content : i \in {j \in DOMAIN decisions : decisions[j].kind = "approved"}},
  packaged <- packages,
  live     <- accepted,
  recorded <- {h \in PackageHash : attempts[h].succeeded > 0},
  shown    <- entry.published

\* Every step of the decision, assembly and dispatch code is a step of the release it
\* promises, or none: approve, package, go live, record and show, in that order, and
\* never back, although a decision, a package and a delivery each take several steps
\* that others, retries and crashes come between.
ReleasesInOrder == Promise!Spec

\* An item in PUBLISHING names the package a re-drive has to send.
PublishingNamesItsPackage == row = "publishing" => entry.publishing # None

\* A message for an item that is ready to go is not lost: however often the worker
\* dies, the item ends up published, blocked or expired (or elsewhere by an operator),
\* as long as transitions are serial.
DispatchSettles ==
  \A d \in Delivery :
    (/\ delivery[d].pc # "idle"
     /\ row = "scheduled" \/ (row = "publishing" /\ entry.publishing # None))
      ~> row \notin {"scheduled", "publishing"} \/ ~serial
=============================================================================

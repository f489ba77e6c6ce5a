------------------------- MODULE PublicationProofs -------------------------
(***************************************************************************)
(* What holds of Publication for any contents, reviewers, operators,       *)
(* messages and bounds.                                                    *)
(***************************************************************************)
EXTENDS Publication, TLAPS

(***************************************************************************)
(* The inductive invariant: the types, the packages and pins that lead     *)
(* back to an approval, and the evidence each delivery carries.            *)
(***************************************************************************)
Kind == {"approved", "changes_requested", "rejected", "approval_revoked"}

EntryRecord ==
  [qa_review : Nat, awaiting_human_review : Content,
   changes_requested : Responsible \cup {None}, scheduled : PackageHash \cup {None},
   publishing : PackageHash \cup {None}, published : PackageHash \cup {None}]

\* The rows of the editorial stages and of the human decisions.
DraftsOK ==
  /\ drafts \in Seq(Content) /\ drafts # <<>>
  /\ report \in [draft : 1..Len(drafts), ready : BOOLEAN]
  /\ qa \in [QaRun -> 0..Len(drafts)]

DecisionsOK ==
  /\ decisions \in Seq([kind : Kind, content : Content, revokes : Nat])
  /\ decision \in [Reviewer -> [to : {"approved", "changes_requested", "rejected", None},
                                responsible : Responsible \cup {None}]]
  /\ \A h \in Reviewer :
       decision[h].to = "changes_requested" => decision[h].responsible # None

\* The item: a rework names its stage, only a package is ever scheduled, and PUBLISHED
\* pins one.
ItemOK ==
  /\ row \in WorkflowState /\ serial \in BOOLEAN
  /\ fresh \subseteq QaRun \cup Operator \cup Delivery
  /\ entry \in EntryRecord
  /\ entry.qa_review <= Len(drafts)
  /\ row = "changes_requested" => entry.changes_requested # None
  /\ row = "scheduled" => entry.scheduled # None
  /\ row = "published" => entry.published # None

Hashes == {p.hash : p \in packages}

PackagesOK ==
  /\ packages \subseteq [hash : PackageHash, content : Content]
  /\ \A p \in packages :
       \E i \in DOMAIN decisions :
         decisions[i].kind = "approved" /\ decisions[i].content = p.content

PinsOK ==
  /\ {entry.scheduled, entry.publishing, entry.published} \subseteq Hashes \cup {None}
  /\ entry.published # None => attempts[entry.published].succeeded > 0

RequestRecord ==
  [view : {"approved", "approval_expired", "blocked", None},
   package : PackageHash \cup {None}]

RequestsOK ==
  /\ request \in [Operator -> RequestRecord]
  /\ \A o \in Operator : request[o].package \in Hashes \cup {None}

AttemptsOK ==
  /\ attempts \in [PackageHash -> [rows : Nat, succeeded : Nat]]
  /\ accepted \subseteq Hashes
  /\ \A h \in PackageHash : attempts[h].succeeded > 0 => h \in accepted

DeliveryRecord ==
  [pc : {"idle", "queued", "loaded", "stale", "approved", "resolved", "answered",
         "numbered", "succeeded", "failed"},
   view : {"scheduled", "publishing", None}, package : PackageHash \cup {None},
   outcome : Outcome \cup {None}, number : Nat, retries : 0..MaxRetries]

\* What a delivery in state r may rely on.
Sound(r) ==
  /\ r \in DeliveryRecord
  /\ r.package \in Hashes \cup {None}
  /\ r.pc \in {"approved", "resolved", "answered", "numbered", "succeeded", "failed"} =>
       r.package # None
  /\ r.pc = "loaded" /\ r.view = "scheduled" => entry.scheduled # None
  /\ r.pc \in {"answered", "numbered"} /\ r.outcome = "succeeded" => r.package \in accepted
  /\ r.pc = "succeeded" => attempts[r.package].succeeded > 0

DeliveriesOK ==
  /\ delivery \in [Delivery -> DeliveryRecord]
  /\ \A d \in Delivery : Sound(delivery[d])

Inv ==
  /\ DraftsOK /\ DecisionsOK /\ ItemOK /\ PackagesOK /\ PinsOK /\ RequestsOK
  /\ AttemptsOK /\ DeliveriesOK

-----------------------------------------------------------------------------
\* The strings the model uses as states are states.
LEMMA States ==
  /\ {"scheduled", "publishing", "published", "approved", "blocked", "rejected",
      "approval_expired", "changes_requested", "qa_review", "awaiting_human_review",
      "drafting", "editing"} \subseteq WorkflowState
  /\ Responsible \subseteq WorkflowState
BY DEF WorkflowState, Responsible

LEMMA InitInv == Init => Inv
<1> SUFFICES ASSUME Init PROVE Inv
  OBVIOUS
<1> USE ContentAssumption, HashAssumption, PublicationBounds
<1>1. PICK content \in Content :
        /\ drafts = <<content>>
        /\ entry = [qa_review |-> 1, awaiting_human_review |-> content,
                    changes_requested |-> None, scheduled |-> None,
                    publishing |-> None, published |-> None]
  BY DEF Init
<1>2. DraftsOK
  BY <1>1 DEF Init, DraftsOK
<1>3. DecisionsOK
  BY DEF Init, DecisionsOK, NoDecision, None
<1>4. ItemOK
  BY <1>1 DEF Init, ItemOK, EntryRecord, WorkflowState
<1>5. PackagesOK /\ PinsOK /\ RequestsOK
  BY <1>1 DEF Init, PackagesOK, PinsOK, RequestsOK, RequestRecord, NoRequest
<1>6. AttemptsOK
  BY DEF Init, AttemptsOK
<1>7. NoDelivery \in DeliveryRecord
  BY DEF NoDelivery, DeliveryRecord
<1>8. Sound(NoDelivery)
  BY <1>7 DEF Sound, NoDelivery
<1>9. DeliveriesOK
  BY <1>7, <1>8 DEF Init, DeliveriesOK
<1> QED
  BY <1>2, <1>3, <1>4, <1>5, <1>6, <1>9 DEF Inv

-----------------------------------------------------------------------------
\* Frames: what a step has to keep for the rest of the system not to notice.
Grows ==
  /\ packages \subseteq packages' /\ accepted \subseteq accepted'
  /\ entry.scheduled # None => entry'.scheduled # None
  /\ \A h \in PackageHash : attempts[h].succeeded > 0 => attempts'[h].succeeded > 0

\* What a delivery relies on is never taken from it.
LEMMA SoundKept ==
  ASSUME NEW r, Sound(r), Grows
  PROVE  Sound(r)'
BY DEF Sound, Grows, Hashes, DeliveryRecord

LEMMA DeliveriesKept ==
  ASSUME Inv, Grows, UNCHANGED delivery
  PROVE  DeliveriesOK'
<1>1. ASSUME NEW d \in Delivery
      PROVE  Sound(delivery[d])'
  <2> DEFINE r == delivery[d]
  <2>1. Sound(r) /\ r' = r
    BY DEF Inv, DeliveriesOK
  <2> QED
    BY <2>1 DEF Sound, Grows, Hashes, DeliveryRecord
<1> QED
  BY <1>1 DEF Inv, DeliveriesOK

\* One delivery changes its record to a sound one.
LEMMA DeliveryStep ==
  ASSUME Inv, Grows, NEW d \in Delivery, NEW r, Sound(r)',
         delivery' = [delivery EXCEPT ![d] = r]
  PROVE  DeliveriesOK'
<1>1. r \in DeliveryRecord
  BY DEF Sound
<1>2. delivery' \in [Delivery -> DeliveryRecord]
  BY <1>1 DEF Inv, DeliveriesOK
<1>3. ASSUME NEW e \in Delivery
      PROVE  Sound(delivery[e])'
  <2>1. CASE e = d
    <3>1. delivery'[e] = r
      BY <2>1 DEF Inv, DeliveriesOK
    <3> QED
      BY <3>1 DEF Sound, Hashes, DeliveryRecord
  <2>2. CASE e # d
    <3>1. Sound(delivery[e]) /\ delivery'[e] = delivery[e]
      BY <2>2 DEF Inv, DeliveriesOK
    <3> QED
      BY <3>1 DEF Sound, Grows, Hashes, DeliveryRecord
  <2> QED
    BY <2>1, <2>2
<1> QED
  BY <1>2, <1>3 DEF DeliveriesOK

\* The stages before scheduling leave packages, pins, requests and deliveries alone.
LEMMA Upstream ==
  ASSUME Inv, UNCHANGED <<packages, request, attempts, accepted, delivery>>,
         UNCHANGED <<entry.scheduled, entry.publishing, entry.published>>,
         \A i \in DOMAIN decisions :
           i \in DOMAIN decisions' /\ decisions'[i] = decisions[i]
  PROVE  PackagesOK' /\ PinsOK' /\ RequestsOK' /\ AttemptsOK' /\ DeliveriesOK'
<1>1. Grows
  BY DEF Grows
<1>2. PackagesOK'
  BY DEF Inv, PackagesOK
<1>3. PinsOK' /\ RequestsOK' /\ AttemptsOK'
  BY DEF Inv, PinsOK, RequestsOK, AttemptsOK, Hashes
<1> QED
  BY <1>1, <1>2, <1>3, DeliveriesKept

\* A transition to a state that promises nothing about its pins, with entry pins of
\* their types.
LEMMA PlainMove ==
  ASSUME Inv, NEW copies, NEW to \in WorkflowState \ {"scheduled", "published"},
         Move(copies, to), entry' \in EntryRecord, entry'.qa_review <= Len(drafts)',
         to = "changes_requested" => entry'.changes_requested # None
  PROVE  ItemOK'
BY DEF Inv, ItemOK, Move, Write

\* Loading and forgetting only count who has read the item.
LEMMA Reading ==
  ASSUME Inv, NEW x \in QaRun \cup Operator \cup Delivery, Load(x) \/ Forget(x),
         UNCHANGED drafts
  PROVE  ItemOK'
BY DEF Inv, ItemOK, Load, Forget

-----------------------------------------------------------------------------
\* The stages before the decision: drafts, reports and the moves between them.
LEMMA EditorialKeepsInv == Inv /\ Editorial => Inv'
<1> SUFFICES ASSUME Inv, Editorial PROVE Inv'
  OBVIOUS
<1> USE ContentAssumption
<1>1. DraftsOK /\ DecisionsOK /\ ItemOK
  BY DEF Inv
<1>2. /\ entry \in EntryRecord /\ row \in WorkflowState
      /\ drafts \in Seq(Content) /\ Len(drafts) \in Nat \ {0}
      /\ drafts[Len(drafts)] \in Content
  BY <1>1 DEF ItemOK, DraftsOK
<1>3. ASSUME NEW responsible \in Responsible, RequestRework(responsible)
      PROVE  Inv'
  <2>0. responsible # None
    BY DEF Responsible, None
  <2>1. ItemOK'
    BY <2>0, <1>1, <1>2, <1>3, States, PlainMove
       DEF RequestRework, MovePinned, editorial, EntryRecord, ItemOK
  <2>2. DraftsOK' /\ DecisionsOK'
    BY <1>1, <1>3 DEF RequestRework, editorial, human, DraftsOK, DecisionsOK
  <2> QED
    BY <1>2, <1>3, <2>1, <2>2, Upstream
       DEF RequestRework, MovePinned, human, dispatch, EntryRecord, Inv
<1>4. CASE ResolveChangesRequested
  <2>1. entry.changes_requested \in Responsible
    BY <1>1, <1>2, <1>4 DEF ResolveChangesRequested, ItemOK, EntryRecord
  <2>2. ItemOK'
    <3>1. CASE entry.changes_requested = "qa_review"
      BY <1>1, <1>2, <1>4, <3>1, States, PlainMove
         DEF ResolveChangesRequested, MovePinned, editorial, EntryRecord, ItemOK
    <3>2. CASE entry.changes_requested # "qa_review"
      <4>1. entry.changes_requested \in WorkflowState \ {"scheduled", "published"}
        BY <2>1, States DEF Responsible
      <4> QED
        BY <1>1, <1>2, <1>4, <3>2, <4>1, PlainMove
           DEF ResolveChangesRequested, MoveUnpinned, editorial, EntryRecord, ItemOK
    <3> QED
      BY <3>1, <3>2
  <2>3. DraftsOK' /\ DecisionsOK'
    BY <1>1, <1>4 DEF ResolveChangesRequested, editorial, human, DraftsOK, DecisionsOK
  <2> QED
    BY <1>2, <1>4, <2>2, <2>3, Upstream
       DEF ResolveChangesRequested, MovePinned, MoveUnpinned, human, dispatch, EntryRecord, Inv
<1>5. ASSUME NEW content \in Content, WriteDraft(content)
      PROVE  Inv'
  <2>1. ItemOK'
    BY <1>1, <1>2, <1>5, States, PlainMove DEF WriteDraft, MoveUnpinned, EntryRecord, ItemOK
  <2>2. DraftsOK' /\ DecisionsOK'
    BY <1>1, <1>5 DEF WriteDraft, human, DraftsOK, DecisionsOK
  <2> QED
    BY <1>5, <2>1, <2>2, Upstream DEF WriteDraft, MoveUnpinned, human, dispatch, Inv
<1>6. CASE AcceptReview
  <2>1. ItemOK'
    BY <1>1, <1>2, <1>6, States, PlainMove
       DEF AcceptReview, MovePinned, editorial, EntryRecord, ItemOK
  <2>2. DraftsOK' /\ DecisionsOK'
    BY <1>1, <1>6 DEF AcceptReview, editorial, human, DraftsOK, DecisionsOK
  <2> QED
    BY <1>2, <1>6, <2>1, <2>2, Upstream
       DEF AcceptReview, MovePinned, human, dispatch, EntryRecord, Inv
<1>7. ASSUME NEW r \in QaRun, NEW ready \in BOOLEAN, RunQaGates(r, ready)
      PROVE  Inv'
  <2>1. ItemOK'
    BY <1>1, <1>7, Reading DEF RunQaGates, item, ItemOK
  <2>2. DraftsOK' /\ DecisionsOK'
    BY <1>1, <1>2, <1>7 DEF RunQaGates, human, DraftsOK, DecisionsOK
  <2> QED
    BY <1>7, <2>1, <2>2, Upstream DEF RunQaGates, Load, item, human, dispatch, Inv
<1>8. ASSUME NEW r \in QaRun, EnterHumanReview(r)
      PROVE  Inv'
  <2>1. drafts[qa[r]] \in Content
    BY <1>1, <1>8 DEF EnterHumanReview, DraftsOK
  <2>2. ItemOK'
    BY <1>1, <1>2, <1>8, <2>1, States, PlainMove
       DEF EnterHumanReview, MovePinned, EntryRecord, ItemOK
  <2>3. DraftsOK' /\ DecisionsOK'
    BY <1>1, <1>8 DEF EnterHumanReview, human, DraftsOK, DecisionsOK
  <2> QED
    BY <1>2, <1>8, <2>2, <2>3, Upstream
       DEF EnterHumanReview, MovePinned, human, dispatch, EntryRecord, Inv
<1>9. ASSUME NEW r \in QaRun, LoseQaRun(r)
      PROVE  Inv'
  <2>1. ItemOK'
    BY <1>9, Reading DEF LoseQaRun
  <2>2. DraftsOK' /\ DecisionsOK'
    BY <1>1, <1>9 DEF LoseQaRun, human, DraftsOK, DecisionsOK
  <2> QED
    BY <1>9, <2>1, <2>2, Upstream DEF LoseQaRun, Forget, human, dispatch, Inv
<1> QED
  BY <1>3, <1>4, <1>5, <1>6, <1>7, <1>8, <1>9 DEF Editorial

-----------------------------------------------------------------------------
\* A decision adds one row over the ACTIVE draft and keeps what its transition asks.
LEMMA RecordKeepsInv ==
  ASSUME Inv, NEW h \in Reviewer, NEW kind \in Kind, NEW revokes \in Nat,
         NEW to \in {"approved", "changes_requested", "rejected"},
         NEW responsible \in Responsible \cup {None},
         to = "changes_requested" => responsible # None,
         Record(h, kind, revokes, to, responsible)
  PROVE  Inv'
<1>1. DraftsOK /\ DecisionsOK /\ ItemOK
  BY DEF Inv
<1>2. ActiveContent \in Content
  BY <1>1 DEF DraftsOK, ActiveContent
<1>3. DecisionsOK'
  BY <1>1, <1>2 DEF Record, DecisionsOK
<1>4. DraftsOK' /\ ItemOK'
  BY <1>1 DEF Record, item, editorial, DraftsOK, ItemOK
<1>5. \A i \in DOMAIN decisions :
        i \in DOMAIN decisions' /\ decisions'[i] = decisions[i]
  BY <1>1 DEF Record, DecisionsOK
<1> QED
  BY <1>3, <1>4, <1>5, Upstream DEF Record, item, dispatch, Inv

LEMMA DecideKeepsInv ==
  ASSUME Inv, NEW h \in Reviewer, Decide(h)
  PROVE  Inv'
<1>1. DraftsOK /\ DecisionsOK /\ ItemOK
  BY DEF Inv
<1>2. entry \in EntryRecord /\ row \in WorkflowState
  BY <1>1 DEF ItemOK
<1>3. CASE RecordApproval(h)
  BY <1>3, RecordKeepsInv DEF RecordApproval, Kind
<1>4. CASE RecordRejection(h)
  BY <1>4, RecordKeepsInv DEF RecordRejection, Kind
<1>5. ASSUME NEW responsible \in Responsible
      PROVE  responsible # None
  BY DEF Responsible, None
<1>6. ASSUME NEW responsible \in Responsible, RecordChangesRequested(h, responsible)
      PROVE  Inv'
  BY <1>5, <1>6, RecordKeepsInv DEF RecordChangesRequested, Kind
<1>7. ASSUME NEW responsible \in Responsible, RecordRevocation(h, responsible)
      PROVE  Inv'
  <2>1. PICK i \in LatestApproval : Record(h, "approval_revoked", i, "changes_requested", responsible)
    BY <1>7 DEF RecordRevocation
  <2>2. i \in Nat
    BY <1>1 DEF LatestApproval, UnrevokedApprovals, DecisionsOK
  <2> QED
    BY <1>5, <2>1, <2>2, RecordKeepsInv DEF Kind
<1>8. CASE ApplyDecision(h)
  <2>1. decision[h] \in [to : {"approved", "changes_requested", "rejected", None},
                         responsible : Responsible \cup {None}]
        /\ (decision[h].to = "changes_requested" => decision[h].responsible # None)
    BY <1>1 DEF DecisionsOK
  <2>2. decision[h].to # None
    BY <1>8 DEF ApplyDecision, STRUCTURAL_TRANSITIONS, None
  <2>3. decision[h].to \in WorkflowState \ {"scheduled", "published"}
    BY <2>1, <2>2, States
  <2>4. ItemOK'
    <3>1. CASE decision[h].to = "changes_requested"
      BY <1>1, <1>2, <1>8, <2>1, <2>3, <3>1, PlainMove
         DEF ApplyDecision, MovePinned, editorial, EntryRecord, ItemOK
    <3>2. CASE decision[h].to # "changes_requested"
      BY <1>1, <1>2, <1>8, <2>3, <3>2, PlainMove
         DEF ApplyDecision, MoveUnpinned, editorial, EntryRecord, ItemOK
    <3> QED
      BY <3>1, <3>2
  <2>5. DraftsOK' /\ DecisionsOK'
    BY <1>1, <1>8 DEF ApplyDecision, editorial, NoDecision, DraftsOK, DecisionsOK, None
  <2> QED
    BY <1>2, <1>8, <2>4, <2>5, Upstream
       DEF ApplyDecision, MovePinned, MoveUnpinned, dispatch, EntryRecord, Inv
<1>9. CASE DropDecision(h)
  <2>1. DraftsOK' /\ ItemOK'
    BY <1>1, <1>9 DEF DropDecision, editorial, item, DraftsOK, ItemOK
  <2>2. DecisionsOK'
    BY <1>1, <1>9 DEF DropDecision, NoDecision, DecisionsOK, None
  <2> QED
    BY <1>9, <2>1, <2>2, Upstream DEF DropDecision, item, dispatch, Inv
<1> QED
  BY <1>3, <1>4, <1>6, <1>7, <1>8, <1>9 DEF Decide

-----------------------------------------------------------------------------
\* Assembly: the content of a current approval, and only that, becomes a package.
LEMMA AssembleKeepsInv == Inv /\ Assemble => Inv'
<1> SUFFICES ASSUME Inv, Assemble PROVE Inv'
  OBVIOUS
<1> DEFINE new == [hash |-> HashOf[ActiveContent], content |-> ActiveContent]
<1>1. ActiveContent \in Content
  BY DEF Inv, DraftsOK, ActiveContent
<1>2. new \in [hash : PackageHash, content : Content]
  BY <1>1, HashAssumption
<1>3. \E i \in DOMAIN decisions :
        decisions[i].kind = "approved" /\ decisions[i].content = ActiveContent
  BY DEF Assemble, ApprovalIsCurrent, ApprovedContent, LatestApproval, UnrevokedApprovals
<1>4. packages \subseteq packages' /\ packages' \subseteq packages \cup {new}
  BY DEF Assemble
<1>5. PackagesOK'
  BY <1>2, <1>3, <1>4 DEF Assemble, human, Inv, PackagesOK
<1>6. DraftsOK' /\ DecisionsOK' /\ ItemOK'
  BY DEF Assemble, item, editorial, human, Inv, DraftsOK, DecisionsOK, ItemOK
<1>7. PinsOK' /\ RequestsOK' /\ AttemptsOK'
  BY <1>4 DEF Assemble, item, dispatch, Inv, PinsOK, RequestsOK, AttemptsOK, Hashes
<1>8. DeliveriesOK'
  BY <1>4, DeliveriesKept DEF Grows, Assemble, item, dispatch
<1> QED
  BY <1>5, <1>6, <1>7, <1>8 DEF Inv

\* Requests: their copies have types, and only existing packages are chosen and pinned.
LEMMA OperateKeepsInv ==
  ASSUME Inv, NEW o \in Operator, Operate(o)
  PROVE  Inv'
<1> USE ContentAssumption
<1>1. ItemOK /\ PinsOK /\ RequestsOK
  BY DEF Inv
<1>2. /\ entry \in EntryRecord /\ row \in WorkflowState
      /\ request[o] \in RequestRecord /\ request[o].package \in Hashes \cup {None}
      /\ Hashes \subseteq PackageHash
      /\ drafts \in Seq(Content) /\ Len(drafts) \in Nat \ {0} /\ ActiveContent \in Content
  BY <1>1 DEF Inv, ItemOK, RequestsOK, PackagesOK, DraftsOK, Hashes, ActiveContent
<1>3. UNCHANGED <<drafts, report, qa, decisions, decision, packages, attempts, accepted, delivery>>
  BY DEF Operate, LoadRequest, DropRequest, ResolveSchedulablePackage, SchedulePublication,
         ResolveApprovalExpired, ResolveBlock, RejectBlocked, editorial, human, dispatch
<1>4. DraftsOK' /\ DecisionsOK' /\ PackagesOK' /\ AttemptsOK' /\ Hashes' = Hashes
  BY <1>3 DEF Inv, DraftsOK, DecisionsOK, PackagesOK, AttemptsOK, Hashes
<1>5. SUFFICES ItemOK' /\ PinsOK' /\ RequestsOK' /\ (entry.scheduled # None => entry'.scheduled # None)
  BY <1>3, <1>4, DeliveriesKept DEF Grows, Inv
<1>6. ASSUME NEW r \in RequestRecord, r.package \in Hashes \cup {None},
             request' = [request EXCEPT ![o] = r]
      PROVE  RequestsOK'
  BY <1>1, <1>4, <1>6 DEF RequestsOK
<1>7. NoRequest \in RequestRecord /\ NoRequest.package = None
  BY DEF NoRequest, RequestRecord
<1>8. EndRequest(o) => RequestsOK'
  BY <1>6, <1>7 DEF EndRequest
<1>9. CASE LoadRequest(o)
  <2> DEFINE r == [request[o] EXCEPT !.view = row]
  <2>1. r \in RequestRecord /\ r.package = request[o].package /\ request' = [request EXCEPT ![o] = r]
    BY <1>1, <1>2, <1>9 DEF LoadRequest, RequestRecord, RequestsOK
  <2>2. RequestsOK'
    BY <1>2, <1>6, <2>1
  <2> QED
    BY <1>1, <1>3, <1>4, <1>9, <2>2, Reading DEF LoadRequest, Load, PinsOK
<1>10. CASE DropRequest(o)
  BY <1>1, <1>3, <1>4, <1>8, <1>10, Reading DEF DropRequest, Forget, PinsOK
<1>11. CASE ResolveSchedulablePackage(o)
  <2>1. PICK p \in packages : request' = [request EXCEPT ![o].package = p.hash]
    BY <1>11 DEF ResolveSchedulablePackage
  <2> DEFINE r == [request[o] EXCEPT !.package = p.hash]
  <2>2. p.hash \in Hashes
    BY DEF Hashes
  <2>3. r \in RequestRecord /\ r.package = p.hash /\ request' = [request EXCEPT ![o] = r]
    BY <1>1, <1>2, <2>1, <2>2 DEF RequestRecord, RequestsOK
  <2>4. RequestsOK'
    BY <1>6, <2>2, <2>3
  <2> QED
    BY <1>1, <1>3, <1>4, <1>11, <2>4 DEF ResolveSchedulablePackage, item, ItemOK, PinsOK
<1>12. CASE SchedulePublication(o)
  <2>1. request[o].package \in Hashes /\ request[o].package # None
    BY <1>2, <1>12 DEF SchedulePublication
  <2>2. /\ row' = "scheduled" /\ fresh' = {} /\ serial' \in BOOLEAN
        /\ entry' = [entry EXCEPT !.scheduled = request[o].package]
    BY <1>1, <1>12 DEF SchedulePublication, MovePinned, Move, Write, ItemOK
  <2>3. entry' \in EntryRecord /\ entry'.scheduled = request[o].package
        /\ UNCHANGED <<entry.qa_review, entry.publishing, entry.published>>
    BY <1>2, <2>1, <2>2 DEF EntryRecord
  <2>4. ItemOK'
    BY <1>1, <1>3, <2>1, <2>2, <2>3, States DEF ItemOK
  <2>5. PinsOK'
    BY <1>1, <1>3, <1>4, <2>1, <2>3 DEF PinsOK
  <2> QED
    BY <1>8, <1>12, <2>1, <2>3, <2>4, <2>5 DEF SchedulePublication
<1>13. CASE ResolveApprovalExpired(o)
  <2>1. CASE ReportCovers
    <3>1. ItemOK'
      BY <1>1, <1>2, <1>3, <1>13, <2>1, States, PlainMove
         DEF ResolveApprovalExpired, MovePinned, EntryRecord, ItemOK
    <3> QED
      BY <1>1, <1>2, <1>3, <1>4, <1>8, <1>13, <2>1, <3>1
         DEF ResolveApprovalExpired, MovePinned, EntryRecord, PinsOK
  <2>2. CASE ~ReportCovers
    <3>1. ItemOK'
      BY <1>1, <1>2, <1>3, <1>13, <2>2, States, PlainMove
         DEF ResolveApprovalExpired, MovePinned, EntryRecord, ItemOK
    <3> QED
      BY <1>1, <1>2, <1>3, <1>4, <1>8, <1>13, <2>2, <3>1
         DEF ResolveApprovalExpired, MovePinned, EntryRecord, PinsOK
  <2> QED
    BY <2>1, <2>2
<1>14. CASE ResolveBlock(o)
  <2>1. ItemOK'
    BY <1>1, <1>2, <1>3, <1>14, States, PlainMove DEF ResolveBlock, MovePinned, EntryRecord, ItemOK
  <2> QED
    BY <1>1, <1>2, <1>3, <1>4, <1>8, <1>14, <2>1 DEF ResolveBlock, MovePinned, EntryRecord, PinsOK
<1>15. CASE RejectBlocked(o)
  <2>1. ItemOK'
    BY <1>1, <1>2, <1>3, <1>15, States, PlainMove DEF RejectBlocked, MoveUnpinned, EntryRecord, ItemOK
  <2> QED
    BY <1>1, <1>3, <1>4, <1>8, <1>15, <2>1 DEF RejectBlocked, MoveUnpinned, PinsOK
<1> QED
  BY <1>9, <1>10, <1>11, <1>12, <1>13, <1>14, <1>15 DEF Operate

-----------------------------------------------------------------------------
\* A delivery that leaves the item and the Publishing API's evidence alone.
LEMMA QuietDelivery ==
  ASSUME Inv, NEW d \in Delivery, NEW r \in DeliveryRecord,
         delivery' = [delivery EXCEPT ![d] = r], Sound(r),
         UNCHANGED <<row, serial, entry, drafts, report, qa, decisions, decision, packages,
                     request, attempts, accepted>>,
         fresh' \subseteq fresh \cup {d}
  PROVE  Inv'
<1>1. Grows
  BY DEF Grows
<1>2. DeliveriesOK'
  <2>1. Sound(r)'
    BY <1>1, SoundKept
  <2> QED
    BY <1>1, <2>1, DeliveryStep
<1>3. DraftsOK' /\ DecisionsOK' /\ ItemOK'
  BY DEF Inv, DraftsOK, DecisionsOK, ItemOK
<1>4. PackagesOK' /\ PinsOK' /\ RequestsOK' /\ AttemptsOK'
  BY DEF Inv, PackagesOK, PinsOK, RequestsOK, AttemptsOK, Hashes
<1> QED
  BY <1>2, <1>3, <1>4 DEF Inv

\* A delivery that moves the item and ends, or goes on from a sound record.
LEMMA MovingDelivery ==
  ASSUME Inv, NEW d \in Delivery, NEW r \in DeliveryRecord,
         delivery' = [delivery EXCEPT ![d] = r], Sound(r), ItemOK', PinsOK',
         UNCHANGED <<drafts, report, qa, decisions, decision, packages, request, attempts,
                     accepted, entry.scheduled>>
  PROVE  Inv'
<1>1. Grows
  BY DEF Grows
<1>2. DeliveriesOK'
  <2>1. Sound(r)'
    BY <1>1, SoundKept
  <2> QED
    BY <1>1, <2>1, DeliveryStep
<1>3. DraftsOK' /\ DecisionsOK'
  BY DEF Inv, DraftsOK, DecisionsOK
<1>4. PackagesOK' /\ RequestsOK' /\ AttemptsOK'
  BY DEF Inv, PackagesOK, RequestsOK, AttemptsOK, Hashes
<1> QED
  BY <1>2, <1>3, <1>4 DEF Inv

\* An acknowledged message has nothing to rely on.
LEMMA IdleIsSound == NoDelivery \in DeliveryRecord /\ Sound(NoDelivery)
<1>1. NoDelivery \in DeliveryRecord
  BY PublicationBounds DEF NoDelivery, DeliveryRecord
<1> QED
  BY <1>1 DEF Sound, NoDelivery

\* Neither has one that is delivered again.
Requeued(n) == [NoDelivery EXCEPT !.pc = "queued", !.retries = n]

LEMMA RequeuedIsSound ==
  ASSUME NEW n \in 0..MaxRetries
  PROVE  Requeued(n) \in DeliveryRecord /\ Sound(Requeued(n))
<1>1. Requeued(n) \in DeliveryRecord
  BY IdleIsSound DEF Requeued, DeliveryRecord
<1>2. Requeued(n).pc = "queued" /\ Requeued(n).package = NoDelivery.package
  BY IdleIsSound DEF Requeued, DeliveryRecord
<1> QED
  BY <1>1, <1>2, IdleIsSound DEF Sound

\* What the steps of a delivery start from.
Started(d) ==
  /\ delivery[d] \in DeliveryRecord /\ Sound(delivery[d])
  /\ \A r \in DeliveryRecord : [delivery EXCEPT ![d] = r][d] = r

LEMMA TakenDelivery ==
  ASSUME Inv, NEW d \in Delivery
  PROVE  Started(d)
BY DEF Inv, DeliveriesOK, Started

\* Deliveries that only read, retry, are refused or are redelivered.
LEMMA ReadingDeliveries ==
  ASSUME Inv, NEW d \in Delivery,
         \/ EnqueuePublish(d) \/ StartDelivery(d) \/ IgnoreDelivery(d) \/ RecheckApproval(d)
         \/ ResumeDispatch(d) \/ RaiseConflict(d) \/ ReuseSuccess(d) \/ NumberAttempt(d)
         \/ LoseAttempt(d) \/ Retry(d) \/ WorkerLost(d)
  PROVE  Inv'
<1> USE ContentAssumption, PublicationBounds
<1> DEFINE old == delivery[d]
<1>1. old \in DeliveryRecord /\ Sound(old)
  BY TakenDelivery DEF Started
<1>2. /\ delivery \in [Delivery -> DeliveryRecord]
      /\ {entry.scheduled, entry.publishing} \subseteq Hashes \cup {None}
      /\ Hashes \subseteq PackageHash
      /\ row = "scheduled" => entry.scheduled # None
      /\ attempts \in [PackageHash -> [rows : Nat, succeeded : Nat]]
  BY DEF Inv, DeliveriesOK, ItemOK, PinsOK, PackagesOK, AttemptsOK, Hashes
<1>3. CASE EnqueuePublish(d)
  <2> DEFINE r == [old EXCEPT !.pc = "queued"]
  <2>1. r \in DeliveryRecord /\ Sound(r)
    BY <1>1 DEF Sound, DeliveryRecord
  <2> QED
    BY <1>2, <1>3, <2>1, QuietDelivery DEF EnqueuePublish, Step, item, editorial, human
<1>4. CASE StartDelivery(d)
  <2> DEFINE r == [old EXCEPT !.pc = "loaded", !.view = row]
  <2>1. r \in DeliveryRecord /\ Sound(r)
    BY <1>1, <1>2, <1>4 DEF StartDelivery, Sound, DeliveryRecord
  <2> QED
    BY <1>2, <1>4, <2>1, QuietDelivery DEF StartDelivery, Load, editorial, human
<1>5. CASE IgnoreDelivery(d)
  BY <1>5, IdleIsSound, QuietDelivery DEF IgnoreDelivery, Acknowledge, item, editorial, human
<1>6. CASE RecheckApproval(d)
  <2>1. CASE ApprovalIsCurrent
    <3> DEFINE r == [old EXCEPT !.pc = "approved", !.package = entry.scheduled]
    <3>1. r \in DeliveryRecord /\ Sound(r)
      BY <1>1, <1>2, <1>6 DEF RecheckApproval, Sound, DeliveryRecord
    <3> QED
      BY <1>2, <1>6, <2>1, <3>1, QuietDelivery DEF RecheckApproval, item, editorial, human
  <2>2. CASE ~ApprovalIsCurrent
    <3> DEFINE r == [old EXCEPT !.pc = "stale"]
    <3>1. r \in DeliveryRecord /\ Sound(r)
      BY <1>1 DEF Sound, DeliveryRecord
    <3> QED
      BY <1>2, <1>6, <2>2, <3>1, QuietDelivery DEF RecheckApproval, Step, item, editorial, human
  <2> QED
    BY <2>1, <2>2
<1>7. CASE ResumeDispatch(d)
  <2> DEFINE r == [old EXCEPT !.pc = "resolved", !.package = entry.publishing]
  <2>1. r \in DeliveryRecord /\ Sound(r)
    BY <1>1, <1>2, <1>7 DEF ResumeDispatch, Sound, DeliveryRecord
  <2> QED
    BY <1>2, <1>7, <2>1, QuietDelivery DEF ResumeDispatch, item, editorial, human
<1>8. CASE RaiseConflict(d)
  BY <1>8, IdleIsSound, QuietDelivery DEF RaiseConflict, Acknowledge, Forget, editorial, human
<1>9. CASE ReuseSuccess(d)
  <2> DEFINE r == [old EXCEPT !.pc = "succeeded"]
  <2>1. r \in DeliveryRecord /\ Sound(r)
    BY <1>1, <1>9 DEF ReuseSuccess, PriorSuccess, Sound, DeliveryRecord
  <2> QED
    BY <1>2, <1>9, <2>1, QuietDelivery DEF ReuseSuccess, Step, item, editorial, human
<1>10. CASE NumberAttempt(d)
  <2>1. PICK n \in Nat : n = attempts[old.package].rows + 1
    <3>1. old.package \in PackageHash
      BY <1>1, <1>2, <1>10 DEF NumberAttempt, Sound
    <3> QED
      BY <1>2, <3>1
  <2> DEFINE r == [old EXCEPT !.pc = "numbered", !.number = n]
  <2>2. r \in DeliveryRecord /\ Sound(r)
    BY <1>1, <1>10, <2>1 DEF NumberAttempt, Sound, DeliveryRecord
  <2> QED
    BY <1>2, <1>10, <2>1, <2>2, QuietDelivery DEF NumberAttempt, item, editorial, human
<1>11. CASE LoseAttempt(d)
  BY <1>11, IdleIsSound, QuietDelivery DEF LoseAttempt, Acknowledge, Forget, editorial, human
<1>12. CASE Retry(d)
  <2> DEFINE r == Requeued(old.retries + 1)
  <2>1. old.retries + 1 \in 0..MaxRetries
    BY <1>1, <1>12 DEF Retry, MayRetry, DeliveryRecord
  <2>2. r \in DeliveryRecord /\ Sound(r) /\ delivery' = [delivery EXCEPT ![d] = r]
    BY <1>12, <2>1, RequeuedIsSound DEF Retry, Requeued
  <2> QED
    BY <1>12, <2>2, QuietDelivery DEF Retry, Forget, editorial, human
<1>13. CASE WorkerLost(d)
  <2> DEFINE r == Requeued(old.retries)
  <2>1. old.retries \in 0..MaxRetries
    BY <1>1 DEF DeliveryRecord
  <2>2. r \in DeliveryRecord /\ Sound(r) /\ delivery' = [delivery EXCEPT ![d] = r]
    BY <1>13, <2>1, RequeuedIsSound DEF WorkerLost, Requeued
  <2> QED
    BY <1>13, <2>2, QuietDelivery DEF WorkerLost, Forget, editorial, human
<1> QED
  BY <1>3, <1>4, <1>5, <1>6, <1>7, <1>8, <1>9, <1>10, <1>11, <1>12, <1>13

\* Deliveries that move the item.
LEMMA MovingDeliveries ==
  ASSUME Inv, NEW d \in Delivery,
         ExpireStaleApproval(d) \/ StartDispatch(d) \/ BlockItem(d) \/ CompletePublication(d)
  PROVE  Inv'
<1> USE ContentAssumption
<1> DEFINE old == delivery[d]
<1>1. old \in DeliveryRecord /\ Sound(old)
  BY TakenDelivery DEF Started
<1>2. /\ ItemOK /\ PinsOK /\ entry \in EntryRecord
      /\ delivery \in [Delivery -> DeliveryRecord]
      /\ Hashes \subseteq PackageHash
  BY DEF Inv, DeliveriesOK, ItemOK, PackagesOK, Hashes
<1>3. UNCHANGED <<drafts, report, qa, decisions, decision, packages, request, attempts, accepted>>
  BY DEF ExpireStaleApproval, StartDispatch, BlockItem, CompletePublication, editorial, human
<1>4. CASE ExpireStaleApproval(d)
  <2>1. ItemOK' /\ PinsOK' /\ UNCHANGED entry
    BY <1>2, <1>3, <1>4, States, PlainMove
       DEF ExpireStaleApproval, MoveUnpinned, ItemOK, PinsOK, Hashes
  <2> QED
    BY <1>3, <1>4, <2>1, IdleIsSound, MovingDelivery DEF ExpireStaleApproval, Acknowledge
<1>5. CASE StartDispatch(d)
  <2> DEFINE r == [old EXCEPT !.pc = "resolved", !.view = "publishing"]
  <2>1. r \in DeliveryRecord /\ Sound(r) /\ old.package \in Hashes /\ delivery' = [delivery EXCEPT ![d] = r]
    BY <1>1, <1>2, <1>5 DEF StartDispatch, Sound, DeliveryRecord
  <2>2. entry' \in EntryRecord /\ entry'.publishing = old.package
        /\ UNCHANGED <<entry.scheduled, entry.published, entry.qa_review>>
    BY <1>2, <1>5, <2>1 DEF StartDispatch, EntryRecord
  <2>3. ItemOK'
    BY <1>2, <1>3, <1>5, <2>2, States DEF StartDispatch, Write, ItemOK
  <2>4. PinsOK'
    BY <1>2, <1>3, <2>1, <2>2 DEF PinsOK, Hashes
  <2> QED
    BY <1>3, <2>1, <2>2, <2>3, <2>4, MovingDelivery
<1>6. CASE BlockItem(d)
  <2>1. ItemOK' /\ PinsOK' /\ UNCHANGED entry
    BY <1>2, <1>3, <1>6, States, PlainMove DEF BlockItem, MoveUnpinned, ItemOK, PinsOK, Hashes
  <2> QED
    BY <1>3, <1>6, <2>1, IdleIsSound, MovingDelivery DEF BlockItem, Acknowledge
<1>7. CASE CompletePublication(d)
  <2>1. old.package \in Hashes /\ old.package # None /\ attempts[old.package].succeeded > 0
    BY <1>1, <1>7 DEF CompletePublication, Sound
  <2>2. /\ row' = "published" /\ fresh' = {} /\ serial' \in BOOLEAN
        /\ entry' = [entry EXCEPT !.published = old.package]
    BY <1>2, <1>7 DEF CompletePublication, MovePinned, Move, Write, ItemOK
  <2>3. entry' \in EntryRecord /\ entry'.published = old.package
        /\ UNCHANGED <<entry.scheduled, entry.publishing, entry.qa_review>>
    BY <1>2, <2>1, <2>2 DEF EntryRecord
  <2>4. ItemOK'
    BY <1>2, <1>3, <2>1, <2>2, <2>3, States DEF ItemOK
  <2>5. PinsOK'
    BY <1>2, <1>3, <2>1, <2>3 DEF PinsOK, Hashes
  <2> QED
    BY <1>3, <1>7, <2>3, <2>4, <2>5, IdleIsSound, MovingDelivery
       DEF CompletePublication, Acknowledge
<1> QED
  BY <1>4, <1>5, <1>6, <1>7

\* The call to the Publishing API and the record of its answer.
LEMMA PublishKeepsInv ==
  ASSUME Inv, NEW d \in Delivery, Publish(d)
  PROVE  Inv'
<1> USE ContentAssumption
<1> DEFINE old == delivery[d]
<1>1. old \in DeliveryRecord /\ Sound(old) /\ delivery \in [Delivery -> DeliveryRecord]
  BY TakenDelivery DEF Started, Inv, DeliveriesOK
<1>2. PICK outcome \in Outcome :
        /\ RemoteAnswer(old.package, outcome)
        /\ delivery' = [delivery EXCEPT ![d].pc = "answered", ![d].outcome = outcome]
  BY DEF Publish
<1>0. PICK r : r = [old EXCEPT !.pc = "answered", !.outcome = outcome]
  OBVIOUS
<1>3. old.pc = "resolved" /\ old.package \in Hashes
  BY <1>1 DEF Publish, Sound
<1>4. r \in DeliveryRecord /\ r.package = old.package /\ delivery' = [delivery EXCEPT ![d] = r]
  BY <1>0, <1>1, <1>2 DEF DeliveryRecord
<1>5. /\ accepted \subseteq accepted' /\ accepted' \subseteq accepted \cup {old.package}
      /\ outcome = "succeeded" => old.package \in accepted'
  BY <1>2 DEF RemoteAnswer, Outcome
<1>6. UNCHANGED <<row, serial, fresh, entry, drafts, report, qa, decisions, decision, packages,
                  request, attempts>>
  BY DEF Publish, item, editorial, human
<1>7. Sound(r)'
  BY <1>0, <1>1, <1>3, <1>4, <1>5, <1>6 DEF Sound, Hashes, DeliveryRecord
<1>8. DeliveriesOK'
  <2>1. Grows
    BY <1>5, <1>6 DEF Grows
  <2> QED
    BY <1>4, <1>7, <2>1, DeliveryStep
<1>9. DraftsOK' /\ DecisionsOK' /\ ItemOK' /\ PackagesOK' /\ PinsOK' /\ RequestsOK'
  BY <1>6 DEF Inv, DraftsOK, DecisionsOK, ItemOK, PackagesOK, PinsOK, RequestsOK, Hashes
<1>10. AttemptsOK'
  BY <1>3, <1>5, <1>6 DEF Inv, AttemptsOK, Hashes
<1> QED
  BY <1>8, <1>9, <1>10 DEF Inv

LEMMA RecordAttemptKeepsInv ==
  ASSUME Inv, NEW d \in Delivery, RecordAttempt(d)
  PROVE  Inv'
<1> USE ContentAssumption
<1> DEFINE old == delivery[d]
           h == old.package
<1>1. old \in DeliveryRecord /\ Sound(old) /\ delivery \in [Delivery -> DeliveryRecord]
  BY TakenDelivery DEF Started, Inv, DeliveriesOK
<1>2. attempts \in [PackageHash -> [rows : Nat, succeeded : Nat]]
  BY DEF Inv, AttemptsOK
<1>3. h \in Hashes /\ Hashes \subseteq PackageHash /\ (old.outcome = "succeeded" => h \in accepted)
  BY <1>1 DEF RecordAttempt, Sound, Inv, PackagesOK, Hashes
<1>4. UNCHANGED <<row, serial, fresh, entry, drafts, report, qa, decisions, decision, packages,
                  request, accepted>>
  BY DEF RecordAttempt, item, editorial, human
<1>5. attempts' = [attempts EXCEPT ![h] =
        [rows |-> attempts[h].rows + 1,
         succeeded |-> IF old.outcome = "succeeded" THEN attempts[h].succeeded + 1
                       ELSE attempts[h].succeeded]]
  BY <1>2, <1>3 DEF RecordAttempt
<1>6. /\ attempts' \in [PackageHash -> [rows : Nat, succeeded : Nat]]
      /\ \A k \in PackageHash : attempts[k].succeeded > 0 => attempts'[k].succeeded > 0
      /\ \A k \in PackageHash :
           attempts'[k].succeeded > 0 => attempts[k].succeeded > 0 \/ (k = h /\ old.outcome = "succeeded")
      /\ old.outcome = "succeeded" => attempts'[h].succeeded > 0
  BY <1>2, <1>3, <1>5
<1>0. PICK r : r = [old EXCEPT !.pc = IF old.outcome = "succeeded" THEN "succeeded" ELSE "failed"]
  OBVIOUS
<1>7. r \in DeliveryRecord /\ delivery' = [delivery EXCEPT ![d] = r]
  BY <1>0, <1>1 DEF RecordAttempt, Succeeded, Step, DeliveryRecord
<1>8. Sound(r)'
  BY <1>0, <1>1, <1>3, <1>4, <1>6, <1>7 DEF Sound, Hashes, DeliveryRecord
<1>9. DeliveriesOK'
  <2>1. Grows
    BY <1>4, <1>6 DEF Grows
  <2> QED
    BY <1>7, <1>8, <2>1, DeliveryStep
<1>10. DraftsOK' /\ DecisionsOK' /\ ItemOK' /\ PackagesOK' /\ RequestsOK'
  BY <1>4 DEF Inv, DraftsOK, DecisionsOK, ItemOK, PackagesOK, RequestsOK, Hashes
<1>11. PinsOK'
  BY <1>3, <1>4, <1>6 DEF Inv, PinsOK, Hashes
<1>12. AttemptsOK'
  BY <1>3, <1>4, <1>6 DEF Inv, AttemptsOK, Hashes
<1> QED
  BY <1>9, <1>10, <1>11, <1>12 DEF Inv

-----------------------------------------------------------------------------
LEMMA NextKeepsInv == Inv /\ [Next]_vars => Inv'
<1> SUFFICES ASSUME Inv, [Next]_vars PROVE Inv'
  OBVIOUS
<1>1. CASE Editorial
  BY <1>1, EditorialKeepsInv
<1>2. ASSUME NEW h \in Reviewer, Decide(h) PROVE Inv'
  BY <1>2, DecideKeepsInv
<1>3. CASE Assemble
  BY <1>3, AssembleKeepsInv
<1>4. ASSUME NEW o \in Operator, Operate(o) PROVE Inv'
  BY <1>4, OperateKeepsInv
<1>5. ASSUME NEW d \in Delivery, EnqueuePublish(d) \/ Work(d) \/ WorkerLost(d) PROVE Inv'
  BY <1>5, ReadingDeliveries, MovingDeliveries, PublishKeepsInv, RecordAttemptKeepsInv DEF Work
<1>6. CASE UNCHANGED vars
  BY <1>6 DEF vars, item, editorial, human, dispatch, Inv, DraftsOK, DecisionsOK, ItemOK,
              PackagesOK, PinsOK, RequestsOK, AttemptsOK, DeliveriesOK, Sound, Hashes
<1> QED
  BY <1>1, <1>2, <1>3, <1>4, <1>5, <1>6 DEF Next

LEMMA InvAlways == Spec => []Inv
BY InitInv, NextKeepsInv, PTL DEF Spec

\* Rows, pins, requests and deliveries keep their types, and a delivery that is past
\* its checks always has a package, for any number of decisions, drafts and crashes
\* (decisions/service.py, publishing/service.py, worker/editorial_tasks.py).
THEOREM PublicationTypeOK == Spec => []TypeOK
<1>1. Inv => TypeOK
  <2> SUFFICES ASSUME Inv PROVE TypeOK
    OBVIOUS
  <2>1. DraftsOK /\ DecisionsOK /\ ItemOK /\ PackagesOK /\ RequestsOK /\ AttemptsOK
    BY DEF Inv
  <2>2. Hashes \subseteq PackageHash
    BY <2>1 DEF PackagesOK, Hashes
  <2>3. \A d \in Delivery : delivery[d] \in DeliveryRecord /\ Sound(delivery[d])
    BY DEF Inv, DeliveriesOK
  <2>4. /\ entry.qa_review \in 0..Len(drafts)
        /\ entry.awaiting_human_review \in Content
        /\ entry.changes_requested \in Responsible \cup {None}
        /\ {entry.scheduled, entry.publishing, entry.published} \subseteq PackageHash \cup {None}
    BY <2>1 DEF ItemOK, EntryRecord, DraftsOK
  <2>5. \A d \in Delivery :
          /\ delivery[d].package \in PackageHash \cup {None}
          /\ delivery[d].pc \in {"approved", "resolved", "answered", "numbered", "succeeded", "failed"} =>
               delivery[d].package # None
          /\ delivery[d].number \in Nat
          /\ delivery[d].retries \in 0..MaxRetries
    BY <2>3 DEF Sound, DeliveryRecord
  <2>6. accepted \subseteq PackageHash
    BY <2>1, <2>2 DEF AttemptsOK
  <2> QED
    BY <2>1, <2>4, <2>5, <2>6
       DEF TypeOK, DraftsOK, DecisionsOK, ItemOK, PackagesOK, RequestsOK, RequestRecord,
           AttemptsOK, Kind
<1> QED
  BY <1>1, InvAlways, PTL

\* For any number of reviewers, operators, deliveries, crashes and stale copies, what is
\* packaged was approved by a human and what the Publishing API accepted was packaged:
\* assembly (publishing/assembler.py) is the only way to a package, and every pin a
\* delivery sends comes from one.
THEOREM OnlyApprovedContentAlways == Spec => []OnlyApprovedContent
<1>1. Inv => OnlyApprovedContent
  BY DEF Inv, PackagesOK, AttemptsOK, Hashes, OnlyApprovedContent
<1> QED
  BY <1>1, InvAlways, PTL

\* However deliveries interleave, crash, time out and overtake each other, PUBLISHED
\* pins a package whose success is recorded and which the API did accept
\* (publish_package commits the attempt before the transition).
THEOREM PublishedAlwaysProven == Spec => []PublishedIsProven
<1>1. Inv => PublishedIsProven
  <2> SUFFICES ASSUME Inv PROVE PublishedIsProven
    OBVIOUS
  <2>1. entry.published \in PackageHash \cup {None}
    BY DEF Inv, ItemOK, EntryRecord
  <2> QED
    BY <2>1 DEF Inv, ItemOK, PinsOK, AttemptsOK, PublishedIsProven
<1> QED
  BY <1>1, InvAlways, PTL

-----------------------------------------------------------------------------
(***************************************************************************)
(* What the checks of a request or a delivery are worth while nothing has  *)
(* moved the item since: a request that may still schedule has chosen a    *)
(* package over the ACTIVE draft, and so has an item that was scheduled    *)
(* by one; the draft cannot change under it, because only a move back to   *)
(* DRAFTING lets a writer in.                                              *)
(***************************************************************************)
Packaged(h) == \E p \in packages : p.hash = h /\ p.content = ActiveContent

ChecksHold ==
  /\ \A o \in Operator : o \in fresh /\ request[o].package # None => Packaged(request[o].package)
  /\ serial /\ row = "scheduled" => Packaged(entry.scheduled)
  /\ \A d \in Delivery :
       d \in fresh /\ delivery[d].pc = "loaded" /\ delivery[d].view = "scheduled"
         => row = "scheduled"

\* At most one approval is the latest.
LEMMA OneLatestApproval ==
  ASSUME Inv, NEW c \in ApprovedContent, NEW e \in ApprovedContent
  PROVE  c = e
<1>1. PICK i \in LatestApproval : c = decisions[i].content
  BY DEF ApprovedContent
<1>2. PICK j \in LatestApproval : e = decisions[j].content
  BY DEF ApprovedContent
<1>3. i <= j /\ j <= i /\ i \in Nat /\ j \in Nat
  BY DEF LatestApproval, UnrevokedApprovals, Inv, DecisionsOK
<1> QED
  BY <1>1, <1>2, <1>3

\* A transition to any other state leaves nothing to be checked.
LEMMA MovedElsewhere ==
  ASSUME fresh' = {}, row' # "scheduled"
  PROVE  ChecksHold'
BY DEF ChecksHold

\* A step that leaves the item where it is.
LEMMA StayedThere ==
  ASSUME ChecksHold, packages \subseteq packages',
         UNCHANGED <<row, serial, entry, drafts, request>>,
         fresh' \cap Operator \subseteq fresh,
         \A d \in Delivery :
           d \in fresh' /\ delivery'[d].pc = "loaded" /\ delivery'[d].view = "scheduled"
             => row = "scheduled"
  PROVE  ChecksHold'
BY DEF ChecksHold, Packaged, ActiveContent

LEMMA EditorialKeepsChecks ==
  ASSUME Inv, ChecksHold, Editorial
  PROVE  ChecksHold'
<1>1. ASSUME NEW responsible \in Responsible, RequestRework(responsible)
      PROVE  ChecksHold'
  BY <1>1, MovedElsewhere DEF RequestRework, MovePinned, Move, Write
<1>2. CASE ResolveChangesRequested
  <2>1. entry.changes_requested # "scheduled"
    BY <1>2 DEF ResolveChangesRequested, Inv, ItemOK, EntryRecord, Responsible
  <2> QED
    BY <1>2, <2>1, MovedElsewhere DEF ResolveChangesRequested, MovePinned, MoveUnpinned, Move, Write
<1>3. ASSUME NEW content \in Content, WriteDraft(content)
      PROVE  ChecksHold'
  BY <1>3, MovedElsewhere DEF WriteDraft, MoveUnpinned, Move, Write
<1>4. CASE AcceptReview
  BY <1>4, MovedElsewhere DEF AcceptReview, MovePinned, Move, Write
<1>5. ASSUME NEW r \in QaRun, NEW ready \in BOOLEAN, RunQaGates(r, ready)
      PROVE  ChecksHold'
  <2>1. fresh' \subseteq fresh \cup {r} /\ UNCHANGED <<row, serial, entry, drafts, packages, request, delivery>>
    BY <1>5 DEF RunQaGates, Load, item, dispatch
  <2>2. r \notin Operator /\ r \notin Delivery
    BY ActorAssumption
  <2> QED
    BY <2>1, <2>2, StayedThere DEF ChecksHold
<1>6. ASSUME NEW r \in QaRun, EnterHumanReview(r)
      PROVE  ChecksHold'
  BY <1>6, MovedElsewhere DEF EnterHumanReview, MovePinned, Move, Write
<1>7. ASSUME NEW r \in QaRun, LoseQaRun(r)
      PROVE  ChecksHold'
  BY <1>7, StayedThere DEF LoseQaRun, Forget, dispatch, ChecksHold
<1> QED
  BY <1>1, <1>2, <1>3, <1>4, <1>5, <1>6, <1>7 DEF Editorial

LEMMA DecideKeepsChecks ==
  ASSUME Inv, ChecksHold, NEW h \in Reviewer, Decide(h)
  PROVE  ChecksHold'
<1>1. CASE ApplyDecision(h)
  <2>1. decision[h].to # "scheduled"
    BY DEF Inv, DecisionsOK, None
  <2> QED
    BY <1>1, <2>1, MovedElsewhere DEF ApplyDecision, MovePinned, MoveUnpinned, Move, Write
<1>2. CASE ~ApplyDecision(h)
  <2>1. UNCHANGED <<row, serial, fresh, entry, drafts, packages, request, delivery>>
    BY <1>2 DEF Decide, RecordApproval, RecordRejection, RecordChangesRequested,
                RecordRevocation, Record, DropDecision, item, editorial, dispatch
  <2> QED
    BY <2>1, StayedThere DEF ChecksHold
<1> QED
  BY <1>1, <1>2

LEMMA OperateKeepsChecks ==
  ASSUME Inv, ChecksHold, NEW o \in Operator, Operate(o)
  PROVE  ChecksHold'
<1>1. request \in [Operator -> RequestRecord]
  BY DEF Inv, RequestsOK
<1>2. CASE LoadRequest(o) \/ DropRequest(o)
  <2>1. /\ UNCHANGED <<row, serial, entry, drafts, packages, delivery>>
        /\ fresh' \subseteq fresh \cup {o}
        /\ request'[o].package = None
        /\ \A q \in Operator \ {o} : request'[q] = request[q]
    BY <1>1, <1>2 DEF LoadRequest, DropRequest, EndRequest, Load, Forget, NoRequest, editorial, dispatch
  <2>2. o \notin Delivery
    BY ActorAssumption
  <2> QED
    BY <2>1, <2>2 DEF ChecksHold, Packaged, ActiveContent
<1>3. CASE ResolveSchedulablePackage(o)
  <2>1. PICK p \in packages :
          p.content \in ApprovedContent /\ request' = [request EXCEPT ![o].package = p.hash]
    BY <1>3 DEF ResolveSchedulablePackage
  <2>2. p.content = ActiveContent
    BY <1>3, <2>1, OneLatestApproval DEF ResolveSchedulablePackage, ApprovalIsCurrent
  <2>3. /\ request'[o].package = p.hash
        /\ \A q \in Operator \ {o} : request'[q] = request[q]
    BY <1>1, <2>1 DEF RequestRecord
  <2>4. UNCHANGED <<row, serial, fresh, entry, drafts, packages, delivery>>
    BY <1>3 DEF ResolveSchedulablePackage, item, editorial, dispatch
  <2> QED
    BY <2>2, <2>3, <2>4 DEF ChecksHold, Packaged, ActiveContent
<1>4. CASE SchedulePublication(o)
  <2>1. /\ row' = "scheduled" /\ fresh' = {}
        /\ serial' = (serial /\ o \in fresh)
        /\ entry'.scheduled = request[o].package
        /\ UNCHANGED <<drafts, packages>>
        /\ request[o].package # None
    BY <1>4 DEF SchedulePublication, MovePinned, Move, Write, editorial, Inv, ItemOK, EntryRecord
  <2>2. serial' => Packaged(request[o].package)
    BY <2>1 DEF ChecksHold
  <2> QED
    BY <2>1, <2>2 DEF ChecksHold, Packaged, ActiveContent
<1>5. CASE ResolveApprovalExpired(o) \/ ResolveBlock(o) \/ RejectBlocked(o)
  BY <1>5, MovedElsewhere
     DEF ResolveApprovalExpired, ResolveBlock, RejectBlocked, MovePinned, MoveUnpinned, Move, Write
<1> QED
  BY <1>2, <1>3, <1>4, <1>5 DEF Operate

LEMMA IdlePc == NoDelivery \in DeliveryRecord /\ NoDelivery.pc = "idle"
BY IdleIsSound DEF NoDelivery

\* Every record of a delivery that is newly "loaded" shows the row as it is.
LEMMA DeliveryKeepsChecks ==
  ASSUME Inv, ChecksHold, NEW d \in Delivery,
         EnqueuePublish(d) \/ Work(d) \/ WorkerLost(d)
  PROVE  ChecksHold'
<1>1. delivery \in [Delivery -> DeliveryRecord]
  BY DEF Inv, DeliveriesOK
<1>2. d \notin Operator
  BY ActorAssumption
<1>3. CASE StartDelivery(d)
  <2>1. /\ UNCHANGED <<row, serial, entry, drafts, packages, request>>
        /\ fresh' = fresh \cup {d}
        /\ delivery'[d].view = row
        /\ \A e \in Delivery \ {d} : delivery'[e] = delivery[e]
    BY <1>1, <1>3 DEF StartDelivery, Load, editorial
  <2> QED
    BY <1>2, <2>1, StayedThere DEF ChecksHold
<1>4. CASE EnqueuePublish(d) \/ RecheckApproval(d) \/ ResumeDispatch(d) \/ ReuseSuccess(d)
           \/ Publish(d) \/ NumberAttempt(d) \/ RecordAttempt(d)
  <2>1. /\ UNCHANGED <<row, serial, fresh, entry, drafts, packages, request>>
        /\ delivery'[d].pc # "loaded"
        /\ \A e \in Delivery \ {d} : delivery'[e] = delivery[e]
    BY <1>1, <1>4
       DEF EnqueuePublish, RecheckApproval, ResumeDispatch, ReuseSuccess, Publish, NumberAttempt,
           RecordAttempt, Step, item, editorial, DeliveryRecord
  <2> QED
    BY <2>1, StayedThere DEF ChecksHold
<1>5. CASE IgnoreDelivery(d) \/ RaiseConflict(d) \/ LoseAttempt(d) \/ Retry(d) \/ WorkerLost(d)
  <2>1. UNCHANGED <<row, serial, entry, drafts, packages, request>> /\ fresh' \subseteq fresh
    BY <1>5
       DEF IgnoreDelivery, RaiseConflict, LoseAttempt, Retry, WorkerLost, Forget, item, editorial
  <2>2. \A e \in Delivery \ {d} : delivery'[e] = delivery[e]
    BY <1>1, <1>5
       DEF IgnoreDelivery, RaiseConflict, LoseAttempt, Retry, WorkerLost, Acknowledge
  <2>3. delivery'[d].pc \in {"idle", "queued"}
    <3>1. IgnoreDelivery(d) \/ RaiseConflict(d) \/ LoseAttempt(d) => delivery'[d].pc = "idle"
      BY <1>1, IdlePc DEF IgnoreDelivery, RaiseConflict, LoseAttempt, Acknowledge
    <3>2. Retry(d) => delivery'[d].pc = "queued"
      BY <1>1, IdlePc DEF Retry, DeliveryRecord
    <3>3. WorkerLost(d) => delivery'[d].pc = "queued"
      BY <1>1, IdlePc DEF WorkerLost, DeliveryRecord
    <3> QED
      BY <1>5, <3>1, <3>2, <3>3
  <2> QED
    BY <2>1, <2>2, <2>3, StayedThere DEF ChecksHold
<1>6. CASE ExpireStaleApproval(d) \/ BlockItem(d) \/ CompletePublication(d)
  BY <1>6, MovedElsewhere
     DEF ExpireStaleApproval, BlockItem, CompletePublication, MovePinned, MoveUnpinned, Move, Write
<1>7. CASE StartDispatch(d)
  <2>1. row' = "publishing" /\ fresh' = {d} /\ delivery'[d].pc = "resolved"
    BY <1>1, <1>7 DEF StartDispatch, Write, DeliveryRecord
  <2> QED
    BY <1>2, <2>1 DEF ChecksHold
<1> QED
  BY <1>3, <1>4, <1>5, <1>6, <1>7 DEF Work

LEMMA NextKeepsChecks ==
  Inv /\ ChecksHold /\ [Next]_vars => ChecksHold'
<1> SUFFICES ASSUME Inv, ChecksHold, [Next]_vars PROVE ChecksHold'
  OBVIOUS
<1>1. CASE Assemble
  BY <1>1, StayedThere DEF Assemble, item, editorial, dispatch, ChecksHold
<1>2. CASE UNCHANGED vars
  BY <1>2, StayedThere DEF vars, item, editorial, dispatch, ChecksHold
<1> QED
  BY <1>1, <1>2, EditorialKeepsChecks, DecideKeepsChecks, OperateKeepsChecks, DeliveryKeepsChecks
     DEF Next

\* Only the re-check takes a delivery from its copy to the dispatch.
LEMMA OnlyRecheckStarts ==
  ASSUME Inv, [Next]_vars, NEW d \in Delivery,
         delivery[d].pc = "loaded", delivery'[d].pc = "approved"
  PROVE  RecheckApproval(d) /\ ApprovalIsCurrent /\ delivery'[d].package = entry.scheduled
<1>1. delivery \in [Delivery -> DeliveryRecord]
  BY DEF Inv, DeliveriesOK
<1>2. delivery' # delivery
  OBVIOUS
<1>3. PICK e \in Delivery : EnqueuePublish(e) \/ Work(e) \/ WorkerLost(e)
  <2>1. Editorial => UNCHANGED delivery
    BY DEF Editorial, RequestRework, ResolveChangesRequested, WriteDraft, AcceptReview,
           RunQaGates, EnterHumanReview, LoseQaRun, dispatch
  <2>2. \A h \in Reviewer : Decide(h) => UNCHANGED delivery
    BY DEF Decide, RecordApproval, RecordRejection, RecordChangesRequested, RecordRevocation,
           Record, ApplyDecision, DropDecision, dispatch
  <2>3. Assemble => UNCHANGED delivery
    BY DEF Assemble, dispatch
  <2>4. \A o \in Operator : Operate(o) => UNCHANGED delivery
    BY DEF Operate, LoadRequest, DropRequest, ResolveSchedulablePackage, SchedulePublication,
           ResolveApprovalExpired, ResolveBlock, RejectBlocked, dispatch
  <2>5. UNCHANGED vars => UNCHANGED delivery
    BY DEF vars, dispatch
  <2> QED
    BY <1>2, <2>1, <2>2, <2>3, <2>4, <2>5 DEF Next
<1>4. delivery' \in {[delivery EXCEPT ![e] = r] : r \in {delivery'[e]}}
  BY <1>1, <1>3
     DEF EnqueuePublish, Work, WorkerLost, StartDelivery, IgnoreDelivery, RecheckApproval,
         ExpireStaleApproval, StartDispatch, ResumeDispatch, RaiseConflict, ReuseSuccess, Publish,
         NumberAttempt, RecordAttempt, LoseAttempt, Retry, BlockItem, CompletePublication, Step,
         Acknowledge
<1>5. e = d
  BY <1>1, <1>4
<1>6. delivery[d] \in DeliveryRecord
  BY <1>1
<1>7. RecheckApproval(d)
  <2>1. ~(EnqueuePublish(d) \/ StartDelivery(d) \/ StartDispatch(d) \/ ReuseSuccess(d)
          \/ Publish(d) \/ NumberAttempt(d) \/ RecordAttempt(d) \/ Retry(d))
    BY <1>6 DEF EnqueuePublish, StartDelivery, StartDispatch, ReuseSuccess, Publish,
                NumberAttempt, RecordAttempt, Retry
  <2>2. ~(IgnoreDelivery(d) \/ ExpireStaleApproval(d) \/ RaiseConflict(d) \/ LoseAttempt(d)
          \/ BlockItem(d) \/ CompletePublication(d))
    BY <1>1, <1>6, IdlePc
       DEF IgnoreDelivery, ExpireStaleApproval, RaiseConflict, LoseAttempt, BlockItem,
           CompletePublication, Acknowledge
  <2>3. ~ResumeDispatch(d)
    BY <1>1, <1>6 DEF ResumeDispatch, DeliveryRecord
  <2>4. ~WorkerLost(d)
    BY <1>1, <1>6, IdlePc DEF WorkerLost, DeliveryRecord
  <2> QED
    BY <1>3, <1>5, <2>1, <2>2, <2>3, <2>4 DEF Work
<1> QED
  BY <1>1, <1>6, <1>7 DEF RecheckApproval, Step, DeliveryRecord

\* For any number of reviewers, operators and deliveries, and however decisions are
\* recorded and applied: as long as transitions are serial, a delivery that passes its
\* re-check (worker/editorial_tasks.py, publish_package) sends a package over a content
\* that is approved and not revoked at that moment.
THEOREM RevokedApprovalNeverStarts == Spec => RevokedApprovalStartsNothing
<1>1. Init => ChecksHold
  BY DEF Init, ChecksHold
<1>2. Inv /\ ChecksHold /\ [Next]_vars =>
        [\A d \in Delivery :
           (delivery[d].pc = "loaded" /\ delivery'[d].pc = "approved" /\ serial /\ d \in fresh) =>
             \E p \in packages, i \in DOMAIN decisions :
               /\ p.hash = delivery'[d].package
               /\ decisions[i].kind = "approved" /\ decisions[i].content = p.content
               /\ \A j \in DOMAIN decisions :
                    decisions[j].kind = "approval_revoked" => decisions[j].revokes # i]_vars
  <2> SUFFICES ASSUME Inv, ChecksHold, [Next]_vars, NEW d \in Delivery,
                      delivery[d].pc = "loaded", delivery'[d].pc = "approved", serial, d \in fresh
               PROVE  \E p \in packages, i \in DOMAIN decisions :
                        /\ p.hash = delivery'[d].package
                        /\ decisions[i].kind = "approved" /\ decisions[i].content = p.content
                        /\ \A j \in DOMAIN decisions :
                             decisions[j].kind = "approval_revoked" => decisions[j].revokes # i
    OBVIOUS
  <2>1. RecheckApproval(d) /\ ApprovalIsCurrent /\ delivery'[d].package = entry.scheduled
    BY OnlyRecheckStarts
  <2>2. row = "scheduled"
    BY <2>1 DEF RecheckApproval, ChecksHold
  <2>3. PICK p \in packages : p.hash = entry.scheduled /\ p.content = ActiveContent
    BY <2>2 DEF ChecksHold, Packaged
  <2>4. PICK i \in LatestApproval : decisions[i].content = ActiveContent
    BY <2>1 DEF ApprovalIsCurrent, ApprovedContent
  <2>5. i \in DOMAIN decisions /\ decisions[i].kind = "approved" /\ i \notin Revoked
    BY <2>4 DEF LatestApproval, UnrevokedApprovals
  <2>6. \A j \in DOMAIN decisions : decisions[j].revokes # i
    BY <2>5 DEF Revoked
  <2> QED
    BY <2>1, <2>3, <2>4, <2>5, <2>6
<1> QED
  BY <1>1, <1>2, InitInv, NextKeepsInv, NextKeepsChecks, PTL DEF Spec, RevokedApprovalStartsNothing

-----------------------------------------------------------------------------
(***************************************************************************)
(* Human review, for an item whose QA runs do not overlap: nothing moved   *)
(* the item since a run's first transaction, and no other run replaced its *)
(* report.                                                                 *)
(***************************************************************************)
ReportReady == report = [draft |-> Len(drafts), ready |-> TRUE]

ReviewHolds ==
  /\ ReviewCanBeDecided
  /\ \A r \in QaRun : r \in fresh /\ qa[r] # 0 => qa[r] = Len(drafts) /\ ReportReady

\* A transition to any other state asks nothing of the report.
LEMMA NotToReview ==
  ASSUME fresh' \cap QaRun = {}, row' # "awaiting_human_review"
  PROVE  ReviewHolds'
BY DEF ReviewHolds, ReviewCanBeDecided

\* Steps that leave the item, the drafts and the QA runs alone.
LEMMA ReviewUntouched ==
  ASSUME ReviewHolds, UNCHANGED <<row, serial, entry, drafts, report>>,
         fresh' \cap QaRun \subseteq fresh,
         \A r \in QaRun : qa'[r] \in {0, qa[r]}
  PROVE  ReviewHolds'
BY DEF ReviewHolds, ReviewCanBeDecided, ReportReady, ActiveContent

LEMMA EditorialKeepsReview ==
  ASSUME \A r, s \in QaRun : r = s, Inv, ReviewHolds, Editorial
  PROVE  ReviewHolds'
<1>1. /\ drafts \in Seq(Content) /\ qa \in [QaRun -> 0..Len(drafts)]
      /\ entry \in EntryRecord
  BY DEF Inv, DraftsOK, ItemOK
<1>2. ASSUME NEW responsible \in Responsible, RequestRework(responsible)
      PROVE  ReviewHolds'
  BY <1>2, NotToReview DEF RequestRework, MovePinned, Move, Write
<1>3. CASE ResolveChangesRequested
  <2>1. entry.changes_requested # "awaiting_human_review"
    BY <1>1, <1>3 DEF ResolveChangesRequested, Inv, ItemOK, EntryRecord, Responsible
  <2> QED
    BY <1>3, <2>1, NotToReview DEF ResolveChangesRequested, MovePinned, MoveUnpinned, Move, Write
<1>4. ASSUME NEW content \in Content, WriteDraft(content)
      PROVE  ReviewHolds'
  BY <1>4, NotToReview DEF WriteDraft, MoveUnpinned, Move, Write
<1>5. CASE AcceptReview
  BY <1>5, NotToReview DEF AcceptReview, MovePinned, Move, Write
<1>6. ASSUME NEW r \in QaRun, NEW ready \in BOOLEAN, RunQaGates(r, ready)
      PROVE  ReviewHolds'
  <2>1. /\ row' = "qa_review" /\ UNCHANGED drafts
        /\ report' = [draft |-> Len(drafts), ready |-> ready]
        /\ qa'[r] = IF ready THEN Len(drafts) ELSE 0
    BY <1>1, <1>6 DEF RunQaGates, GoesOn, Load, item
  <2> QED
    BY <2>1 DEF ReviewHolds, ReviewCanBeDecided, ReportReady
<1>7. ASSUME NEW r \in QaRun, EnterHumanReview(r)
      PROVE  ReviewHolds'
  <2>1. /\ fresh' = {} /\ serial' = (serial /\ r \in fresh) /\ qa[r] # 0
        /\ entry'.awaiting_human_review = drafts[qa[r]]
        /\ UNCHANGED <<drafts, report>>
    BY <1>1, <1>7 DEF EnterHumanReview, MovePinned, Move, Write, EntryRecord
  <2> QED
    BY <2>1 DEF ReviewHolds, ReviewCanBeDecided, ReportReady, ActiveContent
<1>8. ASSUME NEW r \in QaRun, LoseQaRun(r)
      PROVE  ReviewHolds'
  BY <1>1, <1>8, ReviewUntouched DEF LoseQaRun, Forget
<1> QED
  BY <1>2, <1>3, <1>4, <1>5, <1>6, <1>7, <1>8 DEF Editorial

LEMMA DecideKeepsReview ==
  ASSUME Inv, ReviewHolds, NEW h \in Reviewer, Decide(h)
  PROVE  ReviewHolds'
<1>1. CASE ApplyDecision(h)
  <2>1. decision[h].to # "awaiting_human_review"
    BY DEF Inv, DecisionsOK, None
  <2> QED
    BY <1>1, <2>1, NotToReview DEF ApplyDecision, MovePinned, MoveUnpinned, Move, Write
<1>2. CASE ~ApplyDecision(h)
  <2>1. UNCHANGED <<row, serial, fresh, entry, drafts, report, qa>>
    BY <1>2 DEF Decide, RecordApproval, RecordRejection, RecordChangesRequested,
                RecordRevocation, Record, DropDecision, item, editorial
  <2> QED
    BY <2>1, ReviewUntouched
<1> QED
  BY <1>1, <1>2

LEMMA OperateKeepsReview ==
  ASSUME Inv, ReviewHolds, NEW o \in Operator, Operate(o)
  PROVE  ReviewHolds'
<1>1. o \notin QaRun
  BY ActorAssumption
<1>2. UNCHANGED <<drafts, report, qa>>
  BY DEF Operate, LoadRequest, DropRequest, ResolveSchedulablePackage, SchedulePublication,
         ResolveApprovalExpired, ResolveBlock, RejectBlocked, editorial
<1>3. CASE LoadRequest(o) \/ DropRequest(o) \/ ResolveSchedulablePackage(o)
  BY <1>1, <1>2, <1>3, ReviewUntouched
     DEF LoadRequest, DropRequest, ResolveSchedulablePackage, Load, Forget, item
<1>4. CASE SchedulePublication(o) \/ ResolveBlock(o) \/ RejectBlocked(o)
  BY <1>4, NotToReview
     DEF SchedulePublication, ResolveBlock, RejectBlocked, MovePinned, MoveUnpinned, Move, Write
<1>5. CASE ResolveApprovalExpired(o)
  <2>1. CASE ReportCovers
    <3>1. ReportReady
      BY <2>1 DEF ReportCovers, ReportReady, Inv, DraftsOK
    <3>2. fresh' = {} /\ entry'.awaiting_human_review = ActiveContent
      BY <1>5, <2>1 DEF ResolveApprovalExpired, MovePinned, Move, Write, Inv, ItemOK, EntryRecord
    <3> QED
      BY <1>2, <3>1, <3>2 DEF ReviewHolds, ReviewCanBeDecided, ReportReady, ActiveContent
  <2>2. CASE ~ReportCovers
    BY <1>5, <2>2, NotToReview DEF ResolveApprovalExpired, MovePinned, Move, Write
  <2> QED
    BY <2>1, <2>2
<1> QED
  BY <1>3, <1>4, <1>5 DEF Operate

LEMMA DeliveryKeepsReview ==
  ASSUME Inv, ReviewHolds, NEW d \in Delivery,
         EnqueuePublish(d) \/ Work(d) \/ WorkerLost(d)
  PROVE  ReviewHolds'
<1>1. d \notin QaRun
  BY ActorAssumption
<1>2. CASE ExpireStaleApproval(d) \/ BlockItem(d) \/ CompletePublication(d) \/ StartDispatch(d)
  BY <1>1, <1>2, NotToReview
     DEF ExpireStaleApproval, BlockItem, CompletePublication, StartDispatch, MovePinned,
         MoveUnpinned, Move, Write
<1>3. CASE EnqueuePublish(d) \/ RecheckApproval(d) \/ ResumeDispatch(d) \/ ReuseSuccess(d)
           \/ Publish(d) \/ NumberAttempt(d) \/ RecordAttempt(d) \/ IgnoreDelivery(d)
  BY <1>3, ReviewUntouched
     DEF EnqueuePublish, RecheckApproval, ResumeDispatch, ReuseSuccess, Publish, NumberAttempt,
         RecordAttempt, IgnoreDelivery, item, editorial
<1>4. CASE StartDelivery(d) \/ RaiseConflict(d) \/ LoseAttempt(d) \/ Retry(d) \/ WorkerLost(d)
  BY <1>1, <1>4, ReviewUntouched
     DEF StartDelivery, RaiseConflict, LoseAttempt, Retry, WorkerLost, Load, Forget, editorial
<1> QED
  BY <1>2, <1>3, <1>4 DEF Work

\* If no two QA runs of the item overlap, then for any number of reviewers, operators
\* and deliveries and as long as transitions are serial, whatever waits for a human can
\* be decided.  The premise is what run_qa_gates lacks: it is not wrapped by exclusive(),
\* and with two runs the property fails.
THEOREM ReviewAlwaysDecidable ==
  ASSUME \A r, s \in QaRun : r = s
  PROVE  Spec => []ReviewCanBeDecided
<1>1. Init => ReviewHolds
  BY DEF Init, ReviewHolds, ReviewCanBeDecided, ReportReady, ActiveContent
<1>2. Inv /\ ReviewHolds /\ [Next]_vars => ReviewHolds'
  <2> SUFFICES ASSUME Inv, ReviewHolds, [Next]_vars PROVE ReviewHolds'
    OBVIOUS
  <2>1. CASE Assemble
    BY <2>1, ReviewUntouched DEF Assemble, item, editorial
  <2>2. CASE UNCHANGED vars
    BY <2>2, ReviewUntouched DEF vars, item, editorial
  <2> QED
    BY <2>1, <2>2, EditorialKeepsReview, DecideKeepsReview, OperateKeepsReview,
       DeliveryKeepsReview DEF Next
<1>3. ReviewHolds => ReviewCanBeDecided
  BY DEF ReviewHolds
<1> QED
  BY <1>1, <1>2, <1>3, InitInv, NextKeepsInv, PTL DEF Spec

-----------------------------------------------------------------------------
(***************************************************************************)
(* Every step is a step of Release or none.                                *)
(***************************************************************************)
Approved ==
  {decisions[i].content : i \in {j \in DOMAIN decisions : decisions[j].kind = "approved"}}
Recorded == {h \in PackageHash : attempts[h].succeeded > 0}

\* The part of the state Release speaks of.
released == <<Approved, packages, accepted, Recorded, entry.published>>

\* A step that touches no decision, package, answer, success or published pin.
LEMMA ReleaseUntouched ==
  ASSUME UNCHANGED <<decisions, packages, accepted, attempts, entry.published>>
  PROVE  UNCHANGED released
BY DEF released, Approved, Recorded

\* A decision approves its content or changes nothing the release speaks of.
LEMMA RecordReleases ==
  ASSUME Inv, NEW h, NEW kind \in Kind, NEW revokes, NEW to, NEW responsible,
         Record(h, kind, revokes, to, responsible)
  PROVE  Promise!Next \/ UNCHANGED released
<1>1. PICK c \in Content : c = ActiveContent
  BY DEF Inv, DraftsOK, ActiveContent
<1> DEFINE new == [kind |-> kind, content |-> c, revokes |-> revokes]
<1>2. decisions \in Seq([kind : Kind, content : Content, revokes : Nat])
  BY DEF Inv, DecisionsOK
<1>3. decisions' = Append(decisions, new)
  BY <1>1 DEF Record
<1>4. /\ DOMAIN decisions' = DOMAIN decisions \cup {Len(decisions) + 1}
      /\ decisions'[Len(decisions) + 1] = new
      /\ \A i \in DOMAIN decisions : decisions'[i] = decisions[i]
  BY <1>2, <1>3
<1>5. Approved' = IF kind = "approved" THEN Approved \cup {c} ELSE Approved
  BY <1>4 DEF Approved
<1>6. UNCHANGED <<packages, accepted, Recorded, entry.published>>
  BY DEF Record, item, dispatch, Recorded
<1>7. CASE kind = "approved"
  <2>1. Promise!Approve(c)
    BY <1>5, <1>6, <1>7 DEF Promise!Approve, Approved, Recorded
  <2> QED
    BY <1>1, <2>1 DEF Promise!Next
<1>8. CASE kind # "approved"
  BY <1>5, <1>6, <1>8 DEF released
<1> QED
  BY <1>7, <1>8

LEMMA DecideReleases ==
  ASSUME Inv, NEW h \in Reviewer, Decide(h)
  PROVE  Promise!Next \/ UNCHANGED released
<1>1. ASSUME NEW kind \in Kind, NEW revokes, NEW to, NEW responsible,
             Record(h, kind, revokes, to, responsible)
      PROVE  Promise!Next \/ UNCHANGED released
  BY <1>1, RecordReleases
<1>2. CASE RecordApproval(h) \/ RecordRejection(h)
  BY <1>1, <1>2 DEF RecordApproval, RecordRejection, Kind
<1>3. ASSUME NEW responsible \in Responsible,
             RecordChangesRequested(h, responsible) \/ RecordRevocation(h, responsible)
      PROVE  Promise!Next \/ UNCHANGED released
  BY <1>1, <1>3 DEF RecordChangesRequested, RecordRevocation, Kind
<1>4. CASE ApplyDecision(h)
  BY <1>4, ReleaseUntouched
     DEF ApplyDecision, MovePinned, MoveUnpinned, dispatch, Inv, ItemOK, EntryRecord
<1>5. CASE DropDecision(h)
  BY <1>5, ReleaseUntouched DEF DropDecision, item, dispatch
<1> QED
  BY <1>2, <1>3, <1>4, <1>5 DEF Decide

LEMMA AssembleReleases ==
  ASSUME Inv, Assemble
  PROVE  Promise!Next \/ UNCHANGED released
<1>1. PICK c \in Content, h \in PackageHash : c = ActiveContent /\ h = HashOf[ActiveContent]
  BY HashAssumption DEF Inv, DraftsOK, ActiveContent
<1>2. UNCHANGED <<decisions, accepted, attempts, entry.published>>
  BY DEF Assemble, item, human, dispatch
<1>3. c \in Approved
  BY <1>1 DEF Assemble, ApprovalIsCurrent, ApprovedContent, LatestApproval, UnrevokedApprovals,
              Approved
<1>4. CASE packages' = packages
  BY <1>2, <1>4, ReleaseUntouched
<1>5. CASE packages' = packages \cup {[hash |-> h, content |-> c]}
  <2>1. Promise!Package(h, c)
    BY <1>2, <1>3, <1>5 DEF Promise!Package, Approved
  <2> QED
    BY <1>1, <2>1 DEF Promise!Next
<1> QED
  BY <1>1, <1>4, <1>5 DEF Assemble

LEMMA DeliveryReleases ==
  ASSUME Inv, NEW d \in Delivery, EnqueuePublish(d) \/ Work(d) \/ WorkerLost(d)
  PROVE  Promise!Next \/ UNCHANGED released
<1>0. PICK h : h = delivery[d].package
  OBVIOUS
<1>1. /\ delivery[d] \in DeliveryRecord /\ Sound(delivery[d])
      /\ entry \in EntryRecord
      /\ attempts \in [PackageHash -> [rows : Nat, succeeded : Nat]]
  BY DEF Inv, DeliveriesOK, ItemOK, AttemptsOK
<1>2. CASE Publish(d)
  <2>1. h \in Hashes
    BY <1>0, <1>1, <1>2 DEF Publish, Sound
  <2>2. h \in PackageHash /\ \E p \in packages : p.hash = h
    BY <2>1 DEF Inv, PackagesOK, Hashes
  <2>3. accepted' = accepted \/ accepted' = accepted \cup {h}
    BY <1>0, <1>2 DEF Publish, RemoteAnswer, Outcome
  <2>4. UNCHANGED <<decisions, packages, attempts, entry.published>>
    BY <1>2 DEF Publish, item, human
  <2>5. CASE accepted' = accepted
    BY <2>4, <2>5, ReleaseUntouched
  <2>6. CASE accepted' = accepted \cup {h}
    <3>1. Promise!GoLive(h)
      BY <2>2, <2>4, <2>6 DEF Promise!GoLive
    <3> QED
      BY <2>2, <3>1 DEF Promise!Next
  <2> QED
    BY <2>3, <2>5, <2>6
<1>3. CASE RecordAttempt(d)
  <2>1. h \in PackageHash /\ (delivery[d].outcome = "succeeded" => h \in accepted)
    BY <1>0, <1>1, <1>3, ContentAssumption DEF RecordAttempt, Sound, DeliveryRecord
  <2>2. UNCHANGED <<decisions, packages, accepted, entry.published>>
    BY <1>3 DEF RecordAttempt, item, human
  <2>3. attempts' = [attempts EXCEPT ![h] =
          [rows |-> attempts[h].rows + 1,
           succeeded |-> IF delivery[d].outcome = "succeeded" THEN attempts[h].succeeded + 1
                         ELSE attempts[h].succeeded]]
    BY <1>0, <1>3 DEF RecordAttempt
  <2>4. Recorded' = IF delivery[d].outcome = "succeeded" THEN Recorded \cup {h} ELSE Recorded
    BY <1>1, <2>1, <2>3 DEF Recorded
  <2>5. CASE delivery[d].outcome = "succeeded"
    <3>1. Promise!RecordSuccess(h)
      BY <2>1, <2>2, <2>4, <2>5 DEF Promise!RecordSuccess, Recorded
    <3> QED
      BY <2>1, <3>1 DEF Promise!Next
  <2>6. CASE delivery[d].outcome # "succeeded"
    BY <2>2, <2>4, <2>6 DEF released, Approved
  <2> QED
    BY <2>5, <2>6
<1>4. CASE CompletePublication(d)
  <2>1. h \in PackageHash /\ h \in Recorded
    BY <1>0, <1>1, <1>4, ContentAssumption DEF CompletePublication, Sound, DeliveryRecord, Recorded
  <2>2. entry'.published = h
    BY <1>0, <1>1, <1>4 DEF CompletePublication, MovePinned, EntryRecord
  <2>3. UNCHANGED <<decisions, packages, accepted, attempts>>
    BY <1>4 DEF CompletePublication, human
  <2>4. Promise!Show(h)
    BY <2>1, <2>2, <2>3 DEF Promise!Show, Recorded
  <2> QED
    BY <2>1, <2>4 DEF Promise!Next
<1>5. CASE StartDispatch(d)
  BY <1>1, <1>5, ReleaseUntouched DEF StartDispatch, EntryRecord, human
<1>6. CASE \/ EnqueuePublish(d) \/ RecheckApproval(d) \/ ResumeDispatch(d) \/ ReuseSuccess(d)
           \/ NumberAttempt(d) \/ IgnoreDelivery(d) \/ StartDelivery(d) \/ RaiseConflict(d)
           \/ LoseAttempt(d) \/ Retry(d) \/ WorkerLost(d) \/ ExpireStaleApproval(d) \/ BlockItem(d)
  BY <1>6, ReleaseUntouched
     DEF EnqueuePublish, RecheckApproval, ResumeDispatch, ReuseSuccess, NumberAttempt,
         IgnoreDelivery, StartDelivery, RaiseConflict, LoseAttempt, Retry, WorkerLost,
         ExpireStaleApproval, BlockItem, MoveUnpinned, Load, Forget, item, human
<1> QED
  BY <1>2, <1>3, <1>4, <1>5, <1>6 DEF Work

\* Everybody else leaves the release alone.
LEMMA OthersRelease ==
  ASSUME Inv, Editorial \/ (\E o \in Operator : Operate(o)) \/ UNCHANGED vars
  PROVE  UNCHANGED released
<1>1. entry \in EntryRecord
  BY DEF Inv, ItemOK
<1>2. CASE Editorial
  <2>1. UNCHANGED <<decisions, packages, accepted, attempts>>
    BY <1>2 DEF Editorial, RequestRework, ResolveChangesRequested, WriteDraft, AcceptReview,
                RunQaGates, EnterHumanReview, LoseQaRun, human, dispatch
  <2>2. UNCHANGED entry.published
    BY <1>1, <1>2
       DEF Editorial, RequestRework, ResolveChangesRequested, WriteDraft, AcceptReview,
           RunQaGates, EnterHumanReview, LoseQaRun, MovePinned, MoveUnpinned, Load, Forget,
           item, EntryRecord
  <2> QED
    BY <2>1, <2>2, ReleaseUntouched
<1>3. ASSUME NEW o \in Operator, Operate(o)
      PROVE  UNCHANGED released
  <2>1. UNCHANGED <<decisions, packages, accepted, attempts>>
    BY <1>3 DEF Operate, LoadRequest, DropRequest, ResolveSchedulablePackage, SchedulePublication,
                ResolveApprovalExpired, ResolveBlock, RejectBlocked, human, dispatch
  <2>2. UNCHANGED entry.published
    BY <1>1, <1>3
       DEF Operate, LoadRequest, DropRequest, ResolveSchedulablePackage, SchedulePublication,
           ResolveApprovalExpired, ResolveBlock, RejectBlocked, MovePinned, MoveUnpinned, Load,
           Forget, item, EntryRecord
  <2> QED
    BY <2>1, <2>2, ReleaseUntouched
<1>4. CASE UNCHANGED vars
  BY <1>4, ReleaseUntouched DEF vars, item, human, dispatch
<1> QED
  BY <1>2, <1>3, <1>4

\* For any number of actors, crashes and stale copies, the decisions, packages, answers,
\* attempts and pins of the code (decisions/service.py, publishing/, publish_package)
\* implement the release an abstract reader of the system expects.
THEOREM PublicationImplementsRelease == Spec => ReleasesInOrder
<1>1. Init => Promise!Init
  <2> SUFFICES ASSUME Init PROVE Promise!Init
    OBVIOUS
  <2>1. decisions = <<>> /\ packages = {} /\ accepted = {} /\ entry.published = None
    BY DEF Init
  <2>2. Recorded = {}
    BY DEF Init, Recorded
  <2> QED
    BY <2>1, <2>2 DEF Promise!Init, Recorded
<1>2. Inv /\ [Next]_vars => [Promise!Next]_(Promise!released)
  <2> SUFFICES ASSUME Inv, [Next]_vars
               PROVE  Promise!Next \/ UNCHANGED Promise!released
    OBVIOUS
  <2>1. Promise!Next \/ UNCHANGED released
    BY DecideReleases, AssembleReleases, DeliveryReleases, OthersRelease DEF Next
  <2> QED
    BY <2>1 DEF released, Promise!released, Approved, Recorded
<1> QED
  BY <1>1, <1>2, InvAlways, PTL DEF Spec, ReleasesInOrder, Promise!Spec
-----------------------------------------------------------------------------
(***************************************************************************)
(* One message at a time: publish_package looks for a success, publishes   *)
(* and records without a lock, so only a delivery that has no other beside *)
(* it still knows, when it records, that there was no success before.  The *)
(* package it sends is the one the item pins, unless a stale resolve-block *)
(* has unpinned it, and an item it has blocked is left alone by messages.  *)
(***************************************************************************)
OneMessage == \A d, e \in Delivery : d = e

Sending == {"resolved", "answered", "numbered", "failed"}

SendsOnce(d) ==
  /\ delivery[d].pc \in {"answered", "numbered", "failed"} =>
       attempts[delivery[d].package].succeeded = 0
  /\ delivery[d].pc \in Sending =>
       /\ entry.publishing \in {None, delivery[d].package}
       /\ d \in fresh => entry.publishing = delivery[d].package
  /\ row = "blocked" => delivery[d].pc = "idle"

SentOnce == OneSuccess /\ BlockedWasNotPublished /\ \A d \in Delivery : SendsOnce(d)

\* A step that is none of the message's.
LEMMA SentUntouched ==
  ASSUME SentOnce, UNCHANGED <<delivery, attempts>>,
         entry'.publishing = entry.publishing,
         fresh' \cap Delivery \subseteq fresh,
         row' = "blocked" => row = "blocked",
         serial' => serial
  PROVE  SentOnce'
BY DEF SentOnce, SendsOnce, OneSuccess, BlockedWasNotPublished

LEMMA EditorialKeepsSent ==
  ASSUME Inv, SentOnce, Editorial
  PROVE  SentOnce'
<1>1. entry \in EntryRecord /\ serial \in BOOLEAN
  BY DEF Inv, ItemOK
<1>2. ASSUME NEW responsible \in Responsible, RequestRework(responsible)
      PROVE  SentOnce'
  BY <1>1, <1>2, SentUntouched DEF RequestRework, MovePinned, Move, Write, dispatch, EntryRecord
<1>3. CASE ResolveChangesRequested
  <2>1. entry.changes_requested # "blocked"
    BY <1>3 DEF ResolveChangesRequested, Inv, ItemOK, EntryRecord, Responsible
  <2> QED
    BY <1>1, <1>3, <2>1, SentUntouched
       DEF ResolveChangesRequested, MovePinned, MoveUnpinned, Move, Write, dispatch, EntryRecord
<1>4. ASSUME NEW content \in Content, WriteDraft(content)
      PROVE  SentOnce'
  BY <1>1, <1>4, SentUntouched DEF WriteDraft, MoveUnpinned, Move, Write, dispatch
<1>5. CASE AcceptReview
  BY <1>1, <1>5, SentUntouched DEF AcceptReview, MovePinned, Move, Write, dispatch, EntryRecord
<1>6. ASSUME NEW r \in QaRun, NEW ready \in BOOLEAN, RunQaGates(r, ready)
      PROVE  SentOnce'
  <2>1. r \notin Delivery
    BY ActorAssumption
  <2>2. fresh' \subseteq fresh \cup {r} /\ UNCHANGED <<row, serial, entry, delivery, attempts>>
    BY <1>6 DEF RunQaGates, Load, item, dispatch
  <2> QED
    BY <2>1, <2>2, SentUntouched
<1>7. ASSUME NEW r \in QaRun, EnterHumanReview(r)
      PROVE  SentOnce'
  BY <1>1, <1>7, SentUntouched DEF EnterHumanReview, MovePinned, Move, Write, dispatch, EntryRecord
<1>8. ASSUME NEW r \in QaRun, LoseQaRun(r)
      PROVE  SentOnce'
  BY <1>8, SentUntouched DEF LoseQaRun, Forget, dispatch
<1> QED
  BY <1>2, <1>3, <1>4, <1>5, <1>6, <1>7, <1>8 DEF Editorial

LEMMA DecideKeepsSent ==
  ASSUME Inv, SentOnce, NEW h \in Reviewer, Decide(h)
  PROVE  SentOnce'
<1>1. CASE ApplyDecision(h)
  <2>1. decision[h].to # "blocked" /\ entry \in EntryRecord /\ serial \in BOOLEAN
    BY DEF Inv, DecisionsOK, ItemOK, None
  <2> QED
    BY <1>1, <2>1, SentUntouched
       DEF ApplyDecision, MovePinned, MoveUnpinned, Move, Write, dispatch, EntryRecord
<1>2. CASE ~ApplyDecision(h)
  <2>1. UNCHANGED <<row, serial, fresh, entry, delivery, attempts>>
    BY <1>2 DEF Decide, RecordApproval, RecordRejection, RecordChangesRequested,
                RecordRevocation, Record, DropDecision, item, dispatch
  <2> QED
    BY <2>1, SentUntouched
<1> QED
  BY <1>1, <1>2

\* resolve-block takes the pin from the item; the message keeps its package.
LEMMA OperateKeepsSent ==
  ASSUME Inv, SentOnce, NEW o \in Operator, Operate(o)
  PROVE  SentOnce'
<1>1. entry \in EntryRecord /\ serial \in BOOLEAN /\ o \notin Delivery
  BY ActorAssumption DEF Inv, ItemOK
<1>2. CASE ResolveBlock(o)
  <2>1. /\ row' = "publishing" /\ fresh' = {} /\ entry'.publishing = None
        /\ UNCHANGED <<delivery, attempts>>
    BY <1>1, <1>2 DEF ResolveBlock, MovePinned, Move, Write, dispatch, EntryRecord
  <2> QED
    BY <2>1 DEF SentOnce, SendsOnce, OneSuccess, BlockedWasNotPublished
<1>3. CASE SchedulePublication(o) \/ ResolveApprovalExpired(o) \/ RejectBlocked(o)
  BY <1>1, <1>3, SentUntouched
     DEF SchedulePublication, ResolveApprovalExpired, RejectBlocked, MovePinned, MoveUnpinned,
         Move, Write, dispatch, EntryRecord
<1>4. CASE LoadRequest(o) \/ DropRequest(o) \/ ResolveSchedulablePackage(o)
  BY <1>1, <1>4, SentUntouched
     DEF LoadRequest, DropRequest, ResolveSchedulablePackage, Load, Forget, item, dispatch
<1> QED
  BY <1>2, <1>3, <1>4 DEF Operate

\* The steps of the message that neither send nor block.
LEMMA NotSending ==
  ASSUME OneMessage, SentOnce, NEW d \in Delivery, UNCHANGED attempts,
         delivery'[d].pc \notin Sending, row' # "blocked"
  PROVE  SentOnce'
<1>1. \A e \in Delivery : SendsOnce(e)'
  <2> SUFFICES ASSUME NEW e \in Delivery PROVE SendsOnce(e)'
    OBVIOUS
  <2>1. e = d
    BY DEF OneMessage
  <2> QED
    BY <2>1 DEF SendsOnce, Sending
<1> QED
  BY <1>1 DEF SentOnce, OneSuccess, BlockedWasNotPublished

LEMMA DeliveryKeepsSent ==
  ASSUME OneMessage, Inv, SentOnce, NEW d \in Delivery,
         EnqueuePublish(d) \/ Work(d) \/ WorkerLost(d)
  PROVE  SentOnce'
<1> DEFINE old == delivery[d]
<1>1. /\ delivery \in [Delivery -> DeliveryRecord] /\ old \in DeliveryRecord /\ Sound(old)
      /\ \A h \in PackageHash : attempts[h] \in [rows : Nat, succeeded : Nat]
      /\ attempts \in [PackageHash -> [rows : Nat, succeeded : Nat]]
      /\ entry \in EntryRecord /\ serial \in BOOLEAN
      /\ Hashes \subseteq PackageHash
  BY DEF Inv, DeliveriesOK, AttemptsOK, ItemOK, PackagesOK, Hashes
<1>2. /\ OneSuccess /\ SendsOnce(d)
      /\ \A e \in Delivery : e = d
  BY DEF SentOnce, OneMessage
<1>3. old.pc # "idle" => row # "blocked"
  BY <1>2 DEF SendsOnce
<1>4. CASE \/ EnqueuePublish(d) \/ StartDelivery(d) \/ IgnoreDelivery(d) \/ RecheckApproval(d)
           \/ RaiseConflict(d) \/ ReuseSuccess(d) \/ LoseAttempt(d) \/ Retry(d) \/ WorkerLost(d)
  <2>1. UNCHANGED <<row, attempts>>
    BY <1>4
       DEF EnqueuePublish, StartDelivery, IgnoreDelivery, RecheckApproval, RaiseConflict,
           ReuseSuccess, LoseAttempt, Retry, WorkerLost, Load, Forget, item
  <2>2. row # "blocked"
    <3>1. EnqueuePublish(d) => row # "blocked"
      BY DEF EnqueuePublish
    <3>2. ~EnqueuePublish(d) => old.pc # "idle"
      BY <1>4
         DEF StartDelivery, IgnoreDelivery, RecheckApproval, RaiseConflict, ReuseSuccess,
             LoseAttempt, Retry, WorkerLost
    <3> QED
      BY <1>3, <3>1, <3>2
  <2>3. delivery'[d].pc \notin Sending
    <3>1. IgnoreDelivery(d) \/ RaiseConflict(d) \/ LoseAttempt(d) => delivery'[d].pc = "idle"
      BY <1>1, IdlePc DEF IgnoreDelivery, RaiseConflict, LoseAttempt, Acknowledge
    <3>2. Retry(d) => delivery'[d].pc = "queued"
      BY <1>1, IdlePc DEF Retry, DeliveryRecord
    <3>3. WorkerLost(d) => delivery'[d].pc = "queued"
      BY <1>1, IdlePc DEF WorkerLost, DeliveryRecord
    <3>4. EnqueuePublish(d) \/ StartDelivery(d) \/ RecheckApproval(d) \/ ReuseSuccess(d)
            => delivery'[d].pc \in {"queued", "loaded", "approved", "stale", "succeeded"}
      BY <1>1
         DEF EnqueuePublish, StartDelivery, RecheckApproval, ReuseSuccess, Step, DeliveryRecord
    <3> QED
      BY <1>4, <3>1, <3>2, <3>3, <3>4 DEF Sending
  <2> QED
    BY <2>1, <2>2, <2>3, NotSending
<1>5. CASE ExpireStaleApproval(d) \/ CompletePublication(d)
  <2>1. row' # "blocked" /\ UNCHANGED attempts
    BY <1>5 DEF ExpireStaleApproval, CompletePublication, MovePinned, MoveUnpinned, Move, Write
  <2>2. delivery'[d].pc = "idle"
    BY <1>1, <1>5, IdlePc DEF ExpireStaleApproval, CompletePublication, Acknowledge
  <2> QED
    BY <2>1, <2>2, NotSending DEF Sending
<1>6. CASE StartDispatch(d) \/ ResumeDispatch(d)
  <2>1. row' # "blocked" /\ UNCHANGED attempts
    BY <1>3, <1>6 DEF StartDispatch, ResumeDispatch, Write, item
  <2>2. /\ delivery'[d].pc = "resolved"
        /\ entry'.publishing = delivery'[d].package
    BY <1>1, <1>6 DEF StartDispatch, ResumeDispatch, item, DeliveryRecord, EntryRecord
  <2>3. SendsOnce(d)'
    BY <2>1, <2>2 DEF SendsOnce
  <2> QED
    BY <1>2, <2>1, <2>3 DEF SentOnce, OneSuccess, BlockedWasNotPublished
<1>7. CASE Publish(d) \/ NumberAttempt(d)
  <2>1. UNCHANGED <<row, serial, fresh, entry, attempts>>
    BY <1>7 DEF Publish, NumberAttempt, item
  <2>2. /\ delivery'[d].pc \in {"answered", "numbered"}
        /\ delivery'[d].package = old.package
    BY <1>1, <1>7 DEF Publish, NumberAttempt, DeliveryRecord
  <2>3. old.pc \in {"resolved", "answered"} /\ attempts[old.package].succeeded = 0
    BY <1>2, <1>7 DEF Publish, NumberAttempt, PriorSuccess, SendsOnce
  <2>4. SendsOnce(d)'
    BY <1>2, <1>3, <2>1, <2>2, <2>3 DEF SendsOnce, Sending
  <2> QED
    BY <1>2, <1>3, <2>1, <2>3, <2>4 DEF SentOnce, OneSuccess, BlockedWasNotPublished
<1>8. CASE RecordAttempt(d)
  <2> DEFINE h == old.package
  <2>1. UNCHANGED <<row, serial, fresh, entry>> /\ old.pc = "numbered" /\ row # "blocked"
    BY <1>3, <1>8 DEF RecordAttempt, item
  <2>2. h \in PackageHash /\ attempts[h].succeeded = 0
    BY <1>1, <1>2, <2>1 DEF Sound, SendsOnce
  <2>3. \A k \in PackageHash :
          /\ k # h => attempts'[k] = attempts[k]
          /\ attempts'[h].succeeded = IF old.outcome = "succeeded" THEN 1 ELSE 0
    BY <1>1, <1>8, <2>2 DEF RecordAttempt
  <2>4. OneSuccess'
    BY <1>2, <2>2, <2>3 DEF OneSuccess
  <2>5. /\ delivery'[d].pc = IF old.outcome = "succeeded" THEN "succeeded" ELSE "failed"
        /\ delivery'[d].package = h
    BY <1>1, <1>8 DEF RecordAttempt, Succeeded, Step, DeliveryRecord
  <2>6. SendsOnce(d)'
    BY <1>2, <2>1, <2>2, <2>3, <2>5 DEF SendsOnce, Sending
  <2> QED
    BY <1>2, <2>1, <2>4, <2>6 DEF SentOnce, BlockedWasNotPublished
<1>9. CASE BlockItem(d)
  <2>1. /\ old.pc = "failed" /\ row' = "blocked" /\ UNCHANGED <<entry, attempts>>
        /\ fresh' = {}
        /\ serial' => d \in fresh
    BY <1>1, <1>9 DEF BlockItem, MoveUnpinned, Move, Write
  <2>2. delivery'[d].pc = "idle"
    BY <1>1, <1>9, IdlePc DEF BlockItem, Acknowledge
  <2>3. /\ old.package # None /\ attempts[old.package].succeeded = 0
        /\ entry.publishing \in {None, old.package}
        /\ d \in fresh => entry.publishing = old.package
    BY <1>1, <1>2, <2>1 DEF Sound, SendsOnce, Sending
  <2>4. BlockedWasNotPublished'
    BY <2>1, <2>3 DEF BlockedWasNotPublished
  <2>5. SendsOnce(d)'
    BY <2>2 DEF SendsOnce, Sending
  <2> QED
    BY <1>2, <2>1, <2>4, <2>5 DEF SentOnce, OneSuccess
<1> QED
  BY <1>4, <1>5, <1>6, <1>7, <1>8, <1>9 DEF Work

LEMMA SentOnceAlways ==
  ASSUME OneMessage
  PROVE  Spec => []SentOnce
<1>1. Init => SentOnce
  <2> SUFFICES ASSUME Init PROVE SentOnce
    OBVIOUS
  <2>1. row # "blocked" /\ \A h \in PackageHash : attempts[h].succeeded = 0
    BY DEF Init
  <2>2. \A d \in Delivery : delivery[d].pc = "idle"
    BY DEF Init, NoDelivery
  <2> QED
    BY <2>1, <2>2 DEF SentOnce, SendsOnce, Sending, OneSuccess, BlockedWasNotPublished
<1>2. Inv /\ SentOnce /\ [Next]_vars => SentOnce'
  <2> SUFFICES ASSUME Inv, SentOnce, [Next]_vars PROVE SentOnce'
    OBVIOUS
  <2>1. CASE Assemble
    BY <2>1, SentUntouched DEF Assemble, item, dispatch
  <2>2. CASE UNCHANGED vars
    BY <2>2, SentUntouched DEF vars, item, dispatch
  <2> QED
    BY <2>1, <2>2, EditorialKeepsSent, DecideKeepsSent, OperateKeepsSent, DeliveryKeepsSent
       DEF Next
<1> QED
  BY <1>1, <1>2, InvAlways, PTL DEF Spec

\* As long as no two messages for the item are worked on at once, a package has at most one
\* recorded success, for any number of retries, crashes, redeliveries and operators with
\* stale copies: publish_package looks for a success before it publishes, and nothing
\* else records one.
THEOREM SucceedsOnce ==
  ASSUME OneMessage
  PROVE  Spec => []OneSuccess
<1>1. SentOnce => OneSuccess
  BY DEF SentOnce
<1> QED
  BY <1>1, SentOnceAlways, PTL

\* Under the same premise an item is never blocked over a package with a recorded success,
\* although the API may have accepted it (a timeout counts as a transient failure), and
\* the block names the package unless a stale resolve-block came in between.
THEOREM BlockedNeverPublished ==
  ASSUME OneMessage
  PROVE  Spec => []BlockedWasNotPublished
<1>1. SentOnce => BlockedWasNotPublished
  BY DEF SentOnce
<1> QED
  BY <1>1, SentOnceAlways, PTL
-----------------------------------------------------------------------------
(***************************************************************************)
(* The transitions of the workflow service: the actions that write over    *)
(* the row from a copy do not repeat the guard of transition(), which is   *)
(* about the copy.  As long as no stale copy is written the copies that    *)
(* are still fresh show the row, and so every transition is one that the   *)
(* matrix and the exits of CHANGES_REQUESTED and BLOCKED allow.            *)
(***************************************************************************)
Dispatching == {"resolved", "answered", "numbered", "succeeded", "failed"}

CopiesCurrent ==
  /\ \A r \in QaRun : r \in fresh /\ qa[r] # 0 => row = "qa_review"
  /\ \A o \in Operator :
       /\ o \in fresh /\ request[o].view # None => row = request[o].view
       /\ request[o].package # None => request[o].view = "approved"
  /\ \A d \in Delivery :
       d \in fresh =>
         /\ delivery[d].pc = "loaded" => row = delivery[d].view
         /\ delivery[d].pc \in {"stale", "approved"} => row = "scheduled"
         /\ delivery[d].pc \in Dispatching => row = "publishing"

\* An exit of BLOCKED leads back to the state the item was blocked in.
LegalMove ==
  /\ \/ row' \in STRUCTURAL_TRANSITIONS(row)
     \/ row = "changes_requested" /\ row' = entry.changes_requested
     \/ row = "blocked" /\ row' \in {"rejected", "publishing"}
  /\ row' = "blocked" => row = "publishing"

\* As long as no stale copy was written, the item only moves as the service allows.
SerialMovesAreLegal == [][serial' /\ row' # row => LegalMove]_vars

\* The entries of the matrix the model uses.
LEMMA Matrix ==
  /\ "editing" \in STRUCTURAL_TRANSITIONS("drafting")
  /\ "qa_review" \in STRUCTURAL_TRANSITIONS("editing")
  /\ "awaiting_human_review" \in STRUCTURAL_TRANSITIONS("qa_review")
  /\ "scheduled" \in STRUCTURAL_TRANSITIONS("approved")
  /\ {"qa_review", "awaiting_human_review"} \subseteq STRUCTURAL_TRANSITIONS("approval_expired")
  /\ {"publishing", "approval_expired"} \subseteq STRUCTURAL_TRANSITIONS("scheduled")
  /\ {"published", "blocked"} \subseteq STRUCTURAL_TRANSITIONS("publishing")
BY DEF STRUCTURAL_TRANSITIONS

\* A move leaves no copy that could be current.
LEMMA MovedAway ==
  ASSUME fresh' = {},
         \A o \in Operator : request'[o].package # None => request'[o].view = "approved"
  PROVE  CopiesCurrent'
BY DEF CopiesCurrent

\* A step that does not move the item.
LEMMA CopiesUntouched ==
  ASSUME CopiesCurrent, UNCHANGED <<row, qa, request, delivery>>, fresh' \subseteq fresh
  PROVE  CopiesCurrent'
BY DEF CopiesCurrent

LEMMA EditorialIsLegal ==
  ASSUME Inv, CopiesCurrent, Editorial
  PROVE  CopiesCurrent' /\ (serial' /\ row' # row => LegalMove)
<1>0. \A o \in Operator : request[o].package # None => request[o].view = "approved"
  BY DEF CopiesCurrent
<1>1. ASSUME NEW responsible \in Responsible, RequestRework(responsible)
      PROVE  CopiesCurrent' /\ (serial' /\ row' # row => LegalMove)
  BY <1>0, <1>1, MovedAway DEF RequestRework, MovePinned, Move, Write, LegalMove
<1>2. CASE ResolveChangesRequested
  <2>1. row' = entry.changes_requested /\ fresh' = {} /\ row = "changes_requested"
        /\ UNCHANGED request
    BY <1>2 DEF ResolveChangesRequested, MovePinned, MoveUnpinned, Move, Write
  <2>2. row' # "blocked"
    BY <2>1 DEF Inv, ItemOK, EntryRecord, Responsible
  <2> QED
    BY <1>0, <2>1, <2>2, MovedAway DEF LegalMove
<1>3. ASSUME NEW content \in Content, WriteDraft(content)
      PROVE  CopiesCurrent' /\ (serial' /\ row' # row => LegalMove)
  BY <1>0, <1>3, Matrix, MovedAway DEF WriteDraft, MoveUnpinned, Move, Write, LegalMove
<1>4. CASE AcceptReview
  BY <1>0, <1>4, Matrix, MovedAway DEF AcceptReview, MovePinned, Move, Write, LegalMove
<1>5. ASSUME NEW r \in QaRun, NEW ready \in BOOLEAN, RunQaGates(r, ready)
      PROVE  CopiesCurrent' /\ (serial' /\ row' # row => LegalMove)
  <2>1. r \notin Operator /\ r \notin Delivery
    BY ActorAssumption
  <2>2. /\ row = "qa_review" /\ UNCHANGED <<row, request, delivery>>
        /\ fresh' \subseteq fresh \cup {r}
        /\ \A q \in QaRun \ {r} : qa'[q] = qa[q]
    BY <1>5 DEF RunQaGates, Load, item, dispatch, Inv, DraftsOK
  <2> QED
    BY <2>1, <2>2 DEF CopiesCurrent
<1>6. ASSUME NEW r \in QaRun, EnterHumanReview(r)
      PROVE  CopiesCurrent' /\ (serial' /\ row' # row => LegalMove)
  <2>1. /\ row' = "awaiting_human_review" /\ fresh' = {} /\ UNCHANGED request
        /\ serial' = (serial /\ {r} \subseteq fresh)
        /\ qa[r] # 0
    BY <1>6 DEF EnterHumanReview, MovePinned, Move, Write
  <2>2. serial' => row = "qa_review"
    BY <2>1 DEF CopiesCurrent
  <2> QED
    BY <1>0, <2>1, <2>2, Matrix, MovedAway DEF LegalMove
<1>7. ASSUME NEW r \in QaRun, LoseQaRun(r)
      PROVE  CopiesCurrent' /\ (serial' /\ row' # row => LegalMove)
  <2>1. UNCHANGED <<row, request, delivery>> /\ fresh' \subseteq fresh
    BY <1>7 DEF LoseQaRun, Forget, dispatch
  <2>2. qa'[r] = 0 /\ \A q \in QaRun \ {r} : qa'[q] = qa[q]
    BY <1>7 DEF LoseQaRun, Inv, DraftsOK
  <2> QED
    BY <2>1, <2>2 DEF CopiesCurrent
<1> QED
  BY <1>1, <1>2, <1>3, <1>4, <1>5, <1>6, <1>7 DEF Editorial

LEMMA DecideIsLegal ==
  ASSUME Inv, CopiesCurrent, NEW h \in Reviewer, Decide(h)
  PROVE  CopiesCurrent' /\ (serial' /\ row' # row => LegalMove)
<1>1. CASE ApplyDecision(h)
  <2>1. decision[h].to # "blocked"
    BY DEF Inv, DecisionsOK, None
  <2>2. /\ row' = decision[h].to /\ fresh' = {} /\ UNCHANGED request
        /\ row' \in STRUCTURAL_TRANSITIONS(row) \/ (row = "blocked" /\ row' = "rejected")
    BY <1>1 DEF ApplyDecision, MovePinned, MoveUnpinned, Move, Write
  <2>3. \A o \in Operator : request[o].package # None => request[o].view = "approved"
    BY DEF CopiesCurrent
  <2> QED
    BY <2>1, <2>2, <2>3, MovedAway DEF LegalMove
<1>2. CASE ~ApplyDecision(h)
  <2>1. UNCHANGED <<row, fresh, qa, request, delivery>>
    BY <1>2 DEF Decide, RecordApproval, RecordRejection, RecordChangesRequested,
                RecordRevocation, Record, DropDecision, item, editorial, dispatch
  <2> QED
    BY <2>1, CopiesUntouched
<1> QED
  BY <1>1, <1>2

LEMMA OperateIsLegal ==
  ASSUME Inv, CopiesCurrent, NEW o \in Operator, Operate(o)
  PROVE  CopiesCurrent' /\ (serial' /\ row' # row => LegalMove)
<1>1. /\ request \in [Operator -> RequestRecord]
      /\ o \notin Delivery /\ o \notin QaRun
      /\ \A q \in Operator : request[q].package # None => request[q].view = "approved"
      /\ o \in fresh /\ request[o].view # None => row = request[o].view
  BY ActorAssumption DEF Inv, RequestsOK, CopiesCurrent
<1>2. CASE LoadRequest(o)
  <2>1. /\ request'[o].view = row /\ request'[o].package = None
        /\ \A q \in Operator \ {o} : request'[q] = request[q]
    BY <1>1, <1>2 DEF LoadRequest, NoRequest, RequestRecord
  <2>2. UNCHANGED <<row, qa, delivery>> /\ fresh' = fresh \cup {o}
    BY <1>2 DEF LoadRequest, Load, editorial, dispatch
  <2> QED
    BY <1>1, <2>1, <2>2 DEF CopiesCurrent
<1>3. CASE DropRequest(o)
  <2>1. /\ request'[o].view = None /\ request'[o].package = None
        /\ \A q \in Operator \ {o} : request'[q] = request[q]
    BY <1>1, <1>3 DEF DropRequest, EndRequest, NoRequest
  <2>2. UNCHANGED <<row, qa, delivery>> /\ fresh' \subseteq fresh
    BY <1>3 DEF DropRequest, Forget, editorial, dispatch
  <2> QED
    BY <1>1, <2>1, <2>2 DEF CopiesCurrent
<1>4. CASE ResolveSchedulablePackage(o)
  <2>1. /\ request'[o].view = "approved" /\ request[o].view = "approved"
        /\ \A q \in Operator \ {o} : request'[q] = request[q]
    BY <1>1, <1>4 DEF ResolveSchedulablePackage, RequestRecord
  <2>2. UNCHANGED <<row, fresh, qa, delivery>>
    BY <1>4 DEF ResolveSchedulablePackage, item, editorial, dispatch
  <2> QED
    BY <1>1, <2>1, <2>2 DEF CopiesCurrent
<1>5. CASE \/ SchedulePublication(o) \/ ResolveApprovalExpired(o) \/ ResolveBlock(o)
           \/ RejectBlocked(o)
  <2>1. fresh' = {} /\ serial' = (serial /\ {o} \subseteq fresh)
    BY <1>5
       DEF SchedulePublication, ResolveApprovalExpired, ResolveBlock, RejectBlocked, MovePinned,
           MoveUnpinned, Move, Write
  <2>2. /\ request'[o].view = None /\ request'[o].package = None
        /\ \A q \in Operator \ {o} : request'[q] = request[q]
    BY <1>1, <1>5
       DEF SchedulePublication, ResolveApprovalExpired, ResolveBlock, RejectBlocked, EndRequest,
           NoRequest
  <2>3. /\ SchedulePublication(o) => request[o].view = "approved" /\ row' = "scheduled"
        /\ ResolveApprovalExpired(o) =>
             /\ request[o].view = "approval_expired"
             /\ row' \in {"awaiting_human_review", "qa_review"}
        /\ ResolveBlock(o) => request[o].view = "blocked" /\ row' = "publishing"
        /\ RejectBlocked(o) => request[o].view = "blocked" /\ row' = "rejected"
    BY <1>1
       DEF SchedulePublication, ResolveApprovalExpired, ResolveBlock, RejectBlocked, MovePinned,
           MoveUnpinned, Move, Write
  <2>4. serial' => LegalMove
    BY <1>1, <1>5, <2>1, <2>3, Matrix DEF LegalMove, None
  <2> QED
    BY <1>1, <2>1, <2>2, <2>4, MovedAway
<1> QED
  BY <1>2, <1>3, <1>4, <1>5 DEF Operate

LEMMA DeliveryIsLegal ==
  ASSUME Inv, CopiesCurrent, NEW d \in Delivery, EnqueuePublish(d) \/ Work(d) \/ WorkerLost(d)
  PROVE  CopiesCurrent' /\ (serial' /\ row' # row => LegalMove)
<1> DEFINE old == delivery[d]
<1>1. /\ delivery \in [Delivery -> DeliveryRecord] /\ old \in DeliveryRecord
      /\ d \notin Operator /\ d \notin QaRun
      /\ \A o \in Operator : request[o].package # None => request[o].view = "approved"
  BY ActorAssumption DEF Inv, DeliveriesOK, CopiesCurrent
<1>2. UNCHANGED <<qa, request>>
  BY DEF EnqueuePublish, Work, WorkerLost, StartDelivery, IgnoreDelivery, RecheckApproval,
         ExpireStaleApproval, StartDispatch, ResumeDispatch, RaiseConflict, ReuseSuccess, Publish,
         NumberAttempt, RecordAttempt, LoseAttempt, Retry, BlockItem, CompletePublication,
         editorial
<1>3. \A e \in Delivery \ {d} : delivery'[e] = delivery[e]
  BY <1>1
     DEF EnqueuePublish, Work, WorkerLost, StartDelivery, IgnoreDelivery, RecheckApproval,
         ExpireStaleApproval, StartDispatch, ResumeDispatch, RaiseConflict, ReuseSuccess, Publish,
         NumberAttempt, RecordAttempt, LoseAttempt, Retry, BlockItem, CompletePublication, Step,
         Acknowledge
<1>4. CASE EnqueuePublish(d)
  <2>1. UNCHANGED <<row, fresh>> /\ delivery'[d].pc = "queued"
    BY <1>1, <1>4 DEF EnqueuePublish, Step, item, DeliveryRecord
  <2> QED
    BY <1>2, <1>3, <2>1 DEF CopiesCurrent, Dispatching
<1>5. CASE StartDelivery(d)
  <2>1. /\ UNCHANGED row /\ fresh' = fresh \cup {d}
        /\ delivery'[d].pc = "loaded" /\ delivery'[d].view = row
    BY <1>1, <1>5 DEF StartDelivery, Load, DeliveryRecord
  <2> QED
    BY <1>1, <1>2, <1>3, <2>1 DEF CopiesCurrent, Dispatching
<1>6. CASE \/ IgnoreDelivery(d) \/ RaiseConflict(d) \/ LoseAttempt(d) \/ Retry(d) \/ WorkerLost(d)
  <2>1. UNCHANGED row /\ fresh' \subseteq fresh
    BY <1>6
       DEF IgnoreDelivery, RaiseConflict, LoseAttempt, Retry, WorkerLost, Forget, item
  <2>2. delivery'[d].pc \in {"idle", "queued"}
    <3>1. IgnoreDelivery(d) \/ RaiseConflict(d) \/ LoseAttempt(d) => delivery'[d].pc = "idle"
      BY <1>1, IdlePc DEF IgnoreDelivery, RaiseConflict, LoseAttempt, Acknowledge
    <3>2. Retry(d) => delivery'[d].pc = "queued"
      BY <1>1, IdlePc DEF Retry, DeliveryRecord
    <3>3. WorkerLost(d) => delivery'[d].pc = "queued"
      BY <1>1, IdlePc DEF WorkerLost, DeliveryRecord
    <3> QED
      BY <1>6, <3>1, <3>2, <3>3
  <2> QED
    BY <1>2, <1>3, <2>1, <2>2 DEF CopiesCurrent, Dispatching
<1>7. CASE RecheckApproval(d) \/ ResumeDispatch(d)
  <2>1. /\ UNCHANGED <<row, fresh>> /\ old.pc = "loaded"
        /\ \/ old.view = "scheduled" /\ delivery'[d].pc \in {"stale", "approved"}
           \/ old.view = "publishing" /\ delivery'[d].pc = "resolved"
    BY <1>1, <1>7 DEF RecheckApproval, ResumeDispatch, Step, item, DeliveryRecord
  <2> QED
    BY <1>2, <1>3, <2>1 DEF CopiesCurrent, Dispatching
<1>8. CASE ReuseSuccess(d) \/ Publish(d) \/ NumberAttempt(d) \/ RecordAttempt(d)
  <2>1. /\ UNCHANGED <<row, fresh>>
        /\ old.pc \in Dispatching /\ delivery'[d].pc \in Dispatching
    BY <1>1, <1>8
       DEF ReuseSuccess, Publish, NumberAttempt, RecordAttempt, Step, item, DeliveryRecord,
           Dispatching
  <2> QED
    BY <1>2, <1>3, <2>1 DEF CopiesCurrent, Dispatching
<1>9. CASE StartDispatch(d)
  <2>1. /\ row' = "publishing" /\ fresh' = {d} /\ old.pc = "approved"
        /\ serial' = (serial /\ {d} \subseteq fresh)
        /\ delivery'[d].pc = "resolved"
    BY <1>1, <1>9 DEF StartDispatch, Write, DeliveryRecord
  <2>2. CopiesCurrent'
    BY <1>1, <1>2, <2>1 DEF CopiesCurrent, Dispatching
  <2>3. serial' => row = "scheduled"
    BY <2>1 DEF CopiesCurrent
  <2> QED
    BY <2>1, <2>2, <2>3, Matrix DEF LegalMove
<1>10. CASE ExpireStaleApproval(d) \/ BlockItem(d) \/ CompletePublication(d)
  <2>1. fresh' = {} /\ serial' = (serial /\ {d} \subseteq fresh)
    BY <1>10
       DEF ExpireStaleApproval, BlockItem, CompletePublication, MovePinned, MoveUnpinned, Move,
           Write
  <2>2. \/ old.pc = "stale" /\ row' = "approval_expired"
        \/ old.pc \in {"failed", "succeeded"} /\ row' \in {"blocked", "published"}
    BY <1>10
       DEF ExpireStaleApproval, BlockItem, CompletePublication, MovePinned, MoveUnpinned, Move,
           Write
  <2>3. serial' => row = IF old.pc = "stale" THEN "scheduled" ELSE "publishing"
    BY <2>1, <2>2 DEF CopiesCurrent, Dispatching
  <2> QED
    BY <1>1, <1>2, <2>1, <2>2, <2>3, Matrix, MovedAway DEF LegalMove
<1> QED
  BY <1>4, <1>5, <1>6, <1>7, <1>8, <1>9, <1>10 DEF Work

\* For any number of reviewers, operators, QA runs and deliveries: as long as no stale copy
\* was written, the item moves along the transitions that WorkflowService.transition
\* allows (workflow/service.py), although the requests, runs and deliveries decide on a
\* move in one step and make it in a later one; BLOCKED is entered from PUBLISHING only,
\* and so an exit to PUBLISHING is the resume the history derives.
THEOREM PublicationMovesLegally == Spec => SerialMovesAreLegal
<1>1. Init => CopiesCurrent
  BY DEF Init, CopiesCurrent, NoRequest
<1>2. Inv /\ CopiesCurrent /\ [Next]_vars =>
        CopiesCurrent' /\ [serial' /\ row' # row => LegalMove]_vars
  <2> SUFFICES ASSUME Inv, CopiesCurrent, [Next]_vars
               PROVE  CopiesCurrent' /\ (serial' /\ row' # row => LegalMove)
    OBVIOUS
  <2>1. CASE Assemble
    BY <2>1, CopiesUntouched DEF Assemble, item, editorial, dispatch
  <2>2. CASE UNCHANGED vars
    BY <2>2, CopiesUntouched DEF vars, item, editorial, dispatch
  <2> QED
    BY <2>1, <2>2, EditorialIsLegal, DecideIsLegal, OperateIsLegal, DeliveryIsLegal DEF Next
<1> QED
  BY <1>1, <1>2, InitInv, NextKeepsInv, PTL DEF Spec, SerialMovesAreLegal
=============================================================================

------------------------ MODULE EditorialStagesProofs -----------------------
(***************************************************************************)
(* What holds of EditorialStages for any messages, texts, media needs and  *)
(* bounds.                                                                 *)
(***************************************************************************)
EXTENDS EditorialStages, FiniteFacts

-----------------------------------------------------------------------------
(* Types.                                                                   *)

ReworkTargets == {"drafting", "editing", "qa_review"}
StageStates == ReworkTargets \cup {"changes_requested", "awaiting_human_review"}

EntryRecords ==
  [drafting : BOOLEAN, editing : Nat, qa_review : [draft : Nat, review : Nat], human : Nat,
   rework : [responsible : ReworkTargets \cup {None}, review : Nat]]

TaskStates == {"idle", "queued", "calling", "drafted", "dispatching", "reported"}

TaskRecords == [pc : TaskStates, retry : Nat, retries : 0..MaxRetries, reason : BOOLEAN,
                subject : Nat \cup Need, result : Nat]

\* What the autopilot can have planned in these stages.
StageActions ==
  {Enqueue(name) : name \in {"generate_draft", "rewrite", "generate_review", "run_qa", "generate_image"}}
    \cup {Command(name) : name \in {"accept_review", "request_rework", "resolve_changes"}}

RequestRecords == [pc : {"idle", "submitted", "accepting", "media"}, draft : Nat, review : Nat]

ItemTyped ==
  /\ row \in StageStates /\ entry \in EntryRecords /\ cycles \in Nat /\ serial \in BOOLEAN
  /\ fresh \subseteq Message \cup Sweep

ArtifactsTyped ==
  /\ drafts \in Seq(ContentDraft) /\ reviews \in Seq(EditorialReview) /\ reports \in Seq(QaReport)
  /\ attempts \in [GenerationPurpose -> Seq(AiGenerationAttempt)]

RestTyped ==
  /\ bound \subseteq Need /\ candidate \subseteq Need
  /\ task \in [Message -> TaskRecords]
  /\ step = [a \in Sweep |-> step[a]]
  /\ \A a \in Sweep : step[a].pc = "planned" => step[a].action \in StageActions
  /\ request \in RequestRecords
  /\ commands \in Nat /\ spent \in 0..Budget

StageTypes == ItemTyped /\ ArtifactsTyped /\ RestTyped

\* Where a message of each kind can be, and what an image is about.
KindsTyped ==
  /\ \A w \in Writer : task[w].pc # "reported"
  /\ \A e \in Editor : task[e].pc \in {"idle", "queued", "calling"}
  /\ \A i \in Image : task[i].pc \in {"idle", "queued", "calling"}
  /\ \A q \in QaRun : task[q].pc \in {"idle", "queued", "reported"}
  /\ \A i \in Image : task[i].pc # "idle" => task[i].subject \in Need

-----------------------------------------------------------------------------
(* References from one table to another, which only grow.                   *)

EntryRefers ==
  /\ entry.editing \in 0..Len(drafts) /\ entry.human \in 0..Len(reports)
  /\ entry.qa_review.draft \in 0..Len(drafts) /\ entry.qa_review.review \in 0..Len(reviews)
  /\ entry.rework.review \in 0..Len(reviews)
  /\ row = "changes_requested" => entry.rework.responsible # None

ArtifactsRefer ==
  /\ \A d \in DOMAIN drafts : drafts[d].attempt \in DOMAIN attempts["writer"] \cup {0}
  /\ \A r \in DOMAIN reviews : /\ reviews[r].draft \in DOMAIN drafts
                               /\ reviews[r].attempt \in DOMAIN attempts["editor"]
  /\ \A r \in DOMAIN reports : /\ reports[r].draft \in DOMAIN drafts
                               /\ reports[r].review \in DOMAIN reviews

HoldersRefer ==
  /\ \A w \in Writer : task[w].pc = "drafted" => task[w].result \in DOMAIN drafts
  /\ \A q \in QaRun : task[q].pc = "reported" => task[q].result \in DOMAIN reports
  /\ request.draft \in 0..Len(drafts) /\ request.review \in 0..Len(reviews)
  /\ \A a \in Sweep : step[a].pc = "planned" /\ step[a].action = Command("resolve_changes") =>
                        entry.rework.responsible # None

TypeInv == StageTypes /\ KindsTyped /\ EntryRefers /\ ArtifactsRefer /\ HoldersRefer

-----------------------------------------------------------------------------
(* One attempt per identity.                                                *)

Purpose(m) == IF m \in Writer THEN "writer" ELSE IF m \in Editor THEN "editor" ELSE "image"

Holding(m) == task[m].pc \notin {"idle", "queued"}

LockHeldOnce ==
  \A m, k \in Generation :
    /\ Holding(m) /\ Holding(k) /\ Purpose(m) = Purpose(k)
    /\ m \in Image => task[m].subject = task[k].subject
    => m = k

CallsAreNew ==
  \A m \in Generation : task[m].pc = "calling" =>
    Stored(Purpose(m), task[m].subject, task[m].retry + task[m].retries) = {}

CallInv == LockHeldOnce /\ CallsAreNew /\ OneAttemptPerIdentity

-----------------------------------------------------------------------------
(* What a fresh copy still says of the item.                                *)

\* A writer that holds a fresh copy works for the DRAFTING it was loaded in.
WriterIsCurrent(w) ==
  /\ row = "drafting"
  /\ task[w].pc = "calling" => task[w].subject = ReworkReview
  /\ task[w].pc = "drafted" /\ ReworkReview # 0 => task[w].result > reviews[ReworkReview].draft

\* A report that is to go on is over the ACTIVE draft and review.
ReportIsCurrent(r) == reports[r].draft = ActiveDraft /\ reports[r].review = ActiveReview

FreshWriters == \A w \in Writer \cap fresh : WriterIsCurrent(w)

FreshReports ==
  serial =>
    /\ \A q \in QaRun \cap fresh :
         task[q].pc = "reported" /\ row = "qa_review" /\ ReportIsCurrent(task[q].result)
    /\ row = "awaiting_human_review" => entry.human # 0 /\ ReportIsCurrent(entry.human)

FreshSteps ==
  \A a \in Sweep \cap fresh :
    /\ step[a].pc = "planned"
    /\ step[a].action = Command("resolve_changes") => row = "changes_requested"
    /\ step[a].action = Command("request_rework") => cycles < MAX_REWORK_CYCLES

ReportsAreReviewed ==
  /\ \A r \in DOMAIN reports : /\ Passes(reports[r].review)
                               /\ reviews[reports[r].review].draft = reports[r].draft
  /\ \A q \in QaRun : task[q].pc = "reported" => reports[task[q].result].ready
  /\ entry.human # 0 => reports[entry.human].ready
  /\ row = "awaiting_human_review" => entry.human # 0

\* A draft written in answer to a review is newer than the reviewed one.
AnswersAreNewer ==
  \A d \in DOMAIN drafts :
    /\ drafts[d].attempt # 0 => drafts[d].body = None
    /\ LET a == drafts[d].attempt IN
       a # 0 /\ attempts["writer"][a].subject # 0 =>
         /\ attempts["writer"][a].subject \in DOMAIN reviews
         /\ reviews[attempts["writer"][a].subject].draft < d

WriterSubjects ==
  /\ \A w \in Writer : task[w].pc = "calling" => task[w].subject \in {0} \cup DOMAIN reviews
  /\ request.pc = "submitted" => request.draft # 0 /\ drafts[request.draft].body # None

-----------------------------------------------------------------------------
(* What a step can do to the messages and to the attempts.                  *)

Idles(m) == Put(m, NoTask)

Queues(m) ==
  \E t \in TaskRecords : t.pc = "queued" /\ (m \in Image => t.subject \in Need) /\ Put(m, t)

Asks(m) ==
  /\ m \in Generation /\ task[m].pc = "queued" /\ ~Locked(m) /\ ~BudgetSpent
  /\ \E t \in TaskRecords :
       /\ t.pc = "calling" /\ Put(m, t)
       /\ m \in Image => t.subject = task[m].subject
       /\ m \in Writer => row = "drafting" /\ t.subject = ReworkReview
       /\ Stored(Purpose(m), t.subject, t.retry + t.retries) = {}

\* The draft a writer goes on with: the one it has just written, or the one
\* stored for the same rework.
DraftOfWriter(w, d) ==
  /\ d \in DOMAIN drafts'
  /\ \/ d = Len(drafts) + 1 /\ UNCHANGED <<row, fresh>>
     \/ row = "drafting" /\ \E n : \E i \in Stored("writer", ReworkReview, n) : d \in DraftOf(i)

\* A writer has its draft, or has nothing left to do but to dispatch.
HasDraft(w) ==
  /\ w \in Writer /\ (Holding(w) \/ ~Locked(w))
  /\ \E t \in TaskRecords : /\ t.pc \in {"drafted", "dispatching"} /\ Put(w, t)
                            /\ t.pc = "drafted" => DraftOfWriter(w, t.result)

HasReport(q) ==
  /\ q \in QaRun
  /\ \E t \in TaskRecords : /\ t.pc = "reported" /\ Put(q, t)
                            /\ t.result \in DOMAIN reports' /\ reports'[t.result].ready

HandsOver(w, e) ==
  /\ w \in Writer /\ e \in Editor
  /\ task' = [task EXCEPT ![w] = NoTask, ![e] = Queued(0)]

\* The answer to a call is recorded, and the call is over.
Records(m, status) ==
  /\ m \in Generation /\ task[m].pc = "calling"
  /\ attempts' = [attempts EXCEPT ![Purpose(m)] =
       Append(@, [subject |-> task[m].subject, retry |-> task[m].retry + task[m].retries, status |-> status])]
  /\ Idles(m) \/ Queues(m) \/ HasDraft(m)

\* A report is given up by the transition it is for, or with its worker.
KeepsReport(m) == m \in QaRun /\ task[m].pc = "reported" => m \notin fresh'

TaskStep ==
  \/ UNCHANGED <<task, attempts>>
  \/ /\ UNCHANGED attempts
     /\ \/ \E m \in Message : /\ Idles(m) \/ Queues(m) \/ Asks(m) \/ HasDraft(m) \/ HasReport(m)
                              /\ KeepsReport(m)
        \/ \E w \in Writer, e \in Editor : HandsOver(w, e)
  \/ \E m \in Generation, status \in GenerationStatus : Records(m, status)

LEMMA Kinds ==
  /\ \A w \in Writer : w \in Message /\ w \in Generation /\ Purpose(w) = "writer" /\ w \notin Image
  /\ \A e \in Editor : e \in Message /\ e \in Generation /\ Purpose(e) = "editor" /\ e \notin Image
  /\ \A i \in Image : i \in Message /\ i \in Generation /\ Purpose(i) = "image"
  /\ \A q \in QaRun : q \in Message /\ q \notin Image /\ q \notin Generation
  /\ \A m \in Generation : m \in Message /\ Purpose(m) \in GenerationPurpose
BY StageMessages DEF Message, Generation, Purpose, GenerationPurpose

LEMMA QueuedTyped ==
  ASSUME NEW n \in Nat, NEW reason \in BOOLEAN, NEW subject \in Nat \cup Need
  PROVE  /\ NoTask \in TaskRecords /\ NoTask.pc = "idle"
         /\ Queued(n) \in TaskRecords /\ Queued(n).pc = "queued"
         /\ [Queued(n) EXCEPT !.reason = reason] \in TaskRecords
         /\ [Queued(n) EXCEPT !.reason = reason].pc = "queued"
         /\ [Queued(n) EXCEPT !.subject = subject] \in TaskRecords
         /\ [Queued(n) EXCEPT !.subject = subject].pc = "queued"
         /\ [Queued(n) EXCEPT !.subject = subject].subject = subject
<1>1. 0 \in 0..MaxRetries
  BY StageBounds
<1> QED
  BY <1>1 DEF NoTask, Queued, TaskRecords, TaskStates

\* Put on a message of its own.
LEMMA SendQueues ==
  ASSUME NEW kind, kind \subseteq Message, NEW t \in TaskRecords, t.pc = "queued",
         kind \cap Image # {} => t.subject \in Need, Send(kind, t)
  PROVE  \E m \in Message : Queues(m) /\ KeepsReport(m)
BY DEF Send, Queues, KeepsReport

\* A failure is asked for again, or is the end.
LEMMA RetryEffect ==
  ASSUME TypeInv, NEW m \in Generation, NEW status, RetryOrFinish(m, status),
         m \in Image => task[m].pc # "idle"
  PROVE  Idles(m) \/ Queues(m)
<1>1. task[m] \in TaskRecords
  BY Kinds DEF TypeInv, StageTypes, RestTyped
<1>2. CASE Retryable(status) /\ MayRetry(m)
  <2> DEFINE t == [task[m] EXCEPT !.pc = "queued", !.retries = @ + 1,
                                  !.subject = IF m \in Image THEN @ ELSE 0]
  <2>1. task[m].retries + 1 \in 0..MaxRetries
    BY <1>1, <1>2, StageBounds DEF MayRetry, TaskRecords
  <2>2. t \in TaskRecords /\ t.pc = "queued" /\ (m \in Image => t.subject = task[m].subject)
    BY <1>1, <2>1 DEF TaskRecords, TaskStates
  <2>3. m \in Image => task[m].subject \in Need
    BY DEF TypeInv, KindsTyped
  <2>4. Put(m, t)
    BY <1>2 DEF RetryOrFinish
  <2> QED
    BY <2>2, <2>3, <2>4 DEF Queues
<1> QED
  BY <1>2 DEF RetryOrFinish, Finish, Idles

LEMMA RecordPut ==
  ASSUME NEW m, NEW status, m \in Generation, AddAttempt(Purpose(m), task[m], status),
         task[m].pc = "calling", Idles(m) \/ Queues(m) \/ HasDraft(m)
  PROVE  Records(m, status)
BY DEF AddAttempt, Records

\* The retry number the autopilot asks for.
LEMMA RetryNumber ==
  ASSUME TypeInv, NEW purpose \in GenerationPurpose
  PROVE  NextRetryNumber(purpose) \in Nat
<1> DEFINE rows == attempts[purpose]
           f == [i \in DOMAIN rows |-> rows[i].retry]
           used == {f[i] : i \in DOMAIN rows}
           top == CHOOSE n \in used : \A m \in used : m <= n
<1>1. rows \in Seq(AiGenerationAttempt)
  BY DEF TypeInv, StageTypes, ArtifactsTyped
<1>2. f \in [DOMAIN rows -> Nat]
  <2>1. \A i \in DOMAIN rows : rows[i] \in AiGenerationAttempt
    <3> HIDE DEF rows
    <3> QED
      BY <1>1
  <2>2. \A i \in DOMAIN rows : rows[i].retry \in Nat
    BY <2>1 DEF AiGenerationAttempt
  <2> QED
    BY <2>2
<1>3. used # {} => top \in Nat
  <2> HIDE DEF f, rows
  <2> QED
    BY <1>1, <1>2, ColumnIsFinite
<1>4. used = {attempts[purpose][i].retry : i \in DOMAIN attempts[purpose]}
  OBVIOUS
<1>5. NextRetryNumber(purpose) = IF used = {} THEN 0 ELSE 1 + top
  <2> HIDE DEF used
  <2> QED
    BY <1>4 DEF NextRetryNumber
<1> HIDE DEF used, top
<1> QED
  BY <1>3, <1>5

LEMMA GuardEffect ==
  ASSUME NEW m \in Generation, GuardStep(m)
  PROVE  TaskStep
BY Kinds DEF GuardStep, DuplicateInFlight, BudgetRefused, Finish, Idles, KeepsReport, TaskStep

\* The two ways a draft is added.
LEMMA AddedDraft ==
  ASSUME TypeInv, NEW attempt \in Nat, NEW body \in Body \cup {None}, AddDraft(attempt, body)
  PROVE  LET new == [attempt |-> attempt, body |-> body] IN
         /\ new \in ContentDraft /\ drafts' \in Seq(ContentDraft) /\ Extends(drafts', drafts)
         /\ drafts' = Append(drafts, new)
         /\ Len(drafts) \in Nat /\ Len(drafts') = Len(drafts) + 1
         /\ DOMAIN drafts = 1..Len(drafts) /\ DOMAIN drafts' = 1..Len(drafts) + 1
         /\ drafts'[Len(drafts) + 1] = new
         /\ \A d \in DOMAIN drafts' :
              d \in DOMAIN drafts \/ (d = Len(drafts) + 1 /\ drafts'[d].attempt = attempt /\ drafts'[d].body = body)
<1> DEFINE new == [attempt |-> attempt, body |-> body]
<1>1. new \in ContentDraft /\ drafts \in Seq(ContentDraft) /\ drafts' = Append(drafts, new)
  BY DEF ContentDraft, TypeInv, StageTypes, ArtifactsTyped, AddDraft
<1>2. new.attempt = attempt /\ new.body = body
  OBVIOUS
<1> HIDE DEF new
<1>3. /\ Append(drafts, new) \in Seq(ContentDraft) /\ Len(drafts) \in Nat
      /\ Len(Append(drafts, new)) = Len(drafts) + 1
      /\ Append(drafts, new)[Len(drafts) + 1] = new
      /\ DOMAIN drafts = 1..Len(drafts) /\ DOMAIN Append(drafts, new) = 1..(Len(drafts) + 1)
      /\ Extends(Append(drafts, new), drafts)
  BY <1>1, AppendExtends
<1>4. \A d \in DOMAIN drafts' : d \in DOMAIN drafts \/ (d = Len(drafts) + 1 /\ drafts'[d] = new)
  BY <1>1, <1>3
<1> QED
  BY <1>1, <1>2, <1>3, <1>4 DEF new

LEMMA WriterEffect ==
  ASSUME TypeInv, NEW w \in Writer, WriterStep(w)
  PROVE  TaskStep
<1> USE Kinds
<1>1. task[w] \in TaskRecords
  BY DEF TypeInv, StageTypes, RestTyped
<1>2. CASE GuardStep(w)
  BY <1>2, GuardEffect
<1>3. CASE StartWriter(w)
  <2>1. UNCHANGED attempts /\ task[w].pc = "queued" /\ ~Locked(w)
    BY <1>3 DEF StartWriter
  <2>8. UNCHANGED drafts
    BY <1>3 DEF StartWriter, artifacts
  <2>2. ASSUME row = "editing", Put(w, [task[w] EXCEPT !.pc = "dispatching"])
        PROVE  HasDraft(w)
    <3>1. [task[w] EXCEPT !.pc = "dispatching"] \in TaskRecords
          /\ [task[w] EXCEPT !.pc = "dispatching"].pc = "dispatching"
      BY <1>1 DEF TaskRecords, TaskStates
    <3> QED
      BY <1>1, <2>1, <2>2, <3>1 DEF HasDraft
  <2>3. ASSUME ReworkReview \in Nat,
               Stored("writer", ReworkReview, task[w].retry + task[w].retries) = {},
               Put(w, [task[w] EXCEPT !.pc = "calling", !.subject = ReworkReview]), ~BudgetSpent,
               row = "drafting"
        PROVE  Asks(w)
    <3> DEFINE t == [task[w] EXCEPT !.pc = "calling", !.subject = ReworkReview]
    <3>1. t \in TaskRecords /\ t.pc = "calling" /\ t.subject = ReworkReview
          /\ t.retry = task[w].retry /\ t.retries = task[w].retries
      BY <1>1, <2>3 DEF TaskRecords, TaskStates
    <3> QED
      BY <2>1, <2>3, <3>1 DEF Asks
  <2>4. ASSUME NEW n, NEW i \in Stored("writer", ReworkReview, n), NEW d \in DraftOf(i),
               row = "drafting", Put(w, [task[w] EXCEPT !.pc = "drafted", !.result = d])
        PROVE  HasDraft(w)
    <3>1. d \in Nat /\ d \in DOMAIN drafts
      BY DEF TypeInv, StageTypes, ArtifactsTyped, DraftOf
    <3>3. DraftOfWriter(w, d)
      BY <2>4, <2>8, <3>1 DEF DraftOfWriter
    <3>2. [task[w] EXCEPT !.pc = "drafted", !.result = d] \in TaskRecords
          /\ [task[w] EXCEPT !.pc = "drafted", !.result = d].pc = "drafted"
          /\ [task[w] EXCEPT !.pc = "drafted", !.result = d].result = d
      BY <1>1, <3>1 DEF TaskRecords, TaskStates
    <3> QED
      BY <2>1, <2>4, <3>2, <3>3 DEF HasDraft
  <2>5. ReworkReview \in Nat
    BY DEF ReworkReview, TypeInv, StageTypes, ItemTyped, EntryRecords
  <2>6. ASSUME NEW status, RetryOrFinish(w, status)
        PROVE  Idles(w) \/ Queues(w)
    BY <2>6, RetryEffect
  <2>7. Idles(w) \/ Queues(w) \/ Asks(w) \/ HasDraft(w)
    BY <1>3, <2>2, <2>3, <2>4, <2>5, <2>6 DEF StartWriter, Finish, Idles
  <2> QED
    BY <2>1, <2>7 DEF TaskStep, KeepsReport
<1>4. ASSUME NEW status \in GenerationStatus, WriterAnswered(w, status)
      PROVE  TaskStep
  <2>1. task[w].pc = "calling" /\ AddAttempt("writer", task[w], status)
    BY <1>4 DEF WriterAnswered
  <2>2. ASSUME Put(w, [task[w] EXCEPT !.pc = "drafted", !.result = Len(drafts) + 1]),
               AddDraft(Len(attempts["writer"]) + 1, None), UNCHANGED <<row, fresh>>
        PROVE  HasDraft(w)
    <3>1. Len(drafts) + 1 \in Nat
      BY DEF TypeInv, StageTypes, ArtifactsTyped
    <3>2. [task[w] EXCEPT !.pc = "drafted", !.result = Len(drafts) + 1] \in TaskRecords
          /\ [task[w] EXCEPT !.pc = "drafted", !.result = Len(drafts) + 1].pc = "drafted"
          /\ [task[w] EXCEPT !.pc = "drafted", !.result = Len(drafts) + 1].result = Len(drafts) + 1
      BY <1>1, <3>1 DEF TaskRecords, TaskStates
    <3>3. Len(drafts) + 1 \in DOMAIN drafts'
      <4>1. attempts["writer"] \in Seq(AiGenerationAttempt)
        BY DEF TypeInv, StageTypes, ArtifactsTyped, GenerationPurpose
      <4>2. Len(attempts["writer"]) + 1 \in Nat
        BY <4>1
      <4>3. DOMAIN drafts' = 1..Len(drafts) + 1 /\ Len(drafts) \in Nat
        BY <2>2, <4>2, AddedDraft
      <4> QED
        BY <4>3
    <3> QED
      BY <2>1, <2>2, <3>2, <3>3 DEF HasDraft, Holding, DraftOfWriter
  <2>3. Idles(w) \/ Queues(w) \/ HasDraft(w)
    BY <1>4, <2>2, RetryEffect DEF WriterAnswered
  <2> QED
    BY <2>1, <2>3, RecordPut DEF TaskStep
<1>5. CASE WriterAdvances(w)
  <2>1. [task[w] EXCEPT !.pc = "dispatching"] \in TaskRecords
        /\ [task[w] EXCEPT !.pc = "dispatching"].pc = "dispatching"
    BY <1>1 DEF TaskRecords, TaskStates
  <2>2. HasDraft(w) /\ UNCHANGED attempts
    BY <1>5, <2>1 DEF WriterAdvances, HasDraft, Holding
  <2> QED
    BY <2>2 DEF TaskStep, KeepsReport
<1>6. CASE WriterDispatches(w)
  BY <1>6 DEF WriterDispatches, TaskStep, HandsOver
<1> QED
  BY <1>2, <1>3, <1>4, <1>5, <1>6 DEF WriterStep

LEMMA EditorEffect ==
  ASSUME TypeInv, NEW e \in Editor, EditorStep(e)
  PROVE  TaskStep
<1> USE Kinds
<1>1. task[e] \in TaskRecords /\ ActiveDraft \in Nat
  BY DEF TypeInv, StageTypes, RestTyped, ArtifactsTyped, ActiveDraft
<1>2. CASE GuardStep(e)
  BY <1>2, GuardEffect
<1>3. CASE StartEditor(e)
  <2>1. UNCHANGED attempts /\ task[e].pc = "queued" /\ ~Locked(e) /\ ~BudgetSpent
    BY <1>3 DEF StartEditor
  <2>2. ASSUME Stored("editor", ActiveDraft, task[e].retry + task[e].retries) = {},
               Put(e, [task[e] EXCEPT !.pc = "calling", !.subject = ActiveDraft])
        PROVE  Asks(e)
    <3> DEFINE t == [task[e] EXCEPT !.pc = "calling", !.subject = ActiveDraft]
    <3>1. t \in TaskRecords /\ t.pc = "calling" /\ t.subject = ActiveDraft
          /\ t.retry = task[e].retry /\ t.retries = task[e].retries
      BY <1>1 DEF TaskRecords, TaskStates
    <3> QED
      BY <2>1, <2>2, <3>1 DEF Asks
  <2>3. ASSUME NEW status, RetryOrFinish(e, status)
        PROVE  Idles(e) \/ Queues(e)
    BY <2>3, RetryEffect
  <2>4. Idles(e) \/ Queues(e) \/ Asks(e)
    BY <1>3, <2>2, <2>3 DEF StartEditor, Finish, Idles
  <2> QED
    BY <2>1, <2>4 DEF TaskStep, KeepsReport
<1>4. ASSUME NEW status \in GenerationStatus, EditorFailed(e, status)
      PROVE  TaskStep
  <2>1. task[e].pc = "calling" /\ AddAttempt("editor", task[e], status)
        /\ RetryOrFinish(e, status)
    BY <1>4 DEF EditorFailed
  <2> QED
    BY <2>1, RecordPut, RetryEffect DEF TaskStep
<1>5. ASSUME NEW verdict \in ReviewVerdict, EditorAnswered(e, verdict)
      PROVE  TaskStep
  <2>1. task[e].pc = "calling" /\ Idles(e)
        /\ (UNCHANGED attempts \/ AddAttempt("editor", task[e], "succeeded"))
    BY <1>5 DEF EditorAnswered, Finish, Idles
  <2> QED
    BY <2>1, RecordPut DEF TaskStep, KeepsReport, GenerationStatus
<1> QED
  BY <1>2, <1>3, <1>4, <1>5 DEF EditorStep

LEMMA ReportTyped ==
  ASSUME TypeInv, NEW ready \in BOOLEAN
  PROVE  [draft |-> ActiveDraft, review |-> ActiveReview, media |-> MediaResult,
          ready |-> ready] \in QaReport
<1>1. ActiveDraft \in Nat /\ ActiveReview \in Nat
  BY DEF TypeInv, StageTypes, ArtifactsTyped, ActiveDraft, ActiveReview
<1>2. MediaResult \in MediaOutcome
  BY DEF MediaResult, MediaOutcome
<1> QED
  BY <1>1, <1>2 DEF QaReport

\* Whatever was stored before, the persisted report is the ACTIVE one.
LEMMA PersistedReport ==
  ASSUME TypeInv, NEW report \in QaReport, reports' = Persisted(report)
  PROVE  /\ reports' \in Seq(QaReport) /\ Extends(reports', reports)
         /\ Len(reports') \in Nat /\ Len(reports') \in DOMAIN reports'
         /\ reports'[Len(reports')] = report
         /\ \A r \in DOMAIN reports' : r \in DOMAIN reports \/ reports'[r] = report
<1>1. reports \in Seq(QaReport)
  BY DEF TypeInv, StageTypes, ArtifactsTyped
<1>2. CASE reports # <<>> /\ reports[ActiveReport] = report
  <2>1. reports' = reports /\ Len(reports) \in Nat /\ Len(reports) \in DOMAIN reports
    BY <1>1, <1>2 DEF Persisted
  <2> QED
    BY <1>1, <1>2, <2>1, SameExtends DEF ActiveReport
<1>3. CASE ~(reports # <<>> /\ reports[ActiveReport] = report)
  <2>1. reports' = Append(reports, report)
    BY <1>3 DEF Persisted
  <2>2. /\ Append(reports, report) \in Seq(QaReport)
        /\ Len(Append(reports, report)) = Len(reports) + 1
        /\ Append(reports, report)[Len(reports) + 1] = report
        /\ DOMAIN reports = 1..Len(reports) /\ Len(reports) \in Nat
        /\ DOMAIN Append(reports, report) = 1..(Len(reports) + 1)
        /\ Extends(Append(reports, report), reports)
    BY <1>1, AppendExtends
  <2> QED
    BY <2>1, <2>2
<1> QED
  BY <1>2, <1>3

LEMMA QaEffect ==
  ASSUME TypeInv, NEW q \in QaRun, QaStep(q)
  PROVE  TaskStep
<1> USE Kinds
<1>1. task[q] \in TaskRecords
  BY DEF TypeInv, StageTypes, RestTyped
<1>2. ASSUME NEW ok \in BOOLEAN, RunGates(q, ok)
      PROVE  (Idles(q) \/ HasReport(q)) /\ KeepsReport(q)
  <2> DEFINE report == [draft |-> ActiveDraft, review |-> ActiveReview, media |-> MediaResult,
                        ready |-> ok /\ MediaResult # "unsatisfied"]
             t == [task[q] EXCEPT !.pc = "reported", !.result = Len(reports')]
  <2>1. ASSUME reports' = Persisted(report), GoesOn(report), Put(q, t)
        PROVE  HasReport(q)
    <3>1. report \in QaReport
      BY ReportTyped
    <3>2. Len(reports') \in Nat /\ Len(reports') \in DOMAIN reports' /\ reports'[Len(reports')] = report
      <4> HIDE DEF report
      <4> QED
        BY <2>1, <3>1, PersistedReport
    <3>3. t \in TaskRecords /\ t.pc = "reported" /\ t.result = Len(reports')
      BY <1>1, <3>2 DEF TaskRecords, TaskStates
    <3>4. reports'[t.result].ready
      BY <2>1, <3>2, <3>3 DEF GoesOn
    <3> QED
      BY <2>1, <3>2, <3>3, <3>4 DEF HasReport
  <2> QED
    BY <1>2, <2>1 DEF RunGates, Finish, Idles, KeepsReport
<1>3. QaAdvances(q) => Idles(q) /\ KeepsReport(q)
  BY DEF QaAdvances, Finish, Idles, Move, KeepsReport
<1>4. UNCHANGED attempts
  BY DEF QaStep, RunGates, QaAdvances
<1> QED
  BY <1>2, <1>3, <1>4 DEF QaStep, TaskStep

LEMMA ImageEffect ==
  ASSUME TypeInv, NEW i \in Image, ImageStep(i)
  PROVE  TaskStep
<1> USE Kinds
<1>1. task[i] \in TaskRecords
  BY DEF TypeInv, StageTypes, RestTyped
<1>2. CASE GuardStep(i)
  BY <1>2, GuardEffect
<1>3. CASE StartImage(i)
  <2>1. UNCHANGED attempts /\ task[i].pc = "queued" /\ ~Locked(i) /\ ~BudgetSpent
    BY <1>3 DEF StartImage
  <2>2. ASSUME Stored("image", task[i].subject, task[i].retry + task[i].retries) = {},
               Put(i, [task[i] EXCEPT !.pc = "calling"])
        PROVE  Asks(i)
    <3> DEFINE t == [task[i] EXCEPT !.pc = "calling"]
    <3>1. t \in TaskRecords /\ t.pc = "calling" /\ t.subject = task[i].subject
          /\ t.retry = task[i].retry /\ t.retries = task[i].retries
      BY <1>1 DEF TaskRecords, TaskStates
    <3> QED
      BY <2>1, <2>2, <3>1 DEF Asks
  <2>3. ASSUME NEW status, RetryOrFinish(i, status)
        PROVE  Idles(i) \/ Queues(i)
    BY <2>1, <2>3, RetryEffect
  <2>4. Idles(i) \/ Queues(i) \/ Asks(i)
    BY <1>3, <2>2, <2>3 DEF StartImage, Finish, Idles
  <2> QED
    BY <2>1, <2>4 DEF TaskStep, KeepsReport
<1>4. ASSUME NEW status \in GenerationStatus, ImageAnswered(i, status)
      PROVE  TaskStep
  <2>1. task[i].pc = "calling" /\ AddAttempt("image", task[i], status)
        /\ RetryOrFinish(i, status)
    BY <1>4 DEF ImageAnswered
  <2> QED
    BY <2>1, RecordPut, RetryEffect DEF TaskStep
<1> QED
  BY <1>2, <1>3, <1>4 DEF ImageStep

LEMMA CrashEffect ==
  ASSUME TypeInv, NEW m \in Message, Crash(m) \/ CrashLosesMessage(m)
  PROVE  TaskStep
<1>1. task[m] \in TaskRecords /\ UNCHANGED attempts /\ Holding(m) /\ KeepsReport(m)
  BY DEF TypeInv, StageTypes, RestTyped, Crash, CrashLosesMessage, WorkerDies, Holding, Forget, KeepsReport
<1>2. CASE Crash(m)
  <2> DEFINE t == [task[m] EXCEPT !.pc = "queued", !.result = 0,
                                  !.subject = IF m \in Image THEN @ ELSE 0]
  <2>1. t \in TaskRecords /\ t.pc = "queued" /\ (m \in Image => t.subject = task[m].subject)
    BY <1>1 DEF TaskRecords, TaskStates
  <2>2. m \in Image => task[m].subject \in Need
    BY <1>1 DEF TypeInv, KindsTyped, Holding
  <2>3. Put(m, t)
    BY <1>2 DEF Crash
  <2>4. Queues(m)
    BY <2>1, <2>2, <2>3 DEF Queues
  <2> QED
    BY <1>1, <2>4 DEF TaskStep
<1>3. CASE CrashLosesMessage(m)
  BY <1>1, <1>3 DEF CrashLosesMessage, Finish, Idles, TaskStep
<1> QED
  BY <1>2, <1>3

\* Each kind of message, asked for in the way that kind is.
LEMMA EnqueueEffect ==
  ASSUME UNCHANGED attempts,
         \/ \E n \in Nat, reason \in BOOLEAN, kind \in {Writer, Editor} :
              Send(kind, [Queued(n) EXCEPT !.reason = reason])
         \/ \E n \in Nat, kind \in {Writer, Editor, QaRun} : Send(kind, Queued(n))
         \/ \E n \in Nat, need \in Need : Send(Image, [Queued(n) EXCEPT !.subject = need])
  PROVE  TaskStep
<1> USE StageMessages
<1>1. ASSUME NEW n \in Nat, NEW reason \in BOOLEAN, NEW kind \in {Writer, Editor},
             Send(kind, [Queued(n) EXCEPT !.reason = reason])
      PROVE  \E m \in Message : Queues(m) /\ KeepsReport(m)
  <2>1. kind \subseteq Message /\ kind \cap Image = {}
    BY DEF Message, Generation
  <2> QED
    BY <1>1, <2>1, QueuedTyped, SendQueues
<1>2. ASSUME NEW n \in Nat, NEW kind \in {Writer, Editor, QaRun}, Send(kind, Queued(n))
      PROVE  \E m \in Message : Queues(m) /\ KeepsReport(m)
  <2>1. kind \subseteq Message /\ kind \cap Image = {}
    BY DEF Message, Generation
  <2> QED
    BY <1>2, <2>1, QueuedTyped, SendQueues
<1>3. ASSUME NEW n \in Nat, NEW need \in Need, Send(Image, [Queued(n) EXCEPT !.subject = need])
      PROVE  \E m \in Message : Queues(m) /\ KeepsReport(m)
  <2> DEFINE t == [Queued(n) EXCEPT !.subject = need]
  <2>1. Image \subseteq Message
    BY DEF Message, Generation
  <2>2. t \in TaskRecords /\ t.pc = "queued" /\ t.subject \in Need
    <3>1. 0 \in 0..MaxRetries
      BY StageBounds
    <3> QED
      BY <3>1 DEF Queued, NoTask, TaskRecords, TaskStates
  <2>3. Send(Image, t)
    BY <1>3
  <2> HIDE DEF t
  <2> QED
    BY <2>1, <2>2, <2>3, SendQueues
<1>4. \E m \in Message : Queues(m) /\ KeepsReport(m)
  BY <1>1, <1>2, <1>3
<1> QED
  BY <1>4 DEF TaskStep

LEMMA AutopilotEffect ==
  ASSUME TypeInv, NEW a \in Sweep, AutopilotPlans(a) \/ AutopilotPerforms(a)
  PROVE  TaskStep
<1>1. CASE AutopilotEnqueues(a)
  <2>1. UNCHANGED attempts
    BY <1>1 DEF AutopilotEnqueues
  <2>2. NextRetryNumber("writer") \in Nat /\ NextRetryNumber("editor") \in Nat
        /\ NextRetryNumber("image") \in Nat
    BY RetryNumber DEF GenerationPurpose
  <2>3. step[a].action.name \in {"generate_draft", "rewrite", "generate_review", "run_qa", "generate_image"}
    <3>1. step[a].pc = "planned" /\ step[a].action.kind = "enqueue"
      BY <1>1 DEF AutopilotEnqueues
    <3>2. step[a].action \in StageActions
      BY <3>1 DEF TypeInv, StageTypes, RestTyped
    <3> QED
      BY <3>1, <3>2 DEF StageActions, Enqueue, Command
  <2>4. \/ Send(Writer, Queued(NextRetryNumber("writer")))
        \/ Send(Writer, [Queued(NextRetryNumber("writer")) EXCEPT !.reason = TRUE])
        \/ Send(Editor, Queued(NextRetryNumber("editor")))
        \/ Send(QaRun, Queued(0))
        \/ \E need \in Need : Send(Image, [Queued(NextRetryNumber("image")) EXCEPT !.subject = need])
    BY <1>1, <2>3 DEF AutopilotEnqueues
  <2> QED
    BY <2>1, <2>2, <2>4, EnqueueEffect
<1>2. CASE ~AutopilotEnqueues(a)
  BY <1>2 DEF AutopilotPlans, AutopilotPerforms, AutopilotAcceptsReview, AutopilotRequestsRework,
    AutopilotResolvesChanges, AutopilotFails, Commands, TaskStep
<1> QED
  BY <1>1, <1>2

LEMMA OperatorEffect ==
  ASSUME TypeInv, OperatorStep \/ RequestStep
  PROVE  TaskStep
<1>1. ASSUME NEW retry \in 0..MaxRetry, NEW reason \in BOOLEAN,
             RequestDraft(retry, reason) \/ RequestReview(retry, reason)
      PROVE  TaskStep
  <2>1. retry \in Nat
    BY StageBounds
  <2> QED
    BY <1>1, <2>1, EnqueueEffect DEF RequestDraft, RequestReview
<1>2. CASE RequestQa
  BY <1>2, EnqueueEffect DEF RequestQa
<1>3. ASSUME NEW need \in Need, NEW retry \in 0..MaxRetry, RequestImage(need, retry)
      PROVE  TaskStep
  <2>1. retry \in Nat
    BY StageBounds
  <2> QED
    BY <1>3, <2>1, EnqueueEffect DEF RequestImage
<1>4. CASE AdvanceSubmitted
  <2>1. UNCHANGED attempts /\ (Send(Editor, Queued(0)) \/ UNCHANGED task)
    BY <1>4 DEF AdvanceSubmitted
  <2> QED
    BY <2>1, EnqueueEffect DEF TaskStep
<1>5. CASE AcceptReview
  <2>1. UNCHANGED attempts /\ (Send(QaRun, Queued(0)) \/ UNCHANGED task)
    BY <1>5 DEF AcceptReview
  <2> QED
    BY <2>1, EnqueueEffect DEF TaskStep
<1>6. ASSUME NEW body, NEW reason, SubmitDraft(body, reason)
      PROVE  TaskStep
  BY <1>6 DEF SubmitDraft, TaskStep
<1>7. ASSUME NEW responsible, RequestRework(responsible)
      PROVE  TaskStep
  BY <1>7 DEF RequestRework, TaskStep
<1>8. ASSUME NEW need, BindMedia(need)
      PROVE  TaskStep
  BY <1>8 DEF BindMedia, TaskStep
<1>9. CASE CheckReview \/ ResolveChanges \/ CheckMedia \/ WaiveMediaGate
  BY <1>9 DEF CheckReview, ResolveChanges, CheckMedia, WaiveMediaGate, TaskStep
<1> QED
  BY <1>1, <1>2, <1>3, <1>4, <1>5, <1>6, <1>7, <1>8, <1>9 DEF OperatorStep, RequestStep

\* Whatever happens, at most one message and one attempt change, in these ways.
LEMMA EveryTaskStep ==
  ASSUME TypeInv, [Next]_vars
  PROVE  TaskStep
<1>1. UNCHANGED vars \/ InFlightWindowPasses => TaskStep
  BY DEF vars, InFlightWindowPasses, TaskStep
<1> QED
  BY <1>1, WriterEffect, EditorEffect, QaEffect, ImageEffect, CrashEffect, AutopilotEffect,
    OperatorEffect DEF Next

-----------------------------------------------------------------------------
(* The messages keep their types, and the locks their holders.              *)

\* What m may hold after a step that changes it alone.
Suits(m, t) ==
  /\ t \in TaskRecords
  /\ m \in Writer => t.pc # "reported"
  /\ m \in Editor \cup Image => t.pc \in {"idle", "queued", "calling"}
  /\ m \in QaRun => t.pc \in {"idle", "queued", "reported"}
  /\ m \in Image /\ t.pc # "idle" => t.subject \in Need
  /\ m \in Generation =>
       \/ t.pc \in {"idle", "queued"}
       \/ Holding(m) /\ m \notin Image
       \/ ~Locked(m) /\ (m \in Image => t.subject = task[m].subject)
  /\ t.pc = "calling" =>
       /\ m \in Generation /\ UNCHANGED attempts
       /\ Stored(Purpose(m), t.subject, t.retry + t.retries) = {}

LEMMA PutSuits ==
  ASSUME TypeInv, NEW m \in Message,
         \/ UNCHANGED attempts /\ (Idles(m) \/ Queues(m) \/ Asks(m) \/ HasDraft(m) \/ HasReport(m))
         \/ \E status \in GenerationStatus : Records(m, status)
  PROVE  \E t \in TaskRecords : Suits(m, t) /\ Put(m, t)
<1> USE Kinds, StageMessages DEF Suits
<1>1. CASE Idles(m)
  <2>1. NoTask \in TaskRecords /\ NoTask.pc = "idle"
    BY QueuedTyped
  <2> QED
    BY <1>1, <2>1 DEF Idles
<1>2. CASE Queues(m)
  BY <1>2 DEF Queues
<1>3. CASE UNCHANGED attempts /\ Asks(m)
  <2>1. m \in Image => task[m].subject \in Need
    BY <1>3 DEF Asks, TypeInv, KindsTyped
  <2>2. m \notin QaRun
    BY <1>3 DEF Asks, Generation
  <2> QED
    BY <1>3, <2>1, <2>2 DEF Asks
<1>4. CASE HasDraft(m)
  <2>1. m \in Writer /\ m \in Generation /\ m \notin Editor \cup Image \cup QaRun
    BY <1>4 DEF HasDraft
  <2>2. PICK t \in TaskRecords : t.pc \in {"drafted", "dispatching"} /\ Put(m, t)
    BY <1>4 DEF HasDraft
  <2>3. Holding(m) \/ ~Locked(m)
    BY <1>4 DEF HasDraft
  <2>4. Suits(m, t)
    BY <2>1, <2>2, <2>3
  <2> QED
    BY <2>2, <2>4
<1>5. CASE HasReport(m)
  <2>1. m \notin Generation /\ m \notin Writer \cup Editor \cup Image
    BY <1>5 DEF HasReport, Generation
  <2> QED
    BY <1>5, <2>1 DEF HasReport
<1> QED
  BY <1>1, <1>2, <1>3, <1>4, <1>5 DEF Records

\* One message changes, or one hands over to another.
LEMMA OneMessageChanges ==
  ASSUME TypeInv, TaskStep
  PROVE  \/ UNCHANGED task
         \/ \E m \in Message, t \in TaskRecords : Suits(m, t) /\ Put(m, t)
         \/ \E w \in Writer, e \in Editor : HandsOver(w, e)
BY PutSuits, Kinds DEF TaskStep

LEMMA TasksTyped ==
  ASSUME TypeInv, TaskStep
  PROVE  task' \in [Message -> TaskRecords] /\ KindsTyped'
<1> USE Kinds, StageMessages
<1>1. task \in [Message -> TaskRecords] /\ KindsTyped
  BY DEF TypeInv, StageTypes, RestTyped
<1>2. CASE UNCHANGED task
  BY <1>1, <1>2 DEF KindsTyped
<1>3. ASSUME NEW m \in Message, NEW t \in TaskRecords, Suits(m, t), Put(m, t)
      PROVE  task' \in [Message -> TaskRecords] /\ KindsTyped'
  <2>1. task' = [task EXCEPT ![m] = t]
    BY <1>3 DEF Put
  <2>2. task' \in [Message -> TaskRecords]
    BY <1>1, <2>1
  <2>3. \A k \in Message : task'[k] = IF k = m THEN t ELSE task[k]
    BY <1>1, <2>1
  <2> QED
    BY <1>1, <1>3, <2>2, <2>3 DEF KindsTyped, Suits
<1>4. ASSUME NEW w \in Writer, NEW e \in Editor, HandsOver(w, e)
      PROVE  task' \in [Message -> TaskRecords] /\ KindsTyped'
  <2>1. NoTask \in TaskRecords /\ NoTask.pc = "idle" /\ Queued(0) \in TaskRecords /\ Queued(0).pc = "queued"
    BY QueuedTyped
  <2>2. w # e /\ w \notin Image \cup QaRun /\ e \notin Image \cup QaRun
    OBVIOUS
  <2>3. task' \in [Message -> TaskRecords]
        /\ \A k \in Message : task'[k] = IF k = e THEN Queued(0) ELSE IF k = w THEN NoTask ELSE task[k]
    BY <1>1, <1>4, <2>1, <2>2 DEF HandsOver
  <2> QED
    BY <1>1, <2>1, <2>2, <2>3 DEF KindsTyped
<1> QED
  BY <1>2, <1>3, <1>4, OneMessageChanges

LEMMA AttemptsGrow ==
  ASSUME TypeInv, TaskStep
  PROVE  /\ attempts' \in [GenerationPurpose -> Seq(AiGenerationAttempt)]
         /\ \A purpose \in GenerationPurpose : Extends(attempts'[purpose], attempts[purpose])
<1> USE Kinds
<1>1. attempts \in [GenerationPurpose -> Seq(AiGenerationAttempt)]
  BY DEF TypeInv, StageTypes, ArtifactsTyped
<1>2. CASE UNCHANGED attempts
  BY <1>1, <1>2, SameExtends
<1>3. ASSUME NEW m \in Generation, NEW status \in GenerationStatus, Records(m, status)
      PROVE  /\ attempts' \in [GenerationPurpose -> Seq(AiGenerationAttempt)]
             /\ \A purpose \in GenerationPurpose : Extends(attempts'[purpose], attempts[purpose])
  <2> DEFINE row_ == [subject |-> task[m].subject, retry |-> task[m].retry + task[m].retries, status |-> status]
  <2>1. task[m] \in TaskRecords
    BY DEF TypeInv, StageTypes, RestTyped
  <2>2. task[m].retry \in Nat /\ task[m].retries \in Nat /\ task[m].subject \in Nat \cup Need
    BY <2>1, StageBounds DEF TaskRecords
  <2>3. row_ \in AiGenerationAttempt
    BY <2>2 DEF AiGenerationAttempt
  <2>4. attempts' = [attempts EXCEPT ![Purpose(m)] = Append(@, row_)]
    BY <1>3 DEF Records
  <2> HIDE DEF row_
  <2>5. \A purpose \in GenerationPurpose :
          attempts'[purpose] = IF purpose = Purpose(m) THEN Append(attempts[purpose], row_) ELSE attempts[purpose]
    BY <1>1, <2>4
  <2>6. attempts' \in [GenerationPurpose -> Seq(AiGenerationAttempt)]
    BY <1>1, <2>3, <2>4, AppendExtends
  <2>7. ASSUME NEW purpose \in GenerationPurpose
        PROVE  Extends(attempts'[purpose], attempts[purpose])
    <3> DEFINE rows == attempts[purpose]
    <3>1. rows \in Seq(AiGenerationAttempt)
          /\ (attempts'[purpose] = Append(rows, row_) \/ attempts'[purpose] = rows)
      BY <1>1, <2>5
    <3> HIDE DEF rows
    <3>2. Extends(Append(rows, row_), rows) /\ Extends(rows, rows)
      BY <2>3, <3>1, AppendExtends
    <3> QED
      BY <3>1, <3>2 DEF rows
  <2> QED
    BY <2>6, <2>7
<1> QED
  BY <1>2, <1>3 DEF TaskStep

\* A message whose task may start finds no holder of its lock.
LEMMA Unlocked ==
  ASSUME NEW m \in Generation, NEW k \in Generation, ~Locked(m), Purpose(m) = Purpose(k),
         m \in Image => task[k].subject = task[m].subject
  PROVE  ~Holding(k)
<1>1. PICK kind \in {Writer, Editor, Image} : m \in kind /\ k \in kind /\ (kind = Image => m \in Image)
  BY StageMessages DEF Purpose, Generation
<1> QED
  BY <1>1 DEF Locked, Holding

LEMMA LockStep ==
  ASSUME TypeInv, LockHeldOnce, TaskStep
  PROVE  LockHeldOnce'
<1> USE Kinds
<1>1. task \in [Message -> TaskRecords]
  BY DEF TypeInv, StageTypes, RestTyped
<1>2. CASE UNCHANGED task
  BY <1>2 DEF LockHeldOnce, Holding, Purpose
<1>3. ASSUME NEW m \in Message, NEW t \in TaskRecords, Suits(m, t), Put(m, t)
      PROVE  LockHeldOnce'
  <2>1. \A k \in Message : task'[k] = IF k = m THEN t ELSE task[k]
    BY <1>1, <1>3 DEF Put
  <2>2. \A a, b \in Generation : Purpose(a) = Purpose(b) => (a \in Image <=> b \in Image)
    BY DEF Purpose, Generation
  <2>3. LockHeldOnce' <=>
          \A a, b \in Generation :
            /\ task'[a].pc \notin {"idle", "queued"} /\ task'[b].pc \notin {"idle", "queued"}
            /\ Purpose(a) = Purpose(b)
            /\ a \in Image => task'[a].subject = task'[b].subject
            => a = b
    BY DEF LockHeldOnce, Holding, Purpose
  <2>4. \A a, b \in Generation :
          /\ Holding(a) /\ Holding(b) /\ Purpose(a) = Purpose(b)
          /\ a \in Image => task[a].subject = task[b].subject
          => a = b
    BY DEF LockHeldOnce
  <2>5. SUFFICES ASSUME NEW k \in Generation, k # m, m \in Generation,
                        Holding(k), t.pc \notin {"idle", "queued"}, Purpose(k) = Purpose(m),
                        m \in Image => task[k].subject = t.subject
                 PROVE  FALSE
    BY <2>1, <2>2, <2>3, <2>4 DEF Holding
  <2>6. CASE Holding(m) /\ m \notin Image
    BY <2>5, <2>6 DEF LockHeldOnce
  <2>7. CASE ~Locked(m) /\ (m \in Image => t.subject = task[m].subject)
    BY <2>5, <2>7, Unlocked
  <2> QED
    BY <1>3, <2>5, <2>6, <2>7 DEF Suits
<1>4. ASSUME NEW w \in Writer, NEW e \in Editor, HandsOver(w, e)
      PROVE  LockHeldOnce'
  <2>1. \A k \in Message : task'[k] = IF k = e THEN Queued(0) ELSE IF k = w THEN NoTask ELSE task[k]
    BY <1>1, <1>4 DEF HandsOver
  <2>2. NoTask.pc = "idle" /\ Queued(0).pc = "queued"
    BY DEF NoTask, Queued
  <2> QED
    BY <2>1, <2>2 DEF LockHeldOnce, Holding, Purpose
<1> QED
  BY <1>2, <1>3, <1>4, OneMessageChanges

\* What the row of an answer adds to the table of its purpose.
LEMMA RecordsAppends ==
  ASSUME TypeInv, NEW m \in Generation, NEW status \in GenerationStatus, Records(m, status)
  PROVE  LET rows == attempts[Purpose(m)]
             added == attempts'[Purpose(m)]
         IN
         /\ \A purpose \in GenerationPurpose \ {Purpose(m)} : attempts'[purpose] = attempts[purpose]
         /\ DOMAIN rows = 1..Len(rows) /\ Len(rows) \in Nat
         /\ DOMAIN added = 1..(Len(rows) + 1)
         /\ \A i \in DOMAIN rows : added[i] = rows[i]
         /\ added[Len(rows) + 1].subject = task[m].subject
         /\ added[Len(rows) + 1].retry = task[m].retry + task[m].retries
         /\ added[Len(rows) + 1].status = status
         /\ added = Append(rows, added[Len(rows) + 1])
<1> USE Kinds
<1> DEFINE rows == attempts[Purpose(m)]
           new == [subject |-> task[m].subject, retry |-> task[m].retry + task[m].retries, status |-> status]
<1>1. attempts \in [GenerationPurpose -> Seq(AiGenerationAttempt)] /\ task[m] \in TaskRecords
  BY DEF TypeInv, StageTypes, ArtifactsTyped, RestTyped
<1>2. task[m].retry \in Nat /\ task[m].retries \in Nat /\ task[m].subject \in Nat \cup Need
  BY <1>1, StageBounds DEF TaskRecords
<1>3. new \in AiGenerationAttempt
  BY <1>2 DEF AiGenerationAttempt
<1>4. attempts' = [attempts EXCEPT ![Purpose(m)] = Append(@, new)]
  BY DEF Records
<1>5. new.subject = task[m].subject /\ new.retry = task[m].retry + task[m].retries /\ new.status = status
  OBVIOUS
<1> HIDE DEF new
<1>6. rows \in Seq(AiGenerationAttempt) /\ attempts'[Purpose(m)] = Append(rows, new)
      /\ \A purpose \in GenerationPurpose \ {Purpose(m)} : attempts'[purpose] = attempts[purpose]
  BY <1>1, <1>4
<1> HIDE DEF rows
<1>7. /\ DOMAIN rows = 1..Len(rows) /\ Len(rows) \in Nat
      /\ DOMAIN Append(rows, new) = 1..(Len(rows) + 1)
      /\ \A i \in DOMAIN rows : Append(rows, new)[i] = rows[i]
      /\ Append(rows, new)[Len(rows) + 1] = new
  BY <1>3, <1>6, AppendExtends
<1> QED
  BY <1>5, <1>6, <1>7 DEF rows

LEMMA CallsStep ==
  ASSUME TypeInv, CallInv, TaskStep
  PROVE  CallsAreNew'
<1> USE Kinds
<1>1. task \in [Message -> TaskRecords]
  BY DEF TypeInv, StageTypes, RestTyped
<1>2. SUFFICES ASSUME NEW k \in Generation, task'[k].pc = "calling"
               PROVE  Stored(Purpose(k), task[k].subject, task[k].retry + task[k].retries)' = {}
  BY DEF CallsAreNew, Purpose
<1>3. task'[k] = task[k] \/ (UNCHANGED attempts
        /\ Stored(Purpose(k), task'[k].subject, task'[k].retry + task'[k].retries) = {})
  <2>1. CASE UNCHANGED task
    BY <2>1
  <2>2. ASSUME NEW m \in Message, NEW t \in TaskRecords, Suits(m, t), Put(m, t)
        PROVE  <1>3!:
    BY <1>1, <1>2, <2>2 DEF Put, Suits
  <2>3. ASSUME NEW w \in Writer, NEW e \in Editor, HandsOver(w, e)
        PROVE  <1>3!:
    BY <1>1, <1>2, <2>3 DEF HandsOver, Queued, NoTask
  <2> QED
    BY <2>1, <2>2, <2>3, OneMessageChanges
<1>4. CASE UNCHANGED attempts
  BY <1>2, <1>3, <1>4 DEF CallInv, CallsAreNew, Stored
<1>5. ASSUME NEW m \in Generation, NEW status \in GenerationStatus, Records(m, status), task'[k] = task[k]
      PROVE  Stored(Purpose(k), task[k].subject, task[k].retry + task[k].retries)' = {}
  <2>1. task'[m].pc # "calling"
    <3>1. Idles(m) \/ \E t \in TaskRecords : t.pc \in {"queued", "drafted", "dispatching"} /\ Put(m, t)
      BY <1>5 DEF Records, Queues, HasDraft
    <3> QED
      BY <1>1, <3>1 DEF Idles, Put, NoTask
  <2>2. Holding(m) /\ Holding(k) /\ m # k
    BY <1>2, <1>5, <2>1 DEF Records, Holding
  <2>3. Purpose(k) = Purpose(m) => task[k].subject # task[m].subject
    BY <2>2 DEF CallInv, LockHeldOnce
  <2>4. Stored(Purpose(k), task[k].subject, task[k].retry + task[k].retries) = {}
    BY <1>2, <1>5 DEF CallInv, CallsAreNew
  <2>5. CASE Purpose(k) # Purpose(m)
    <3>1. attempts'[Purpose(k)] = attempts[Purpose(k)]
      BY <1>5, <2>5, RecordsAppends
    <3> QED
      BY <1>5, <2>4, <3>1 DEF Stored, Purpose
  <2>6. CASE Purpose(k) = Purpose(m)
    <3> DEFINE rows == attempts[Purpose(m)]
               added == attempts'[Purpose(m)]
    <3>1. /\ DOMAIN rows = 1..Len(rows) /\ Len(rows) \in Nat
          /\ DOMAIN added = 1..(Len(rows) + 1)
          /\ \A i \in DOMAIN rows : added[i] = rows[i]
          /\ added[Len(rows) + 1].subject = task[m].subject
      BY <1>5, RecordsAppends
    <3>2. \A i \in DOMAIN rows :
            ~(rows[i].subject = task[k].subject /\ rows[i].retry = task[k].retry + task[k].retries)
      BY <2>4, <2>6 DEF Stored
    <3>3. \A i \in DOMAIN added :
            ~(added[i].subject = task[k].subject /\ added[i].retry = task[k].retry + task[k].retries)
      <4> HIDE DEF rows, added
      <4> QED
        BY <2>3, <2>6, <3>1, <3>2
    <3> QED
      BY <1>5, <2>6, <3>3 DEF Stored, Purpose
  <2> QED
    BY <2>5, <2>6
<1>6. UNCHANGED attempts \/ \E m \in Generation, status \in GenerationStatus : Records(m, status)
  BY DEF TaskStep
<1> QED
  BY <1>3, <1>4, <1>5, <1>6

LEMMA IdentityStep ==
  ASSUME TypeInv, CallInv, TaskStep
  PROVE  OneAttemptPerIdentity'
<1> USE Kinds
<1>1. CASE UNCHANGED attempts
  BY <1>1 DEF CallInv, OneAttemptPerIdentity
<1>2. ASSUME NEW m \in Generation, NEW status \in GenerationStatus, Records(m, status)
      PROVE  OneAttemptPerIdentity'
  <2> DEFINE rows == attempts[Purpose(m)]
             added == attempts'[Purpose(m)]
             Distinct(s) == \A i, j \in DOMAIN s :
               i # j => <<s[i].subject, s[i].retry>> # <<s[j].subject, s[j].retry>>
  <2>1. /\ DOMAIN rows = 1..Len(rows) /\ Len(rows) \in Nat
        /\ DOMAIN added = 1..(Len(rows) + 1)
        /\ \A i \in DOMAIN rows : added[i] = rows[i]
        /\ added[Len(rows) + 1].subject = task[m].subject
        /\ added[Len(rows) + 1].retry = task[m].retry + task[m].retries
        /\ \A purpose \in GenerationPurpose \ {Purpose(m)} : attempts'[purpose] = attempts[purpose]
    BY <1>2, RecordsAppends
  <2>2. \A i \in DOMAIN rows :
          ~(rows[i].subject = task[m].subject /\ rows[i].retry = task[m].retry + task[m].retries)
    BY <1>2 DEF Records, CallInv, CallsAreNew, Stored
  <2>3. Distinct(rows)
    BY DEF CallInv, OneAttemptPerIdentity
  <2>4. Distinct(added)
    <3> HIDE DEF rows, added
    <3> QED
      BY <2>1, <2>2, <2>3
  <2>5. \A purpose \in GenerationPurpose : Distinct(attempts'[purpose])
    <3>1. \A purpose \in GenerationPurpose : Distinct(attempts[purpose])
      BY DEF CallInv, OneAttemptPerIdentity
    <3> HIDE DEF Distinct
    <3> QED
      BY <2>1, <2>4, <3>1
  <2> QED
    BY <2>5 DEF OneAttemptPerIdentity
<1> QED
  BY <1>1, <1>2 DEF TaskStep

LEMMA CallStep ==
  ASSUME TypeInv, CallInv, [Next]_vars
  PROVE  CallInv'
BY EveryTaskStep, LockStep, CallsStep, IdentityStep DEF CallInv

-----------------------------------------------------------------------------
(* What a step can do to the artifacts.                                     *)

WritesDraft(w) ==
  /\ w \in Writer /\ task[w].pc = "calling"
  /\ AddAttempt("writer", task[w], "succeeded")
  /\ AddDraft(Len(attempts["writer"]) + 1, None)
  /\ OnCopyOf(w) /\ UNCHANGED <<row, entry, cycles, fresh, reviews, reports>>

SubmitsDraft(body) ==
  /\ body \in Body /\ row = "drafting"
  /\ AddDraft(0, body)
  /\ UNCHANGED <<item, reviews, reports, attempts>>

WritesReview(e) ==
  /\ e \in Editor /\ task[e].pc = "calling" /\ row = "editing" /\ drafts # <<>>
  /\ AddAttempt("editor", task[e], "succeeded")
  /\ \E verdict \in ReviewVerdict :
       reviews' = Append(reviews, [draft |-> ActiveDraft, verdict |-> verdict,
                                   attempt |-> Len(attempts["editor"]) + 1])
  /\ UNCHANGED <<item, drafts, reports>>

WritesReport ==
  /\ row = "qa_review" /\ PackageResolves
  /\ \E ready \in BOOLEAN :
       reports' = Persisted([draft |-> ActiveDraft, review |-> ActiveReview,
                             media |-> MediaResult, ready |-> ready])
  /\ UNCHANGED <<row, entry, cycles, serial, drafts, reviews, attempts>>

ArtifactStep ==
  \/ UNCHANGED artifacts
  \/ \E w \in Writer : WritesDraft(w)
  \/ \E body \in Body : SubmitsDraft(body)
  \/ \E e \in Editor : WritesReview(e)
  \/ WritesReport

LEMMA EveryArtifactStep ==
  ASSUME TypeInv, [Next]_vars
  PROVE  ArtifactStep
<1> USE DEF ArtifactStep
<1>1. ASSUME NEW m, GuardStep(m)
      PROVE  UNCHANGED artifacts
  BY <1>1 DEF GuardStep, DuplicateInFlight, BudgetRefused
<1>2. ASSUME NEW w \in Writer, WriterStep(w)
      PROVE  ArtifactStep
  <2>1. ASSUME NEW status \in GenerationStatus, WriterAnswered(w, status)
        PROVE  ArtifactStep
    <3>1. CASE status = "succeeded" /\ (drafts = <<>> \/ task[w].reason)
      <4>1. WritesDraft(w)
        BY <2>1, <3>1 DEF WriterAnswered, WritesDraft
      <4> QED
        BY <4>1
    <3>2. CASE ~(status = "succeeded" /\ (drafts = <<>> \/ task[w].reason))
      BY <2>1, <3>2 DEF WriterAnswered, artifacts
    <3> QED
      BY <3>1, <3>2
  <2>2. StartWriter(w) \/ WriterAdvances(w) \/ WriterDispatches(w) => UNCHANGED artifacts
    BY DEF StartWriter, WriterAdvances, WriterDispatches
  <2> QED
    BY <1>1, <1>2, <2>1, <2>2 DEF WriterStep
<1>3. ASSUME NEW e \in Editor, EditorStep(e)
      PROVE  ArtifactStep
  <2>1. ASSUME NEW verdict \in ReviewVerdict, EditorAnswered(e, verdict)
        PROVE  ArtifactStep
    <3>1. CASE UNCHANGED reviews
      BY <2>1, <3>1 DEF EditorAnswered, artifacts
    <3>2. CASE reviews' # reviews
      <4>1. ~ReviewRolledBack(e) /\ ~ReviewRefused(e)
        BY <2>1, <3>2 DEF EditorAnswered
      <4>2. row = "editing" /\ ActiveDraft # 0
        BY <4>1 DEF ReviewRolledBack, ReviewRefused
      <4>3. drafts # <<>>
        BY <4>2 DEF ActiveDraft
      <4>4. WritesReview(e)
        BY <2>1, <3>2, <4>1, <4>2, <4>3 DEF EditorAnswered, WritesReview
      <4> QED
        BY <4>4
    <3> QED
      BY <3>1, <3>2
  <2>2. StartEditor(e) \/ (\E status \in GenerationStatus : EditorFailed(e, status)) => UNCHANGED artifacts
    BY DEF StartEditor, EditorFailed
  <2> QED
    BY <1>1, <1>3, <2>1, <2>2 DEF EditorStep
<1>4. ASSUME NEW q \in QaRun, QaStep(q)
      PROVE  ArtifactStep
  <2>1. ASSUME NEW ok \in BOOLEAN, RunGates(q, ok)
        PROVE  ArtifactStep
    <3>1. CASE row = "qa_review" /\ PackageResolves
      <4>1. WritesReport
        BY <2>1, <3>1 DEF RunGates, WritesReport, Load, item
      <4> QED
        BY <4>1
    <3>2. CASE ~(row = "qa_review" /\ PackageResolves)
      BY <2>1, <3>2 DEF RunGates, artifacts
    <3> QED
      BY <3>1, <3>2
  <2>2. QaAdvances(q) => UNCHANGED artifacts
    BY DEF QaAdvances
  <2> QED
    BY <1>4, <2>1, <2>2 DEF QaStep
<1>5. ASSUME NEW i \in Image, ImageStep(i)
      PROVE  UNCHANGED artifacts
  BY <1>1, <1>5 DEF ImageStep, StartImage, ImageAnswered
<1>6. ASSUME NEW m, Crash(m) \/ CrashLosesMessage(m)
      PROVE  UNCHANGED artifacts
  BY <1>6 DEF Crash, CrashLosesMessage, WorkerDies
<1>7. ASSUME NEW a, AutopilotPlans(a) \/ AutopilotPerforms(a)
      PROVE  UNCHANGED artifacts
  BY <1>7 DEF AutopilotPlans, AutopilotPerforms, AutopilotEnqueues, AutopilotAcceptsReview,
    AutopilotRequestsRework, AutopilotResolvesChanges, AutopilotFails, Commands
<1>8. CASE OperatorStep
  <2>1. ASSUME NEW body \in Body, NEW reason \in BOOLEAN, SubmitDraft(body, reason)
        PROVE  ArtifactStep
    <3>1. CASE UNCHANGED drafts
      BY <2>1, <3>1 DEF SubmitDraft, artifacts
    <3>2. CASE drafts' # drafts
      <4>1. SubmitsDraft(body)
        BY <2>1, <3>2 DEF SubmitDraft, SubmitsDraft
      <4> QED
        BY <4>1
    <3> QED
      BY <3>1, <3>2
  <2>2. (\E retry \in 0..MaxRetry, reason \in BOOLEAN : RequestDraft(retry, reason) \/ RequestReview(retry, reason))
        \/ RequestQa \/ CheckReview \/ (\E responsible \in WorkflowState : RequestRework(responsible))
        \/ ResolveChanges \/ CheckMedia \/ WaiveMediaGate
        \/ (\E need \in Need, retry \in 0..MaxRetry : RequestImage(need, retry)) => UNCHANGED artifacts
    BY DEF RequestDraft, RequestReview, RequestQa, CheckReview, RequestRework, ResolveChanges,
      CheckMedia, WaiveMediaGate, RequestImage
  <2> QED
    BY <1>8, <2>1, <2>2 DEF OperatorStep
<1>9. RequestStep \/ InFlightWindowPasses \/ UNCHANGED vars => UNCHANGED artifacts
  BY DEF RequestStep, AdvanceSubmitted, AcceptReview, BindMedia, InFlightWindowPasses, vars
<1> QED
  BY <1>2, <1>3, <1>4, <1>5, <1>6, <1>7, <1>8, <1>9 DEF Next

LEMMA ReviewAdded ==
  ASSUME TypeInv, NEW e, WritesReview(e)
  PROVE  /\ reviews' \in Seq(EditorialReview) /\ Extends(reviews', reviews)
         /\ DOMAIN reviews' = 1..Len(reviews) + 1 /\ Len(reviews) \in Nat
         /\ \A r \in DOMAIN reviews' :
              r \in DOMAIN reviews \/ (r = Len(reviews) + 1 /\ reviews'[r].draft = ActiveDraft
                                       /\ reviews'[r].attempt = Len(attempts["editor"]) + 1)
<1>1. PICK verdict \in ReviewVerdict :
        reviews' = Append(reviews, [draft |-> ActiveDraft, verdict |-> verdict,
                                    attempt |-> Len(attempts["editor"]) + 1])
  BY DEF WritesReview
<1> DEFINE new == [draft |-> ActiveDraft, verdict |-> verdict, attempt |-> Len(attempts["editor"]) + 1]
<1>2. ActiveDraft \in Nat /\ attempts["editor"] \in Seq(AiGenerationAttempt)
  BY DEF TypeInv, StageTypes, ArtifactsTyped, ActiveDraft, GenerationPurpose
<1>3. new \in EditorialReview /\ new.draft = ActiveDraft /\ new.attempt = Len(attempts["editor"]) + 1
  BY <1>2 DEF EditorialReview
<1>4. reviews \in Seq(EditorialReview) /\ reviews' = Append(reviews, new)
  BY <1>1 DEF TypeInv, StageTypes, ArtifactsTyped
<1> HIDE DEF new
<1>5. /\ Append(reviews, new) \in Seq(EditorialReview)
      /\ Append(reviews, new)[Len(reviews) + 1] = new
      /\ DOMAIN reviews = 1..Len(reviews) /\ Len(reviews) \in Nat
      /\ DOMAIN Append(reviews, new) = 1..(Len(reviews) + 1)
      /\ Extends(Append(reviews, new), reviews)
  BY <1>3, <1>4, AppendExtends
<1> QED
  BY <1>3, <1>4, <1>5

\* Nothing is taken out of a table, and a row is never changed.
LEMMA TablesGrow ==
  ASSUME TypeInv, ArtifactStep
  PROVE  /\ drafts' \in Seq(ContentDraft) /\ reviews' \in Seq(EditorialReview) /\ reports' \in Seq(QaReport)
         /\ Extends(drafts', drafts) /\ Extends(reviews', reviews) /\ Extends(reports', reports)
<1>1. drafts \in Seq(ContentDraft) /\ reviews \in Seq(EditorialReview) /\ reports \in Seq(QaReport)
  BY DEF TypeInv, StageTypes, ArtifactsTyped
<1>2. Extends(drafts, drafts) /\ Extends(reviews, reviews) /\ Extends(reports, reports)
  BY <1>1, SameExtends
<1>3. CASE UNCHANGED artifacts
  BY <1>1, <1>2, <1>3 DEF artifacts
<1>4. ASSUME NEW w \in Writer, WritesDraft(w)
      PROVE  drafts' \in Seq(ContentDraft) /\ Extends(drafts', drafts) /\ UNCHANGED <<reviews, reports>>
  <2>1. Len(attempts["writer"]) + 1 \in Nat
    <3>1. attempts["writer"] \in Seq(AiGenerationAttempt)
      BY DEF TypeInv, StageTypes, ArtifactsTyped, GenerationPurpose
    <3> QED
      BY <3>1
  <2> QED
    BY <1>4, <2>1, AddedDraft DEF WritesDraft
<1>5. ASSUME NEW body \in Body, SubmitsDraft(body)
      PROVE  drafts' \in Seq(ContentDraft) /\ Extends(drafts', drafts) /\ UNCHANGED <<reviews, reports>>
  BY <1>5, AddedDraft DEF SubmitsDraft
<1>6. ASSUME NEW e \in Editor, WritesReview(e)
      PROVE  reviews' \in Seq(EditorialReview) /\ Extends(reviews', reviews) /\ UNCHANGED <<drafts, reports>>
  BY <1>6, ReviewAdded DEF WritesReview
<1>7. ASSUME WritesReport
      PROVE  reports' \in Seq(QaReport) /\ Extends(reports', reports) /\ UNCHANGED <<drafts, reviews>>
  BY <1>7, ReportTyped, PersistedReport DEF WritesReport
<1> QED
  BY <1>1, <1>2, <1>3, <1>4, <1>5, <1>6, <1>7 DEF ArtifactStep

LEMMA ReferencesStay ==
  ASSUME TypeInv, ArtifactStep, TaskStep
  PROVE  ArtifactsRefer'
<1>1. /\ \A p \in GenerationPurpose : Extends(attempts'[p], attempts[p])
      /\ Extends(drafts', drafts) /\ Extends(reviews', reviews) /\ Extends(reports', reports)
  BY TablesGrow, AttemptsGrow
<1>2. Extends(attempts'["writer"], attempts["writer"]) /\ Extends(attempts'["editor"], attempts["editor"])
  BY <1>1 DEF GenerationPurpose
<1>3. ArtifactsRefer
  BY DEF TypeInv
<1>4. attempts \in [GenerationPurpose -> Seq(AiGenerationAttempt)]
      /\ attempts["writer"] \in Seq(AiGenerationAttempt) /\ attempts["editor"] \in Seq(AiGenerationAttempt)
      /\ drafts \in Seq(ContentDraft) /\ reviews \in Seq(EditorialReview)
  BY DEF TypeInv, StageTypes, ArtifactsTyped, GenerationPurpose
<1>5. \A d \in DOMAIN drafts' : drafts'[d].attempt \in DOMAIN attempts'["writer"] \cup {0}
  <2>1. ASSUME NEW w \in Writer, WritesDraft(w), NEW d \in DOMAIN drafts', d \notin DOMAIN drafts
        PROVE  drafts'[d].attempt \in DOMAIN attempts'["writer"]
    <3>1. Len(attempts["writer"]) + 1 \in Nat
      BY <1>4
    <3>2. drafts'[d].attempt = Len(attempts["writer"]) + 1
      <4>1. AddDraft(Len(attempts["writer"]) + 1, None)
        BY <2>1 DEF WritesDraft
      <4> QED
        BY <2>1, <3>1, <4>1, AddedDraft
    <3>3. attempts'["writer"] = Append(attempts["writer"],
            [subject |-> task[w].subject, retry |-> task[w].retry + task[w].retries, status |-> "succeeded"])
      BY <1>4, <2>1 DEF WritesDraft, AddAttempt, GenerationPurpose
    <3>4. Len(attempts["writer"]) + 1 \in DOMAIN attempts'["writer"]
      <4> DEFINE new == [subject |-> task[w].subject, retry |-> task[w].retry + task[w].retries, status |-> "succeeded"]
      <4>1. attempts["writer"] \in Seq(AiGenerationAttempt \cup {new})
        BY <1>4
      <4> HIDE DEF new
      <4>2. DOMAIN Append(attempts["writer"], new) = 1..(Len(attempts["writer"]) + 1) /\ Len(attempts["writer"]) \in Nat
        BY <4>1, AppendExtends
      <4> QED
        BY <3>3, <4>2 DEF new
    <3> QED
      BY <3>2, <3>4
  <2>2. ASSUME NEW body \in Body, SubmitsDraft(body), NEW d \in DOMAIN drafts', d \notin DOMAIN drafts
        PROVE  drafts'[d].attempt = 0
    <3>1. AddDraft(0, body) /\ body \in Body \cup {None}
      BY <2>2 DEF SubmitsDraft
    <3> QED
      BY <2>2, <3>1, AddedDraft
  <2>3. (\A w \in Writer : ~WritesDraft(w)) /\ (\A body \in Body : ~SubmitsDraft(body)) => UNCHANGED drafts
    BY DEF ArtifactStep, artifacts, WritesReview, WritesReport
  <2> QED
    BY <1>1, <1>2, <1>3, <2>1, <2>2, <2>3 DEF ArtifactsRefer, Extends
<1>6. \A r \in DOMAIN reviews' : reviews'[r].draft \in DOMAIN drafts' /\ reviews'[r].attempt \in DOMAIN attempts'["editor"]
  <2>1. ASSUME NEW e \in Editor, WritesReview(e), NEW r \in DOMAIN reviews', r \notin DOMAIN reviews
        PROVE  reviews'[r].draft \in DOMAIN drafts' /\ reviews'[r].attempt \in DOMAIN attempts'["editor"]
    <3>1. reviews'[r].draft = ActiveDraft /\ reviews'[r].attempt = Len(attempts["editor"]) + 1
      BY <2>1, ReviewAdded
    <3>2. ActiveDraft \in DOMAIN drafts /\ UNCHANGED drafts
      BY <1>4, <2>1 DEF WritesReview, ActiveDraft
    <3>3. attempts'["editor"] = Append(attempts["editor"],
            [subject |-> task[e].subject, retry |-> task[e].retry + task[e].retries, status |-> "succeeded"])
      BY <1>4, <2>1 DEF WritesReview, AddAttempt, GenerationPurpose
    <3>4. Len(attempts["editor"]) + 1 \in DOMAIN attempts'["editor"]
      <4> DEFINE new == [subject |-> task[e].subject, retry |-> task[e].retry + task[e].retries, status |-> "succeeded"]
      <4>1. attempts["editor"] \in Seq(AiGenerationAttempt \cup {new})
        BY <1>4
      <4> HIDE DEF new
      <4>2. DOMAIN Append(attempts["editor"], new) = 1..(Len(attempts["editor"]) + 1) /\ Len(attempts["editor"]) \in Nat
        BY <4>1, AppendExtends
      <4> QED
        BY <3>3, <4>2 DEF new
    <3> QED
      BY <3>1, <3>2, <3>4
  <2>2. (\A e \in Editor : ~WritesReview(e)) => UNCHANGED reviews
    BY DEF ArtifactStep, artifacts, WritesDraft, SubmitsDraft, WritesReport
  <2> QED
    BY <1>1, <1>2, <1>3, <2>1, <2>2 DEF ArtifactsRefer, Extends
<1>7. \A r \in DOMAIN reports' : reports'[r].draft \in DOMAIN drafts' /\ reports'[r].review \in DOMAIN reviews'
  <2>1. ASSUME WritesReport, NEW r \in DOMAIN reports', r \notin DOMAIN reports
        PROVE  reports'[r].draft \in DOMAIN drafts' /\ reports'[r].review \in DOMAIN reviews'
    <3>1. reports'[r].draft = ActiveDraft /\ reports'[r].review = ActiveReview
      BY <2>1, ReportTyped, PersistedReport DEF WritesReport
    <3>2. reviews # <<>> /\ reviews[ActiveReview].draft = ActiveDraft
      BY <2>1 DEF WritesReport, PackageResolves, PassingReviewCovers, ReviewCovers
    <3>3. ActiveReview \in DOMAIN reviews
      BY <1>4, <3>2 DEF ActiveReview
    <3>4. ActiveDraft \in DOMAIN drafts
      BY <1>3, <3>2, <3>3 DEF ArtifactsRefer
    <3> QED
      BY <2>1, <3>1, <3>3, <3>4 DEF WritesReport
  <2>2. ~WritesReport => UNCHANGED reports
    BY DEF ArtifactStep, artifacts, WritesDraft, SubmitsDraft, WritesReview
  <2> QED
    BY <1>1, <1>3, <2>1, <2>2 DEF ArtifactsRefer, Extends
<1> QED
  BY <1>5, <1>6, <1>7 DEF ArtifactsRefer

-----------------------------------------------------------------------------
(* What a step can do to the item.                                          *)

Stays ==
  /\ UNCHANGED <<row, entry, cycles>>
  /\ fresh' \subseteq Message \cup Sweep /\ serial' \in BOOLEAN /\ (serial' => serial)

Advances(x, d) ==
  /\ \/ x \in Writer /\ task[x].pc = "drafted" /\ d = task[x].result
     \/ x = None /\ request.pc = "submitted" /\ d = request.draft
  /\ MoveToEditing(x, d)

AsksForRework(responsible) ==
  /\ ~away /\ commands' = commands + 1
  /\ MoveToRework(None, responsible)

HasPlanned(a, name) == step[a].pc = "planned" /\ step[a].action = Command(name)

Returns(x) ==
  /\ \/ x = None /\ row = "changes_requested"
     \/ x \in Sweep /\ HasPlanned(x, "resolve_changes")
  /\ entry.rework.responsible \in ReworkTargets
  /\ Move(x, entry.rework.responsible)
  /\ entry' = Resolved(entry, entry.rework.responsible) /\ UNCHANGED cycles

\* The autopilot goes through CHANGES_REQUESTED in one transaction.
SendsBack(a) ==
  /\ HasPlanned(a, "request_rework")
  /\ Move(a, "drafting") /\ cycles' = cycles + 1
  /\ entry' = [entry EXCEPT !.rework = [responsible |-> "drafting", review |-> ActiveReview],
                            !.drafting = TRUE]
  /\ step' = [step EXCEPT ![a] = NoStep]

ComesToHuman(q) ==
  /\ task[q].pc = "reported" /\ Move(q, "awaiting_human_review")
  /\ entry' = [entry EXCEPT !.human = task[q].result] /\ UNCHANGED cycles

ItemStep ==
  \/ Stays
  \/ \E x : \E d \in 0..Len(drafts) : Advances(x, d)
  \/ \E x : \E d \in 0..Len(drafts), r \in 0..Len(reviews) : MoveToQaReview(x, d, r)
  \/ \E responsible \in ReworkTargets : AsksForRework(responsible)
  \/ \E a \in Sweep : SendsBack(a)
  \/ \E x : Returns(x)
  \/ \E q \in QaRun : ComesToHuman(q)

LEMMA EveryItemStep ==
  ASSUME TypeInv, [Next]_vars
  PROVE  ItemStep
<1> USE DEF ItemStep
<1>1. ItemTyped /\ EntryRefers /\ HoldersRefer
  BY DEF TypeInv, StageTypes
<1>2. UNCHANGED item => Stays
  BY <1>1 DEF item, Stays, ItemTyped
<1>3. ASSUME NEW x \in Message \cup Sweep, Load(x) \/ Forget(x)
      PROVE  Stays
  BY <1>1, <1>3 DEF Load, Forget, Stays, ItemTyped
<1>4. Len(drafts) \in Nat /\ Len(reviews) \in Nat
  BY DEF TypeInv, StageTypes, ArtifactsTyped
<1>5. ASSUME NEW m, GuardStep(m)
      PROVE  UNCHANGED item
  BY <1>5 DEF GuardStep, DuplicateInFlight, BudgetRefused
<1>6. ASSUME NEW w \in Writer, WriterStep(w)
      PROVE  ItemStep
  <2> USE Kinds
  <2>1. CASE StartWriter(w)
    <3>1. UNCHANGED item \/ Load(w)
      BY <2>1 DEF StartWriter
    <3> QED
      BY <1>2, <1>3, <3>1
  <2>2. ASSUME NEW status \in GenerationStatus, WriterAnswered(w, status)
        PROVE  ItemStep
    <3>1. Forget(w) \/ (OnCopyOf(w) /\ UNCHANGED <<row, entry, cycles, fresh>>)
      BY <2>2 DEF WriterAnswered
    <3>2. OnCopyOf(w) /\ UNCHANGED <<row, entry, cycles, fresh>> => Stays
      BY <1>1 DEF OnCopyOf, Stays, ItemTyped
    <3> QED
      BY <1>3, <3>1, <3>2
  <2>3. CASE WriterAdvances(w)
    <3>1. task[w].result \in 0..Len(drafts)
      <4>1. drafts \in Seq(ContentDraft) /\ task[w].result \in DOMAIN drafts
        BY <1>1, <2>3 DEF WriterAdvances, HoldersRefer, TypeInv, StageTypes, ArtifactsTyped
      <4> QED
        BY <4>1
    <3> QED
      BY <2>3, <3>1 DEF WriterAdvances, Advances
  <2> QED
    BY <1>2, <1>5, <1>6, <2>1, <2>2, <2>3 DEF WriterStep, WriterDispatches
<1>7. ASSUME NEW e \in Editor, EditorStep(e)
      PROVE  UNCHANGED item
  BY <1>5, <1>7 DEF EditorStep, StartEditor, EditorFailed, EditorAnswered
<1>8. ASSUME NEW q \in QaRun, QaStep(q)
      PROVE  ItemStep
  <2>1. ASSUME NEW ok \in BOOLEAN, RunGates(q, ok)
        PROVE  UNCHANGED item \/ Load(q)
    BY <2>1 DEF RunGates
  <2>2. QaAdvances(q) => ComesToHuman(q)
    BY DEF QaAdvances, ComesToHuman
  <2> QED
    BY <1>2, <1>3, <1>8, <2>1, <2>2, Kinds DEF QaStep
<1>9. ASSUME NEW i \in Image, ImageStep(i)
      PROVE  UNCHANGED item
  BY <1>5, <1>9 DEF ImageStep, StartImage, ImageAnswered
<1>10. ASSUME NEW m \in Message, Crash(m) \/ CrashLosesMessage(m)
       PROVE  ItemStep
  BY <1>3, <1>10 DEF Crash, CrashLosesMessage, WorkerDies
<1>11. ASSUME NEW a \in Sweep, AutopilotPlans(a) \/ AutopilotPerforms(a)
       PROVE  ItemStep
  <2>1. AutopilotPlans(a) \/ AutopilotEnqueues(a) \/ AutopilotFails(a) => Load(a) \/ Forget(a)
    BY DEF AutopilotPlans, AutopilotEnqueues, AutopilotFails
  <2>2. AutopilotAcceptsReview(a) => MoveToQaReview(a, ActiveDraft, ActiveReview)
    BY DEF AutopilotAcceptsReview
  <2>3. AutopilotRequestsRework(a) => SendsBack(a)
    BY DEF AutopilotRequestsRework, SendsBack, HasPlanned, Commands, Recorded
  <2>4. ASSUME AutopilotResolvesChanges(a)
        PROVE  Returns(a)
    <3>1. step[a].pc = "planned" /\ step[a].action = Command("resolve_changes")
      BY <2>4 DEF AutopilotResolvesChanges, Commands
    <3>2. entry.rework.responsible # None
      BY <1>1, <3>1 DEF HoldersRefer
    <3>3. entry.rework.responsible \in ReworkTargets
      BY <1>1, <3>2 DEF ItemTyped, EntryRecords
    <3> QED
      BY <2>4, <3>1, <3>3 DEF AutopilotResolvesChanges, Returns, HasPlanned
  <2>5. ActiveDraft \in 0..Len(drafts) /\ ActiveReview \in 0..Len(reviews)
    BY <1>4 DEF ActiveDraft, ActiveReview
  <2>6. Load(a) \/ Forget(a) => Stays
    BY <1>3
  <2> QED
    BY <1>11, <2>1, <2>2, <2>3, <2>4, <2>5, <2>6 DEF AutopilotPerforms
<1>12. CASE OperatorStep
  <2>1. ASSUME NEW responsible, RequestRework(responsible)
        PROVE  responsible \in ReworkTargets /\ AsksForRework(responsible)
    BY <2>1 DEF RequestRework, OperatorCommand, AsksForRework, PERMITTED_RESPONSIBLE_STATES, ReworkTargets
  <2>2. ASSUME ResolveChanges
        PROVE  Returns(None)
    <3>1. entry.rework.responsible \in ReworkTargets
      BY <1>1, <2>2 DEF ResolveChanges, EntryRefers, ItemTyped, EntryRecords
    <3>2. Move(None, entry.rework.responsible) /\ row = "changes_requested" /\ UNCHANGED cycles
          /\ entry' = Resolved(entry, entry.rework.responsible)
      BY <2>2 DEF ResolveChanges
    <3> QED
      BY <3>1, <3>2 DEF Returns
  <2>3. (\E retry \in 0..MaxRetry, reason \in BOOLEAN : RequestDraft(retry, reason) \/ RequestReview(retry, reason))
        \/ RequestQa \/ CheckReview \/ CheckMedia \/ WaiveMediaGate
        \/ (\E body \in Body, reason \in BOOLEAN : SubmitDraft(body, reason))
        \/ (\E need \in Need, retry \in 0..MaxRetry : RequestImage(need, retry)) => UNCHANGED item
    BY DEF RequestDraft, RequestReview, RequestQa, CheckReview, CheckMedia, WaiveMediaGate,
      SubmitDraft, RequestImage
  <2> QED
    BY <1>2, <1>12, <2>1, <2>2, <2>3 DEF OperatorStep
<1>13. CASE RequestStep
  <2>1. request.draft \in 0..Len(drafts) /\ request.review \in 0..Len(reviews)
    BY <1>1 DEF HoldersRefer
  <2>2. AdvanceSubmitted => UNCHANGED item \/ Advances(None, request.draft)
    BY DEF AdvanceSubmitted, Advances
  <2>3. AcceptReview => UNCHANGED item \/ MoveToQaReview(None, request.draft, request.review)
    BY DEF AcceptReview
  <2>4. (\E need \in Need : BindMedia(need)) => UNCHANGED item
    BY DEF BindMedia
  <2> QED
    BY <1>2, <1>13, <2>1, <2>2, <2>3, <2>4 DEF RequestStep
<1>14. InFlightWindowPasses \/ UNCHANGED vars => UNCHANGED item
  BY DEF InFlightWindowPasses, vars
<1> QED
  BY <1>2, <1>6, <1>7, <1>8, <1>9, <1>10, <1>11, <1>12, <1>13, <1>14 DEF Next

\* The entry after a move, field by field.
LEMMA EditingEntry ==
  ASSUME entry \in EntryRecords, NEW d \in Nat, entry' = [entry EXCEPT !.editing = d]
  PROVE  /\ entry' \in EntryRecords /\ entry'.editing = d
         /\ UNCHANGED <<entry.drafting, entry.qa_review, entry.human, entry.rework>>
BY DEF EntryRecords

LEMMA QaEntry ==
  ASSUME entry \in EntryRecords, NEW d \in Nat, NEW r \in Nat,
         entry' = [entry EXCEPT !.qa_review = [draft |-> d, review |-> r]]
  PROVE  /\ entry' \in EntryRecords /\ entry'.qa_review.draft = d /\ entry'.qa_review.review = r
         /\ UNCHANGED <<entry.drafting, entry.editing, entry.human, entry.rework>>
BY DEF EntryRecords

LEMMA HumanEntry ==
  ASSUME entry \in EntryRecords, NEW r \in Nat, entry' = [entry EXCEPT !.human = r]
  PROVE  /\ entry' \in EntryRecords /\ entry'.human = r
         /\ UNCHANGED <<entry.drafting, entry.editing, entry.qa_review, entry.rework>>
BY DEF EntryRecords

LEMMA ReworkEntry ==
  ASSUME entry \in EntryRecords, NEW responsible \in ReworkTargets, NEW r \in Nat,
         \/ entry' = [entry EXCEPT !.rework = [responsible |-> responsible, review |-> r]]
         \/ entry' = [entry EXCEPT !.rework = [responsible |-> responsible, review |-> r], !.drafting = TRUE]
  PROVE  /\ entry' \in EntryRecords /\ entry'.rework.responsible = responsible /\ entry'.rework.review = r
         /\ UNCHANGED <<entry.editing, entry.qa_review, entry.human>>
<1> DEFINE new == [responsible |-> responsible, review |-> r]
<1>1. new \in [responsible : ReworkTargets \cup {None}, review : Nat]
      /\ new.responsible = responsible /\ new.review = r
  OBVIOUS
<1>2. entry' = [entry EXCEPT !.rework = new] \/ entry' = [entry EXCEPT !.rework = new, !.drafting = TRUE]
  OBVIOUS
<1> HIDE DEF new
<1>3. /\ entry' \in EntryRecords /\ entry'.rework = new
      /\ UNCHANGED <<entry.editing, entry.qa_review, entry.human>>
  BY <1>1, <1>2 DEF EntryRecords
<1> QED
  BY <1>1, <1>3

LEMMA ReturnEntry ==
  ASSUME entry \in EntryRecords, NEW x, Returns(x)
  PROVE  /\ entry' \in EntryRecords
         /\ entry'.editing \in {0, entry.editing}
         /\ entry'.qa_review.draft \in {0, entry.qa_review.draft}
         /\ entry'.qa_review.review \in {0, entry.qa_review.review}
         /\ UNCHANGED <<entry.human, entry.rework>>
         /\ row' = "drafting" => entry'.drafting
<1>1. CASE entry.rework.responsible = "drafting"
  <2>1. entry' = [entry EXCEPT !.drafting = TRUE]
    BY <1>1 DEF Returns, Resolved
  <2> QED
    BY <2>1 DEF EntryRecords
<1>2. CASE entry.rework.responsible = "editing"
  <2>1. entry' = [entry EXCEPT !.editing = 0] /\ row' = "editing"
    BY <1>2 DEF Returns, Resolved, Move
  <2> QED
    BY <2>1, EditingEntry
<1>3. CASE entry.rework.responsible = "qa_review"
  <2>1. entry' = [entry EXCEPT !.qa_review = [draft |-> 0, review |-> 0]] /\ row' = "qa_review"
    BY <1>3 DEF Returns, Resolved, Move
  <2> QED
    BY <2>1, QaEntry
<1> QED
  BY <1>1, <1>2, <1>3 DEF Returns, ReworkTargets

LEMMA ItemStaysTyped ==
  ASSUME TypeInv, ItemStep, ArtifactStep
  PROVE  /\ ItemTyped' /\ EntryRefers'
         /\ entry.rework.responsible # None => entry'.rework.responsible # None
<1> DEFINE Goal == /\ ItemTyped' /\ EntryRefers'
                   /\ entry.rework.responsible # None => entry'.rework.responsible # None
<1>1. ItemTyped /\ EntryRefers /\ HoldersRefer
  BY DEF TypeInv, StageTypes
<1>2. /\ Len(drafts) \in Nat /\ Len(reviews) \in Nat /\ Len(reports) \in Nat
      /\ Len(drafts') \in Nat /\ Len(reviews') \in Nat /\ Len(reports') \in Nat
      /\ Len(drafts) <= Len(drafts') /\ Len(reviews) <= Len(reviews') /\ Len(reports) <= Len(reports')
  BY TablesGrow DEF TypeInv, StageTypes, ArtifactsTyped, Extends
<1>3. /\ \A n \in 0..Len(drafts) : n \in 0..Len(drafts')
      /\ \A n \in 0..Len(reviews) : n \in 0..Len(reviews')
      /\ \A n \in 0..Len(reports) : n \in 0..Len(reports')
      /\ 0 \in 0..Len(drafts') /\ 0 \in 0..Len(reviews')
  BY <1>2
<1>4. ASSUME Stays
      PROVE  Goal
  BY <1>1, <1>3, <1>4 DEF Stays, ItemTyped, EntryRefers
<1>5. ASSUME NEW x, NEW to \in StageStates, Move(x, to)
      PROVE  row' = to /\ row' \in StageStates /\ serial' \in BOOLEAN /\ fresh' = {}
  BY <1>1, <1>5 DEF Move, OnCopyOf, ItemTyped
<1>6. {"drafting", "editing", "qa_review", "changes_requested", "awaiting_human_review"} = StageStates
      /\ entry \in EntryRecords /\ cycles \in Nat /\ ActiveReview \in 0..Len(reviews) /\ ActiveReview \in Nat
  BY <1>1, <1>2 DEF StageStates, ReworkTargets, ItemTyped, ActiveReview
<1>7. ASSUME NEW x, NEW d \in 0..Len(drafts), Advances(x, d)
      PROVE  Goal
  <2>1. Move(x, "editing") /\ entry' = [entry EXCEPT !.editing = d] /\ UNCHANGED cycles /\ d \in Nat
    BY <1>2, <1>7 DEF Advances, MoveToEditing
  <2> QED
    BY <1>1, <1>3, <1>5, <1>6, <1>7, <2>1, EditingEntry DEF ItemTyped, EntryRefers
<1>8. ASSUME NEW x, NEW d \in 0..Len(drafts), NEW r \in 0..Len(reviews), MoveToQaReview(x, d, r)
      PROVE  Goal
  <2>1. Move(x, "qa_review") /\ entry' = [entry EXCEPT !.qa_review = [draft |-> d, review |-> r]]
        /\ UNCHANGED cycles /\ d \in Nat /\ r \in Nat
    BY <1>2, <1>8 DEF MoveToQaReview
  <2> QED
    BY <1>1, <1>3, <1>5, <1>6, <1>8, <2>1, QaEntry DEF ItemTyped, EntryRefers
<1>9. ASSUME NEW responsible \in ReworkTargets, AsksForRework(responsible)
      PROVE  Goal
  <2>1. Move(None, "changes_requested") /\ cycles' = cycles + 1
        /\ entry' = [entry EXCEPT !.rework = [responsible |-> responsible, review |-> ActiveReview]]
    BY <1>9 DEF AsksForRework, MoveToRework
  <2>2. responsible # None
    BY DEF ReworkTargets, None
  <2>3. /\ entry' \in EntryRecords /\ entry'.rework.responsible = responsible
        /\ entry'.rework.review = ActiveReview /\ UNCHANGED <<entry.editing, entry.qa_review, entry.human>>
    BY <1>6, <2>1, ReworkEntry
  <2>4. row' \in StageStates /\ serial' \in BOOLEAN /\ fresh' = {}
    BY <1>5, <1>6, <2>1
  <2> QED
    BY <1>1, <1>3, <1>6, <2>1, <2>2, <2>3, <2>4 DEF ItemTyped, EntryRefers
<1>10. ASSUME NEW a \in Sweep, SendsBack(a)
       PROVE  Goal
  <2>1. Move(a, "drafting") /\ cycles' = cycles + 1
        /\ entry' = [entry EXCEPT !.rework = [responsible |-> "drafting", review |-> ActiveReview], !.drafting = TRUE]
    BY <1>10 DEF SendsBack
  <2>2. "drafting" # None /\ "drafting" \in ReworkTargets
    BY DEF ReworkTargets, None
  <2>3. /\ entry' \in EntryRecords /\ entry'.rework.responsible = "drafting"
        /\ entry'.rework.review = ActiveReview /\ UNCHANGED <<entry.editing, entry.qa_review, entry.human>>
    BY <1>6, <2>1, <2>2, ReworkEntry
  <2>4. row' \in StageStates /\ serial' \in BOOLEAN /\ fresh' = {}
    BY <1>5, <1>6, <2>1
  <2> QED
    BY <1>1, <1>3, <1>6, <2>1, <2>2, <2>3, <2>4 DEF ItemTyped, EntryRefers
<1>11. ASSUME NEW x, Returns(x)
       PROVE  Goal
  <2>1. Move(x, entry.rework.responsible) /\ UNCHANGED cycles
        /\ entry.rework.responsible \in ReworkTargets /\ entry.rework.responsible \in StageStates
    BY <1>11 DEF Returns, StageStates
  <2>2. entry.rework.responsible # "changes_requested"
    BY <2>1 DEF ReworkTargets
  <2> QED
    BY <1>1, <1>3, <1>5, <1>6, <1>11, <2>1, <2>2, ReturnEntry DEF ItemTyped, EntryRefers
<1>12. ASSUME NEW q \in QaRun, ComesToHuman(q)
       PROVE  Goal
  <2>1. Move(q, "awaiting_human_review") /\ entry' = [entry EXCEPT !.human = task[q].result] /\ UNCHANGED cycles
    BY <1>12 DEF ComesToHuman
  <2>2. task[q].result \in DOMAIN reports
    BY <1>1, <1>12 DEF ComesToHuman, HoldersRefer
  <2>3. task[q].result \in 0..Len(reports) /\ task[q].result \in Nat
    BY <2>2 DEF TypeInv, StageTypes, ArtifactsTyped
  <2> QED
    BY <1>1, <1>3, <1>5, <1>6, <2>1, <2>3, HumanEntry DEF ItemTyped, EntryRefers
<1> QED
  BY <1>4, <1>7, <1>8, <1>9, <1>10, <1>11, <1>12 DEF ItemStep

-----------------------------------------------------------------------------
(* What a step can do to the request, the autopilot's steps and the rest.   *)

\* What the planner answers for an item between the brief and the human review.
LEMMA PlannedInStages ==
  ASSUME row \in StageStates, cycles \in Nat, Planned.kind \in {"enqueue", "command"}
  PROVE  /\ Planned \in StageActions
         /\ Planned = Command("resolve_changes") => row = "changes_requested"
         /\ Planned = Command("request_rework") => cycles < MAX_REWORK_CYCLES
<1> DEFINE s == Snapshot
<1>1. s.state = row /\ s.rework_cycles = cycles /\ s.brief_status = "accepted_for_drafting"
  BY DEF Snapshot
<1> HIDE DEF s
<1>2. Planned = PlanStage(s, mode)
  BY DEF Planned, Plan, Idle, s
<1>3. \A name : Command(name).kind = "command" /\ Enqueue(name).kind = "enqueue"
                /\ Wait(name).kind = "wait" /\ Idle(name).kind = "none"
  BY DEF Command, Enqueue, Wait, Idle
<1>4. \A n, k : Command(n) # Enqueue(k) /\ (Command(n) = Command(k) => n = k)
  BY DEF Command, Enqueue
<1>5. CASE row = "drafting"
  <2>1. Planned \in {Enqueue("generate_draft"), Enqueue("rewrite")}
    BY <1>1, <1>2, <1>3, <1>5 DEF PlanStage, PlanDrafting, None
  <2> QED
    BY <1>4, <2>1 DEF StageActions
<1>6. CASE row = "editing"
  <2>1. Planned = PlanEditing(s, mode)
    BY <1>1, <1>2, <1>6 DEF PlanStage
  <2>2. Planned \in {Enqueue("generate_review"), Command("accept_review"), Command("request_rework")}
    BY <1>3, <2>1 DEF PlanEditing, Acceptance
  <2>3. Planned = Command("request_rework") => ~ReworkLimitReached(s)
    BY <1>4, <2>1, <1>3 DEF PlanEditing, Acceptance
  <2> QED
    BY <1>1, <1>4, <2>2, <2>3 DEF StageActions, ReworkLimitReached, MAX_REWORK_CYCLES
<1>7. CASE row = "changes_requested"
  <2>1. Planned = Command("resolve_changes")
    BY <1>1, <1>2, <1>3, <1>7 DEF PlanStage, Acceptance
  <2> QED
    BY <1>4, <1>7, <2>1 DEF StageActions
<1>8. CASE row = "qa_review"
  <2>1. Planned \in {Enqueue("run_qa"), Enqueue("generate_image")}
    BY <1>1, <1>2, <1>3, <1>8 DEF PlanStage, PlanQaReview
  <2> QED
    BY <1>4, <2>1 DEF StageActions
<1>9. CASE row = "awaiting_human_review"
  BY <1>1, <1>2, <1>3, <1>9 DEF PlanStage
<1> QED
  BY <1>5, <1>6, <1>7, <1>8, <1>9 DEF StageStates, ReworkTargets

RequestEffect ==
  \/ UNCHANGED request
  \/ request' = NoRequest
  \/ request' = [NoRequest EXCEPT !.pc = "media"]
  \/ request' = [pc |-> "accepting", draft |-> ActiveDraft, review |-> ActiveReview]
  \/ \E d \in DOMAIN drafts' : /\ request' = [NoRequest EXCEPT !.pc = "submitted", !.draft = d]
                               /\ drafts'[d].body # None

Plans(a) ==
  /\ Planned.kind \in {"enqueue", "command"}
  /\ step' = [step EXCEPT ![a] = [pc |-> "planned", action |-> Planned]]
  /\ Load(a)

Ends(a) == step' = [step EXCEPT ![a] = NoStep] /\ a \notin fresh'

StepEffect == UNCHANGED step \/ \E a \in Sweep : Plans(a) \/ Ends(a)

MediaEffect ==
  /\ bound' \subseteq bound \cup Need
  /\ candidate' \subseteq candidate \cup {task[i].subject : i \in {j \in Image : task[j].pc = "calling"}}

CounterEffect == UNCHANGED <<spent, away>> /\ commands' \in {commands, commands + 1}
                 /\ (commands' # commands => ~away)

LEMMA EveryStepEffect ==
  ASSUME TypeInv, [Next]_vars
  PROVE  StepEffect /\ CounterEffect
<1> USE DEF day, bounds
<1>1. ASSUME NEW m, GuardStep(m)
      PROVE  StepEffect /\ CounterEffect
  BY <1>1 DEF GuardStep, DuplicateInFlight, BudgetRefused, StepEffect, CounterEffect
<1>2. ASSUME NEW w, WriterStep(w)
      PROVE  StepEffect /\ CounterEffect
  BY <1>1, <1>2 DEF WriterStep, StartWriter, WriterAnswered, WriterAdvances, WriterDispatches,
    StepEffect, CounterEffect
<1>3. ASSUME NEW e, EditorStep(e)
      PROVE  StepEffect /\ CounterEffect
  BY <1>1, <1>3 DEF EditorStep, StartEditor, EditorFailed, EditorAnswered, StepEffect, CounterEffect
<1>4. ASSUME NEW q, QaStep(q)
      PROVE  StepEffect /\ CounterEffect
  BY <1>4 DEF QaStep, RunGates, QaAdvances, StepEffect, CounterEffect
<1>5. ASSUME NEW i, ImageStep(i)
      PROVE  StepEffect /\ CounterEffect
  BY <1>1, <1>5 DEF ImageStep, StartImage, ImageAnswered, StepEffect, CounterEffect
<1>6. ASSUME NEW m, Crash(m) \/ CrashLosesMessage(m)
      PROVE  StepEffect /\ CounterEffect
  BY <1>6 DEF Crash, CrashLosesMessage, WorkerDies, StepEffect, CounterEffect
<1>7. ASSUME NEW a \in Sweep, AutopilotPlans(a) \/ AutopilotPerforms(a)
      PROVE  StepEffect /\ CounterEffect
  <2>1. AutopilotPlans(a) => Plans(a)
    BY DEF AutopilotPlans, Plans
  <2>2. Forget(a) \/ (\E to : Move(a, to)) => a \notin fresh'
    BY DEF Forget, Move
  <2>3. AutopilotPerforms(a) => Ends(a)
    BY <2>2 DEF AutopilotPerforms, AutopilotEnqueues, AutopilotAcceptsReview, AutopilotRequestsRework,
      AutopilotResolvesChanges, AutopilotFails, Commands, Recorded, Ends, MoveToQaReview
  <2>4. CounterEffect
    BY <1>7 DEF AutopilotPlans, AutopilotPerforms, AutopilotEnqueues, AutopilotAcceptsReview,
      AutopilotRequestsRework, AutopilotResolvesChanges, AutopilotFails, Commands, CounterEffect
  <2> QED
    BY <1>7, <2>1, <2>3, <2>4 DEF StepEffect
<1>8. OperatorStep => StepEffect /\ CounterEffect
  BY DEF OperatorStep, RequestDraft, RequestReview, RequestQa, SubmitDraft, CheckReview, RequestRework,
    ResolveChanges, CheckMedia, WaiveMediaGate, RequestImage, OperatorCommand, StepEffect, CounterEffect
<1>9. RequestStep \/ InFlightWindowPasses \/ UNCHANGED vars => StepEffect /\ CounterEffect
  BY DEF RequestStep, AdvanceSubmitted, AcceptReview, BindMedia, InFlightWindowPasses, vars,
    StepEffect, CounterEffect
<1> QED
  BY <1>2, <1>3, <1>4, <1>5, <1>6, <1>7, <1>8, <1>9 DEF Next

LEMMA EveryRequestEffect ==
  ASSUME TypeInv, [Next]_vars
  PROVE  RequestEffect /\ MediaEffect
<1> USE DEF media
<1>1. ASSUME NEW m, GuardStep(m)
      PROVE  RequestEffect /\ MediaEffect
  BY <1>1 DEF GuardStep, DuplicateInFlight, BudgetRefused, RequestEffect, MediaEffect
<1>2. ASSUME NEW w, WriterStep(w)
      PROVE  RequestEffect /\ MediaEffect
  BY <1>1, <1>2 DEF WriterStep, StartWriter, WriterAnswered, WriterAdvances, WriterDispatches,
    RequestEffect, MediaEffect
<1>3. ASSUME NEW e, EditorStep(e)
      PROVE  RequestEffect /\ MediaEffect
  BY <1>1, <1>3 DEF EditorStep, StartEditor, EditorFailed, EditorAnswered, RequestEffect, MediaEffect
<1>4. ASSUME NEW q, QaStep(q)
      PROVE  RequestEffect /\ MediaEffect
  BY <1>4 DEF QaStep, RunGates, QaAdvances, RequestEffect, MediaEffect
<1>5. ASSUME NEW i \in Image, ImageStep(i)
      PROVE  RequestEffect /\ MediaEffect
  BY <1>1, <1>5 DEF ImageStep, StartImage, ImageAnswered, RequestEffect, MediaEffect
<1>6. ASSUME NEW m, Crash(m) \/ CrashLosesMessage(m)
      PROVE  RequestEffect /\ MediaEffect
  BY <1>6 DEF Crash, CrashLosesMessage, WorkerDies, RequestEffect, MediaEffect
<1>7. ASSUME NEW a, AutopilotPlans(a) \/ AutopilotPerforms(a)
      PROVE  RequestEffect /\ MediaEffect
  BY <1>7 DEF AutopilotPlans, AutopilotPerforms, AutopilotEnqueues, AutopilotAcceptsReview,
    AutopilotRequestsRework, AutopilotResolvesChanges, AutopilotFails, Commands, RequestEffect, MediaEffect
<1>8. CASE OperatorStep
  <2>1. ASSUME NEW body \in Body, NEW reason, SubmitDraft(body, reason)
        PROVE  RequestEffect /\ MediaEffect
    <3>1. body # None
      BY StageMessages
    <3>2. CASE \E d \in DOMAIN drafts : drafts[d].body = body
      BY <2>1, <3>1, <3>2 DEF SubmitDraft, RequestEffect, MediaEffect
    <3>3. CASE ~\E d \in DOMAIN drafts : drafts[d].body = body
      <4>1. AddDraft(0, body) /\ request' = [NoRequest EXCEPT !.pc = "submitted", !.draft = Len(drafts) + 1]
            /\ UNCHANGED media
        BY <2>1, <3>3 DEF SubmitDraft
      <4>2. Len(drafts) + 1 \in DOMAIN drafts' /\ drafts'[Len(drafts) + 1].body = body
        <5>1. DOMAIN drafts' = 1..Len(drafts) + 1 /\ Len(drafts) \in Nat
              /\ drafts'[Len(drafts) + 1] = [attempt |-> 0, body |-> body]
          BY <4>1, AddedDraft
        <5> QED
          BY <5>1
      <4> QED
        BY <3>1, <4>1, <4>2 DEF RequestEffect, MediaEffect
    <3> QED
      BY <3>2, <3>3
  <2>2. CASE ~\E body \in Body, reason \in BOOLEAN : SubmitDraft(body, reason)
    BY <1>8, <2>2 DEF OperatorStep, RequestDraft, RequestReview, RequestQa, CheckReview, RequestRework,
      ResolveChanges, CheckMedia, WaiveMediaGate, RequestImage, RequestEffect, MediaEffect
  <2> QED
    BY <2>1, <2>2
<1>9. RequestStep \/ InFlightWindowPasses \/ UNCHANGED vars => RequestEffect /\ MediaEffect
  BY DEF RequestStep, AdvanceSubmitted, AcceptReview, BindMedia, InFlightWindowPasses, vars,
    RequestEffect, MediaEffect
<1> QED
  BY <1>2, <1>3, <1>4, <1>5, <1>6, <1>7, <1>8, <1>9 DEF Next

-----------------------------------------------------------------------------
(* Types and references.                                                    *)

LEMMA RequestTyped ==
  ASSUME TypeInv, RequestEffect, ArtifactStep
  PROVE  request' \in RequestRecords /\ request'.draft \in 0..Len(drafts') /\ request'.review \in 0..Len(reviews')
<1>1. request \in RequestRecords /\ request.draft \in 0..Len(drafts) /\ request.review \in 0..Len(reviews)
  BY DEF TypeInv, StageTypes, RestTyped, HoldersRefer
<1>2. /\ Len(drafts) \in Nat /\ Len(reviews) \in Nat /\ Len(drafts') \in Nat /\ Len(reviews') \in Nat
      /\ Len(drafts) <= Len(drafts') /\ Len(reviews) <= Len(reviews')
      /\ \A d \in DOMAIN drafts' : d \in 0..Len(drafts') /\ d \in Nat
  BY TablesGrow DEF TypeInv, StageTypes, ArtifactsTyped, Extends
<1>3. CASE UNCHANGED request
  BY <1>1, <1>2, <1>3
<1>4. CASE request' = NoRequest \/ request' = [NoRequest EXCEPT !.pc = "media"]
  BY <1>2, <1>4 DEF NoRequest, RequestRecords
<1>5. CASE request' = [pc |-> "accepting", draft |-> ActiveDraft, review |-> ActiveReview]
  <2>1. request' \in RequestRecords /\ request'.draft = Len(drafts) /\ request'.review = Len(reviews)
    BY <1>2, <1>5 DEF RequestRecords, ActiveDraft, ActiveReview
  <2> QED
    BY <1>2, <2>1
<1>6. ASSUME NEW d \in DOMAIN drafts', request' = [NoRequest EXCEPT !.pc = "submitted", !.draft = d]
      PROVE  request' \in RequestRecords /\ request'.draft \in 0..Len(drafts') /\ request'.review \in 0..Len(reviews')
  <2>1. request' = [pc |-> "submitted", draft |-> d, review |-> 0]
    BY <1>6 DEF NoRequest
  <2> QED
    BY <1>2, <2>1 DEF RequestRecords
<1> QED
  BY <1>3, <1>4, <1>5, <1>6 DEF RequestEffect

LEMMA StepsTyped ==
  ASSUME TypeInv, StepEffect, ItemStep, ArtifactStep
  PROVE  /\ step' = [a \in Sweep |-> step'[a]]
         /\ \A a \in Sweep :
              step'[a].pc = "planned" =>
                /\ step'[a].action \in StageActions
                /\ step'[a].action = Command("resolve_changes") => entry'.rework.responsible # None
<1> DEFINE Fine(s, e) ==
             s.pc = "planned" => s.action \in StageActions
                                 /\ (s.action = Command("resolve_changes") => e.rework.responsible # None)
<1>1. step = [a \in Sweep |-> step[a]] /\ \A a \in Sweep : Fine(step[a], entry)
  BY DEF TypeInv, StageTypes, RestTyped, HoldersRefer
<1>2. entry.rework.responsible # None => entry'.rework.responsible # None
  BY ItemStaysTyped
<1>3. CASE UNCHANGED step
  BY <1>1, <1>2, <1>3
<1>4. ASSUME NEW a \in Sweep, Plans(a)
      PROVE  step' = [b \in Sweep |-> step'[b]] /\ \A b \in Sweep : Fine(step'[b], entry')
  <2> DEFINE new == [pc |-> "planned", action |-> Planned]
  <2>1. Planned \in StageActions /\ (Planned = Command("resolve_changes") => row = "changes_requested")
    BY <1>4, PlannedInStages DEF Plans, TypeInv, StageTypes, ItemTyped
  <2>2. Fine(new, entry')
    BY <1>2, <2>1 DEF TypeInv, EntryRefers
  <2>3. step' = [step EXCEPT ![a] = new]
    BY <1>4 DEF Plans
  <2>4. step' = [b \in Sweep |-> step'[b]] /\ \A b \in Sweep : step'[b] = IF b = a THEN new ELSE step[b]
    <3> HIDE DEF new
    <3> QED
      BY <1>1, <2>3
  <2> HIDE DEF new
  <2> QED
    BY <1>1, <1>2, <2>2, <2>4
<1>5. ASSUME NEW a \in Sweep, Ends(a)
      PROVE  step' = [b \in Sweep |-> step'[b]] /\ \A b \in Sweep : Fine(step'[b], entry')
  <2>1. step' = [step EXCEPT ![a] = NoStep] /\ NoStep.pc # "planned"
    BY <1>5 DEF Ends, NoStep
  <2>2. step' = [b \in Sweep |-> step'[b]] /\ \A b \in Sweep : step'[b] = IF b = a THEN NoStep ELSE step[b]
    BY <1>1, <2>1
  <2> QED
    BY <1>1, <1>2, <2>1, <2>2
<1> QED
  BY <1>3, <1>4, <1>5 DEF StepEffect

LEMMA ResultsRefer ==
  ASSUME TypeInv, TaskStep, ArtifactStep
  PROVE  /\ \A w \in Writer : task'[w].pc = "drafted" => task'[w].result \in DOMAIN drafts'
         /\ \A q \in QaRun : task'[q].pc = "reported" => task'[q].result \in DOMAIN reports'
<1> USE Kinds, StageMessages
<1> DEFINE Fine(m, t) == /\ m \in Writer /\ t.pc = "drafted" => t.result \in DOMAIN drafts'
                         /\ m \in QaRun /\ t.pc = "reported" => t.result \in DOMAIN reports'
<1>1. task \in [Message -> TaskRecords] /\ \A m \in Message : Fine(m, task[m])
  BY TablesGrow DEF TypeInv, StageTypes, RestTyped, HoldersRefer, Extends
<1>2. SUFFICES \A m \in Message : Fine(m, task'[m])
  OBVIOUS
<1>3. CASE UNCHANGED task
  BY <1>1, <1>3
<1>4. ASSUME NEW m \in Message, NEW t, Put(m, t), Fine(m, t)
      PROVE  \A k \in Message : Fine(k, task'[k])
  <2>1. \A k \in Message : task'[k] = IF k = m THEN t ELSE task[k]
    BY <1>1, <1>4 DEF Put
  <2> QED
    BY <1>1, <1>4, <2>1
<1>5. ASSUME NEW m \in Message, Idles(m) \/ Queues(m) \/ Asks(m) \/ HasDraft(m) \/ HasReport(m)
      PROVE  \E t : Put(m, t) /\ Fine(m, t)
  <2>1. CASE Idles(m)
    BY <2>1 DEF Idles, NoTask
  <2>2. CASE Queues(m) \/ Asks(m)
    BY <2>2 DEF Queues, Asks
  <2>3. CASE HasDraft(m)
    BY <2>3 DEF HasDraft, DraftOfWriter
  <2>4. CASE HasReport(m)
    BY <2>4 DEF HasReport
  <2> QED
    BY <1>5, <2>1, <2>2, <2>3, <2>4
<1>6. ASSUME NEW w \in Writer, NEW e \in Editor, HandsOver(w, e)
      PROVE  \A k \in Message : Fine(k, task'[k])
  <2>1. \A k \in Message : task'[k] = IF k = e THEN Queued(0) ELSE IF k = w THEN NoTask ELSE task[k]
    BY <1>1, <1>6 DEF HandsOver
  <2>2. NoTask.pc = "idle" /\ Queued(0).pc = "queued"
    BY DEF NoTask, Queued
  <2> QED
    BY <1>1, <2>1, <2>2
<1> HIDE DEF Fine
<1> QED
  BY <1>3, <1>4, <1>5, <1>6 DEF TaskStep, Records

LEMMA TypeStep ==
  ASSUME TypeInv, [Next]_vars
  PROVE  TypeInv'
<1>1. TaskStep /\ ArtifactStep /\ ItemStep /\ StepEffect /\ CounterEffect /\ RequestEffect /\ MediaEffect
  BY EveryTaskStep, EveryArtifactStep, EveryItemStep, EveryStepEffect, EveryRequestEffect
<1>2. ItemTyped' /\ EntryRefers'
  BY <1>1, ItemStaysTyped
<1>3. ArtifactsTyped'
  BY <1>1, TablesGrow, AttemptsGrow DEF ArtifactsTyped
<1>4. RestTyped'
  <2>1. bound' \subseteq Need /\ candidate' \subseteq Need
    BY <1>1 DEF MediaEffect, TypeInv, StageTypes, RestTyped, KindsTyped
  <2>2. task' \in [Message -> TaskRecords] /\ request' \in RequestRecords
    BY <1>1, TasksTyped, RequestTyped
  <2>3. commands' \in Nat /\ spent' \in 0..Budget
    BY <1>1 DEF CounterEffect, TypeInv, StageTypes, RestTyped
  <2>4. step' = [a \in Sweep |-> step'[a]]
        /\ \A a \in Sweep : step'[a].pc = "planned" => step'[a].action \in StageActions
    BY <1>1, StepsTyped
  <2> QED
    BY <2>1, <2>2, <2>3, <2>4 DEF RestTyped
<1>5. KindsTyped' /\ ArtifactsRefer'
  BY <1>1, TasksTyped, ReferencesStay
<1>6. HoldersRefer'
  BY <1>1, ResultsRefer, RequestTyped, StepsTyped DEF HoldersRefer
<1> QED
  BY <1>2, <1>3, <1>4, <1>5, <1>6 DEF TypeInv, StageTypes

LEMMA TypeInit ==
  ASSUME Init
  PROVE  TypeInv
<1>1. NoTask \in TaskRecords /\ NoTask.pc = "idle"
  BY QueuedTyped
<1>2. entry \in EntryRecords
  BY DEF Init, EntryRecords
<1>3. ItemTyped
  BY <1>2 DEF Init, ItemTyped, StageStates, ReworkTargets
<1>4. ArtifactsTyped
  BY DEF Init, ArtifactsTyped
<1>5. RestTyped
  <2>1. commands \in Nat
    BY StageBounds DEF Init
  <2>2. request \in RequestRecords
    BY DEF Init, NoRequest, RequestRecords
  <2>3. task \in [Message -> TaskRecords]
    BY <1>1 DEF Init
  <2> QED
    BY <2>1, <2>2, <2>3 DEF Init, RestTyped, NoStep
<1>6. KindsTyped
  BY <1>1, Kinds DEF Init, KindsTyped
<1>7. EntryRefers /\ ArtifactsRefer
  BY DEF Init, EntryRefers, ArtifactsRefer
<1>8. HoldersRefer
  BY <1>1, Kinds DEF Init, HoldersRefer, NoStep, NoRequest
<1> QED
  BY <1>3, <1>4, <1>5, <1>6, <1>7, <1>8 DEF TypeInv, StageTypes

LEMMA TypesAreOK ==
  ASSUME TypeInv
  PROVE  TypeOK
<1> USE DEF TypeInv
<1>1. row \in WorkflowState /\ fresh \subseteq Message \cup Sweep
  BY DEF StageTypes, ItemTyped, StageStates, ReworkTargets, WorkflowState
<1>2. entry.rework.responsible \in WorkflowState \cup {None}
  BY DEF StageTypes, ItemTyped, EntryRecords, ReworkTargets, WorkflowState
<1>3. \A r \in DOMAIN reviews : reviews[r] \in EditorialReview
  <2>1. reviews \in Seq(EditorialReview)
    BY DEF StageTypes, ArtifactsTyped
  <2> QED
    BY <2>1
<1>4. \A d \in DOMAIN drafts : drafts[d] \in ContentDraft
  <2>1. drafts \in Seq(ContentDraft)
    BY DEF StageTypes, ArtifactsTyped
  <2> QED
    BY <2>1
<1>5. \A r \in DOMAIN reports : reports[r] \in QaReport
  <2>1. reports \in Seq(QaReport)
    BY DEF StageTypes, ArtifactsTyped
  <2> QED
    BY <2>1
<1>6. \A purpose \in GenerationPurpose : \A i \in DOMAIN attempts[purpose] :
        attempts[purpose][i] \in AiGenerationAttempt
  <2>1. \A purpose \in GenerationPurpose : attempts[purpose] \in Seq(AiGenerationAttempt)
    BY DEF StageTypes, ArtifactsTyped
  <2> QED
    BY <2>1
<1>7. \A m \in Message : task[m].pc \in {"idle", "queued", "calling", "drafted", "dispatching", "reported"}
                         /\ task[m].retries \in 0..MaxRetries
  BY DEF StageTypes, RestTyped, TaskRecords, TaskStates
<1>8. bound \cup candidate \subseteq Need
  BY DEF StageTypes, RestTyped
<1> QED
  BY <1>1, <1>2, <1>3, <1>4, <1>5, <1>6, <1>7, <1>8 DEF TypeOK, EntryRefers, ArtifactsRefer

\* The tables stay typed and refer to rows that exist: no step takes a row out
\* from under the entry, a review, a report or a message that names it.
THEOREM StagesAlwaysTyped == Spec => []TypeOK
<1>1. TypeInv /\ [Next]_vars => TypeInv'
  BY TypeStep
<1> QED
  BY <1>1, TypeInit, TypesAreOK, PTL DEF Spec

LEMMA CallInit ==
  ASSUME Init
  PROVE  CallInv
<1>1. \A m \in Generation : task[m].pc = "idle"
  BY Kinds DEF Init, NoTask
<1>2. \A purpose \in GenerationPurpose : attempts[purpose] = <<>>
  BY DEF Init
<1> QED
  BY <1>1, <1>2 DEF CallInv, LockHeldOnce, CallsAreNew, Holding, OneAttemptPerIdentity

\* One attempt is recorded for each purpose, input and retry number, however many
\* deliveries, redeliveries and regenerations ask for it: the lock is held from
\* the lookup to the stored answer, so no second lookup comes between.
THEOREM AttemptAlwaysOnce == Spec => []OneAttemptPerIdentity
<1>1. TypeInv /\ CallInv /\ [Next]_vars => TypeInv' /\ CallInv'
  BY TypeStep, CallStep
<1>2. CallInv => OneAttemptPerIdentity
  BY DEF CallInv
<1> QED
  BY <1>1, <1>2, TypeInit, CallInit, PTL DEF Spec

-----------------------------------------------------------------------------
(* Copies of the item that no transition came after.                        *)

EditInv == FreshWriters /\ FreshReports /\ FreshSteps /\ ReportsAreReviewed /\ AnswersAreNewer /\ WriterSubjects

\* Who takes a new copy of the item, and what it finds.
FreshStep ==
  \A x \in fresh' \ fresh :
    \/ x \in Writer /\ row = "drafting" /\ task[x].pc = "queued"
    \/ /\ x \in QaRun /\ row = "qa_review"
       /\ UNCHANGED <<drafts, reviews>> /\ task'[x].pc = "reported"
       /\ reports'[task'[x].result].draft = ActiveDraft /\ reports'[task'[x].result].review = ActiveReview
    \/ x \in Sweep /\ Plans(x)

LEMMA EveryFreshStep ==
  ASSUME TypeInv, [Next]_vars
  PROVE  FreshStep
<1> USE DEF item
<1>1. ASSUME NEW m, GuardStep(m)
      PROVE  UNCHANGED fresh
  BY <1>1 DEF GuardStep, DuplicateInFlight, BudgetRefused
<1>2. ASSUME NEW w \in Writer, WriterStep(w)
      PROVE  FreshStep
  <2>1. fresh' \subseteq fresh \/ (row = "drafting" /\ task[w].pc = "queued" /\ fresh' = fresh \cup {w})
    BY <1>1, <1>2 DEF WriterStep, StartWriter, WriterAnswered, WriterAdvances, WriterDispatches,
      Load, Forget, Move, MoveToEditing
  <2> QED
    BY <2>1 DEF FreshStep
<1>3. ASSUME NEW e, EditorStep(e)
      PROVE  UNCHANGED fresh
  BY <1>1, <1>3 DEF EditorStep, StartEditor, EditorFailed, EditorAnswered
<1>4. ASSUME NEW q \in QaRun, QaStep(q)
      PROVE  FreshStep
  <2>1. ASSUME NEW ok \in BOOLEAN, RunGates(q, ok)
        PROVE  FreshStep
    <3> DEFINE report == [draft |-> ActiveDraft, review |-> ActiveReview, media |-> MediaResult,
                          ready |-> ok /\ MediaResult # "unsatisfied"]
               t == [task[q] EXCEPT !.pc = "reported", !.result = Len(reports')]
    <3>1. CASE UNCHANGED item
      BY <3>1 DEF FreshStep
    <3>2. CASE ~UNCHANGED item
      <4>1. /\ row = "qa_review" /\ UNCHANGED <<drafts, reviews>> /\ Load(q)
            /\ reports' = Persisted(report) /\ Put(q, t)
        BY <2>1, <3>2 DEF RunGates
      <4>2. report \in QaReport
        BY ReportTyped
      <4>3. Len(reports') \in Nat /\ reports'[Len(reports')] = report
        <5> HIDE DEF report
        <5> QED
          BY <4>1, <4>2, PersistedReport
      <4>4. report.draft = ActiveDraft /\ report.review = ActiveReview
        OBVIOUS
      <4>5. task[q] \in TaskRecords /\ task \in [Message -> TaskRecords] /\ q \in Message
        BY Kinds DEF TypeInv, StageTypes, RestTyped
      <4>6. t.pc = "reported" /\ t.result = Len(reports')
        BY <4>5 DEF TaskRecords
      <4>7. task'[q] = t
        <5> HIDE DEF t
        <5> QED
          BY <4>1, <4>5 DEF Put
      <4> HIDE DEF t, report
      <4>8. fresh' \ fresh \subseteq {q}
        BY <4>1 DEF Load
      <4> QED
        BY <4>1, <4>3, <4>4, <4>6, <4>7, <4>8 DEF FreshStep
    <3> QED
      BY <3>1, <3>2
  <2>2. QaAdvances(q) => FreshStep
    BY DEF QaAdvances, Move, FreshStep
  <2> QED
    BY <1>4, <2>1, <2>2 DEF QaStep
<1>5. ASSUME NEW i, ImageStep(i)
      PROVE  UNCHANGED fresh
  BY <1>1, <1>5 DEF ImageStep, StartImage, ImageAnswered
<1>6. ASSUME NEW m, Crash(m) \/ CrashLosesMessage(m)
      PROVE  fresh' \subseteq fresh
  BY <1>6 DEF Crash, CrashLosesMessage, WorkerDies, Forget
<1>7. ASSUME NEW a \in Sweep, AutopilotPlans(a) \/ AutopilotPerforms(a)
      PROVE  FreshStep
  <2>1. AutopilotPlans(a) => Plans(a) /\ Load(a)
    BY DEF AutopilotPlans, Plans
  <2>2. AutopilotPerforms(a) => fresh' \subseteq fresh
    BY DEF AutopilotPerforms, AutopilotEnqueues, AutopilotAcceptsReview, AutopilotRequestsRework,
      AutopilotResolvesChanges, AutopilotFails, Forget, Move, MoveToQaReview
  <2> QED
    BY <1>7, <2>1, <2>2 DEF FreshStep, Load
<1>8. OperatorStep => fresh' \subseteq fresh
  BY DEF OperatorStep, RequestDraft, RequestReview, RequestQa, SubmitDraft, CheckReview, RequestRework,
    ResolveChanges, CheckMedia, WaiveMediaGate, RequestImage, Move, MoveToRework
<1>9. RequestStep \/ InFlightWindowPasses \/ UNCHANGED vars => fresh' \subseteq fresh
  BY DEF RequestStep, AdvanceSubmitted, AcceptReview, BindMedia, InFlightWindowPasses, vars,
    Move, MoveToEditing, MoveToQaReview
<1>10. fresh' \subseteq fresh => FreshStep
  BY DEF FreshStep
<1> QED
  BY <1>2, <1>3, <1>4, <1>5, <1>6, <1>7, <1>8, <1>9, <1>10 DEF Next

\* A move leaves no fresh copy.
LEMMA MovesOrStays ==
  ASSUME ItemStep
  PROVE  Stays \/ fresh' = {}
BY DEF ItemStep, Advances, AsksForRework, MoveToEditing, MoveToQaReview, MoveToRework, SendsBack, Returns, ComesToHuman, Move

\* The rework a writer answers is a review there is.
LEMMA ReworkReviewed ==
  ASSUME TypeInv
  PROVE  /\ ReworkReview \in {0} \cup DOMAIN reviews
         /\ ReworkReview # 0 => reviews[ReworkReview].draft \in DOMAIN drafts
         /\ DOMAIN reviews = 1..Len(reviews) /\ Len(reviews) \in Nat
         /\ DOMAIN drafts = 1..Len(drafts) /\ Len(drafts) \in Nat
<1>1. reviews \in Seq(EditorialReview) /\ drafts \in Seq(ContentDraft)
  BY DEF TypeInv, StageTypes, ArtifactsTyped
<1>2. DOMAIN reviews = 1..Len(reviews) /\ Len(reviews) \in Nat
      /\ DOMAIN drafts = 1..Len(drafts) /\ Len(drafts) \in Nat
  BY <1>1
<1>3. entry.rework.review \in 0..Len(reviews)
  BY DEF TypeInv, EntryRefers
<1> QED
  BY <1>2, <1>3 DEF ReworkReview, TypeInv, ArtifactsRefer

LEMMA SameRework ==
  ASSUME TypeInv, ArtifactStep, UNCHANGED entry
  PROVE  /\ ReworkReview' = ReworkReview
         /\ ReworkReview # 0 => reviews'[ReworkReview] = reviews[ReworkReview]
<1>1. Extends(reviews', reviews)
  BY TablesGrow
<1>2. entry.rework.review # 0 => reviews'[entry.rework.review] = reviews[entry.rework.review]
  <2>1. entry.rework.review \in 0..Len(reviews) /\ DOMAIN reviews = 1..Len(reviews) /\ Len(reviews) \in Nat
    BY ReworkReviewed DEF TypeInv, EntryRefers
  <2> QED
    BY <1>1, <2>1 DEF Extends
<1> QED
  BY <1>2 DEF ReworkReview

\* A draft stored for a rework answers it.
LEMMA StoredAnswers ==
  ASSUME TypeInv, AnswersAreNewer, NEW n, NEW i \in Stored("writer", ReworkReview, n), NEW d \in DraftOf(i),
         ReworkReview # 0
  PROVE  d > reviews[ReworkReview].draft
<1>1. d \in DOMAIN drafts /\ drafts[d].attempt = i /\ i \in DOMAIN attempts["writer"]
      /\ attempts["writer"][i].subject = ReworkReview
  BY DEF DraftOf, Stored
<1>2. attempts["writer"] \in Seq(AiGenerationAttempt)
  BY DEF TypeInv, StageTypes, ArtifactsTyped, GenerationPurpose
<1>3. i # 0
  BY <1>1, <1>2
<1>4. reviews[ReworkReview].draft < d
  BY <1>1, <1>3 DEF AnswersAreNewer
<1>5. reviews[ReworkReview].draft \in Nat /\ d \in Nat
  BY <1>1, ReworkReviewed
<1> QED
  BY <1>4, <1>5

LEMMA WritersStep ==
  ASSUME TypeInv, EditInv, TaskStep, ArtifactStep, ItemStep, FreshStep
  PROVE  FreshWriters'
<1> USE Kinds, StageMessages
<1>1. CASE fresh' = {}
  BY <1>1 DEF FreshWriters
<1>2. CASE Stays
  <2>1. UNCHANGED <<row, entry, cycles>>
    BY <1>2 DEF Stays
  <2>2. ReworkReview' = ReworkReview /\ (ReworkReview # 0 => reviews'[ReworkReview] = reviews[ReworkReview])
    BY <2>1, SameRework
  <2> DEFINE Current(t) ==
        /\ t.pc = "calling" => t.subject = ReworkReview
        /\ t.pc = "drafted" /\ ReworkReview # 0 => t.result > reviews[ReworkReview].draft
  <2>3. SUFFICES ASSUME NEW w \in Writer \cap fresh'
                 PROVE  row = "drafting" /\ Current(task'[w])
    BY <2>1, <2>2 DEF FreshWriters, WriterIsCurrent
  <2>4. row = "drafting"
    BY <2>3 DEF EditInv, FreshWriters, WriterIsCurrent, FreshStep
  <2>5. task \in [Message -> TaskRecords]
    BY DEF TypeInv, StageTypes, RestTyped
  <2>6. CASE task'[w] = task[w]
    <3>1. CASE w \in fresh
      BY <2>6, <3>1 DEF EditInv, FreshWriters, WriterIsCurrent
    <3>2. CASE w \notin fresh
      <4>1. task[w].pc = "queued"
        BY <2>3, <3>2 DEF FreshStep
      <4> QED
        BY <2>4, <2>6, <4>1
    <3> QED
      BY <3>1, <3>2
  <2>7. CASE task'[w] # task[w]
    <3>1. Idles(w) \/ Queues(w) \/ Asks(w) \/ HasDraft(w) \/ \E x \in Writer, e \in Editor : HandsOver(x, e)
      <4>1. ASSUME NEW m \in Message \ {w}, NEW t, Put(m, t)
            PROVE  FALSE
        BY <2>5, <2>7, <4>1 DEF Put
      <4>2. ~HasReport(w)
        BY DEF HasReport
      <4> QED
        BY <2>7, <4>1, <4>2 DEF TaskStep, Records, Idles, Queues, Asks, HasDraft, HasReport
    <3>2. CASE Idles(w) \/ Queues(w)
      BY <2>4, <2>5, <3>2 DEF Idles, Queues, Put, NoTask
    <3>3. CASE Asks(w)
      BY <2>4, <2>5, <3>3 DEF Asks, Put
    <3>4. CASE HasDraft(w)
      <4>1. task'[w].pc \in {"drafted", "dispatching"}
            /\ (task'[w].pc = "drafted" => DraftOfWriter(w, task'[w].result))
        BY <2>5, <3>4 DEF HasDraft, Put
      <4>2. ASSUME NEW d, DraftOfWriter(w, d), ReworkReview # 0
            PROVE  d > reviews[ReworkReview].draft
        <5>1. CASE d = Len(drafts) + 1
          <6>1. reviews[ReworkReview].draft \in 1..Len(drafts) /\ Len(drafts) \in Nat
            BY <4>2, ReworkReviewed
          <6> QED
            BY <5>1, <6>1
        <5>2. CASE d # Len(drafts) + 1
          BY <4>2, <5>2, StoredAnswers DEF DraftOfWriter, EditInv
        <5> QED
          BY <5>1, <5>2
      <4> QED
        BY <2>4, <4>1, <4>2
    <3>5. ASSUME NEW x \in Writer, NEW e \in Editor, HandsOver(x, e)
          PROVE  task'[w].pc \notin {"calling", "drafted"}
      BY <2>5, <2>7, <3>5 DEF HandsOver, NoTask
    <3> QED
      BY <2>4, <3>1, <3>2, <3>3, <3>4, <3>5
  <2> QED
    BY <2>6, <2>7
<1> QED
  BY <1>1, <1>2, MovesOrStays

\* While nothing stale was written, a draft and a review change in their own
\* stages only.
LEMMA QuietTables ==
  ASSUME TypeInv, FreshWriters, ArtifactStep, serial', row \notin {"drafting", "editing"}
  PROVE  UNCHANGED <<drafts, reviews>> /\ ActiveDraft' = ActiveDraft /\ ActiveReview' = ActiveReview
<1>1. ASSUME NEW w \in Writer, WritesDraft(w)
      PROVE  FALSE
  <2>1. w \in fresh
    BY <1>1, StageMessages DEF WritesDraft, OnCopyOf
  <2> QED
    BY <2>1 DEF FreshWriters, WriterIsCurrent
<1> QED
  BY <1>1 DEF ArtifactStep, SubmitsDraft, WritesReview, WritesReport, artifacts, ActiveDraft, ActiveReview

LEMMA ReportsStep ==
  ASSUME TypeInv, EditInv, TaskStep, ArtifactStep, ItemStep, FreshStep
  PROVE  FreshReports'
<1> USE Kinds, StageMessages
<1>1. SUFFICES ASSUME serial'
               PROVE  /\ \A q \in QaRun \cap fresh' :
                           task'[q].pc = "reported" /\ row' = "qa_review" /\ ReportIsCurrent(task[q].result)'
                      /\ row' = "awaiting_human_review" => entry'.human # 0 /\ ReportIsCurrent(entry.human)'
  BY DEF FreshReports, ReportIsCurrent, ActiveDraft, ActiveReview
<1>2. task \in [Message -> TaskRecords] /\ FreshReports /\ FreshWriters
  BY DEF TypeInv, StageTypes, RestTyped, EditInv
<1>3. Extends(reports', reports)
  BY TablesGrow
<1>4. \A r \in DOMAIN reports : reports'[r] = reports[r]
  BY <1>3 DEF Extends
<1>5. row \notin {"drafting", "editing"} =>
        UNCHANGED <<drafts, reviews>> /\ ActiveDraft' = ActiveDraft /\ ActiveReview' = ActiveReview
  BY <1>1, <1>2, QuietTables
<1>6. CASE Stays
  <2>1. UNCHANGED <<row, entry>> /\ serial
    BY <1>1, <1>6 DEF Stays
  <2>2. ASSUME NEW q \in QaRun, q \in fresh'
        PROVE  task'[q].pc = "reported" /\ row' = "qa_review" /\ ReportIsCurrent(task[q].result)'
    <3>1. CASE q \in fresh
      <4>1. task[q].pc = "reported" /\ row = "qa_review" /\ ReportIsCurrent(task[q].result)
        BY <1>2, <2>1, <2>2, <3>1 DEF FreshReports
      <4>2. task'[q] = task[q]
        <5>1. ASSUME NEW m \in Message, NEW t, Put(m, t), m # q
              PROVE  task'[q] = task[q]
          BY <1>2, <5>1 DEF Put
        <5>2. ASSUME NEW w \in Writer, NEW e \in Editor, HandsOver(w, e)
              PROVE  task'[q] = task[q]
          BY <1>2, <5>2 DEF HandsOver
        <5>3. ~KeepsReport(q)
          BY <2>2, <4>1 DEF KeepsReport
        <5> QED
          BY <5>1, <5>2, <5>3 DEF TaskStep, Records, Idles, Queues, Asks, HasDraft, HasReport
      <4>3. task[q].result \in DOMAIN reports
        BY <4>1 DEF TypeInv, HoldersRefer
      <4> QED
        BY <1>4, <1>5, <2>1, <4>1, <4>2, <4>3 DEF ReportIsCurrent
    <3>2. CASE q \notin fresh
      <4>1. /\ row = "qa_review" /\ task'[q].pc = "reported"
            /\ reports'[task'[q].result].draft = ActiveDraft /\ reports'[task'[q].result].review = ActiveReview
        BY <2>2, <3>2 DEF FreshStep
      <4> QED
        BY <1>5, <2>1, <4>1 DEF ReportIsCurrent
    <3> QED
      BY <3>1, <3>2
  <2>3. ASSUME row' = "awaiting_human_review"
        PROVE  entry'.human # 0 /\ ReportIsCurrent(entry.human)'
    <3>1. row = "awaiting_human_review" /\ entry.human # 0 /\ ReportIsCurrent(entry.human)
      BY <1>2, <2>1, <2>3 DEF FreshReports
    <3>2. entry.human \in DOMAIN reports
      <4>1. entry.human \in 0..Len(reports) /\ reports \in Seq(QaReport)
        BY DEF TypeInv, EntryRefers, StageTypes, ArtifactsTyped
      <4> QED
        BY <3>1, <4>1
    <3> QED
      BY <1>4, <1>5, <2>1, <3>1, <3>2 DEF ReportIsCurrent
  <2> QED
    BY <2>2, <2>3
<1>7. ASSUME NEW q \in QaRun, ComesToHuman(q)
      PROVE  fresh' = {} /\ entry'.human # 0 /\ ReportIsCurrent(entry.human)'
  <2>1. q \in fresh /\ serial /\ fresh' = {}
    BY <1>1, <1>7 DEF ComesToHuman, Move, OnCopyOf
  <2>2. row = "qa_review" /\ ReportIsCurrent(task[q].result)
    BY <1>2, <2>1 DEF FreshReports
  <2>3. task[q].result \in DOMAIN reports /\ reports \in Seq(QaReport)
    BY <1>7 DEF ComesToHuman, TypeInv, HoldersRefer, StageTypes, ArtifactsTyped
  <2>4. task[q].result \in Nat /\ task[q].result # 0
    BY <2>3
  <2>5. entry'.human = task[q].result
    BY <1>7, <2>4, HumanEntry DEF ComesToHuman, TypeInv, StageTypes, ItemTyped
  <2> QED
    BY <1>4, <1>5, <2>1, <2>2, <2>3, <2>4, <2>5 DEF ReportIsCurrent
<1>8. CASE ~Stays /\ ~\E q \in QaRun : ComesToHuman(q)
  BY <1>8 DEF ItemStep, Advances, AsksForRework, MoveToEditing, MoveToQaReview, MoveToRework, SendsBack,
    Returns, Move, ReworkTargets
<1> QED
  BY <1>6, <1>7, <1>8

LEMMA SweepsStep ==
  ASSUME TypeInv, EditInv, StepEffect, ItemStep, FreshStep
  PROVE  FreshSteps'
<1> USE StageMessages
<1>1. CASE fresh' = {}
  BY <1>1 DEF FreshSteps
<1>2. CASE Stays
  <2>1. UNCHANGED <<row, cycles>>
    BY <1>2 DEF Stays
  <2>2. step = [a \in Sweep |-> step[a]] /\ row \in StageStates /\ cycles \in Nat
    BY DEF TypeInv, StageTypes, RestTyped, ItemTyped
  <2> DEFINE Fine(s) == /\ s.pc = "planned"
                        /\ s.action = Command("resolve_changes") => row = "changes_requested"
                        /\ s.action = Command("request_rework") => cycles < MAX_REWORK_CYCLES
             new == [pc |-> "planned", action |-> Planned]
  <2>3. SUFFICES ASSUME NEW a \in Sweep \cap fresh'
                 PROVE  Fine(step'[a])
    BY <2>1 DEF FreshSteps
  <2>4. a \in fresh => Fine(step[a])
    BY <2>3 DEF EditInv, FreshSteps
  <2>5. ASSUME Plans(a)
        PROVE  Fine(step'[a])
    <3>1. Fine(new)
      BY <2>2, <2>5, PlannedInStages DEF Plans
    <3>2. step'[a] = new
      <4>1. step' = [step EXCEPT ![a] = new]
        BY <2>5 DEF Plans
      <4> HIDE DEF new
      <4> QED
        BY <2>2, <4>1
    <3> QED
      BY <3>1, <3>2
  <2>6. CASE ~Plans(a)
    <3>1. a \in fresh
      BY <2>3, <2>6, StageMessages DEF FreshStep
    <3>2. step'[a] = step[a]
      <4>1. \A b \in Sweep : b # a /\ (Plans(b) \/ Ends(b)) => step'[a] = step[a]
        BY <2>2 DEF Plans, Ends
      <4>2. ~Ends(a)
        BY <2>3 DEF Ends
      <4> QED
        BY <2>6, <4>1, <4>2 DEF StepEffect
    <3> QED
      BY <2>4, <3>1, <3>2
  <2> QED
    BY <2>5, <2>6
<1> QED
  BY <1>1, <1>2, MovesOrStays

LEMMA ReviewedStep ==
  ASSUME TypeInv, EditInv, TaskStep, ArtifactStep, ItemStep
  PROVE  ReportsAreReviewed'
<1> USE Kinds, StageMessages
<1>1. ReportsAreReviewed
  BY DEF EditInv
<1>2. Extends(reports', reports) /\ Extends(reviews', reviews)
  BY TablesGrow
<1>3. \A r \in DOMAIN reports : r \in DOMAIN reports' /\ reports'[r] = reports[r]
  BY <1>2 DEF Extends
<1>4. \A r \in DOMAIN reports' : Passes(reports[r].review)' /\ reviews'[reports'[r].review].draft = reports'[r].draft
  <2>1. ASSUME NEW r \in DOMAIN reports
        PROVE  Passes(reports[r].review)' /\ reviews'[reports'[r].review].draft = reports'[r].draft
    <3>1. reports[r].review \in DOMAIN reviews
      BY DEF TypeInv, ArtifactsRefer
    <3>2. reviews'[reports[r].review] = reviews[reports[r].review]
      BY <1>2, <3>1 DEF Extends
    <3> QED
      BY <1>1, <1>3, <3>2 DEF ReportsAreReviewed, Passes
  <2>2. ASSUME NEW r \in DOMAIN reports', r \notin DOMAIN reports
        PROVE  Passes(reports[r].review)' /\ reviews'[reports'[r].review].draft = reports'[r].draft
    <3>1. WritesReport
      BY <2>2 DEF ArtifactStep, artifacts, WritesDraft, SubmitsDraft, WritesReview
    <3>2. reports'[r].draft = ActiveDraft /\ reports'[r].review = ActiveReview
      BY <2>2, <3>1, ReportTyped, PersistedReport DEF WritesReport
    <3>3. Passes(ActiveReview) /\ reviews[ActiveReview].draft = ActiveDraft /\ UNCHANGED reviews
      BY <3>1 DEF WritesReport, PackageResolves, PassingReviewCovers, ReviewCovers
    <3> QED
      BY <3>2, <3>3 DEF Passes
  <2> QED
    BY <2>1, <2>2
<1>5. \A q \in QaRun : task'[q].pc = "reported" => reports'[task'[q].result].ready
  <2>1. SUFFICES ASSUME NEW q \in QaRun, task'[q].pc = "reported"
                 PROVE  reports'[task'[q].result].ready
    OBVIOUS
  <2>2. task \in [Message -> TaskRecords]
    BY DEF TypeInv, StageTypes, RestTyped
  <2>3. CASE task'[q] = task[q]
    <3>1. task[q].result \in DOMAIN reports /\ reports[task[q].result].ready
      BY <1>1, <2>1, <2>3 DEF TypeInv, HoldersRefer, ReportsAreReviewed
    <3> QED
      BY <1>3, <2>3, <3>1
  <2>4. CASE HasReport(q)
    BY <2>2, <2>4 DEF HasReport, Put
  <2>5. task'[q] = task[q] \/ HasReport(q)
    <3>1. ASSUME NEW m \in Message, NEW t, Put(m, t), m # q
          PROVE  task'[q] = task[q]
      BY <2>2, <3>1 DEF Put
    <3>2. ASSUME NEW w \in Writer, NEW e \in Editor, HandsOver(w, e)
          PROVE  task'[q] = task[q]
      BY <2>2, <3>2 DEF HandsOver
    <3>3. ~Idles(q) /\ ~Queues(q) /\ ~Asks(q) /\ ~HasDraft(q)
      BY <2>1, <2>2 DEF Idles, Queues, Asks, HasDraft, Put, NoTask
    <3> QED
      BY <3>1, <3>2, <3>3 DEF TaskStep, Records, Idles, Queues, Asks, HasDraft, HasReport
  <2> QED
    BY <2>3, <2>4, <2>5
<1>6. /\ entry'.human # 0 => reports'[entry'.human].ready
      /\ row' = "awaiting_human_review" => entry'.human # 0
  <2>1. reports \in Seq(QaReport) /\ entry.human \in 0..Len(reports) /\ entry \in EntryRecords
    BY DEF TypeInv, StageTypes, ArtifactsTyped, EntryRefers, ItemTyped
  <2>2. entry.human # 0 => entry.human \in DOMAIN reports
    BY <2>1
  <2>3. CASE entry'.human = entry.human /\ (row' = "awaiting_human_review" => row = "awaiting_human_review")
    BY <1>1, <1>3, <2>2, <2>3 DEF ReportsAreReviewed
  <2>4. ASSUME NEW q \in QaRun, ComesToHuman(q)
        PROVE  entry'.human # 0 /\ reports'[entry'.human].ready
    <3>1. task[q].result \in DOMAIN reports /\ reports[task[q].result].ready
      BY <1>1, <2>4 DEF ComesToHuman, TypeInv, HoldersRefer, ReportsAreReviewed
    <3>2. task[q].result \in Nat /\ task[q].result # 0
      BY <2>1, <3>1
    <3>3. entry'.human = task[q].result
      BY <2>1, <2>4, <3>2, HumanEntry DEF ComesToHuman
    <3> QED
      BY <1>3, <3>1, <3>2, <3>3
  <2>5. CASE ~\E q \in QaRun : ComesToHuman(q)
    <3>1. Stays => UNCHANGED <<row, entry>>
      BY DEF Stays
    <3>2. ASSUME NEW x, NEW d, Advances(x, d)
          PROVE  row' = "editing" /\ entry'.human = entry.human
      BY <2>1, <3>2 DEF Advances, MoveToEditing, Move, EntryRecords
    <3>3. ASSUME NEW x, NEW d, NEW r, MoveToQaReview(x, d, r)
          PROVE  row' = "qa_review" /\ entry'.human = entry.human
      BY <2>1, <3>3 DEF MoveToQaReview, Move, EntryRecords
    <3>4. ASSUME NEW responsible, AsksForRework(responsible)
          PROVE  row' = "changes_requested" /\ entry'.human = entry.human
      BY <2>1, <3>4 DEF AsksForRework, MoveToRework, Move, EntryRecords
    <3>5. ASSUME NEW a, SendsBack(a)
          PROVE  row' = "drafting" /\ entry'.human = entry.human
      BY <2>1, <3>5 DEF SendsBack, Move, EntryRecords
    <3>6. ASSUME NEW x, Returns(x)
          PROVE  row' # "awaiting_human_review" /\ entry'.human = entry.human
      BY <2>1, <3>6, ReturnEntry DEF Returns, Move, ReworkTargets
    <3> QED
      BY <2>3, <2>5, <3>1, <3>2, <3>3, <3>4, <3>5, <3>6 DEF ItemStep
  <2> QED
    BY <2>4, <2>5
<1> QED
  BY <1>4, <1>5, <1>6 DEF ReportsAreReviewed

LEMMA AnswersStep ==
  ASSUME TypeInv, EditInv, TaskStep, ArtifactStep
  PROVE  AnswersAreNewer'
<1>1. Extends(drafts', drafts) /\ Extends(reviews', reviews)
      /\ Extends(attempts'["writer"], attempts["writer"])
  BY TablesGrow, AttemptsGrow DEF GenerationPurpose
<1>2. DOMAIN reviews = 1..Len(reviews) /\ Len(reviews) \in Nat
      /\ DOMAIN drafts = 1..Len(drafts) /\ Len(drafts) \in Nat
  BY ReworkReviewed
<1>3. attempts \in [GenerationPurpose -> Seq(AiGenerationAttempt)] /\ attempts["writer"] \in Seq(AiGenerationAttempt)
  BY DEF TypeInv, StageTypes, ArtifactsTyped, GenerationPurpose
<1> DEFINE Answers(d) ==
             /\ drafts'[d].attempt # 0 => drafts'[d].body = None
             /\ LET a == drafts'[d].attempt IN
                a # 0 /\ attempts'["writer"][a].subject # 0 =>
                  /\ attempts'["writer"][a].subject \in DOMAIN reviews'
                  /\ reviews'[attempts'["writer"][a].subject].draft < d
<1>4. ASSUME NEW d \in DOMAIN drafts
      PROVE  Answers(d)
  <2> DEFINE a == drafts[d].attempt
  <2>1. drafts'[d] = drafts[d]
    BY <1>1 DEF Extends
  <2>2. a # 0 => a \in DOMAIN attempts["writer"]
    BY DEF TypeInv, ArtifactsRefer
  <2>3. a # 0 => attempts'["writer"][a] = attempts["writer"][a]
    BY <1>1, <2>2 DEF Extends
  <2>4. /\ a # 0 => drafts[d].body = None
        /\ a # 0 /\ attempts["writer"][a].subject # 0 =>
             /\ attempts["writer"][a].subject \in DOMAIN reviews
             /\ reviews[attempts["writer"][a].subject].draft < d
    BY DEF EditInv, AnswersAreNewer
  <2>5. \A r \in DOMAIN reviews : r \in DOMAIN reviews' /\ reviews'[r] = reviews[r]
    BY <1>1 DEF Extends
  <2> QED
    BY <2>1, <2>3, <2>4, <2>5
<1>5. ASSUME NEW w \in Writer, WritesDraft(w), NEW d \in DOMAIN drafts', d \notin DOMAIN drafts
      PROVE  Answers(d)
  <2>1. Len(attempts["writer"]) + 1 \in Nat
    BY <1>3
  <2>2. d = Len(drafts) + 1 /\ drafts'[d].attempt = Len(attempts["writer"]) + 1 /\ drafts'[d].body = None
    <3>1. AddDraft(Len(attempts["writer"]) + 1, None)
      BY <1>5 DEF WritesDraft
    <3> QED
      BY <1>5, <2>1, <3>1, AddedDraft
  <2>3. attempts'["writer"][Len(attempts["writer"]) + 1].subject = task[w].subject
    <3> DEFINE new == [subject |-> task[w].subject, retry |-> task[w].retry + task[w].retries, status |-> "succeeded"]
    <3>1. new.subject = task[w].subject
      OBVIOUS
    <3>2. attempts'["writer"] = Append(attempts["writer"], new)
      BY <1>3, <1>5 DEF WritesDraft, AddAttempt, GenerationPurpose
    <3>3. attempts["writer"] \in Seq(AiGenerationAttempt \cup {new})
      BY <1>3
    <3> HIDE DEF new
    <3>4. Append(attempts["writer"], new)[Len(attempts["writer"]) + 1] = new
      BY <3>3, AppendExtends
    <3> QED
      BY <3>1, <3>2, <3>4
  <2>4. task[w].subject \in {0} \cup DOMAIN reviews /\ UNCHANGED reviews
    BY <1>5 DEF WritesDraft, EditInv, WriterSubjects
  <2>5. task[w].subject # 0 => reviews[task[w].subject].draft \in 1..Len(drafts)
    BY <1>2, <2>4 DEF TypeInv, ArtifactsRefer
  <2> QED
    BY <1>2, <2>1, <2>2, <2>3, <2>4, <2>5
<1>6. ASSUME NEW body \in Body, SubmitsDraft(body), NEW d \in DOMAIN drafts', d \notin DOMAIN drafts
      PROVE  Answers(d)
  <2>1. AddDraft(0, body)
    BY <1>6 DEF SubmitsDraft
  <2>2. drafts'[d].attempt = 0
    BY <1>6, <2>1, AddedDraft
  <2> QED
    BY <2>2
<1>7. (\A w \in Writer : ~WritesDraft(w)) /\ (\A body \in Body : ~SubmitsDraft(body)) => UNCHANGED drafts
  BY DEF ArtifactStep, artifacts, WritesReview, WritesReport
<1>8. \A d \in DOMAIN drafts' : Answers(d)
  <2> HIDE DEF Answers
  <2> QED
    BY <1>4, <1>5, <1>6, <1>7
<1> QED
  BY <1>8 DEF AnswersAreNewer

LEMMA SubjectsStep ==
  ASSUME TypeInv, EditInv, TaskStep, ArtifactStep, RequestEffect
  PROVE  WriterSubjects'
<1> USE Kinds, StageMessages
<1>1. Extends(drafts', drafts) /\ Extends(reviews', reviews) /\ WriterSubjects
  BY TablesGrow DEF EditInv
<1>2. ASSUME NEW w \in Writer, task'[w].pc = "calling"
      PROVE  task'[w].subject \in {0} \cup DOMAIN reviews'
  <2>1. task \in [Message -> TaskRecords]
    BY DEF TypeInv, StageTypes, RestTyped
  <2>2. task'[w] = task[w] \/ Asks(w)
    <3>1. ASSUME NEW m \in Message, NEW t, Put(m, t), m # w
          PROVE  task'[w] = task[w]
      BY <2>1, <3>1 DEF Put
    <3>2. ASSUME NEW x \in Writer, NEW e \in Editor, HandsOver(x, e)
          PROVE  task'[w] = task[w]
      BY <1>2, <2>1, <3>2 DEF HandsOver, NoTask
    <3>3. ~Idles(w) /\ ~Queues(w) /\ ~HasReport(w) /\ ~HasDraft(w)
      BY <1>2, <2>1 DEF Idles, Queues, HasReport, HasDraft, Put, NoTask
    <3> QED
      BY <3>1, <3>2, <3>3 DEF TaskStep, Records, Idles, Queues, Asks, HasDraft, HasReport
  <2>3. Asks(w) => task'[w].subject = ReworkReview
    BY <2>1 DEF Asks, Put
  <2> QED
    BY <1>1, <1>2, <2>2, <2>3, ReworkReviewed DEF WriterSubjects, Extends
<1>3. request'.pc = "submitted" => request'.draft # 0 /\ drafts'[request'.draft].body # None
  <2>1. CASE UNCHANGED request
    <3>1. request.draft \in 0..Len(drafts) /\ DOMAIN drafts = 1..Len(drafts) /\ Len(drafts) \in Nat
      BY ReworkReviewed DEF TypeInv, HoldersRefer
    <3> QED
      BY <1>1, <2>1, <3>1 DEF WriterSubjects, Extends
  <2>2. CASE request' = NoRequest \/ request' = [NoRequest EXCEPT !.pc = "media"]
    BY <2>2 DEF NoRequest
  <2>3. CASE request' = [pc |-> "accepting", draft |-> ActiveDraft, review |-> ActiveReview]
    BY <2>3
  <2>4. ASSUME NEW d \in DOMAIN drafts', request' = [NoRequest EXCEPT !.pc = "submitted", !.draft = d],
               drafts'[d].body # None
        PROVE  request'.draft # 0 /\ drafts'[request'.draft].body # None
    <3>1. request' = [pc |-> "submitted", draft |-> d, review |-> 0]
      BY <2>4 DEF NoRequest
    <3>2. drafts' \in Seq(ContentDraft)
      BY TablesGrow
    <3>3. d # 0
      BY <3>2
    <3> QED
      BY <2>4, <3>1, <3>3
  <2> QED
    BY <2>1, <2>2, <2>3, <2>4 DEF RequestEffect
<1> QED
  BY <1>2, <1>3 DEF WriterSubjects

LEMMA EditStep ==
  ASSUME TypeInv, EditInv, [Next]_vars
  PROVE  EditInv'
BY EveryTaskStep, EveryArtifactStep, EveryItemStep, EveryStepEffect, EveryRequestEffect, EveryFreshStep,
  WritersStep, ReportsStep, SweepsStep, ReviewedStep, AnswersStep, SubjectsStep DEF EditInv

LEMMA EditInit ==
  ASSUME Init
  PROVE  EditInv
<1>1. \A m \in Message : task[m].pc = "idle"
  BY DEF Init, NoTask
<1> QED
  BY <1>1, Kinds DEF Init, NoRequest, EditInv, FreshWriters, FreshReports, FreshSteps, ReportsAreReviewed,
    AnswersAreNewer, WriterSubjects

LEMMA HumanSeesIt ==
  ASSUME TypeInv, EditInv
  PROVE  HumanSeesReviewedWork
<1>1. SUFFICES ASSUME row = "awaiting_human_review"
               PROVE  /\ reports[entry.human].ready /\ Passes(reports[entry.human].review)
                      /\ reviews[reports[entry.human].review].draft = reports[entry.human].draft
                      /\ serial => ReportIsCurrent(entry.human)
  BY DEF HumanSeesReviewedWork, ReportIsCurrent
<1>2. entry.human # 0 /\ entry.human \in 0..Len(reports) /\ reports \in Seq(QaReport)
  BY <1>1 DEF EditInv, ReportsAreReviewed, TypeInv, EntryRefers, StageTypes, ArtifactsTyped
<1>3. entry.human \in DOMAIN reports
  BY <1>2
<1> QED
  BY <1>1, <1>2, <1>3 DEF EditInv, ReportsAreReviewed, FreshReports

\* What waits for the human passed the gates over a reviewed draft, and as long
\* as nothing was written on a stale copy it is the ACTIVE draft and review: a
\* fresh copy is only left by a transition, and drafts and reviews only change
\* in the stages before the gates.
THEOREM HumanAlwaysSeesReviewedWork == Spec => []HumanSeesReviewedWork
<1>1. TypeInv /\ EditInv /\ [Next]_vars => TypeInv' /\ EditInv'
  BY TypeStep, EditStep
<1>2. TypeInv /\ EditInv => HumanSeesReviewedWork
  BY HumanSeesIt
<1> QED
  BY <1>1, <1>2, TypeInit, EditInit, PTL DEF Spec

-----------------------------------------------------------------------------
(* Reworks.                                                                 *)

LEMMA RoomGrows ==
  ASSUME NEW a \in Nat, NEW b \in Nat, NEW c \in Nat, b <= c, a <= 2 + b
  PROVE  a <= 2 + c
OBVIOUS

Commanded == IF away THEN 0 ELSE commands

\* On fresh copies the operator's commands pay for every cycle over the limit.
SerialBound == serial => cycles <= MAX_REWORK_CYCLES + IF away THEN 0 ELSE commands

LEMMA SerialReworkStep ==
  ASSUME TypeInv, EditInv, SerialBound, ItemStep, CounterEffect
  PROVE  SerialBound'
<1>1. cycles \in Nat /\ commands \in Nat /\ MAX_REWORK_CYCLES = 2
  BY DEF TypeInv, StageTypes, ItemTyped, RestTyped, MAX_REWORK_CYCLES
<1>2. SUFFICES ASSUME serial'
               PROVE  cycles' <= MAX_REWORK_CYCLES + IF away' THEN 0 ELSE commands'
  BY DEF SerialBound
<1>3. serial
  BY <1>2 DEF ItemStep, Stays, Advances, MoveToEditing, MoveToQaReview, AsksForRework, MoveToRework,
    SendsBack, Returns, ComesToHuman, Move, OnCopyOf
<1>4. cycles <= MAX_REWORK_CYCLES + IF away THEN 0 ELSE commands
  BY <1>3 DEF SerialBound
<1>5. commands' \in Nat /\ commands <= commands'
  BY <1>1 DEF CounterEffect
<1>6. away' = away
  BY DEF CounterEffect
<1>7. CASE UNCHANGED cycles
  <2>1. CASE away
    BY <1>1, <1>4, <1>7, <1>6, <2>1
  <2>2. CASE ~away
    <3>1. (IF away THEN 0 ELSE commands) = commands /\ (IF away' THEN 0 ELSE commands') = commands'
      BY <1>6, <2>2
    <3>2. cycles <= MAX_REWORK_CYCLES + commands
      BY <1>4, <3>1
    <3>3. cycles' <= MAX_REWORK_CYCLES + commands'
      BY <1>1, <1>7, <1>5, <3>2, RoomGrows DEF MAX_REWORK_CYCLES
    <3> QED
      BY <3>1, <3>3
  <2> QED
    BY <2>1, <2>2
<1>8. ASSUME NEW responsible, AsksForRework(responsible)
      PROVE  cycles' <= MAX_REWORK_CYCLES + IF away' THEN 0 ELSE commands'
  BY <1>1, <1>4, <1>8 DEF CounterEffect, AsksForRework, MoveToRework
<1>9. ASSUME NEW a \in Sweep, SendsBack(a)
      PROVE  cycles' <= MAX_REWORK_CYCLES + IF away' THEN 0 ELSE commands'
  <2>1. a \in fresh
    BY <1>2, <1>9, StageMessages DEF SendsBack, Move, OnCopyOf
  <2>2. cycles < MAX_REWORK_CYCLES /\ cycles' = cycles + 1
    BY <1>9, <2>1 DEF SendsBack, HasPlanned, EditInv, FreshSteps
  <2>3. cycles' <= MAX_REWORK_CYCLES
    BY <1>1, <2>2
  <2>4. CASE away'
    BY <1>1, <2>3, <2>4
  <2>5. CASE ~away'
    <3>1. (IF away' THEN 0 ELSE commands') = commands'
      BY <2>5
    <3>2. cycles' \in Nat /\ cycles' <= 2 + 0
      BY <1>1, <2>2
    <3>3. 0 \in Nat /\ 0 <= commands'
      BY <1>5
    <3>4. cycles' <= MAX_REWORK_CYCLES + commands'
      BY <1>5, <3>2, <3>3, RoomGrows DEF MAX_REWORK_CYCLES
    <3> QED
      BY <3>1, <3>4
  <2> QED
    BY <2>4, <2>5
<1> QED
  BY <1>7, <1>8, <1>9 DEF ItemStep, Stays, Advances, MoveToEditing, MoveToQaReview, Returns, ComesToHuman

\* The steps that are about to send the draft back, on whatever copy.
Reworking == {a \in Sweep : HasPlanned(a, "request_rework")}

\* Each of them was planned below the limit, and adds one cycle.
OverlapBound ==
  cycles + Cardinality(Reworking) <= MAX_REWORK_CYCLES - 1 + Cardinality(Sweep) + Commanded

LEMMA SweepsCounted ==
  ASSUME NEW S \in SUBSET Sweep
  PROVE  /\ IsFiniteSet(S) /\ Cardinality(S) \in Nat /\ Cardinality(Sweep) \in Nat
         /\ Cardinality(S) <= Cardinality(Sweep)
BY StageSweeps, FS_Subset, FS_CardinalityType

\* A step joins the steps about to send the draft back only below the limit.
LEMMA ReworkersJoin ==
  ASSUME TypeInv, StepEffect
  PROVE  Reworking' \subseteq Reworking \/ cycles < MAX_REWORK_CYCLES
<1>1. step = [a \in Sweep |-> step[a]] /\ row \in StageStates /\ cycles \in Nat
  BY DEF TypeInv, StageTypes, RestTyped, ItemTyped
<1>2. ASSUME NEW a \in Sweep, Ends(a)
      PROVE  Reworking' \subseteq Reworking
  <2>1. \A b \in Sweep : step'[b] = IF b = a THEN NoStep ELSE step[b]
    BY <1>1, <1>2 DEF Ends
  <2> QED
    BY <2>1 DEF Reworking, HasPlanned, NoStep
<1>3. ASSUME NEW a \in Sweep, Plans(a), ~(cycles < MAX_REWORK_CYCLES)
      PROVE  Reworking' \subseteq Reworking
  <2> DEFINE new == [pc |-> "planned", action |-> Planned]
  <2>1. Planned # Command("request_rework")
    BY <1>1, <1>3, PlannedInStages DEF Plans
  <2>2. \A b \in Sweep : step'[b] = IF b = a THEN new ELSE step[b]
    <3>1. step' = [step EXCEPT ![a] = new]
      BY <1>3 DEF Plans
    <3> HIDE DEF new
    <3> QED
      BY <1>1, <3>1
  <2>3. new.action = Planned
    OBVIOUS
  <2> HIDE DEF new
  <2> QED
    BY <2>1, <2>2, <2>3 DEF Reworking, HasPlanned
<1>4. UNCHANGED step => Reworking' = Reworking
  BY DEF Reworking, HasPlanned
<1> QED
  BY <1>2, <1>3, <1>4 DEF StepEffect

\* A rework that a step carries out takes it from those about to.
LEMMA ReworkerLeaves ==
  ASSUME TypeInv, NEW a \in Sweep, SendsBack(a)
  PROVE  a \in Reworking /\ Reworking' = Reworking \ {a}
<1>1. step = [b \in Sweep |-> step[b]]
  BY DEF TypeInv, StageTypes, RestTyped
<1>2. \A b \in Sweep : step'[b] = IF b = a THEN NoStep ELSE step[b]
  BY <1>1 DEF SendsBack
<1> QED
  BY <1>2 DEF Reworking, HasPlanned, NoStep, SendsBack

LEMMA CyclesCounted ==
  ASSUME NEW c \in Nat, NEW r \in Nat, NEW q \in Nat, NEW n \in Nat, NEW m \in Nat, NEW o \in Nat,
         NEW k \in {0, 1}, c + r <= 1 + n + m, m <= o
  PROVE  /\ q = r - 1 => (c + 1) + q <= 1 + n + o
         /\ q <= r /\ m + k <= o => (c + k) + q <= 1 + n + o
         /\ c < 2 /\ q <= n /\ m + k <= o => (c + k) + q <= 1 + n + o
OBVIOUS

LEMMA OverlapStep ==
  ASSUME TypeInv, OverlapBound, ItemStep, StepEffect, CounterEffect
  PROVE  OverlapBound'
<1> DEFINE r == Cardinality(Reworking)
           n == Cardinality(Sweep)
<1>1. cycles \in Nat /\ commands \in Nat /\ MAX_REWORK_CYCLES = 2
  BY DEF TypeInv, StageTypes, ItemTyped, RestTyped, MAX_REWORK_CYCLES
<1>2. Reworking \in SUBSET Sweep /\ Reworking' \in SUBSET Sweep
  BY DEF Reworking
<1>3. r \in Nat /\ r' \in Nat /\ n \in Nat /\ r' <= n
  BY <1>2, SweepsCounted
<1>4. Commanded \in Nat /\ Commanded' \in Nat /\ Commanded <= Commanded'
  BY <1>1 DEF Commanded, CounterEffect
<1>5. cycles + r <= 1 + n + Commanded
  BY <1>1, <1>3, <1>4 DEF OverlapBound
<1>6. SUFFICES cycles' + r' <= 1 + n + Commanded'
  BY <1>1, <1>3, <1>4 DEF OverlapBound, MAX_REWORK_CYCLES
<1>7. ASSUME NEW a \in Sweep, SendsBack(a)
      PROVE  cycles' + r' <= 1 + n + Commanded'
  <2>1. r' = r - 1
    BY <1>2, <1>7, ReworkerLeaves, SweepsCounted, FS_RemoveElement
  <2>2. cycles' = cycles + 1
    BY <1>7 DEF SendsBack
  <2> HIDE DEF r, n
  <2> QED
    BY <1>1, <1>3, <1>4, <1>5, <2>1, <2>2, CyclesCounted
<1>8. ASSUME NEW k \in {0, 1}, cycles' = cycles + k, Commanded + k <= Commanded'
      PROVE  cycles' + r' <= 1 + n + Commanded'
  <2>1. CASE Reworking' \subseteq Reworking
    <3>1. r' <= r
      BY <1>2, <2>1, SweepsCounted, FS_Subset
    <3> HIDE DEF r, n
    <3> QED
      BY <1>1, <1>3, <1>4, <1>5, <1>8, <3>1, CyclesCounted
  <2>2. CASE cycles < MAX_REWORK_CYCLES
    <3> HIDE DEF r, n
    <3> QED
      BY <1>1, <1>3, <1>4, <1>5, <1>8, <2>2, CyclesCounted
  <2> QED
    BY <2>1, <2>2, ReworkersJoin
<1>9. ASSUME NEW responsible, AsksForRework(responsible)
      PROVE  cycles' = cycles + 1 /\ Commanded + 1 <= Commanded'
  BY <1>1, <1>9 DEF AsksForRework, MoveToRework, CounterEffect, Commanded
<1>10. UNCHANGED cycles => cycles' = cycles + 0 /\ Commanded + 0 <= Commanded'
  BY <1>1, <1>4
<1> QED
  BY <1>7, <1>8, <1>9, <1>10 DEF ItemStep, Stays, Advances, MoveToEditing, MoveToQaReview, Returns, ComesToHuman

\* The autopilot sends a draft back at most twice, and the rest is the
\* operator's: the count a step has planned with is the one it adds to, because
\* any transition in between takes its copy away.  On a copy that is old, the
\* steps that overlap add at most one cycle each.
THEOREM ReworkAlwaysBounded == Spec => []ReworkIsBounded
<1> DEFINE Inv == TypeInv /\ EditInv /\ SerialBound /\ OverlapBound
<1>1. Inv /\ [Next]_vars => Inv'
  BY TypeStep, EditStep, SerialReworkStep, OverlapStep, EveryItemStep, EveryStepEffect
<1>2. Init => SerialBound /\ OverlapBound
  <2>1. SUFFICES ASSUME Init
                 PROVE  SerialBound /\ OverlapBound
    OBVIOUS
  <2>2. cycles = 0 /\ commands \in Nat
    BY <2>1, StageBounds DEF Init
  <2>3. Reworking = {}
    BY <2>1 DEF Init, Reworking, HasPlanned, NoStep
  <2>4. Cardinality(Reworking) = 0 /\ Cardinality(Sweep) \in Nat
    BY <2>3, FS_EmptySet, SweepsCounted
  <2> QED
    BY <2>2, <2>4 DEF SerialBound, OverlapBound, Commanded, MAX_REWORK_CYCLES
<1>3. Inv => ReworkIsBounded
  <2>1. SUFFICES ASSUME Inv
                 PROVE  ReworkIsBounded
    OBVIOUS
  <2>2. cycles \in Nat /\ Commanded \in Nat /\ serial \in BOOLEAN
    BY <2>1 DEF TypeInv, StageTypes, ItemTyped, RestTyped, Commanded
  <2>3. Cardinality(Reworking) \in Nat /\ Cardinality(Sweep) \in Nat
    BY SweepsCounted DEF Reworking
  <2>4. CASE serial
    BY <2>1, <2>2, <2>4 DEF SerialBound, ReworkIsBounded, Commanded, MAX_REWORK_CYCLES
  <2>5. CASE ~serial
    <3>1. cycles <= MAX_REWORK_CYCLES + Commanded + (Cardinality(Sweep) - 1)
      BY <2>1, <2>2, <2>3 DEF OverlapBound, MAX_REWORK_CYCLES
    <3> QED
      BY <2>5, <3>1 DEF ReworkIsBounded, Commanded
  <2> QED
    BY <2>4, <2>5
<1> QED
  BY <1>1, <1>2, <1>3, TypeInit, EditInit, PTL DEF Spec

\* A writer that was sent back with findings comes to EDITING with a draft that
\* is newer than the reviewed one: the draft it writes or finds stored answers
\* the rework its fresh copy names.
THEOREM WritersAnswerTheRework == Spec => WriterAnswersTheRework
<1> DEFINE Sent == /\ row = "drafting" /\ row' = "editing" /\ entry.drafting /\ entry.rework.review # 0
                   /\ reviews[entry.rework.review].verdict # "pass" /\ drafts[entry'.editing].body = None /\ serial'
           Answer == entry'.editing > reviews[entry.rework.review].draft
<1>1. ASSUME TypeInv, EditInv, [Next]_vars, Sent
      PROVE  Answer
  <2>1. ItemStep
    BY <1>1, EveryItemStep
  <2>2. ReworkReview = entry.rework.review
    BY <1>1 DEF ReworkReview
  <2>3. ASSUME NEW x, NEW d \in 0..Len(drafts), Advances(x, d)
        PROVE  Answer
    <3>1. entry'.editing = d
      BY <1>1, <2>3 DEF Advances, MoveToEditing, TypeInv, StageTypes, ItemTyped, EntryRecords
    <3>2. CASE x \in Writer /\ task[x].pc = "drafted" /\ d = task[x].result
      <4>1. x \in fresh
        BY <1>1, <2>3, <3>2, StageMessages DEF Advances, MoveToEditing, Move, OnCopyOf
      <4> QED
        BY <1>1, <2>2, <3>1, <3>2, <4>1 DEF EditInv, FreshWriters, WriterIsCurrent
    <3>3. CASE request.pc = "submitted" /\ d = request.draft
      BY <1>1, <3>1, <3>3 DEF EditInv, WriterSubjects
    <3> QED
      BY <2>3, <3>2, <3>3 DEF Advances
  <2>4. ASSUME NEW x, Returns(x)
        PROVE  FALSE
    <3>1. x \in Sweep /\ HasPlanned(x, "resolve_changes")
      BY <1>1, <2>4 DEF Returns
    <3>2. x \in fresh
      BY <1>1, <2>4, <3>1, StageMessages DEF Returns, Move, OnCopyOf
    <3> QED
      BY <1>1, <3>1, <3>2 DEF EditInv, FreshSteps, HasPlanned
  <2> QED
    BY <1>1, <2>1, <2>3, <2>4 DEF ItemStep, Stays, MoveToQaReview, AsksForRework, MoveToRework, SendsBack,
      ComesToHuman, Move
<1>2. TypeInv /\ EditInv /\ [Next]_vars => TypeInv' /\ EditInv' /\ [Sent => Answer]_vars
  BY <1>1, TypeStep, EditStep
<1>3. Spec => [][Sent => Answer]_vars
  <2> HIDE DEF Sent, Answer
  <2> QED
    BY <1>2, TypeInit, EditInit, PTL DEF Spec
<1> QED
  BY <1>3, PTL DEF WriterAnswersTheRework

-----------------------------------------------------------------------------
(* The budget of the day.                                                   *)

Calling == {m \in Generation : task[m].pc = "calling"}

\* One writer, one editor, and one image for each media need can be calling.
LEMMA CallsOverlap ==
  ASSUME TypeInv, LockHeldOnce
  PROVE  /\ IsFiniteSet(Calling) /\ Cardinality(Calling) \in Nat
         /\ Cardinality(Need) \in Nat /\ Cardinality(Calling) <= 2 + Cardinality(Need)
<1> DEFINE Images == {<<"image", n>> : n \in Need}
           Slots == (Images \cup {<<"writer", 0>>}) \cup {<<"editor", 0>>}
           slot == [m \in Calling |-> <<Purpose(m), IF m \in Image THEN task[m].subject ELSE 0>>]
<1>1. IsFiniteSet(Need) /\ Cardinality(Need) \in Nat
  BY StageNeeds, FS_CardinalityType
<1>2. IsFiniteSet(Images) /\ Cardinality(Images) <= Cardinality(Need) /\ Cardinality(Images) \in Nat
  <2> DEFINE g == [n \in Need |-> <<"image", n>>]
  <2>1. g \in Surjection(Need, Images)
    BY DEF Surjection
  <2> HIDE DEF g, Images
  <2> QED
    BY <1>1, <2>1, FS_Surjection, FS_CardinalityType
<1>3. IsFiniteSet(Slots) /\ Cardinality(Slots) <= 2 + Cardinality(Need) /\ Cardinality(Slots) \in Nat
  <2> HIDE DEF Images
  <2> DEFINE Two == Images \cup {<<"writer", 0>>}
  <2>1. /\ IsFiniteSet(Two)
        /\ Cardinality(Two) = Cardinality(Images) \/ Cardinality(Two) = Cardinality(Images) + 1
    BY <1>2, FS_AddElement
  <2>2. Cardinality(Two) \in Nat /\ Cardinality(Two) <= 1 + Cardinality(Need)
    BY <1>1, <1>2, <2>1
  <2> HIDE DEF Two
  <2>3. /\ IsFiniteSet(Two \cup {<<"editor", 0>>})
        /\ \/ Cardinality(Two \cup {<<"editor", 0>>}) = Cardinality(Two)
           \/ Cardinality(Two \cup {<<"editor", 0>>}) = Cardinality(Two) + 1
    BY <2>1, FS_AddElement
  <2>4. Slots = Two \cup {<<"editor", 0>>}
    BY DEF Two
  <2> HIDE DEF Slots
  <2> QED
    BY <1>1, <2>2, <2>3, <2>4
<1>4. slot \in Injection(Calling, Slots)
  <2>1. \A m \in Calling : slot[m] \in Slots
    BY Kinds DEF Calling, Generation, TypeInv, KindsTyped
  <2>2. ASSUME NEW m \in Calling, NEW k \in Calling, slot[m] = slot[k]
        PROVE  m = k
    <3>1. Purpose(m) = Purpose(k) /\ m \in Generation /\ k \in Generation /\ Holding(m) /\ Holding(k)
      BY <2>2 DEF Calling, Holding
    <3>2. m \in Image => k \in Image
      BY <3>1, Kinds DEF Generation
    <3>3. m \in Image => task[m].subject = task[k].subject
      BY <2>2, <3>2
    <3> QED
      BY <3>1, <3>3 DEF LockHeldOnce
  <2>3. slot \in [Calling -> Slots]
    BY <2>1
  <2>4. \A m, k \in Calling : slot[m] = slot[k] => m = k
    BY <2>2
  <2> HIDE DEF slot, Slots
  <2> QED
    BY <2>3, <2>4 DEF Injection, IsInjective
<1> HIDE DEF slot, Slots
<1>5. IsFiniteSet(Calling) /\ Cardinality(Calling) <= Cardinality(Slots)
  BY <1>3, <1>4, FS_Injection
<1> QED
  BY <1>1, <1>3, <1>5, FS_CardinalityType

\* A call begins within the budget, or none begins; one that ends is counted.
LEMMA CallingStep ==
  ASSUME TypeInv, TaskStep
  PROVE  \/ ~BudgetSpent /\ Calls' = Calls
         \/ Calls' = Calls /\ Calling' \subseteq Calling
         \/ Calls' = Calls + 1 /\ \E m \in Calling : Calling' \subseteq Calling \ {m}
<1> USE Kinds
<1>1. task \in [Message -> TaskRecords]
  BY DEF TypeInv, StageTypes, RestTyped
<1>2. UNCHANGED attempts => Calls' = Calls
  BY DEF Calls
<1>3. ASSUME NEW m \in Message, NEW t, Put(m, t), t.pc # "calling"
      PROVE  Calling' \subseteq Calling \ {m}
  BY <1>1, <1>3 DEF Put, Calling
<1>4. ASSUME NEW m \in Message, Idles(m) \/ Queues(m) \/ HasDraft(m) \/ HasReport(m)
      PROVE  Calling' \subseteq Calling \ {m}
  BY <1>3, <1>4 DEF Idles, Queues, HasDraft, HasReport, NoTask
<1>5. ASSUME NEW w \in Writer, NEW e \in Editor, HandsOver(w, e)
      PROVE  Calling' \subseteq Calling
  BY <1>1, <1>5 DEF HandsOver, Calling, Queued, NoTask
<1>6. ASSUME NEW m \in Generation, NEW status \in GenerationStatus, Records(m, status)
      PROVE  Calls' = Calls + 1 /\ m \in Calling /\ Calling' \subseteq Calling \ {m}
  <2>1. m \in Calling /\ Calling' \subseteq Calling \ {m}
    BY <1>4, <1>6 DEF Records, Calling
  <2>2. \A purpose \in GenerationPurpose :
          /\ Len(attempts[purpose]) \in Nat
          /\ Len(attempts'[purpose]) = IF purpose = Purpose(m) THEN Len(attempts[purpose]) + 1 ELSE Len(attempts[purpose])
    <3>1. \A purpose \in GenerationPurpose : attempts'[purpose] \in Seq(AiGenerationAttempt)
                                             /\ attempts[purpose] \in Seq(AiGenerationAttempt)
      BY AttemptsGrow DEF TypeInv, StageTypes, ArtifactsTyped
    <3>2. \A purpose \in GenerationPurpose : /\ Len(attempts'[purpose]) \in Nat /\ Len(attempts[purpose]) \in Nat
                                             /\ DOMAIN attempts'[purpose] = 1..Len(attempts'[purpose])
      BY <3>1
    <3>3. /\ \A purpose \in GenerationPurpose \ {Purpose(m)} : attempts'[purpose] = attempts[purpose]
          /\ DOMAIN attempts'[Purpose(m)] = 1..(Len(attempts[Purpose(m)]) + 1)
      BY <1>6, RecordsAppends
    <3>4. Len(attempts'[Purpose(m)]) = Len(attempts[Purpose(m)]) + 1
      BY <3>2, <3>3
    <3> QED
      BY <3>2, <3>3, <3>4
  <2>3. /\ Len(attempts["writer"]) \in Nat /\ Len(attempts["editor"]) \in Nat /\ Len(attempts["image"]) \in Nat
        /\ Len(attempts'["writer"]) = IF Purpose(m) = "writer" THEN Len(attempts["writer"]) + 1 ELSE Len(attempts["writer"])
        /\ Len(attempts'["editor"]) = IF Purpose(m) = "editor" THEN Len(attempts["editor"]) + 1 ELSE Len(attempts["editor"])
        /\ Len(attempts'["image"]) = IF Purpose(m) = "image" THEN Len(attempts["image"]) + 1 ELSE Len(attempts["image"])
    BY <2>2 DEF GenerationPurpose
  <2>4. Calls' = Calls + 1
    <3> DEFINE x == Len(attempts["writer"])
               y == Len(attempts["editor"])
               z == Len(attempts["image"])
               one(purpose) == IF Purpose(m) = purpose THEN 1 ELSE 0
    <3>1. /\ x \in Nat /\ y \in Nat /\ z \in Nat
          /\ one("writer") \in Nat /\ one("editor") \in Nat /\ one("image") \in Nat
          /\ one("writer") + one("editor") + one("image") = 1
      BY <2>3 DEF GenerationPurpose
    <3>2. x' = x + one("writer") /\ y' = y + one("editor") /\ z' = z + one("image")
      <4>1. CASE Purpose(m) = "writer"
        BY <2>3, <4>1
      <4>2. CASE Purpose(m) = "editor"
        BY <2>3, <4>2
      <4>3. CASE Purpose(m) = "image"
        BY <2>3, <4>3
      <4> QED
        BY <4>1, <4>2, <4>3, Kinds DEF GenerationPurpose
    <3>3. Calls = x + y + z /\ Calls' = x' + y' + z'
      BY DEF Calls
    <3> HIDE DEF x, y, z, one
    <3> QED
      BY <3>1, <3>2, <3>3
  <2> QED
    BY <2>1, <2>4
<1>7. UNCHANGED task => Calling' = Calling
  BY DEF Calling
<1> QED
  BY <1>2, <1>4, <1>5, <1>6, <1>7 DEF TaskStep, Asks

LEMMA BudgetStep ==
  ASSUME TypeInv, CallInv, BudgetOvershootIsConcurrency, [Next]_vars
  PROVE  BudgetOvershootIsConcurrency'
<1>1. TaskStep /\ CounterEffect /\ TypeInv' /\ CallInv'
  BY EveryTaskStep, EveryStepEffect, TypeStep, CallStep
<1>2. /\ IsFiniteSet(Calling) /\ Cardinality(Calling) \in Nat /\ Cardinality(Need) \in Nat
  BY CallsOverlap DEF CallInv
<1>3. (TypeInv /\ LockHeldOnce => Cardinality(Calling) \in Nat /\ Cardinality(Calling) <= 2 + Cardinality(Need))'
  BY CallsOverlap, PTL
<1>4. Cardinality(Calling') \in Nat /\ Cardinality(Calling') <= 2 + Cardinality(Need)
  BY <1>1, <1>3 DEF CallInv
<1>5. Calls \in Nat /\ spent \in Nat /\ spent' = spent /\ Budget \in Nat
  <2>1. \A purpose \in GenerationPurpose : attempts[purpose] \in Seq(AiGenerationAttempt)
    BY DEF TypeInv, StageTypes, ArtifactsTyped
  <2>2. /\ Len(attempts["writer"]) \in Nat /\ Len(attempts["editor"]) \in Nat
        /\ Len(attempts["image"]) \in Nat
    BY <2>1 DEF GenerationPurpose
  <2>3. Calls \in Nat
    <3> DEFINE x == Len(attempts["writer"])
               y == Len(attempts["editor"])
               z == Len(attempts["image"])
    <3>1. x \in Nat /\ y \in Nat /\ z \in Nat /\ Calls = x + y + z
      BY <2>2 DEF Calls
    <3> HIDE DEF x, y, z
    <3> QED
      BY <3>1
  <2> QED
    BY <1>1, <2>3, StageBounds DEF CounterEffect, TypeInv, StageTypes, RestTyped
<1>6. spent + Calls + Cardinality(Calling) <= Budget + 1 + Cardinality(Need)
  BY DEF BudgetOvershootIsConcurrency, Calling
<1>7. spent + Calls' + Cardinality(Calling') <= Budget + 1 + Cardinality(Need)
  <2>1. CASE ~BudgetSpent /\ Calls' = Calls
    BY <1>2, <1>4, <1>5, <2>1 DEF BudgetSpent
  <2>2. CASE Calls' = Calls /\ Calling' \subseteq Calling
    <3>1. Cardinality(Calling') <= Cardinality(Calling)
      BY <1>2, <2>2, FS_Subset
    <3> QED
      BY <1>2, <1>4, <1>5, <1>6, <2>2, <3>1
  <2>3. ASSUME Calls' = Calls + 1, NEW m \in Calling, Calling' \subseteq Calling \ {m}
        PROVE  spent + Calls' + Cardinality(Calling') <= Budget + 1 + Cardinality(Need)
    <3>1. IsFiniteSet(Calling \ {m}) /\ Cardinality(Calling \ {m}) = Cardinality(Calling) - 1
      BY <1>2, <2>3, FS_RemoveElement
    <3>2. Cardinality(Calling') <= Cardinality(Calling \ {m})
      BY <2>3, <3>1, FS_Subset
    <3> QED
      BY <1>2, <1>4, <1>5, <1>6, <2>3, <3>1, <3>2
  <2> QED
    BY <1>1, <2>1, <2>2, <2>3, CallingStep
<1> QED
  BY <1>5, <1>7 DEF BudgetOvershootIsConcurrency, Calling

\* The day's attempts exceed the budget by no more than the calls that overlap:
\* a call begins only below the budget, and the locks let one writer, one editor
\* and one image for each media need be under way at once.
THEOREM BudgetAlwaysKept == Spec => []BudgetOvershootIsConcurrency
<1>1. TypeInv /\ CallInv /\ BudgetOvershootIsConcurrency /\ [Next]_vars
        => TypeInv' /\ CallInv' /\ BudgetOvershootIsConcurrency'
  BY TypeStep, CallStep, BudgetStep
<1>2. Init => BudgetOvershootIsConcurrency
  <2> SUFFICES ASSUME Init
               PROVE  BudgetOvershootIsConcurrency
    OBVIOUS
  <2>1. Calling = {}
    BY Kinds DEF Init, Calling, NoTask
  <2>2. Calls = 0
    BY DEF Init, Calls, GenerationPurpose
  <2>3. Cardinality(Calling) = 0 /\ Cardinality(Need) \in Nat
    BY <2>1, StageNeeds, FS_EmptySet, FS_CardinalityType
  <2> QED
    BY <2>2, <2>3, StageBounds DEF Init, BudgetOvershootIsConcurrency, Calling
<1> QED
  BY <1>1, <1>2, TypeInit, CallInit, PTL DEF Spec
=============================================================================

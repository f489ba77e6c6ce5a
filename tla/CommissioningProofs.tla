------------------------- MODULE CommissioningProofs ------------------------
(***************************************************************************)
(* What holds of Commissioning for any messages, sweeps and bounds.        *)
(***************************************************************************)
EXTENDS Commissioning, FiniteFacts

-----------------------------------------------------------------------------
(* Types.                                                                   *)

Stages == {"idea_scoring", "evidence_building", "seo_research", "briefing", "drafting", "blocked", "rejected"}

StageCopies == Stages \cup {None}

EntryRecords == [seo : Nat, briefing : [pack : Nat, intent : Nat], drafting : Nat]

SourceRecords == [inputs : Nat, related : Nat, evidence : Nat, pending : Nat,
                  observed : BOOLEAN, extracting : BOOLEAN, rejected : BOOLEAN]

PackRecords == [idea : Nat, evidence : Nat, assembled : Contradiction, contradiction : Contradiction,
                sufficiency : EvidencePackSufficiency]
IntentRecords == [idea : Nat, attempt : Nat]
BriefRecords == [idea : Nat, pack : Nat, intent : Nat, status : BriefStatus, sound : BOOLEAN]
Subjects == Seq(Nat)
AttemptRecords == [subject : Subjects, retry : Nat, status : GenerationStatus]

TaskStates == {"idle", "queued", "calling", "analysed", "packed", "dispatching"}

TaskRecords == [pc : TaskStates, retry : Nat, retries : Nat, idea : Nat, pack : Nat, intent : Nat, evidence : Nat,
                contradicted : BOOLEAN, reason : BOOLEAN, subject : Subjects, copy : StageCopies, result : Nat]

RequestRecords ==
  [pc : {"idle", "commission", "reject", "accept"}, disposition : OpportunityDisposition \cup {None},
   override : BOOLEAN, brief : Nat, status : BriefStatus \cup {None}]

ItemTyped == row \in Stages \cup {None} /\ entry \in EntryRecords

FactsTyped ==
  /\ opportunity \in EditorialOpportunity /\ decision \in DuplicateDecisionOutcome
  /\ sources \in SourceRecords /\ sources.evidence + sources.pending <= sources.inputs
  /\ selected \in 0..Len(ideas)

TablesTyped ==
  /\ ideas \in Seq(Idea) /\ packs \in Seq(PackRecords)
  /\ intents \in Seq(IntentRecords) /\ briefs \in Seq(BriefRecords)
  /\ attempts \in [GenerationPurpose -> Seq(AttemptRecords)]

RestTyped ==
  /\ task \in [Message -> TaskRecords]
  /\ step = [a \in Sweep |-> step[a]] /\ request \in RequestRecords

-----------------------------------------------------------------------------
(* References to rows, which are only added.                                *)

EntryRefers ==
  /\ entry.seo \in 0..Len(packs) /\ entry.drafting \in 0..Len(briefs)
  /\ entry.briefing.pack \in 0..Len(packs) /\ entry.briefing.intent \in 0..Len(intents)

TablesRefer ==
  /\ \A p \in DOMAIN packs : packs[p].idea \in DOMAIN ideas
  /\ \A n \in DOMAIN intents : /\ intents[n].idea \in DOMAIN ideas
                               /\ intents[n].attempt \in DOMAIN attempts["intent_synthesis"]
  /\ \A b \in DOMAIN briefs : /\ briefs[b].idea \in DOMAIN ideas
                              /\ briefs[b].pack \in DOMAIN packs /\ briefs[b].intent \in DOMAIN intents

\* Where the execution of a message of each kind can be.
PcOf(m) ==
  {"idle", "queued"}
    \cup (IF m \in Generation THEN {"calling"} ELSE {})
    \cup (IF m \in IntentTask THEN {"analysed"} ELSE {})
    \cup (IF m \in PackTask THEN {"packed", "dispatching"} ELSE {})

\* A message of each kind names rows that exist; one that is past its guards is
\* about a commissioned opportunity.
Names(m, t) ==
  /\ m \in PackTask \cup IntentTask \cup BriefTask => t.idea \in DOMAIN ideas
  /\ m \in IntentTask \cup BriefTask => t.pack \in DOMAIN packs
  /\ m \in BriefTask => t.intent \in DOMAIN intents

HasResult(t) ==
  /\ t.pc = "analysed" => t.result \in DOMAIN intents
  /\ t.pc \in {"packed", "dispatching"} => t.result \in DOMAIN packs

Fits(m, t) ==
  /\ t.pc \in PcOf(m)
  /\ t.pc # "idle" => Names(m, t)
  /\ t.pc \notin {"idle", "queued"} => Commissioned
  /\ HasResult(t)

HoldersRefer ==
  /\ \A m \in Message : Fits(m, task[m])
  /\ request.pc = "accept" => request.brief \in DOMAIN briefs
  /\ \A a \in Sweep : step[a].pc = "planned" /\ step[a].status # None => step[a].brief \in DOMAIN briefs

\* What the stages before the commissioning say of the opportunity.
StageTellsDisposition ==
  /\ row = None => /\ opportunity.disposition = None
                   /\ sources.inputs = 0 /\ sources.evidence = 0 /\ sources.pending = 0
  /\ row = "idea_scoring" => opportunity.disposition = "open"

TypeInv ==
  /\ ItemTyped /\ FactsTyped /\ TablesTyped /\ RestTyped
  /\ EntryRefers /\ TablesRefer /\ HoldersRefer /\ StageTellsDisposition

-----------------------------------------------------------------------------
(* What a step can do to the messages.                                      *)

Idles(m) == Put(m, NoTask)

Works(m) ==
  \E t \in TaskRecords :
    /\ Put(m, t) /\ t.pc \in PcOf(m) \ {"idle"} /\ Names(m, t)
    /\ t.pc # "queued" => Commissioned
    /\ t.pc = "analysed" => t.result \in DOMAIN intents'
    /\ t.pc \in {"packed", "dispatching"} => t.result \in DOMAIN packs'

\* A pack that is READY asks for its analysis.
HandsOver(m, n) ==
  /\ m \in PackTask /\ n \in IntentTask /\ task[m].pc = "dispatching"
  /\ task' = [task EXCEPT ![m] = NoTask, ![n] = [Queued(0) EXCEPT !.idea = task[m].idea, !.pack = task[m].result]]

TaskEffect ==
  \/ UNCHANGED task
  \/ \E m \in Message : Idles(m) \/ Works(m)
  \/ \E m \in PackTask, n \in IntentTask : HandsOver(m, n)

LEMMA Kinds ==
  /\ Generation \subseteq Message /\ PackTask \subseteq Message /\ ScoreTask \subseteq Message
  /\ IdeaTask \subseteq Generation /\ IntentTask \subseteq Generation /\ BriefTask \subseteq Generation
  /\ \A m \in Generation : m \notin PackTask /\ m \notin ScoreTask
  /\ \A m \in IdeaTask : m \notin IntentTask /\ m \notin BriefTask
  /\ \A m \in IntentTask : m \notin BriefTask
  /\ \A m \in ScoreTask : m \notin PackTask
BY CommissioningMessages DEF Generation, Message

LEMMA Purposes ==
  /\ \A m \in Message : Purpose(m) \in GenerationPurpose
  /\ \A m \in IdeaTask : Purpose(m) = "idea_candidates"
  /\ \A m \in IntentTask : Purpose(m) = "intent_synthesis"
  /\ \A m \in BriefTask : Purpose(m) = "brief_composition"
BY Kinds DEF Purpose, GenerationPurpose

LEMMA Copies == <<>> \in Subjects /\ None \in StageCopies /\ Stages \subseteq StageCopies
BY DEF Subjects, StageCopies

LEMMA IdleTyped == NoTask \in TaskRecords /\ NoTask.pc = "idle"
BY Copies DEF NoTask, TaskRecords, TaskStates

LEMMA QueuedTyped ==
  ASSUME NEW n \in Nat
  PROVE  Queued(n) \in TaskRecords /\ Queued(n).pc = "queued"
BY Copies DEF Queued, NoTask, TaskRecords, TaskStates

\* What a command tells the assembly of a pack.
PackOrder(n, idea, evidence, contradicted) ==
  [Queued(n) EXCEPT !.idea = idea, !.evidence = evidence, !.contradicted = contradicted]

LEMMA PackTold ==
  ASSUME NEW n \in Nat, NEW idea \in Nat, NEW evidence \in Nat, NEW contradicted \in BOOLEAN
  PROVE  LET t == PackOrder(n, idea, evidence, contradicted)
         IN  t \in TaskRecords /\ t.pc = "queued" /\ t.idea = idea
<1> DEFINE r == Queued(n)
           t == [r EXCEPT !.idea = idea, !.evidence = evidence, !.contradicted = contradicted]
<1>1. r \in TaskRecords /\ r.pc = "queued"
  BY QueuedTyped
<1>2. t \in TaskRecords /\ t.pc = "queued" /\ t.idea = idea
  <2> HIDE DEF r
  <2> QED
    BY <1>1 DEF TaskRecords
<1>3. t = PackOrder(n, idea, evidence, contradicted)
  BY DEF PackOrder
<1> HIDE DEF t
<1> QED
  BY <1>2, <1>3

\* What the autopilot tells it.
EvidenceOrder(n, idea, evidence) ==
  [Queued(n) EXCEPT !.idea = idea, !.evidence = evidence]

LEMMA EvidenceTold ==
  ASSUME NEW n \in Nat, NEW idea \in Nat, NEW evidence \in Nat
  PROVE  LET t == EvidenceOrder(n, idea, evidence)
         IN  t \in TaskRecords /\ t.pc = "queued" /\ t.idea = idea
<1> DEFINE r == Queued(n)
           t == [r EXCEPT !.idea = idea, !.evidence = evidence]
<1>1. r \in TaskRecords /\ r.pc = "queued"
  BY QueuedTyped
<1>2. t \in TaskRecords /\ t.pc = "queued" /\ t.idea = idea
  <2> HIDE DEF r
  <2> QED
    BY <1>1 DEF TaskRecords
<1>3. t = EvidenceOrder(n, idea, evidence)
  BY DEF EvidenceOrder
<1> HIDE DEF t
<1> QED
  BY <1>2, <1>3

\* What an analysis is about.
IntentOrder(n, idea, pack) ==
  [Queued(n) EXCEPT !.idea = idea, !.pack = pack]

LEMMA IntentTold ==
  ASSUME NEW n \in Nat, NEW idea \in Nat, NEW pack \in Nat
  PROVE  LET t == IntentOrder(n, idea, pack)
         IN  t \in TaskRecords /\ t.pc = "queued" /\ t.idea = idea /\ t.pack = pack
<1> DEFINE r == Queued(n)
           t == [r EXCEPT !.idea = idea, !.pack = pack]
<1>1. r \in TaskRecords /\ r.pc = "queued"
  BY QueuedTyped
<1>2. t \in TaskRecords /\ t.pc = "queued" /\ t.idea = idea /\ t.pack = pack
  <2> HIDE DEF r
  <2> QED
    BY <1>1 DEF TaskRecords
<1>3. t = IntentOrder(n, idea, pack)
  BY DEF IntentOrder
<1> HIDE DEF t
<1> QED
  BY <1>2, <1>3

\* Put on a message of its own.
LEMMA SendWorks ==
  ASSUME NEW kind, kind \subseteq Message, NEW t \in TaskRecords, t.pc = "queued", Send(kind, t),
         \A m \in kind : Names(m, t)
  PROVE  TaskEffect
<1>1. PICK m \in kind : Put(m, t)
  <2>1. (CHOOSE m \in Spare(kind) : TRUE) \in Spare(kind)
    BY DEF Send
  <2> QED
    BY <2>1 DEF Send, Spare
<1>2. Works(m)
  BY <1>1 DEF Works, PcOf
<1> QED
  BY <1>2 DEF TaskEffect

LEMMA Requeued ==
  ASSUME NEW r \in TaskRecords, NEW n \in Nat, NEW copy \in StageCopies, NEW result \in Nat,
         NEW t, t = [r EXCEPT !.pc = "queued", !.retries = n, !.subject = <<>>, !.copy = copy, !.result = result]
  PROVE  /\ t \in TaskRecords /\ t.pc = "queued"
         /\ t.idea = r.idea /\ t.pack = r.pack /\ t.intent = r.intent
BY Copies DEF TaskRecords, TaskStates

\* A failure is asked for again, or is the end.
LEMMA RetryWorks ==
  ASSUME TypeInv, NEW m \in Message, NEW status, RetryOrFinish(m, status), task[m].pc # "idle"
  PROVE  TaskEffect
<1>1. task[m] \in TaskRecords /\ Names(m, task[m])
  BY DEF TypeInv, RestTyped, HoldersRefer, Fits
<1>2. CASE Retryable(status) /\ task[m].retries < MaxRetries
  <2> DEFINE t == [task[m] EXCEPT !.pc = "queued", !.retries = @ + 1, !.subject = <<>>]
  <2>1. task[m].retries + 1 \in Nat
    BY <1>1 DEF TaskRecords
  <2>2. /\ t \in TaskRecords /\ t.pc = "queued"
        /\ t.idea = task[m].idea /\ t.pack = task[m].pack /\ t.intent = task[m].intent
    BY <1>1, <2>1, Copies DEF TaskRecords, TaskStates
  <2>3. Put(m, t)
    BY <1>2 DEF RetryOrFinish
  <2> HIDE DEF t
  <2>4. Works(m)
    BY <1>1, <2>2, <2>3 DEF Works, Names, PcOf
  <2> QED
    BY <2>4 DEF TaskEffect
<1> QED
  BY <1>2 DEF RetryOrFinish, Finish, Idles, TaskEffect

\* The retry number the autopilot asks for.
LEMMA RetryNumber ==
  ASSUME TypeInv, NEW purpose \in GenerationPurpose
  PROVE  NextRetryNumber(purpose) \in Nat
<1> DEFINE rows == attempts[purpose]
           f == [i \in DOMAIN rows |-> rows[i].retry]
           used == {f[i] : i \in DOMAIN rows}
           top == CHOOSE n \in used : \A m \in used : m <= n
<1>1. rows \in Seq(AttemptRecords)
  BY DEF TypeInv, TablesTyped
<1>2. f \in [DOMAIN rows -> Nat]
  <2>1. \A i \in DOMAIN rows : rows[i] \in AttemptRecords
    <3> HIDE DEF rows
    <3> QED
      BY <1>1
  <2>2. \A i \in DOMAIN rows : rows[i].retry \in Nat
    BY <2>1 DEF AttemptRecords
  <2> QED
    BY <2>2
<1>3. used # {} => top \in Nat
  <2> HIDE DEF f, rows
  <2> QED
    BY <1>1, <1>2, ColumnIsFinite
<1>4. used = {attempts[purpose][i].retry : i \in DOMAIN attempts[purpose]}
  OBVIOUS
<1>5. NextRetryNumber(purpose) = IF used = {} THEN 0 ELSE 1 + top
  <2> HIDE DEF used
  <2> QED
    BY <1>4 DEF NextRetryNumber
<1> HIDE DEF used, top
<1> QED
  BY <1>3, <1>5

-----------------------------------------------------------------------------
(* What the autopilot's plan says of the rows it is about.                  *)

LEMMA PlannedStage ==
  ASSUME NEW s, NEW autopilot, NEW action, action = Plan(s, autopilot), s.state \in STAGES
  PROVE  /\ action = Command("select_idea") => s.best_idea
         /\ action.kind = "enqueue" /\ action.name = "build_pack" => s.selected_idea # 0
         /\ action.kind = "enqueue" /\ action.name = "analyze_intent" => s.selected_idea # 0 /\ s.pack # 0
         /\ action.kind = "enqueue" /\ action.name = "compose_brief" =>
               s.selected_idea # 0 /\ s.pack # 0 /\ s.intent # 0
<1> DEFINE planned == PlanStage(s, autopilot)
<1>1. \/ action = planned
      \/ action.kind = "none" /\ action # Command("select_idea")
  BY DEF Plan, Idle, Command
<1> HIDE DEF planned
<1>2. CASE s.state = "idea_scoring"
  <2>1. planned = PlanIdeaScoring(s, autopilot)
    BY <1>2 DEF planned, PlanStage
  <2> QED
    BY <1>1, <2>1 DEF PlanIdeaScoring, Acceptance, Idle, Wait, Command
<1>3. CASE s.state = "evidence_building"
  <2>1. planned = PlanEvidenceBuilding(s, autopilot)
    BY <1>3 DEF planned, PlanStage
  <2> QED
    BY <1>1, <2>1 DEF PlanEvidenceBuilding, PlanIdeaSelection, PlanPack, Idle, Wait, Command, Enqueue
<1>4. CASE s.state = "seo_research"
  <2>1. planned = PlanSeoResearch(s)
    BY <1>4 DEF planned, PlanStage
  <2> QED
    BY <1>1, <2>1 DEF PlanSeoResearch, Idle, Enqueue, Command
<1>5. CASE s.state = "briefing"
  <2>1. planned = PlanBriefing(s, autopilot)
    BY <1>5 DEF planned, PlanStage
  <2> QED
    BY <1>1, <2>1 DEF PlanBriefing, Acceptance, Idle, Wait, Command, Enqueue
<1>6. CASE s.state = "blocked"
  <2>1. planned = Wait("blocked")
    BY <1>6 DEF planned, PlanStage
  <2> QED
    BY <1>1, <2>1 DEF Wait, Command
<1> QED
  BY <1>2, <1>3, <1>4, <1>5, <1>6 DEF STAGES

LEMMA PlannedMeans ==
  ASSUME NEW action, action = Planned
  PROVE  /\ action = Command("select_idea") => BestIdeas # {}
         /\ action.kind = "enqueue" /\ action.name = "build_pack" => selected # 0
         /\ action.kind = "enqueue" /\ action.name = "analyze_intent" => selected # 0 /\ Len(packs) # 0
         /\ action.kind = "enqueue" /\ action.name = "compose_brief" =>
               selected # 0 /\ Len(packs) # 0 /\ Latest(IntentsOf(selected)) # 0
<1>1. CASE row \in STAGES
  <2> DEFINE s == Snapshot
  <2>1. /\ s.state = row /\ s.best_idea = (BestIdeas # {}) /\ s.selected_idea = selected
        /\ s.pack = Len(packs) /\ s.intent = Latest(IntentsOf(selected))
    BY DEF Snapshot
  <2>2. action = Plan(s, mode)
    BY <1>1 DEF Planned
  <2> HIDE DEF s
  <2> QED
    BY <1>1, <2>1, <2>2, PlannedStage
<1>2. CASE row \notin STAGES
  BY <1>2 DEF Planned, Idle, Command
<1> QED
  BY <1>1, <1>2

\* The newest row of some, if there is one.
LEMMA LatestExists ==
  ASSUME NEW set \in SUBSET Nat, IsFiniteSet(set)
  PROVE  (set = {} /\ Latest(set) = 0) \/ Latest(set) \in set
BY GreatestOfFinite DEF Latest

LEMMA OldestExists ==
  ASSUME NEW set \in SUBSET Nat, set # {}
  PROVE  Oldest(set) \in set
BY LeastOfSome DEF Oldest

LEMMA Rows ==
  ASSUME TypeInv
  PROVE  /\ IntentsOf(selected) \in SUBSET Nat /\ IsFiniteSet(IntentsOf(selected))
         /\ ActiveBriefs \in SUBSET Nat /\ IsFiniteSet(ActiveBriefs)
         /\ BestIdeas \in SUBSET Nat
         /\ DOMAIN ideas = 1..Len(ideas) /\ DOMAIN packs = 1..Len(packs)
         /\ DOMAIN intents = 1..Len(intents) /\ DOMAIN briefs = 1..Len(briefs)
         /\ Len(ideas) \in Nat /\ Len(packs) \in Nat /\ Len(intents) \in Nat /\ Len(briefs) \in Nat
<1>1. /\ ideas \in Seq(Idea) /\ packs \in Seq(PackRecords)
      /\ intents \in Seq(IntentRecords) /\ briefs \in Seq(BriefRecords)
  BY DEF TypeInv, TablesTyped
<1>2. /\ DOMAIN ideas = 1..Len(ideas) /\ DOMAIN packs = 1..Len(packs)
      /\ DOMAIN intents = 1..Len(intents) /\ DOMAIN briefs = 1..Len(briefs)
      /\ Len(ideas) \in Nat /\ Len(packs) \in Nat /\ Len(intents) \in Nat /\ Len(briefs) \in Nat
  BY <1>1
<1>3. IsFiniteSet(DOMAIN intents) /\ IsFiniteSet(DOMAIN briefs)
  BY <1>2, FS_Interval
<1>4. IntentsOf(selected) \subseteq DOMAIN intents /\ ActiveBriefs \subseteq DOMAIN briefs /\ BestIdeas \subseteq DOMAIN ideas
  BY DEF IntentsOf, ActiveBriefs, BestIdeas
<1>5. IsFiniteSet(IntentsOf(selected)) /\ IsFiniteSet(ActiveBriefs)
  BY <1>3, <1>4, FS_Subset
<1> QED
  BY <1>2, <1>4, <1>5

-----------------------------------------------------------------------------
(* Every step, seen from the messages.                                      *)

LEMMA SubjectTyped ==
  ASSUME TypeInv, NEW m \in Generation
  PROVE  Subject(m) \in Subjects
<1>1. sources.inputs \in Nat /\ sources.evidence \in Nat
  BY DEF TypeInv, FactsTyped, SourceRecords
<1>2. task[m].idea \in Nat /\ task[m].pack \in Nat /\ task[m].intent \in Nat
  BY Kinds DEF TypeInv, RestTyped, TaskRecords
<1>3. /\ m \in IdeaTask => Subject(m) = IdeaSubject
      /\ m \in IntentTask => Subject(m) = IntentSubject(task[m])
      /\ m \in BriefTask => Subject(m) = BriefSubject(task[m])
  BY Kinds DEF Subject
<1>4. IdeaSubject \in Subjects /\ IntentSubject(task[m]) \in Subjects /\ BriefSubject(task[m]) \in Subjects
  BY <1>1, <1>2 DEF IdeaSubject, IntentSubject, BriefSubject, Subjects
<1> QED
  BY <1>3, <1>4 DEF Generation

LEMMA StartTasks ==
  ASSUME TypeInv, NEW m \in Generation, StartGeneration(m)
  PROVE  TaskEffect
<1> DEFINE running == [task[m] EXCEPT !.subject = Subject(m), !.copy = row]
<1>1. /\ m \in Message /\ task[m] \in TaskRecords /\ task[m].pc = "queued" /\ Names(m, task[m])
      /\ row \in StageCopies
  BY Kinds DEF StartGeneration, TypeInv, RestTyped, HoldersRefer, Fits, ItemTyped, StageCopies
<1>2. /\ running \in TaskRecords /\ running.idea = task[m].idea
      /\ running.pack = task[m].pack /\ running.intent = task[m].intent
  BY <1>1, SubjectTyped DEF TaskRecords
<1>3. Admits(m) => Commissioned
  BY DEF Admits, AdmitsIdeas, AdmitsIntent, AdmitsBrief
<1> HIDE DEF running
<1>4. ASSUME Admits(m), Put(m, [running EXCEPT !.pc = "calling"])
      PROVE  Works(m)
  <2> DEFINE t == [running EXCEPT !.pc = "calling"]
  <2>1. /\ t \in TaskRecords /\ t.pc = "calling"
        /\ t.idea = task[m].idea /\ t.pack = task[m].pack /\ t.intent = task[m].intent
    BY <1>2 DEF TaskRecords, TaskStates
  <2>2. "calling" \in PcOf(m) \ {"idle"} /\ Names(m, t)
    BY <1>1, <2>1 DEF PcOf, Names
  <2>3. Put(m, t)
    BY <1>4
  <2> HIDE DEF t
  <2> QED
    BY <1>3, <1>4, <2>1, <2>2, <2>3 DEF Works
<1>5. ASSUME Admits(m), m \in IntentTask, NEW n \in DOMAIN intents, intents' = intents,
             Put(m, [running EXCEPT !.pc = "analysed", !.result = n])
      PROVE  Works(m)
  <2> DEFINE t == [running EXCEPT !.pc = "analysed", !.result = n]
  <2>1. n \in Nat
    BY <1>5, Rows
  <2>2. /\ t \in TaskRecords /\ t.pc = "analysed" /\ t.result = n
        /\ t.idea = task[m].idea /\ t.pack = task[m].pack /\ t.intent = task[m].intent
    BY <1>2, <2>1 DEF TaskRecords, TaskStates
  <2>3. "analysed" \in PcOf(m) \ {"idle"} /\ Names(m, t)
    BY <1>1, <1>5, <2>2 DEF PcOf, Names
  <2>4. Put(m, t)
    BY <1>5
  <2> HIDE DEF t
  <2> QED
    BY <1>3, <1>5, <2>2, <2>3, <2>4 DEF Works
<1>6. \/ Finish(m)
      \/ Admits(m) /\ Put(m, [running EXCEPT !.pc = "calling"])
      \/ \E status : RetryOrFinish(m, status)
      \/ Admits(m) /\ m \in IntentTask
           /\ \E n \in DOMAIN intents : Put(m, [running EXCEPT !.pc = "analysed", !.result = n])
  <2>1. \/ Finish(m)
        \/ Admits(m) /\ Put(m, [running EXCEPT !.pc = "calling"])
        \/ Admits(m) /\ \E i \in Stored(m, Subject(m)) :
             IF attempts[Purpose(m)][i].status # "succeeded"
               THEN RetryOrFinish(m, attempts[Purpose(m)][i].status) /\ UNCHANGED item
             ELSE IF m \in IntentTask
               THEN \E n \in AnalysisOf(i) :
                      Put(m, [running EXCEPT !.pc = "analysed", !.result = n]) /\ Load(m)
             ELSE Finish(m) /\ UNCHANGED item
    BY DEF StartGeneration, running
  <2>2. \A i : AnalysisOf(i) \subseteq DOMAIN intents
    BY DEF AnalysisOf
  <2> QED
    BY <2>1, <2>2
<1>7. intents' = intents
  BY DEF StartGeneration, artifacts
<1>8. (\E status : RetryOrFinish(m, status)) => TaskEffect
  BY <1>1, RetryWorks
<1> QED
  BY <1>1, <1>4, <1>5, <1>6, <1>7, <1>8 DEF TaskEffect, Finish, Idles

LEMMA AnswerTasks ==
  ASSUME TypeInv, NEW m \in Generation,
         \/ DuplicateInFlight(m)
         \/ \E status \in GenerationStatus : GenerationFailed(m, status)
         \/ \E title \in BOOLEAN : IdeasAnswered(m, title)
         \/ IntentAnswered(m) \/ IntentAdvances(m)
         \/ \E sound \in BOOLEAN : BriefAnswered(m, sound)
  PROVE  TaskEffect
<1>1. m \in Message /\ task[m] \in TaskRecords /\ Fits(m, task[m])
  BY Kinds DEF TypeInv, RestTyped, HoldersRefer
<1>2. CASE \E status \in GenerationStatus : GenerationFailed(m, status)
  BY <1>1, <1>2, RetryWorks DEF GenerationFailed, Answered
<1>3. CASE IntentAnswered(m)
  <2> DEFINE r == task[m]
             t == [r EXCEPT !.pc = "analysed", !.result = Len(intents) + 1]
  <2>1. /\ m \in IntentTask /\ task[m].pc = "calling" /\ Put(m, t)
        /\ \E row_ : intents' = Append(intents, row_)
    BY <1>3 DEF IntentAnswered, Answered
  <2>2. Len(intents) + 1 \in DOMAIN intents' /\ Len(intents) + 1 \in Nat
    <3>1. intents \in Seq(IntentRecords)
      BY DEF TypeInv, TablesTyped
    <3> QED
      BY <2>1, <3>1
  <2>3. /\ t \in TaskRecords /\ t.pc = "analysed" /\ t.result = Len(intents) + 1
        /\ t.idea = task[m].idea /\ t.pack = task[m].pack /\ t.intent = task[m].intent
    <3>1. r \in TaskRecords
      BY <1>1
    <3> HIDE DEF r
    <3>2. /\ t \in TaskRecords /\ t.pc = "analysed" /\ t.result = Len(intents) + 1
          /\ t.idea = r.idea /\ t.pack = r.pack /\ t.intent = r.intent
      BY <3>1, <2>2 DEF TaskRecords, TaskStates
    <3> QED
      BY <3>2 DEF r
  <2>4. Names(m, t) /\ Commissioned /\ "analysed" \in PcOf(m) \ {"idle"}
    BY <1>1, <2>1, <2>3 DEF Fits, Names, PcOf
  <2> HIDE DEF t
  <2>5. Works(m)
    BY <2>1, <2>2, <2>3, <2>4 DEF Works
  <2> QED
    BY <1>1, <2>5 DEF TaskEffect
<1>4. DuplicateInFlight(m) \/ (\E title \in BOOLEAN : IdeasAnswered(m, title))
        \/ IntentAdvances(m) \/ (\E sound \in BOOLEAN : BriefAnswered(m, sound)) => Finish(m)
  BY DEF DuplicateInFlight, IdeasAnswered, IntentAdvances, BriefAnswered
<1> QED
  BY <1>1, <1>2, <1>3, <1>4 DEF TaskEffect, Finish, Idles

LEMMA PackTasks ==
  ASSUME TypeInv, NEW m \in PackTask, PackStep(m)
  PROVE  TaskEffect
<1>1. m \in Message /\ task[m] \in TaskRecords /\ Fits(m, task[m]) /\ row \in StageCopies
  BY Kinds DEF TypeInv, RestTyped, HoldersRefer, ItemTyped, StageCopies
<1>2. CASE AssemblePack(m)
  <2> DEFINE r == task[m]
  <2>1. CASE Finish(m)
    BY <1>1, <2>1 DEF TaskEffect, Finish, Idles
  <2>2. ASSUME NEW p \in DOMAIN packs', Commissioned,
               Put(m, [r EXCEPT !.pc = "packed", !.copy = row, !.result = p])
        PROVE  TaskEffect
    <3> DEFINE t == [r EXCEPT !.pc = "packed", !.copy = row, !.result = p]
    <3>1. p \in Nat
      <4>1. packs' = packs \/ \E e : packs' = Append(packs, e)
        BY <1>2 DEF AssemblePack, Assembled
      <4>2. packs \in Seq(PackRecords)
        BY DEF TypeInv, TablesTyped
      <4> QED
        BY <2>2, <4>1, <4>2
    <3>2. r \in TaskRecords
      BY <1>1
    <3>3. /\ t \in TaskRecords /\ t.pc = "packed" /\ t.result = p
          /\ t.idea = task[m].idea
      <4> HIDE DEF r
      <4>1. /\ t \in TaskRecords /\ t.pc = "packed" /\ t.result = p /\ t.idea = r.idea
        BY <1>1, <3>1, <3>2 DEF TaskRecords, TaskStates
      <4> QED
        BY <4>1 DEF r
    <3>4. r.pc = "queued"
      BY <1>2 DEF AssemblePack
    <3>5. Names(m, t) /\ "packed" \in PcOf(m) \ {"idle"}
      BY <1>1, <3>3, <3>4, Kinds DEF Fits, Names, PcOf
    <3>6. Put(m, t)
      BY <2>2
    <3> HIDE DEF t
    <3>7. Works(m)
      BY <2>2, <3>3, <3>5, <3>6 DEF Works
    <3> QED
      BY <1>1, <3>7 DEF TaskEffect
  <2> QED
    BY <1>2, <2>1, <2>2 DEF AssemblePack
<1>3. CASE PackAdvances(m)
  <2> DEFINE t == [task[m] EXCEPT !.pc = "dispatching"]
  <2>1. CASE Finish(m)
    BY <1>1, <2>1 DEF TaskEffect, Finish, Idles
  <2>2. CASE Put(m, t)
    <3>1. task[m].pc = "packed" /\ packs' = packs
      BY <1>3 DEF PackAdvances, artifacts
    <3>2. /\ t \in TaskRecords /\ t.pc = "dispatching" /\ t.result = task[m].result /\ t.idea = task[m].idea
      BY <1>1 DEF TaskRecords, TaskStates
    <3>3. Names(m, t) /\ "dispatching" \in PcOf(m) \ {"idle"} /\ Commissioned /\ t.result \in DOMAIN packs'
      BY <1>1, <3>1, <3>2, Kinds DEF Fits, Names, PcOf, HasResult
    <3> HIDE DEF t
    <3>4. Works(m)
      BY <2>2, <3>2, <3>3 DEF Works
    <3> QED
      BY <1>1, <3>4 DEF TaskEffect
  <2> QED
    BY <1>3, <2>1, <2>2 DEF PackAdvances
<1>4. CASE PackDispatches(m)
  <2> DEFINE n == CHOOSE k \in Spare(IntentTask) : TRUE
  <2>1. n \in Spare(IntentTask)
    BY <1>4 DEF PackDispatches
  <2>2. HandsOver(m, n)
    BY <1>4, <2>1 DEF PackDispatches, HandsOver, Spare
  <2> QED
    BY <2>1, <2>2 DEF TaskEffect, Spare
<1> QED
  BY <1>2, <1>3, <1>4 DEF PackStep

LEMMA CrashTasks ==
  ASSUME TypeInv, NEW m \in Message, Crash(m) \/ CrashLosesMessage(m)
  PROVE  TaskEffect
<1>1. task[m] \in TaskRecords /\ Fits(m, task[m])
  BY DEF TypeInv, RestTyped, HoldersRefer
<1>2. CASE CrashLosesMessage(m)
  BY <1>2 DEF CrashLosesMessage, TaskEffect, Finish, Idles
<1>3. CASE Crash(m)
  <2> DEFINE r == task[m]
             t == [r EXCEPT !.pc = "queued", !.subject = <<>>, !.copy = None, !.result = 0]
  <2>1. Put(m, t) /\ task[m].pc # "idle"
    BY <1>3 DEF Crash, WorkerDies
  <2>2. /\ t \in TaskRecords /\ t.pc = "queued"
        /\ t.idea = task[m].idea /\ t.pack = task[m].pack /\ t.intent = task[m].intent
    BY <1>1, Copies DEF TaskRecords, TaskStates
  <2>3. Names(m, t) /\ "queued" \in PcOf(m) \ {"idle"}
    BY <1>1, <2>1, <2>2 DEF Fits, Names, PcOf
  <2> HIDE DEF t
  <2>4. Works(m)
    BY <2>1, <2>2, <2>3 DEF Works
  <2> QED
    BY <2>4 DEF TaskEffect
<1> QED
  BY <1>2, <1>3

LEMMA OperatorTasks ==
  ASSUME TypeInv, OperatorStep
  PROVE  TaskEffect
<1>1. ASSUME NEW idea \in DOMAIN ideas, NEW evidence \in 0..EligibleEvidence, NEW contradicted \in BOOLEAN,
             RequestPack(idea, evidence, contradicted)
      PROVE  TaskEffect
  <2> DEFINE t == PackOrder(0, idea, evidence, contradicted)
  <2>1. idea \in Nat /\ evidence \in Nat /\ 0 \in Nat
    BY Rows DEF TypeInv, FactsTyped, SourceRecords
  <2>2. t \in TaskRecords /\ t.pc = "queued" /\ t.idea = idea
    BY <2>1, PackTold
  <2>3. \A m \in PackTask : Names(m, t)
    BY <2>2, Kinds DEF Names
  <2>4. Send(PackTask, t)
    BY <1>1 DEF RequestPack, RequestTask, PackOrder
  <2> HIDE DEF t
  <2> QED
    BY <2>2, <2>3, <2>4, Kinds, SendWorks
<1>2. ASSUME NEW idea \in DOMAIN ideas, NEW pack \in DOMAIN packs, NEW retry \in 0..MaxRetry,
             RequestAnalysis(idea, pack, retry)
      PROVE  TaskEffect
  <2> DEFINE t == IntentOrder(retry, idea, pack)
  <2>1. idea \in Nat /\ pack \in Nat /\ retry \in Nat
    BY Rows, CommissioningBounds
  <2>2. t \in TaskRecords /\ t.pc = "queued"
    BY <2>1, IntentTold
  <2>3. t.idea = idea /\ t.pack = pack
    BY <2>1, IntentTold
  <2>4. \A m \in IntentTask : Names(m, t)
    BY <2>3, Kinds DEF Names
  <2>5. Send(IntentTask, t)
    BY <1>2 DEF RequestAnalysis, RequestTask, IntentOrder
  <2>6. IntentTask \subseteq Message
    BY Kinds
  <2> HIDE DEF t
  <2> QED
    BY <2>2, <2>4, <2>5, <2>6, SendWorks
<1>3. ASSUME NEW idea \in DOMAIN ideas, NEW pack \in DOMAIN packs, NEW intent \in DOMAIN intents,
             NEW retry \in 0..MaxRetry, NEW reason \in BOOLEAN, RequestBrief(idea, pack, intent, retry, reason)
      PROVE  TaskEffect
  <2> DEFINE r == IntentOrder(retry, idea, pack)
             t == [r EXCEPT !.intent = intent, !.reason = reason]
  <2>1. idea \in Nat /\ pack \in Nat /\ intent \in Nat /\ retry \in Nat
    BY Rows, CommissioningBounds
  <2>2. r \in TaskRecords /\ r.pc = "queued" /\ r.idea = idea /\ r.pack = pack
    BY <2>1, IntentTold
  <2>3. t \in TaskRecords /\ t.pc = "queued" /\ t.idea = idea /\ t.pack = pack /\ t.intent = intent
    <3> HIDE DEF r
    <3> QED
      BY <2>1, <2>2 DEF TaskRecords
  <2>4. \A m \in BriefTask : Names(m, t)
    BY <2>3 DEF Names
  <2>5. Send(BriefTask, t)
    BY <1>3 DEF RequestBrief, RequestTask, IntentOrder
  <2>6. BriefTask \subseteq Message
    BY Kinds
  <2> HIDE DEF t
  <2> QED
    BY <2>3, <2>4, <2>5, <2>6, SendWorks
<1>4. ASSUME NEW retry \in Nat, NEW kind, kind \in {ScoreTask, IdeaTask}, Send(kind, Queued(retry))
      PROVE  TaskEffect
  <2>1. Queued(retry) \in TaskRecords /\ Queued(retry).pc = "queued"
    BY QueuedTyped
  <2>2. kind \subseteq Message /\ \A m \in kind : Names(m, Queued(retry))
    BY <1>4, CommissioningMessages, Kinds DEF Names
  <2> QED
    BY <1>4, <2>1, <2>2, SendWorks
<1>5. CASE PromoteDuplicateOverride \/ RequestRejection
           \/ (\E override \in BOOLEAN : RequestCommission(override))
           \/ (\E b \in DOMAIN briefs : RequestAcceptance(b))
           \/ (\E idea \in DOMAIN ideas : SelectIdea(idea))
           \/ (\E p \in DOMAIN packs : ResolveContradiction(p) \/ ReassemblePack(p))
           \/ (\E to \in {"evidence_building", "rejected"} : LeaveBlocked(to))
  BY <1>5 DEF TaskEffect, PromoteDuplicateOverride, RequestRejection, RequestCommission, RequestAcceptance,
    SelectIdea, ResolveContradiction, ReassemblePack, LeaveBlocked
<1>6. RequestTask(ScoreTask, Queued(0)) => TaskEffect
  BY <1>4 DEF RequestTask
<1>7. (\E retry \in 0..MaxRetry : RequestTask(IdeaTask, Queued(retry))) => TaskEffect
  BY <1>4, CommissioningBounds DEF RequestTask
<1> QED
  BY <1>1, <1>2, <1>3, <1>5, <1>6, <1>7 DEF OperatorStep

LEMMA EnqueueTasks ==
  ASSUME TypeInv, NEW action, action = Planned, AutopilotEnqueues(action)
  PROVE  TaskEffect
<1> DEFINE retry == NextRetryNumber(PURPOSE_BY_ACTION(action.name))
<1>1. action.kind = "enqueue"
  BY DEF AutopilotEnqueues
<1>2. /\ action.name = "build_pack" => selected # 0
      /\ action.name = "analyze_intent" => selected # 0 /\ Len(packs) # 0
      /\ action.name = "compose_brief" => selected # 0 /\ Len(packs) # 0 /\ Latest(IntentsOf(selected)) # 0
  BY <1>1, PlannedMeans
<1>3. action.name \in {"generate_ideas", "analyze_intent", "compose_brief"} => retry \in Nat
  <2>1. action.name \in {"generate_ideas", "analyze_intent", "compose_brief"} =>
          PURPOSE_BY_ACTION(action.name) \in GenerationPurpose
    BY DEF PURPOSE_BY_ACTION, GenerationPurpose
  <2> QED
    BY <2>1, RetryNumber
<1>4. /\ selected \in Nat /\ Len(packs) \in Nat /\ EligibleEvidence \in Nat
      /\ selected # 0 => selected \in DOMAIN ideas
      /\ Len(packs) # 0 => Len(packs) \in DOMAIN packs
  BY Rows DEF TypeInv, FactsTyped, SourceRecords, EligibleEvidence
<1>5. Latest(IntentsOf(selected)) # 0 => Latest(IntentsOf(selected)) \in DOMAIN intents
  <2>1. IntentsOf(selected) \subseteq DOMAIN intents
    BY DEF IntentsOf
  <2> QED
    BY <2>1, Rows, LatestExists
<1> HIDE DEF retry
<1>6. CASE action.name = "generate_ideas"
  <2>1. Queued(retry) \in TaskRecords /\ Queued(retry).pc = "queued"
    BY <1>3, <1>6, QueuedTyped
  <2>2. IdeaTask \subseteq Message /\ \A m \in IdeaTask : Names(m, Queued(retry))
    BY Kinds DEF Names
  <2>3. Send(IdeaTask, Queued(retry))
    BY <1>6 DEF AutopilotEnqueues, retry
  <2> QED
    BY <2>1, <2>2, <2>3, SendWorks
<1>7. CASE action.name = "analyze_intent"
  <2> DEFINE t == IntentOrder(retry, selected, Len(packs))
  <2>1. t \in TaskRecords /\ t.pc = "queued"
    BY <1>3, <1>4, <1>7, IntentTold
  <2>2. t.idea = selected /\ t.pack = Len(packs)
    BY <1>3, <1>4, <1>7, IntentTold
  <2>3. IntentTask \subseteq Message /\ \A m \in IntentTask : Names(m, t)
    BY <1>2, <1>4, <1>7, <2>2, Kinds DEF Names
  <2>4. Send(IntentTask, t)
    BY <1>7 DEF AutopilotEnqueues, retry, IntentOrder
  <2> HIDE DEF t
  <2> QED
    BY <2>1, <2>3, <2>4, SendWorks
<1>8. CASE action.name = "compose_brief"
  <2> DEFINE intent == Latest(IntentsOf(selected))
             r == IntentOrder(retry, selected, Len(packs))
             t == [r EXCEPT !.intent = intent]
  <2>1. intent \in DOMAIN intents /\ intent \in Nat
    BY <1>2, <1>5, <1>8, Rows
  <2>2. Send(BriefTask, t)
    BY <1>8 DEF AutopilotEnqueues, retry, IntentOrder
  <2> HIDE DEF intent
  <2>3. r \in TaskRecords /\ r.pc = "queued" /\ r.idea = selected /\ r.pack = Len(packs)
    BY <1>3, <1>4, <1>8, IntentTold
  <2>4. t \in TaskRecords /\ t.pc = "queued" /\ t.idea = selected /\ t.pack = Len(packs) /\ t.intent = intent
    <3> HIDE DEF r
    <3> QED
      BY <2>1, <2>3 DEF TaskRecords
  <2>5. BriefTask \subseteq Message /\ \A m \in BriefTask : Names(m, t)
    BY <1>2, <1>4, <1>8, <2>1, <2>4, Kinds DEF Names
  <2> HIDE DEF t
  <2> QED
    BY <2>2, <2>4, <2>5, SendWorks
<1>9. CASE action.name = "build_pack"
  <2> DEFINE t == EvidenceOrder(0, selected, EligibleEvidence)
  <2>1. t \in TaskRecords /\ t.pc = "queued" /\ t.idea = selected
    BY <1>4, EvidenceTold
  <2>2. PackTask \subseteq Message /\ \A m \in PackTask : Names(m, t)
    BY <1>2, <1>4, <1>9, <2>1, Kinds DEF Names
  <2>3. Send(PackTask, t)
    BY <1>9 DEF AutopilotEnqueues, EvidenceOrder
  <2> HIDE DEF t
  <2> QED
    BY <2>1, <2>2, <2>3, SendWorks
<1>10. CASE action.name = "extract_evidence"
  BY <1>10 DEF AutopilotEnqueues, TaskEffect
<1> QED
  BY <1>6, <1>7, <1>8, <1>9, <1>10 DEF AutopilotEnqueues

LEMMA EveryTaskEffect ==
  ASSUME TypeInv, [Next]_vars
  PROVE  TaskEffect
<1>1. CASE ResearchStep
  <2>1. Send(ScoreTask, Queued(0)) => TaskEffect
    <3>1. Queued(0) \in TaskRecords /\ Queued(0).pc = "queued"
      BY QueuedTyped
    <3>2. ScoreTask \subseteq Message /\ \A m \in ScoreTask : Names(m, Queued(0))
      BY CommissioningMessages, Kinds DEF Names
    <3> QED
      BY <3>1, <3>2, SendWorks
  <2> QED
    BY <1>1, <2>1 DEF ResearchStep, PromoteResearch, PromoteMission, ExtractEvidence, TaskEffect
<1>2. CASE TaskStep
  <2>1. ASSUME NEW m \in ScoreTask, EvaluateOpportunity(m)
        PROVE  TaskEffect
    BY <2>1, Kinds DEF EvaluateOpportunity, Finish, Idles, TaskEffect
  <2>2. ASSUME NEW m \in Generation, GenerationStep(m)
        PROVE  TaskEffect
    BY <2>2, StartTasks, AnswerTasks DEF GenerationStep
  <2> QED
    BY <1>2, <2>1, <2>2, PackTasks DEF TaskStep
<1>3. CASE \E a \in Sweep : AutopilotStep(a)
  <2>1. ASSUME NEW action, action = Planned, AutopilotEnqueues(action)
        PROVE  TaskEffect
    BY <2>1, EnqueueTasks
  <2>2. ASSUME NEW a, NEW action,
               AutopilotSelectsIdea(action) \/ AutopilotPlans(a, action)
                 \/ AutopilotCommissionsItem(a) \/ AutopilotAcceptsBrief(a)
        PROVE  TaskEffect
    BY <2>2 DEF AutopilotSelectsIdea, AutopilotPlans, AutopilotCommissionsItem, AutopilotAcceptsBrief, TaskEffect
  <2>3. PICK a \in Sweep : AutopilotStep(a)
    BY <1>3
  <2> QED
    BY <2>1, <2>2, <2>3 DEF AutopilotStep
<1>4. CASE DecideDuplicate \/ BudgetSpends \/ RequestStep \/ InFlightWindowPasses \/ UNCHANGED vars
  BY <1>4 DEF DecideDuplicate, BudgetSpends, RequestStep, CommissionOpportunity, RejectOpportunity, AcceptBrief,
    InFlightWindowPasses, vars, TaskEffect
<1> QED
  BY <1>1, <1>2, <1>3, <1>4, CrashTasks, OperatorTasks DEF Next

-----------------------------------------------------------------------------
(* Every step, seen from the rows.                                          *)

\* What an answer adds next to its attempt.
AddsIdea ==
  /\ \E title \in BOOLEAN :
       ideas' = Append(ideas, [originality |-> Originality(title), inputs |-> sources.inputs])
  /\ UNCHANGED <<packs, intents, briefs>>

AddsIntent(m) ==
  /\ m \in IntentTask
  /\ intents' = Append(intents, [idea |-> task[m].idea, attempt |-> Len(attempts[Purpose(m)]) + 1])
  /\ UNCHANGED <<ideas, packs, briefs>>

NewBrief(t, sound) ==
  [idea |-> t.idea, pack |-> t.pack, intent |-> t.intent, status |-> "draft", sound |-> sound]

Superseded == [b \in DOMAIN briefs |-> [briefs[b] EXCEPT !.status = "superseded"]]

AddsBrief(m) ==
  /\ m \in BriefTask /\ row = "briefing" /\ BriefGivesWay(m)
  /\ \E sound \in BOOLEAN : briefs' = Append(Superseded, NewBrief(task[m], sound))
  /\ UNCHANGED <<ideas, packs, intents>>

NewAttempt(m, status) ==
  [subject |-> task[m].subject, retry |-> task[m].retry + task[m].retries, status |-> status]

Answers(m, status) ==
  /\ m \in Generation /\ task[m].pc = "calling" /\ status \in GenerationStatus
  /\ attempts' = [attempts EXCEPT ![Purpose(m)] = Append(@, NewAttempt(m, status))]
  /\ UNCHANGED artifacts \/ AddsIdea \/ AddsIntent(m) \/ AddsBrief(m)

AddsPack ==
  /\ \E idea \in DOMAIN ideas, evidence \in Nat, contradiction \in Contradiction, enough \in BOOLEAN :
       packs' = Assembled(idea, evidence, contradiction, enough)
  /\ UNCHANGED briefs

ResolvesPack ==
  /\ \E p \in DOMAIN packs : packs' = [packs EXCEPT ![p].contradiction = "resolved"]
  /\ UNCHANGED briefs

AcceptsBrief(b) ==
  /\ b \in DOMAIN briefs /\ UniqueActiveBrief(b) /\ GatesHold(b)
  /\ briefs' = [briefs EXCEPT ![b].status = "accepted_for_drafting"]
  /\ row' = "drafting" /\ entry' = [entry EXCEPT !.drafting = b]
  /\ UNCHANGED packs

TableEffect ==
  \/ UNCHANGED <<artifacts, attempts>>
  \/ \E m \in Generation, status \in GenerationStatus : Answers(m, status) /\ UNCHANGED <<row, entry>>
  \/ /\ UNCHANGED <<ideas, intents, attempts>>
     /\ AddsPack \/ ResolvesPack \/ \E b \in DOMAIN briefs : AcceptsBrief(b)

LEMMA AnswerTables ==
  ASSUME TypeInv, NEW m \in Generation, GenerationStep(m)
  PROVE  TableEffect
<1>1. ASSUME NEW status \in GenerationStatus, Answered(m, status), UNCHANGED <<row, entry>>,
             UNCHANGED artifacts \/ AddsIdea \/ AddsIntent(m) \/ AddsBrief(m)
      PROVE  TableEffect
  <2>1. Answers(m, status)
    BY <1>1 DEF Answers, Answered, AddAttempt, NewAttempt
  <2> QED
    BY <1>1, <2>1 DEF TableEffect
<1>2. "succeeded" \in GenerationStatus
  BY DEF GenerationStatus
<1>3. CASE DuplicateInFlight(m) \/ StartGeneration(m) \/ IntentAdvances(m)
  BY <1>3 DEF DuplicateInFlight, StartGeneration, IntentAdvances, TableEffect
<1>4. ASSUME NEW status \in GenerationStatus, GenerationFailed(m, status)
      PROVE  TableEffect
  BY <1>1, <1>4 DEF GenerationFailed, Forget
<1>5. ASSUME NEW title \in BOOLEAN, IdeasAnswered(m, title)
      PROVE  TableEffect
  <2>1. AddsIdea /\ Answered(m, "succeeded") /\ UNCHANGED <<row, entry>>
    BY <1>5 DEF IdeasAnswered, AddsIdea, item
  <2> QED
    BY <1>1, <1>2, <2>1
<1>6. CASE IntentAnswered(m)
  <2>1. AddsIntent(m) /\ Answered(m, "succeeded") /\ UNCHANGED <<row, entry>>
    BY <1>6 DEF IntentAnswered, AddsIntent, item
  <2> QED
    BY <1>1, <1>2, <2>1
<1>7. ASSUME NEW sound \in BOOLEAN, BriefAnswered(m, sound)
      PROVE  TableEffect
  <2>1. Answered(m, "succeeded") /\ UNCHANGED <<row, entry, ideas, packs, intents>>
    BY <1>7 DEF BriefAnswered, item
  <2>2. CASE row = "briefing" /\ selected = task[m].idea /\ SameBrief(task[m]) = {} /\ BriefGivesWay(m)
    <3>1. AddsBrief(m)
      BY <1>7, <2>2 DEF BriefAnswered, AddsBrief, Superseded, NewBrief
    <3> QED
      BY <1>1, <1>2, <2>1, <3>1
  <2>3. CASE ~(row = "briefing" /\ selected = task[m].idea /\ SameBrief(task[m]) = {} /\ BriefGivesWay(m))
    <3>1. UNCHANGED artifacts
      BY <1>7, <2>3 DEF BriefAnswered, artifacts
    <3> QED
      BY <1>1, <1>2, <2>1, <3>1
  <2> QED
    BY <2>2, <2>3
<1> QED
  BY <1>3, <1>4, <1>5, <1>6, <1>7 DEF GenerationStep

LEMMA PackTables ==
  ASSUME TypeInv, NEW m \in PackTask, PackStep(m)
  PROVE  TableEffect
<1>1. CASE AssemblePack(m)
  <2>1. task[m].idea \in DOMAIN ideas /\ task[m].evidence \in Nat
    <3>1. m \in Message /\ task[m] \in TaskRecords /\ Fits(m, task[m]) /\ task[m].pc = "queued"
      BY <1>1, Kinds DEF AssemblePack, TypeInv, RestTyped, HoldersRefer
    <3> QED
      BY <3>1 DEF Fits, Names, TaskRecords
  <2>2. (IF task[m].contradicted THEN "unresolved" ELSE "none") \in Contradiction
    BY DEF Contradiction
  <2>3. CASE \E enough \in BOOLEAN :
               packs' = Assembled(task[m].idea, task[m].evidence,
                                  IF task[m].contradicted THEN "unresolved" ELSE "none", enough)
    <3>1. AddsPack
      BY <1>1, <2>1, <2>2, <2>3 DEF AddsPack, AssemblePack
    <3> QED
      BY <1>1, <3>1 DEF AssemblePack, TableEffect
  <2>4. CASE UNCHANGED packs
    BY <1>1, <2>4 DEF AssemblePack, TableEffect, artifacts
  <2> QED
    BY <1>1, <2>3, <2>4 DEF AssemblePack
<1>2. CASE PackAdvances(m) \/ PackDispatches(m)
  BY <1>2 DEF PackAdvances, PackDispatches, TableEffect
<1> QED
  BY <1>1, <1>2 DEF PackStep

\* A copy that says draft is a copy of a brief that exists.
LEMMA AcceptTables ==
  ASSUME TypeInv, NEW x, NEW state, NEW b, NEW status, AcceptForDrafting(x, state, b, status),
         status # None => b \in DOMAIN briefs, UNCHANGED <<ideas, packs, intents, attempts>>
  PROVE  (UNCHANGED <<row, entry>> \/ (b \in DOMAIN briefs /\ AcceptsBrief(b))) /\ TableEffect
<1>1. CASE Acceptable(state, b, status)
  <2>1. b \in DOMAIN briefs /\ AcceptsBrief(b)
    BY <1>1 DEF AcceptForDrafting, Acceptable, AcceptsBrief, Move, None
  <2> QED
    BY <2>1 DEF TableEffect
<1>2. CASE ~Acceptable(state, b, status)
  BY <1>2 DEF AcceptForDrafting, TableEffect, artifacts, item
<1> QED
  BY <1>1, <1>2

LEMMA OperatorTables ==
  ASSUME TypeInv, OperatorStep
  PROVE  TableEffect
<1>1. ASSUME NEW p \in DOMAIN packs, ResolveContradiction(p)
      PROVE  TableEffect
  <2>1. ResolvesPack
    BY <1>1 DEF ResolveContradiction, ResolvesPack
  <2> QED
    BY <1>1, <2>1 DEF ResolveContradiction, TableEffect
<1>2. ASSUME NEW p \in DOMAIN packs, ReassemblePack(p)
      PROVE  TableEffect
  <2>1. packs[p].idea \in DOMAIN ideas /\ packs[p].evidence \in Nat /\ packs[p].contradiction \in Contradiction
    <3>1. packs \in Seq(PackRecords)
      BY DEF TypeInv, TablesTyped
    <3>2. packs[p] \in PackRecords
      BY <3>1
    <3> QED
      BY <3>2 DEF TypeInv, TablesRefer, PackRecords
  <2>2. AddsPack
    BY <1>2, <2>1 DEF ReassemblePack, AddsPack
  <2> QED
    BY <1>2, <2>2 DEF ReassemblePack, TableEffect
<1>3. PromoteDuplicateOverride \/ RequestRejection
        \/ (\E override \in BOOLEAN : RequestCommission(override))
        \/ (\E b \in DOMAIN briefs : RequestAcceptance(b))
        \/ (\E to \in {"evidence_building", "rejected"} : LeaveBlocked(to))
        => TableEffect
  BY DEF PromoteDuplicateOverride, CreatePromotion, RequestRejection, RequestCommission, RequestAcceptance,
    LeaveBlocked, TableEffect
<1>4. \A kind, t : RequestTask(kind, t) => TableEffect
  BY DEF RequestTask, TableEffect
<1>5. ASSUME NEW idea \in DOMAIN ideas,
             \/ SelectIdea(idea)
             \/ \E evidence \in 0..EligibleEvidence, contradicted \in BOOLEAN : RequestPack(idea, evidence, contradicted)
             \/ \E pack \in DOMAIN packs, retry \in 0..MaxRetry :
                  \/ RequestAnalysis(idea, pack, retry)
                  \/ \E intent \in DOMAIN intents, reason \in BOOLEAN : RequestBrief(idea, pack, intent, retry, reason)
      PROVE  TableEffect
  BY <1>5 DEF SelectIdea, RequestPack, RequestAnalysis, RequestBrief, RequestTask, TableEffect
<1> QED
  BY <1>1, <1>2, <1>3, <1>4, <1>5 DEF OperatorStep

LEMMA EveryTableEffect ==
  ASSUME TypeInv, [Next]_vars
  PROVE  TableEffect
<1>1. CASE ResearchStep \/ DecideDuplicate \/ BudgetSpends \/ InFlightWindowPasses \/ UNCHANGED vars
  BY <1>1 DEF ResearchStep, PromoteResearch, PromoteMission, CreatePromotion, ExtractEvidence,
    DecideDuplicate, BudgetSpends, InFlightWindowPasses, vars, TableEffect
<1>2. CASE TaskStep
  <2>1. ASSUME NEW m \in ScoreTask, EvaluateOpportunity(m)
        PROVE  TableEffect
    BY <2>1 DEF EvaluateOpportunity, TableEffect
  <2> QED
    BY <1>2, <2>1, AnswerTables, PackTables DEF TaskStep
<1>3. ASSUME NEW m, Crash(m) \/ CrashLosesMessage(m)
      PROVE  TableEffect
  BY <1>3 DEF Crash, CrashLosesMessage, WorkerDies, TableEffect
<1>4. ASSUME NEW a \in Sweep, AutopilotStep(a)
      PROVE  TableEffect
  <2>1. ASSUME NEW action,
               AutopilotEnqueues(action) \/ AutopilotSelectsIdea(action) \/ AutopilotPlans(a, action)
                 \/ AutopilotCommissionsItem(a)
        PROVE  TableEffect
    BY <2>1 DEF AutopilotEnqueues, AutopilotSelectsIdea, AutopilotPlans, AutopilotCommissionsItem, TableEffect
  <2>2. CASE AutopilotAcceptsBrief(a)
    <3>1. step[a].status # None => step[a].brief \in DOMAIN briefs
      BY <2>2 DEF AutopilotAcceptsBrief, Performs, TypeInv, HoldersRefer
    <3>2. AcceptForDrafting(a, "briefing", step[a].brief, step[a].status)
          /\ UNCHANGED <<ideas, packs, intents, attempts>>
      BY <2>2 DEF AutopilotAcceptsBrief
    <3> QED
      BY <3>1, <3>2, AcceptTables
  <2> QED
    BY <1>4, <2>1, <2>2 DEF AutopilotStep
<1>5. CASE RequestStep
  <2>1. CommissionOpportunity \/ RejectOpportunity => TableEffect
    BY DEF CommissionOpportunity, RejectOpportunity, TableEffect
  <2>2. CASE AcceptBrief
    <3>1. request.brief \in DOMAIN briefs
      BY <2>2 DEF AcceptBrief, EndRequest, TypeInv, HoldersRefer
    <3>2. AcceptForDrafting(None, row, request.brief, request.status)
          /\ UNCHANGED <<ideas, packs, intents, attempts>>
      BY <2>2 DEF AcceptBrief
    <3> QED
      BY <3>1, <3>2, AcceptTables
  <2> QED
    BY <1>5, <2>1, <2>2 DEF RequestStep
<1> QED
  BY <1>1, <1>2, <1>3, <1>4, <1>5, OperatorTables DEF Next

-----------------------------------------------------------------------------
(* Rows are only added; what changes in one is a status or a resolution.    *)

AttemptsKept ==
  /\ attempts' \in [GenerationPurpose -> Seq(AttemptRecords)]
  /\ \A purpose \in GenerationPurpose : Extends(attempts'[purpose], attempts[purpose])

LEMMA AttemptsGrow ==
  ASSUME TypeInv, TableEffect
  PROVE  AttemptsKept
<1>1. attempts \in [GenerationPurpose -> Seq(AttemptRecords)]
  BY DEF TypeInv, TablesTyped
<1>2. CASE UNCHANGED attempts
  <2>1. \A purpose \in GenerationPurpose : Extends(attempts[purpose], attempts[purpose])
    BY <1>1, SameExtends
  <2> QED
    BY <1>1, <1>2, <2>1 DEF AttemptsKept
<1>3. ASSUME NEW m \in Generation, NEW status \in GenerationStatus, Answers(m, status)
      PROVE  AttemptsKept
  <2> DEFINE P == Purpose(m)
             e == NewAttempt(m, status)
             new == Append(attempts[P], e)
  <2>1. P \in GenerationPurpose
    BY Kinds, Purposes
  <2>2. e \in AttemptRecords
    <3>1. task[m] \in TaskRecords
      BY Kinds DEF TypeInv, RestTyped
    <3>2. task[m].subject \in Subjects /\ task[m].retry \in Nat /\ task[m].retries \in Nat
      BY <3>1 DEF TaskRecords
    <3>3. task[m].retry + task[m].retries \in Nat
      BY <3>2
    <3> QED
      BY <3>2, <3>3 DEF NewAttempt, AttemptRecords
  <2>3. attempts' = [attempts EXCEPT ![P] = new]
    BY <1>3 DEF Answers
  <2> HIDE DEF P, e
  <2>4. attempts[P] \in Seq(AttemptRecords)
    BY <1>1, <2>1
  <2>5. new \in Seq(AttemptRecords) /\ Extends(new, attempts[P])
    BY <2>2, <2>4, AppendExtends
  <2> HIDE DEF new
  <2>6. attempts' \in [GenerationPurpose -> Seq(AttemptRecords)]
    BY <1>1, <2>1, <2>3, <2>5
  <2>7. ASSUME NEW purpose \in GenerationPurpose
        PROVE  Extends(attempts'[purpose], attempts[purpose])
    <3>1. CASE purpose = P
      BY <1>1, <2>1, <2>3, <2>5, <3>1
    <3>2. CASE purpose # P
      <4>1. attempts'[purpose] = attempts[purpose] /\ attempts[purpose] \in Seq(AttemptRecords)
        BY <1>1, <2>1, <2>3, <3>2
      <4> QED
        BY <4>1, SameExtends
    <3> QED
      BY <3>1, <3>2
  <2> QED
    BY <2>6, <2>7 DEF AttemptsKept
<1> QED
  BY <1>2, <1>3 DEF TableEffect

IdeasKept == ideas' \in Seq(Idea) /\ Extends(ideas', ideas)

LEMMA IdeasGrow ==
  ASSUME TypeInv, TableEffect
  PROVE  IdeasKept
<1>1. ideas \in Seq(Idea)
  BY DEF TypeInv, TablesTyped
<1>2. CASE UNCHANGED ideas
  BY <1>1, <1>2, SameExtends DEF IdeasKept
<1>3. CASE AddsIdea
  <2>1. PICK title \in BOOLEAN :
          ideas' = Append(ideas, [originality |-> Originality(title), inputs |-> sources.inputs])
    BY <1>3 DEF AddsIdea
  <2> DEFINE e == [originality |-> Originality(title), inputs |-> sources.inputs]
  <2>2. e \in Idea
    <3>1. sources.inputs \in Nat
      BY DEF TypeInv, FactsTyped, SourceRecords
    <3>2. Originality(title) \in OriginalityStatus
      BY DEF Originality, OriginalityStatus
    <3> QED
      BY <3>1, <3>2 DEF Idea
  <2> HIDE DEF e
  <2>3. Append(ideas, e) \in Seq(Idea) /\ Extends(Append(ideas, e), ideas)
    BY <1>1, <2>2, AppendExtends
  <2> QED
    BY <2>1, <2>3 DEF IdeasKept, e
<1> QED
  BY <1>2, <1>3 DEF TableEffect, Answers, AddsIntent, AddsBrief, artifacts

\* An analysis is of an idea that exists, by the attempt that was just recorded.
IntentsKept ==
  /\ intents' \in Seq(IntentRecords) /\ Extends(intents', intents)
  /\ \A n \in DOMAIN intents' : n \notin DOMAIN intents =>
       intents'[n].idea \in DOMAIN ideas /\ intents'[n].attempt \in DOMAIN attempts'["intent_synthesis"]

LEMMA IntentsGrow ==
  ASSUME TypeInv, TableEffect
  PROVE  IntentsKept
<1>1. intents \in Seq(IntentRecords) /\ attempts \in [GenerationPurpose -> Seq(AttemptRecords)]
  BY DEF TypeInv, TablesTyped
<1>2. CASE UNCHANGED intents
  BY <1>1, <1>2, SameExtends DEF IntentsKept
<1>3. ASSUME NEW m \in Generation, NEW status \in GenerationStatus, Answers(m, status), AddsIntent(m)
      PROVE  IntentsKept
  <2> DEFINE rows == attempts["intent_synthesis"]
             last == Len(rows) + 1
             e == [idea |-> task[m].idea, attempt |-> last]
  <2>1. m \in IntentTask /\ Purpose(m) = "intent_synthesis" /\ task[m].pc = "calling"
    BY <1>3, Purposes DEF AddsIntent, Answers
  <2>2. rows \in Seq(AttemptRecords)
    BY <1>1 DEF GenerationPurpose
  <2>3. last \in Nat /\ last \in DOMAIN attempts'["intent_synthesis"]
    <3>1. attempts'["intent_synthesis"] = Append(rows, NewAttempt(m, status))
      BY <1>1, <1>3, <2>1 DEF Answers, GenerationPurpose
    <3> HIDE DEF rows
    <3>2. DOMAIN Append(rows, NewAttempt(m, status)) = 1..Len(rows) + 1 /\ Len(rows) \in Nat
      BY <2>2
    <3> QED
      BY <3>1, <3>2
  <2>4. task[m].idea \in DOMAIN ideas
    <3>1. m \in Message /\ Fits(m, task[m])
      BY Kinds DEF TypeInv, HoldersRefer
    <3> QED
      BY <2>1, <3>1 DEF Fits, Names
  <2>5. intents' = Append(intents, e)
    BY <1>3, <2>1 DEF AddsIntent
  <2> HIDE DEF last
  <2>6. e \in IntentRecords /\ e.idea = task[m].idea /\ e.attempt = last
    BY <2>3, <2>4, Rows DEF IntentRecords
  <2> HIDE DEF e
  <2>7. /\ Append(intents, e) \in Seq(IntentRecords) /\ Extends(Append(intents, e), intents)
        /\ Append(intents, e)[Len(intents) + 1] = e
        /\ DOMAIN intents = 1..Len(intents) /\ Len(intents) \in Nat
        /\ DOMAIN Append(intents, e) = 1..(Len(intents) + 1)
    BY <1>1, <2>6, AppendExtends
  <2>8. \A n \in DOMAIN intents' : n \notin DOMAIN intents => intents'[n] = e
    BY <2>5, <2>7
  <2> QED
    BY <2>3, <2>4, <2>5, <2>6, <2>7, <2>8 DEF IntentsKept
<1> QED
  BY <1>2, <1>3 DEF TableEffect, Answers, AddsIdea, AddsBrief, artifacts

PacksKept ==
  /\ packs' \in Seq(PackRecords) /\ Len(packs) <= Len(packs')
  /\ \A p \in DOMAIN packs : /\ p \in DOMAIN packs' /\ packs'[p].idea = packs[p].idea
                             /\ packs'[p].sufficiency = packs[p].sufficiency
  /\ \A p \in DOMAIN packs' : p \notin DOMAIN packs => packs'[p].idea \in DOMAIN ideas

LEMMA PacksGrow ==
  ASSUME TypeInv, TableEffect
  PROVE  PacksKept
<1>1. packs \in Seq(PackRecords)
  BY DEF TypeInv, TablesTyped
<1>2. CASE UNCHANGED packs
  BY <1>1, <1>2 DEF PacksKept
<1>3. CASE AddsPack
  <2>1. PICK idea \in DOMAIN ideas, evidence \in Nat, contradiction \in Contradiction, enough \in BOOLEAN :
          packs' = Assembled(idea, evidence, contradiction, enough)
    BY <1>3 DEF AddsPack
  <2> DEFINE e == NewPack(idea, evidence, contradiction, enough)
  <2>2. e \in PackRecords /\ e.idea = idea
    <3>1. Sufficiency(evidence, contradiction, enough) \in EvidencePackSufficiency
      BY DEF Sufficiency, EvidencePackSufficiency
    <3>2. idea \in Nat
      BY Rows
    <3> QED
      BY <3>1, <3>2 DEF NewPack, PackRecords
  <2>3. packs' = Append(packs, e) \/ packs' = packs
    BY <2>1 DEF Assembled
  <2> HIDE DEF e
  <2>4. /\ Append(packs, e) \in Seq(PackRecords) /\ Len(Append(packs, e)) = Len(packs) + 1
        /\ Append(packs, e)[Len(packs) + 1] = e
        /\ DOMAIN packs = 1..Len(packs) /\ Len(packs) \in Nat
        /\ DOMAIN Append(packs, e) = 1..(Len(packs) + 1)
        /\ \A p \in DOMAIN packs : Append(packs, e)[p] = packs[p]
    BY <1>1, <2>2, AppendExtends
  <2>5. CASE packs' = Append(packs, e)
    <3>1. \A p \in DOMAIN packs' : p \notin DOMAIN packs => packs'[p] = e
      BY <2>4, <2>5
    <3>2. \A p \in DOMAIN packs : p \in DOMAIN packs' /\ packs'[p] = packs[p]
      BY <2>4, <2>5
    <3>3. packs' \in Seq(PackRecords) /\ Len(packs) <= Len(packs')
      BY <2>4, <2>5
    <3> QED
      BY <2>2, <3>1, <3>2, <3>3 DEF PacksKept
  <2> QED
    BY <1>2, <2>3, <2>5
<1>4. CASE ResolvesPack
  <2>1. PICK p \in DOMAIN packs : packs' = [packs EXCEPT ![p].contradiction = "resolved"]
    BY <1>4 DEF ResolvesPack
  <2> DEFINE old == packs[p]
             e == [old EXCEPT !.contradiction = "resolved"]
  <2>2. old \in PackRecords
    BY <1>1
  <2>3. packs' = [packs EXCEPT ![p] = e]
    BY <2>1
  <2>4. e \in PackRecords /\ e.idea = packs[p].idea /\ e.sufficiency = packs[p].sufficiency
    <3> HIDE DEF old
    <3>1. e \in PackRecords /\ e.idea = old.idea /\ e.sufficiency = old.sufficiency
      BY <2>2 DEF PackRecords, Contradiction
    <3> QED
      BY <3>1 DEF old
  <2> HIDE DEF e
  <2>5. packs' \in Seq(PackRecords) /\ Len(packs') = Len(packs) /\ DOMAIN packs' = DOMAIN packs
    BY <1>1, <2>3, <2>4
  <2>6. \A q \in DOMAIN packs : packs'[q].idea = packs[q].idea /\ packs'[q].sufficiency = packs[q].sufficiency
    BY <1>1, <2>3, <2>4
  <2>7. Len(packs) \in Nat
    BY <1>1
  <2> QED
    BY <2>5, <2>6, <2>7 DEF PacksKept
<1> QED
  BY <1>2, <1>3, <1>4 DEF TableEffect, Answers, AddsIdea, AddsIntent, AddsBrief, AcceptsBrief, artifacts

BriefsKept ==
  /\ briefs' \in Seq(BriefRecords) /\ Len(briefs) <= Len(briefs')
  /\ \A b \in DOMAIN briefs : /\ b \in DOMAIN briefs' /\ briefs'[b].idea = briefs[b].idea
                              /\ briefs'[b].pack = briefs[b].pack /\ briefs'[b].intent = briefs[b].intent
  /\ \A b \in DOMAIN briefs' : b \notin DOMAIN briefs =>
       /\ briefs'[b].idea \in DOMAIN ideas /\ briefs'[b].pack \in DOMAIN packs
       /\ briefs'[b].intent \in DOMAIN intents

\* The new brief is the last, and every other one is superseded.
LEMMA BriefAdded ==
  ASSUME TypeInv, NEW m \in Generation, task[m].pc = "calling", AddsBrief(m)
  PROVE  /\ briefs' \in Seq(BriefRecords) /\ Len(briefs') = Len(briefs) + 1
         /\ DOMAIN briefs = 1..Len(briefs) /\ Len(briefs) \in Nat /\ DOMAIN briefs' = 1..(Len(briefs) + 1)
         /\ \A b \in DOMAIN briefs : briefs'[b] = [briefs[b] EXCEPT !.status = "superseded"]
         /\ LET new == briefs'[Len(briefs) + 1] IN
              /\ new.idea = task[m].idea /\ new.pack = task[m].pack
              /\ new.intent = task[m].intent /\ new.status = "draft"
<1>1. briefs \in Seq(BriefRecords) /\ task[m] \in TaskRecords
  BY Kinds DEF TypeInv, TablesTyped, RestTyped
<1>2. PICK sound \in BOOLEAN : briefs' = Append(Superseded, NewBrief(task[m], sound))
  BY DEF AddsBrief
<1> DEFINE e == NewBrief(task[m], sound)
<1>3. /\ e \in BriefRecords /\ e.idea = task[m].idea /\ e.pack = task[m].pack
      /\ e.intent = task[m].intent /\ e.status = "draft"
  BY <1>1 DEF NewBrief, BriefRecords, TaskRecords, BriefStatus
<1>4. Superseded \in Seq(BriefRecords) /\ DOMAIN Superseded = DOMAIN briefs /\ Len(Superseded) = Len(briefs)
  <2>1. ASSUME NEW b \in DOMAIN briefs
        PROVE  [briefs[b] EXCEPT !.status = "superseded"] \in BriefRecords
    <3> DEFINE old == briefs[b]
    <3>1. old \in BriefRecords
      BY <1>1
    <3> HIDE DEF old
    <3>2. [old EXCEPT !.status = "superseded"] \in BriefRecords
      BY <3>1 DEF BriefRecords, BriefStatus
    <3> QED
      BY <3>2 DEF old
  <2>2. DOMAIN briefs = 1..Len(briefs) /\ Len(briefs) \in Nat
    BY <1>1
  <2>3. Superseded \in [1..Len(briefs) -> BriefRecords]
    BY <2>1, <2>2 DEF Superseded
  <2>4. Superseded \in Seq(BriefRecords)
    BY <2>2, <2>3
  <2> QED
    BY <2>2, <2>3, <2>4
<1>5. \A b \in DOMAIN briefs : Superseded[b] = [briefs[b] EXCEPT !.status = "superseded"]
  BY DEF Superseded
<1> HIDE DEF e
<1>6. /\ Append(Superseded, e) \in Seq(BriefRecords)
      /\ Len(Append(Superseded, e)) = Len(Superseded) + 1
      /\ Append(Superseded, e)[Len(Superseded) + 1] = e
      /\ DOMAIN Superseded = 1..Len(Superseded) /\ Len(Superseded) \in Nat
      /\ DOMAIN Append(Superseded, e) = 1..(Len(Superseded) + 1)
      /\ \A b \in DOMAIN Superseded : Append(Superseded, e)[b] = Superseded[b]
  BY <1>3, <1>4, AppendExtends
<1>7. briefs' = Append(Superseded, e)
  BY <1>2 DEF e
<1> QED
  BY <1>3, <1>4, <1>5, <1>6, <1>7

LEMMA BriefsGrow ==
  ASSUME TypeInv, TableEffect
  PROVE  BriefsKept
<1>1. briefs \in Seq(BriefRecords)
  BY DEF TypeInv, TablesTyped
<1>2. CASE UNCHANGED briefs
  BY <1>1, <1>2 DEF BriefsKept
<1>3. ASSUME NEW m \in Generation, task[m].pc = "calling", AddsBrief(m)
      PROVE  BriefsKept
  <2>1. /\ briefs' \in Seq(BriefRecords) /\ Len(briefs') = Len(briefs) + 1
        /\ DOMAIN briefs = 1..Len(briefs) /\ Len(briefs) \in Nat /\ DOMAIN briefs' = 1..(Len(briefs) + 1)
        /\ \A b \in DOMAIN briefs : briefs'[b] = [briefs[b] EXCEPT !.status = "superseded"]
        /\ briefs'[Len(briefs) + 1].idea = task[m].idea /\ briefs'[Len(briefs) + 1].pack = task[m].pack
        /\ briefs'[Len(briefs) + 1].intent = task[m].intent
    BY <1>3, BriefAdded
  <2>2. /\ task[m].idea \in DOMAIN ideas /\ task[m].pack \in DOMAIN packs
        /\ task[m].intent \in DOMAIN intents
    <3>1. m \in Message /\ m \in BriefTask /\ Fits(m, task[m])
      BY <1>3, Kinds DEF AddsBrief, TypeInv, HoldersRefer
    <3> QED
      BY <1>3, <3>1 DEF Fits, Names
  <2>3. \A b \in DOMAIN briefs : /\ b \in DOMAIN briefs' /\ briefs'[b].idea = briefs[b].idea
                                 /\ briefs'[b].pack = briefs[b].pack /\ briefs'[b].intent = briefs[b].intent
    <3>1. ASSUME NEW r \in BriefRecords, NEW e, e = [r EXCEPT !.status = "superseded"]
          PROVE  e.idea = r.idea /\ e.pack = r.pack /\ e.intent = r.intent
      BY <3>1 DEF BriefRecords
    <3>2. \A b \in DOMAIN briefs : briefs[b] \in BriefRecords
      BY <1>1
    <3>3. \A b \in DOMAIN briefs : b \in DOMAIN briefs'
      BY <2>1
    <3> QED
      BY <2>1, <3>1, <3>2, <3>3
  <2>4. \A b \in DOMAIN briefs' : b \notin DOMAIN briefs => b = Len(briefs) + 1
    BY <2>1
  <2>5. Len(briefs) <= Len(briefs')
    BY <2>1
  <2> QED
    BY <2>1, <2>2, <2>3, <2>4, <2>5 DEF BriefsKept
<1>4. ASSUME NEW b \in DOMAIN briefs, AcceptsBrief(b)
      PROVE  BriefsKept
  <2> DEFINE old == briefs[b]
             e == [old EXCEPT !.status = "accepted_for_drafting"]
  <2>1. old \in BriefRecords /\ briefs' = [briefs EXCEPT ![b] = e]
    BY <1>1, <1>4 DEF AcceptsBrief
  <2>2. e \in BriefRecords /\ e.idea = briefs[b].idea /\ e.pack = briefs[b].pack /\ e.intent = briefs[b].intent
    <3> HIDE DEF old
    <3>1. e \in BriefRecords /\ e.idea = old.idea /\ e.pack = old.pack /\ e.intent = old.intent
      BY <2>1 DEF BriefRecords, BriefStatus
    <3> QED
      BY <3>1 DEF old
  <2> HIDE DEF e
  <2>3. briefs' \in Seq(BriefRecords) /\ Len(briefs') = Len(briefs) /\ DOMAIN briefs' = DOMAIN briefs
        /\ Len(briefs) \in Nat
    BY <1>1, <2>1, <2>2
  <2>4. \A q \in DOMAIN briefs : /\ briefs'[q].idea = briefs[q].idea /\ briefs'[q].pack = briefs[q].pack
                                 /\ briefs'[q].intent = briefs[q].intent
    BY <1>1, <2>1, <2>2
  <2> QED
    BY <2>3, <2>4 DEF BriefsKept
<1> QED
  BY <1>2, <1>3, <1>4 DEF TableEffect, Answers, AddsIdea, AddsIntent, AddsPack, ResolvesPack, artifacts

\* Rows that refer to rows still do.
LEMMA TablesStep ==
  ASSUME TypeInv, TableEffect
  PROVE  /\ TablesTyped' /\ TablesRefer'
         /\ DOMAIN ideas \subseteq DOMAIN ideas' /\ DOMAIN packs \subseteq DOMAIN packs'
         /\ DOMAIN intents \subseteq DOMAIN intents' /\ DOMAIN briefs \subseteq DOMAIN briefs'
<1>1. AttemptsKept /\ IdeasKept /\ IntentsKept /\ PacksKept /\ BriefsKept
  BY AttemptsGrow, IdeasGrow, IntentsGrow, PacksGrow, BriefsGrow
<1>2. TablesTyped'
  BY <1>1 DEF TablesTyped, AttemptsKept, IdeasKept, IntentsKept, PacksKept, BriefsKept
<1>3. /\ DOMAIN ideas \subseteq DOMAIN ideas' /\ DOMAIN packs \subseteq DOMAIN packs'
      /\ DOMAIN intents \subseteq DOMAIN intents' /\ DOMAIN briefs \subseteq DOMAIN briefs'
  BY <1>1 DEF IdeasKept, IntentsKept, PacksKept, BriefsKept, Extends
<1>4. DOMAIN attempts["intent_synthesis"] \subseteq DOMAIN attempts'["intent_synthesis"]
  BY <1>1 DEF AttemptsKept, GenerationPurpose, Extends
<1>5. TablesRefer
  BY DEF TypeInv
<1>6. \A p \in DOMAIN packs' : packs'[p].idea \in DOMAIN ideas'
  BY <1>1, <1>3, <1>5 DEF PacksKept, TablesRefer
<1>7. \A n \in DOMAIN intents' : /\ intents'[n].idea \in DOMAIN ideas'
                                 /\ intents'[n].attempt \in DOMAIN attempts'["intent_synthesis"]
  BY <1>1, <1>3, <1>4, <1>5 DEF IntentsKept, TablesRefer, Extends
<1>8. \A b \in DOMAIN briefs' : /\ briefs'[b].idea \in DOMAIN ideas'
                                /\ briefs'[b].pack \in DOMAIN packs' /\ briefs'[b].intent \in DOMAIN intents'
  BY <1>1, <1>3, <1>5 DEF BriefsKept, TablesRefer
<1> QED
  BY <1>2, <1>3, <1>6, <1>7, <1>8 DEF TablesRefer

-----------------------------------------------------------------------------
(* Every step, seen from the item and its opportunity.                      *)

Promotes ==
  /\ row = None /\ row' = "idea_scoring" /\ UNCHANGED entry
  /\ \E override \in BOOLEAN, idea_led \in BOOLEAN :
       opportunity' = [disposition |-> "open", override |-> override, idea_led |-> idea_led, score |-> None]

Scores ==
  /\ \E score \in ScoreEligibility : opportunity' = [opportunity EXCEPT !.score = score]
  /\ UNCHANGED <<row, entry>>

Commissions ==
  /\ opportunity.disposition = "open"
  /\ opportunity' = [opportunity EXCEPT !.disposition = "commissioned"]
  /\ row' = "evidence_building" /\ UNCHANGED entry

Rejects ==
  /\ row = "idea_scoring" /\ opportunity.disposition = "open"
  /\ opportunity' = [opportunity EXCEPT !.disposition = "rejected"]
  /\ row' = "rejected" /\ UNCHANGED entry

AnalysisAdvances(m) ==
  /\ m \in IntentTask /\ task[m].pc = "analysed" /\ row' = "briefing"
  /\ entry' = [entry EXCEPT !.briefing = [pack |-> task[m].pack, intent |-> task[m].result]]

PackMoves(m) ==
  /\ m \in PackTask /\ task[m].pc = "packed"
  /\ \/ Ready(task[m].result) /\ row' = "seo_research" /\ entry' = [entry EXCEPT !.seo = task[m].result]
     \/ row' = "blocked" /\ UNCHANGED entry

LeavesBlocked ==
  row = "blocked" /\ row' \in {"evidence_building", "rejected"} /\ UNCHANGED entry

\* Everything that moves an item whose disposition is settled.
Advances ==
  /\ UNCHANGED opportunity
  /\ \/ \E m \in IntentTask : AnalysisAdvances(m)
     \/ \E m \in PackTask : PackMoves(m)
     \/ LeavesBlocked
     \/ \E b \in DOMAIN briefs : AcceptsBrief(b)

ItemEffect ==
  UNCHANGED <<row, entry, opportunity>> \/ Scores \/ Promotes \/ Commissions \/ Rejects \/ Advances

\* One of the two, whatever the disposition was when the request was made.
LEMMA CommissionEffect ==
  ASSUME TypeInv, NEW x, NEW state, NEW disposition, NEW gate, Commission(x, state, disposition, gate)
  PROVE  \/ UNCHANGED <<row, entry, opportunity, sources>>
         \/ Commissions /\ LinkRelated /\ row # None
<1> DEFINE o == [opportunity EXCEPT !.disposition = Refreshed(disposition)]
<1>1. o = opportunity
  BY DEF Refreshed, TypeInv, FactsTyped, EditorialOpportunity
<1>2. CASE state = "idea_scoring" /\ CommissioningAdmits(o, gate)
  <2>1. opportunity.disposition = "open"
    BY <1>1, <1>2 DEF CommissioningAdmits
  <2>2. row # None
    BY <2>1 DEF TypeInv, StageTellsDisposition, None
  <2>3. Commissions /\ LinkRelated
    BY <1>2, <2>1 DEF Commission, Commissions, Move
  <2> QED
    BY <2>2, <2>3
<1>3. CASE ~(state = "idea_scoring" /\ CommissioningAdmits(o, gate))
  BY <1>3 DEF Commission, item
<1> QED
  BY <1>2, <1>3

LEMMA AcceptEffect ==
  ASSUME TypeInv, NEW x, NEW state, NEW b, NEW status, AcceptForDrafting(x, state, b, status),
         status # None => b \in DOMAIN briefs, UNCHANGED <<ideas, packs, intents, attempts, opportunity>>
  PROVE  ItemEffect
BY AcceptTables DEF ItemEffect, Advances

LEMMA EveryItemEffect ==
  ASSUME TypeInv, [Next]_vars
  PROVE  ItemEffect
<1>1. CASE ResearchStep
  <2>1. ASSUME NEW override \in BOOLEAN, NEW idea_led \in BOOLEAN, CreatePromotion(override, idea_led)
        PROVE  ItemEffect
    <3>1. Promotes
      BY <2>1 DEF CreatePromotion, Promotes
    <3> QED
      BY <3>1 DEF ItemEffect
  <2> QED
    BY <1>1, <2>1 DEF ResearchStep, PromoteResearch, PromoteMission, ExtractEvidence, item, ItemEffect
<1>2. CASE DecideDuplicate \/ BudgetSpends \/ InFlightWindowPasses \/ UNCHANGED vars
  BY <1>2 DEF DecideDuplicate, BudgetSpends, InFlightWindowPasses, vars, item, facts, ItemEffect
<1>3. CASE TaskStep
  <2>1. ASSUME NEW m \in ScoreTask, EvaluateOpportunity(m)
        PROVE  ItemEffect
    <3>1. Scores
      BY <2>1 DEF EvaluateOpportunity, Scores, item
    <3> QED
      BY <3>1 DEF ItemEffect
  <2>2. ASSUME NEW m \in Generation, GenerationStep(m)
        PROVE  ItemEffect
    <3>1. CASE DuplicateInFlight(m) \/ StartGeneration(m)
               \/ (\E status \in GenerationStatus : GenerationFailed(m, status))
               \/ (\E title \in BOOLEAN : IdeasAnswered(m, title))
               \/ IntentAnswered(m) \/ (\E sound \in BOOLEAN : BriefAnswered(m, sound))
      BY <3>1 DEF DuplicateInFlight, StartGeneration, GenerationFailed, IdeasAnswered, IntentAnswered, BriefAnswered,
        Answered, Called, Load, Forget, item, facts, ItemEffect
    <3>2. CASE IntentAdvances(m)
      <4>1. m \in IntentTask
        <5>1. m \in Message /\ Fits(m, task[m]) /\ task[m].pc = "analysed"
          BY <3>2, Kinds DEF IntentAdvances, TypeInv, HoldersRefer
        <5> QED
          BY <5>1 DEF Fits, PcOf
      <4>2. AnalysisAdvances(m) \/ UNCHANGED <<row, entry>>
        BY <3>2, <4>1 DEF IntentAdvances, AnalysisAdvances, Move, Forget
      <4>3. UNCHANGED opportunity
        BY <3>2 DEF IntentAdvances, facts
      <4> QED
        BY <4>1, <4>2, <4>3 DEF ItemEffect, Advances
    <3> QED
      BY <2>2, <3>1, <3>2 DEF GenerationStep
  <2>3. ASSUME NEW m \in PackTask, PackStep(m)
        PROVE  ItemEffect
    <3>1. CASE AssemblePack(m) \/ PackDispatches(m)
      BY <3>1 DEF AssemblePack, PackDispatches, Load, item, facts, ItemEffect
    <3>2. CASE PackAdvances(m)
      <4>1. PackMoves(m) \/ UNCHANGED <<row, entry>>
        BY <3>2 DEF PackAdvances, PackMoves, Move, Forget
      <4>2. UNCHANGED opportunity
        BY <3>2 DEF PackAdvances, facts
      <4> QED
        BY <4>1, <4>2 DEF ItemEffect, Advances
    <3> QED
      BY <2>3, <3>1, <3>2 DEF PackStep
  <2> QED
    BY <1>3, <2>1, <2>2, <2>3 DEF TaskStep
<1>4. ASSUME NEW m, Crash(m) \/ CrashLosesMessage(m)
      PROVE  ItemEffect
  BY <1>4 DEF Crash, CrashLosesMessage, WorkerDies, Forget, facts, ItemEffect
<1>5. ASSUME NEW a \in Sweep, AutopilotStep(a)
      PROVE  ItemEffect
  <2>1. ASSUME NEW action,
               AutopilotEnqueues(action) \/ AutopilotSelectsIdea(action) \/ AutopilotPlans(a, action)
        PROVE  ItemEffect
    BY <2>1 DEF AutopilotEnqueues, AutopilotSelectsIdea, AutopilotPlans, Load, item, facts, ItemEffect
  <2>2. CASE AutopilotCommissionsItem(a)
    BY <2>2, CommissionEffect DEF AutopilotCommissionsItem, ItemEffect
  <2>3. CASE AutopilotAcceptsBrief(a)
    <3>1. step[a].status # None => step[a].brief \in DOMAIN briefs
      BY <2>3 DEF AutopilotAcceptsBrief, Performs, TypeInv, HoldersRefer
    <3>2. AcceptForDrafting(a, "briefing", step[a].brief, step[a].status)
          /\ UNCHANGED <<ideas, packs, intents, attempts, opportunity>>
      BY <2>3 DEF AutopilotAcceptsBrief, facts
    <3> QED
      BY <3>1, <3>2, AcceptEffect
  <2> QED
    BY <1>5, <2>1, <2>2, <2>3 DEF AutopilotStep
<1>6. CASE RequestStep
  <2>1. CASE CommissionOpportunity
    BY <2>1, CommissionEffect DEF CommissionOpportunity, ItemEffect
  <2>2. CASE RejectOpportunity
    <3>1. CASE Refreshed(request.disposition) = "open" /\ row = "idea_scoring"
      <4>1. Rejects
        BY <2>2, <3>1 DEF RejectOpportunity, Refreshed, Rejects, Move
      <4> QED
        BY <4>1 DEF ItemEffect
    <3>2. CASE ~(Refreshed(request.disposition) = "open" /\ row = "idea_scoring")
      BY <2>2, <3>2 DEF RejectOpportunity, item, ItemEffect
    <3> QED
      BY <3>1, <3>2
  <2>3. CASE AcceptBrief
    <3>1. request.brief \in DOMAIN briefs
      BY <2>3 DEF AcceptBrief, EndRequest, TypeInv, HoldersRefer
    <3>2. AcceptForDrafting(None, row, request.brief, request.status)
          /\ UNCHANGED <<ideas, packs, intents, attempts, opportunity>>
      BY <2>3 DEF AcceptBrief, facts
    <3> QED
      BY <3>1, <3>2, AcceptEffect
  <2> QED
    BY <1>6, <2>1, <2>2, <2>3 DEF RequestStep
<1>7. CASE OperatorStep
  <2>1. CASE PromoteDuplicateOverride
    <3>1. Promotes
      BY <2>1 DEF PromoteDuplicateOverride, CreatePromotion, Promotes
    <3> QED
      BY <3>1 DEF ItemEffect
  <2>2. ASSUME NEW to \in {"evidence_building", "rejected"}, LeaveBlocked(to)
        PROVE  ItemEffect
    <3>1. LeavesBlocked /\ UNCHANGED opportunity
      BY <2>2 DEF LeaveBlocked, LeavesBlocked, Move, facts
    <3> QED
      BY <3>1 DEF ItemEffect, Advances
  <2>3. (\E override \in BOOLEAN : RequestCommission(override)) \/ RequestRejection
        \/ (\E b \in DOMAIN briefs : RequestAcceptance(b))
        \/ (\E p \in DOMAIN packs : ResolveContradiction(p) \/ ReassemblePack(p)) => ItemEffect
    BY DEF RequestCommission, RequestRejection, RequestAcceptance, ResolveContradiction, ReassemblePack,
      item, facts, ItemEffect
  <2>4. \A kind, t : RequestTask(kind, t) => ItemEffect
    BY DEF RequestTask, item, facts, ItemEffect
  <2>5. ASSUME NEW idea \in DOMAIN ideas,
               \/ SelectIdea(idea)
               \/ \E evidence \in 0..EligibleEvidence, contradicted \in BOOLEAN : RequestPack(idea, evidence, contradicted)
               \/ \E pack \in DOMAIN packs, retry \in 0..MaxRetry :
                    \/ RequestAnalysis(idea, pack, retry)
                    \/ \E intent \in DOMAIN intents, reason \in BOOLEAN : RequestBrief(idea, pack, intent, retry, reason)
        PROVE  ItemEffect
    BY <2>5 DEF SelectIdea, RequestPack, RequestAnalysis, RequestBrief, RequestTask, item, facts, ItemEffect
  <2> QED
    BY <1>7, <2>1, <2>2, <2>3, <2>4, <2>5 DEF OperatorStep
<1> QED
  BY <1>1, <1>2, <1>3, <1>4, <1>5, <1>6, <1>7 DEF Next

-----------------------------------------------------------------------------
(* Every step, seen from the sources, the decisions and whoever holds one.  *)

FirstLinks ==
  /\ row = None /\ row' # None
  /\ \E n \in 0..sources.related, reject \in BOOLEAN : FirstInputs(n, reject)

Extracts ==
  \E n \in 0..sources.pending :
    sources' = [sources EXCEPT !.evidence = @ + n, !.pending = 0, !.extracting = FALSE]

SourceEffect ==
  \/ UNCHANGED sources
  \/ FirstLinks
  \/ row # None /\ LinkRelated
  \/ Extracts
  \/ \E extracting \in BOOLEAN : sources' = [sources EXCEPT !.extracting = extracting]

LEMMA EverySourceEffect ==
  ASSUME TypeInv, [Next]_vars
  PROVE  SourceEffect
<1>1. CASE ResearchStep
  <2>1. CASE PromoteResearch
    <3>1. FirstLinks
      BY <2>1 DEF PromoteResearch, CreatePromotion, FirstLinks, None
    <3> QED
      BY <3>1 DEF SourceEffect
  <2>2. CASE PromoteMission
    <3>1. row = None /\ row' = "idea_scoring"
      BY <2>2 DEF PromoteMission, CreatePromotion
    <3>2. PICK n \in 0..sources.related, reject \in BOOLEAN :
            FirstInputs(n, decision = "reject" \/ (n > 0 /\ reject))
      BY <2>2 DEF PromoteMission
    <3>3. (decision = "reject" \/ (n > 0 /\ reject)) \in BOOLEAN
      OBVIOUS
    <3>4. FirstLinks
      BY <3>1, <3>2, <3>3 DEF FirstLinks, None
    <3> QED
      BY <3>4 DEF SourceEffect
  <2>3. CASE ExtractEvidence
    BY <2>3 DEF ExtractEvidence, Extracts, SourceEffect
  <2> QED
    BY <1>1, <2>1, <2>2, <2>3 DEF ResearchStep
<1>2. CASE DecideDuplicate \/ BudgetSpends \/ InFlightWindowPasses \/ UNCHANGED vars
  BY <1>2 DEF DecideDuplicate, BudgetSpends, InFlightWindowPasses, vars, facts, SourceEffect
<1>3. CASE TaskStep
  <2>1. ASSUME NEW m \in ScoreTask, EvaluateOpportunity(m)
        PROVE  UNCHANGED sources
    BY <2>1 DEF EvaluateOpportunity
  <2>2. ASSUME NEW m \in Generation, GenerationStep(m)
        PROVE  UNCHANGED sources
    BY <2>2 DEF GenerationStep, DuplicateInFlight, StartGeneration, GenerationFailed, IdeasAnswered,
      IntentAnswered, IntentAdvances, BriefAnswered, Answered, facts
  <2>3. ASSUME NEW m \in PackTask, PackStep(m)
        PROVE  UNCHANGED sources
    BY <2>3 DEF PackStep, AssemblePack, PackAdvances, PackDispatches, facts
  <2> QED
    BY <1>3, <2>1, <2>2, <2>3 DEF TaskStep, SourceEffect
<1>4. ASSUME NEW m, Crash(m) \/ CrashLosesMessage(m)
      PROVE  SourceEffect
  BY <1>4 DEF Crash, CrashLosesMessage, WorkerDies, facts, SourceEffect
<1>5. ASSUME NEW a \in Sweep, AutopilotStep(a)
      PROVE  SourceEffect
  <2>1. ASSUME NEW action, AutopilotEnqueues(action)
        PROVE  SourceEffect
    <3>1. row # None
      BY <2>1 DEF AutopilotEnqueues, ACTIONABLE_STATES, None
    <3>2. UNCHANGED sources \/ LinkRelated \/ sources' = [sources EXCEPT !.extracting = TRUE]
      BY <2>1 DEF AutopilotEnqueues
    <3> QED
      BY <3>1, <3>2 DEF SourceEffect
  <2>2. ASSUME NEW action, AutopilotSelectsIdea(action) \/ AutopilotPlans(a, action)
        PROVE  SourceEffect
    BY <2>2 DEF AutopilotSelectsIdea, AutopilotPlans, facts, SourceEffect
  <2>3. CASE AutopilotCommissionsItem(a)
    BY <2>3, CommissionEffect DEF AutopilotCommissionsItem, SourceEffect
  <2>4. CASE AutopilotAcceptsBrief(a)
    BY <2>4 DEF AutopilotAcceptsBrief, facts, SourceEffect
  <2> QED
    BY <1>5, <2>1, <2>2, <2>3, <2>4 DEF AutopilotStep
<1>6. CASE RequestStep
  <2>1. CASE CommissionOpportunity
    BY <2>1, CommissionEffect DEF CommissionOpportunity, SourceEffect
  <2>2. CASE RejectOpportunity \/ AcceptBrief
    BY <2>2 DEF RejectOpportunity, AcceptBrief, facts, SourceEffect
  <2> QED
    BY <1>6, <2>1, <2>2 DEF RequestStep
<1>7. CASE OperatorStep
  <2>1. CASE PromoteDuplicateOverride
    <3>1. 0 \in 0..sources.related
      BY DEF TypeInv, FactsTyped, SourceRecords
    <3>2. FirstLinks
      BY <2>1, <3>1 DEF PromoteDuplicateOverride, CreatePromotion, FirstLinks, None
    <3> QED
      BY <3>2 DEF SourceEffect
  <2>2. (\E override \in BOOLEAN : RequestCommission(override)) \/ RequestRejection
        \/ (\E b \in DOMAIN briefs : RequestAcceptance(b))
        \/ (\E p \in DOMAIN packs : ResolveContradiction(p) \/ ReassemblePack(p))
        \/ (\E to \in {"evidence_building", "rejected"} : LeaveBlocked(to)) => SourceEffect
    BY DEF RequestCommission, RequestRejection, RequestAcceptance, ResolveContradiction, ReassemblePack,
      LeaveBlocked, facts, SourceEffect
  <2>3. \A kind, t : RequestTask(kind, t) => SourceEffect
    BY DEF RequestTask, facts, SourceEffect
  <2>4. ASSUME NEW idea \in DOMAIN ideas,
               \/ SelectIdea(idea)
               \/ \E evidence \in 0..EligibleEvidence, contradicted \in BOOLEAN : RequestPack(idea, evidence, contradicted)
               \/ \E pack \in DOMAIN packs, retry \in 0..MaxRetry :
                    \/ RequestAnalysis(idea, pack, retry)
                    \/ \E intent \in DOMAIN intents, reason \in BOOLEAN : RequestBrief(idea, pack, intent, retry, reason)
        PROVE  SourceEffect
    BY <2>4 DEF SelectIdea, RequestPack, RequestAnalysis, RequestBrief, RequestTask, facts, SourceEffect
  <2> QED
    BY <1>7, <2>1, <2>2, <2>3, <2>4 DEF OperatorStep
<1> QED
  BY <1>1, <1>2, <1>3, <1>4, <1>5, <1>6, <1>7 DEF Next

\* A request keeps the copy of what it read; nothing else does.
Asks ==
  \E r \in RequestRecords : request' = r /\ (r.pc = "accept" => r.brief \in DOMAIN briefs)

PlansWith(a) ==
  step' = [step EXCEPT ![a] = [pc |-> "planned", action |-> Planned, brief |-> BriefForStage,
                               disposition |-> opportunity.disposition, status |-> Snapshot.brief_status]]

HolderEffect ==
  /\ selected' = selected \/ selected' = 0 \/ selected' \in DOMAIN ideas
  /\ decision' \in DuplicateDecisionOutcome
  /\ UNCHANGED request \/ Asks
  /\ \/ UNCHANGED step
     \/ \E a \in Sweep : step' = [step EXCEPT ![a] = NoStep] \/ PlansWith(a)

LEMMA NoRequestTyped == NoRequest \in RequestRecords /\ NoRequest.pc = "idle"
BY DEF NoRequest, RequestRecords

LEMMA RequestTyped ==
  ASSUME TypeInv
  PROVE  /\ \A override \in BOOLEAN :
              LET r == [NoRequest EXCEPT !.pc = "commission", !.override = override,
                                         !.disposition = opportunity.disposition]
              IN  r \in RequestRecords /\ r.pc = "commission"
         /\ LET r == [NoRequest EXCEPT !.pc = "reject", !.disposition = opportunity.disposition]
            IN  r \in RequestRecords /\ r.pc = "reject"
         /\ \A b \in DOMAIN briefs :
              LET r == [NoRequest EXCEPT !.pc = "accept", !.brief = b, !.status = briefs[b].status]
              IN  r \in RequestRecords /\ r.pc = "accept" /\ r.brief = b
<1>1. opportunity.disposition \in OpportunityDisposition \cup {None}
  BY DEF TypeInv, FactsTyped, EditorialOpportunity
<1>2. ASSUME NEW b \in DOMAIN briefs
      PROVE  b \in Nat /\ briefs[b].status \in BriefStatus
  <2>1. briefs \in Seq(BriefRecords)
    BY DEF TypeInv, TablesTyped
  <2>2. briefs[b] \in BriefRecords
    BY <2>1
  <2> QED
    BY <2>2, Rows DEF BriefRecords
<1> DEFINE none == NoRequest
<1>3. none \in RequestRecords
  BY NoRequestTyped
<1> HIDE DEF none
<1>4. ASSUME NEW override \in BOOLEAN, NEW r,
             r = [none EXCEPT !.pc = "commission", !.override = override, !.disposition = opportunity.disposition]
      PROVE  r \in RequestRecords /\ r.pc = "commission"
  BY <1>1, <1>3, <1>4 DEF RequestRecords
<1>5. ASSUME NEW r, r = [none EXCEPT !.pc = "reject", !.disposition = opportunity.disposition]
      PROVE  r \in RequestRecords /\ r.pc = "reject"
  BY <1>1, <1>3, <1>5 DEF RequestRecords
<1>6. ASSUME NEW b \in DOMAIN briefs, NEW r,
             r = [none EXCEPT !.pc = "accept", !.brief = b, !.status = briefs[b].status]
      PROVE  r \in RequestRecords /\ r.pc = "accept" /\ r.brief = b
  BY <1>2, <1>3, <1>6 DEF RequestRecords
<1> QED
  BY <1>4, <1>5, <1>6 DEF none

LEMMA EveryHolderEffect ==
  ASSUME TypeInv, [Next]_vars
  PROVE  HolderEffect
<1>1. decision \in DuplicateDecisionOutcome /\ (NoRequest \in RequestRecords /\ NoRequest.pc # "accept")
  BY NoRequestTyped DEF TypeInv, FactsTyped
<1> DEFINE Still == UNCHANGED <<selected, decision, request, step>>
<1>2. Still => HolderEffect
  BY <1>1 DEF HolderEffect
<1> DEFINE Ends == UNCHANGED <<selected, decision, step>> /\ request' = NoRequest
<1>3. Ends => HolderEffect
  BY <1>1 DEF HolderEffect, Asks
<1>4. CASE ResearchStep \/ BudgetSpends \/ InFlightWindowPasses \/ UNCHANGED vars
  <2>1. Still
    BY <1>4 DEF ResearchStep, PromoteResearch, PromoteMission, CreatePromotion, ExtractEvidence, BudgetSpends,
      InFlightWindowPasses, vars, facts
  <2> QED
    BY <1>2, <2>1
<1>5. CASE DecideDuplicate
  BY <1>5 DEF DecideDuplicate, HolderEffect
<1>6. CASE TaskStep
  <2>1. ASSUME NEW m \in ScoreTask, EvaluateOpportunity(m)
        PROVE  Still
    BY <2>1 DEF EvaluateOpportunity
  <2>2. ASSUME NEW m \in Generation, GenerationStep(m)
        PROVE  Still
    BY <2>2 DEF GenerationStep, DuplicateInFlight, StartGeneration, GenerationFailed, IdeasAnswered,
      IntentAnswered, IntentAdvances, BriefAnswered, Answered, facts
  <2>3. ASSUME NEW m \in PackTask, PackStep(m)
        PROVE  Still
    BY <2>3 DEF PackStep, AssemblePack, PackAdvances, PackDispatches, facts
  <2> QED
    BY <1>2, <1>6, <2>1, <2>2, <2>3 DEF TaskStep
<1>7. ASSUME NEW m, Crash(m) \/ CrashLosesMessage(m)
      PROVE  Still
  BY <1>7 DEF Crash, CrashLosesMessage, WorkerDies, facts
<1>8. ASSUME NEW a \in Sweep, AutopilotStep(a)
      PROVE  HolderEffect
  <2>1. ASSUME NEW action, AutopilotEnqueues(action)
        PROVE  Still
    BY <2>1 DEF AutopilotEnqueues
  <2>2. ASSUME NEW action, action = Planned, AutopilotSelectsIdea(action)
        PROVE  HolderEffect
    <3>1. BestIdeas # {}
      BY <2>2, PlannedMeans DEF AutopilotSelectsIdea
    <3>2. Oldest(BestIdeas) \in BestIdeas
      BY <3>1, Rows, OldestExists
    <3>3. Oldest(BestIdeas) \in DOMAIN ideas
      BY <3>2 DEF BestIdeas
    <3> QED
      BY <1>1, <2>2, <3>3 DEF AutopilotSelectsIdea, HolderEffect
  <2>3. ASSUME NEW action, action = Planned, AutopilotPlans(a, action)
        PROVE  HolderEffect
    <3>1. PlansWith(a)
      BY <2>3 DEF AutopilotPlans, PlansWith
    <3>2. UNCHANGED <<selected, decision, request>>
      BY <2>3 DEF AutopilotPlans, facts
    <3> QED
      BY <1>1, <3>1, <3>2 DEF HolderEffect
  <2>4. CASE AutopilotCommissionsItem(a) \/ AutopilotAcceptsBrief(a)
    <3>1. step' = [step EXCEPT ![a] = NoStep] /\ UNCHANGED <<selected, decision, request>>
      BY <2>4 DEF AutopilotCommissionsItem, AutopilotAcceptsBrief, Performs, facts
    <3> QED
      BY <1>1, <3>1 DEF HolderEffect
  <2> QED
    BY <1>2, <1>8, <2>1, <2>2, <2>3, <2>4 DEF AutopilotStep
<1>9. CASE RequestStep
  <2>1. Ends
    BY <1>9 DEF RequestStep, CommissionOpportunity, RejectOpportunity, AcceptBrief, EndRequest, facts
  <2> QED
    BY <1>3, <2>1
<1>10. CASE OperatorStep
  <2>1. CASE PromoteDuplicateOverride
    BY <1>2, <2>1 DEF PromoteDuplicateOverride, CreatePromotion
  <2>2. ASSUME NEW override \in BOOLEAN, RequestCommission(override)
        PROVE  HolderEffect
    <3>1. Asks
      BY <2>2, RequestTyped DEF RequestCommission, StartRequest, Asks
    <3> QED
      BY <1>1, <2>2, <3>1 DEF RequestCommission, facts, HolderEffect
  <2>3. CASE RequestRejection
    <3>1. Asks
      BY <2>3, RequestTyped DEF RequestRejection, StartRequest, Asks
    <3> QED
      BY <1>1, <2>3, <3>1 DEF RequestRejection, facts, HolderEffect
  <2>4. ASSUME NEW b \in DOMAIN briefs, RequestAcceptance(b)
        PROVE  HolderEffect
    <3> DEFINE r == [NoRequest EXCEPT !.pc = "accept", !.brief = b, !.status = briefs[b].status]
    <3>1. Asks
      <4>1. r \in RequestRecords /\ r.pc = "accept" /\ r.brief = b
        BY RequestTyped
      <4>2. request' = r
        BY <2>4 DEF RequestAcceptance, StartRequest
      <4> HIDE DEF r
      <4> QED
        BY <4>1, <4>2 DEF Asks
    <3> QED
      BY <1>1, <2>4, <3>1 DEF RequestAcceptance, facts, HolderEffect
  <2>5. (\E p \in DOMAIN packs : ResolveContradiction(p) \/ ReassemblePack(p))
        \/ (\E to \in {"evidence_building", "rejected"} : LeaveBlocked(to)) => Still
    BY DEF ResolveContradiction, ReassemblePack, LeaveBlocked, facts
  <2>6. \A kind, t : RequestTask(kind, t) => Still
    BY DEF RequestTask, facts
  <2>7. ASSUME NEW idea \in DOMAIN ideas, SelectIdea(idea)
        PROVE  HolderEffect
    BY <1>1, <2>7 DEF SelectIdea, HolderEffect
  <2>8. ASSUME NEW idea \in DOMAIN ideas,
               \/ \E evidence \in 0..EligibleEvidence, contradicted \in BOOLEAN : RequestPack(idea, evidence, contradicted)
               \/ \E pack \in DOMAIN packs, retry \in 0..MaxRetry :
                    \/ RequestAnalysis(idea, pack, retry)
                    \/ \E intent \in DOMAIN intents, reason \in BOOLEAN : RequestBrief(idea, pack, intent, retry, reason)
        PROVE  Still
    BY <2>6, <2>8 DEF RequestPack, RequestAnalysis, RequestBrief
  <2> HIDE DEF Still
  <2> QED
    BY <1>2, <1>10, <2>1, <2>2, <2>3, <2>4, <2>5, <2>6, <2>7, <2>8 DEF OperatorStep
<1> QED
  BY <1>2, <1>4, <1>5, <1>6, <1>7, <1>8, <1>9, <1>10 DEF Next

-----------------------------------------------------------------------------
(* A step keeps the types and the references.                               *)

\* A disposition that has been given is not given again.
LEMMA DispositionStays ==
  ASSUME TypeInv, ItemEffect, opportunity.disposition \in {"commissioned", "rejected"}
  PROVE  opportunity'.disposition = opportunity.disposition
<1>1. opportunity \in EditorialOpportunity
  BY DEF TypeInv, FactsTyped
<1>2. row # None /\ row # "idea_scoring"
  BY DEF TypeInv, StageTellsDisposition, None
<1>3. Scores => opportunity'.disposition = opportunity.disposition
  BY <1>1 DEF Scores, EditorialOpportunity
<1> QED
  BY <1>2, <1>3 DEF ItemEffect, Promotes, Commissions, Rejects, Advances

LEMMA OpportunityTyped ==
  ASSUME TypeInv, ItemEffect
  PROVE  opportunity' \in EditorialOpportunity
<1> DEFINE o == opportunity
<1>1. o \in EditorialOpportunity
  BY DEF TypeInv, FactsTyped
<1> HIDE DEF o
<1>2. \A score \in ScoreEligibility : [o EXCEPT !.score = score] \in EditorialOpportunity
  BY <1>1 DEF EditorialOpportunity
<1>3. \A disposition \in OpportunityDisposition : [o EXCEPT !.disposition = disposition] \in EditorialOpportunity
  BY <1>1 DEF EditorialOpportunity
<1>4. "commissioned" \in OpportunityDisposition /\ "rejected" \in OpportunityDisposition
      /\ "open" \in OpportunityDisposition
  BY DEF OpportunityDisposition
<1>5. Promotes => opportunity' \in EditorialOpportunity
  BY <1>4 DEF Promotes, EditorialOpportunity
<1> QED
  BY <1>1, <1>2, <1>3, <1>4, <1>5 DEF o, ItemEffect, Scores, Commissions, Rejects, Advances

LEMMA StageStep ==
  ASSUME TypeInv, ItemEffect, SourceEffect
  PROVE  StageTellsDisposition' /\ row' \in Stages \cup {None}
<1>1. opportunity \in EditorialOpportunity /\ row \in Stages \cup {None} /\ StageTellsDisposition
  BY DEF TypeInv, FactsTyped, ItemTyped
<1>2. Scores => opportunity'.disposition = opportunity.disposition
  BY <1>1 DEF Scores, EditorialOpportunity
<1>3. row' \in Stages \cup {None}
  BY <1>1 DEF ItemEffect, Scores, Promotes, Commissions, Rejects, Advances, AnalysisAdvances, PackMoves,
    LeavesBlocked, AcceptsBrief, Stages
<1>4. row' = "idea_scoring" => opportunity'.disposition = "open"
  BY <1>1, <1>2 DEF ItemEffect, Scores, Promotes, Commissions, Rejects, Advances, AnalysisAdvances, PackMoves,
    LeavesBlocked, AcceptsBrief, StageTellsDisposition
<1>5. ASSUME row' = None
      PROVE  row = None /\ opportunity'.disposition = None
  BY <1>1, <1>2, <1>5 DEF ItemEffect, Scores, Promotes, Commissions, Rejects, Advances, AnalysisAdvances, PackMoves,
    LeavesBlocked, AcceptsBrief, StageTellsDisposition, None
<1>6. ASSUME row' = None
      PROVE  sources'.inputs = 0 /\ sources'.evidence = 0 /\ sources'.pending = 0
  <2>1. sources \in SourceRecords /\ sources.inputs = 0 /\ sources.evidence = 0 /\ sources.pending = 0
    BY <1>1, <1>5, <1>6 DEF TypeInv, FactsTyped, StageTellsDisposition
  <2>2. UNCHANGED sources \/ Extracts
        \/ \E extracting \in BOOLEAN : sources' = [sources EXCEPT !.extracting = extracting]
    BY <1>5, <1>6 DEF SourceEffect, FirstLinks
  <2>3. CASE Extracts
    <3>1. PICK n \in 0..sources.pending :
            sources' = [sources EXCEPT !.evidence = @ + n, !.pending = 0, !.extracting = FALSE]
      BY <2>3 DEF Extracts
    <3>2. n = 0
      BY <2>1
    <3> QED
      BY <2>1, <3>1, <3>2 DEF SourceRecords
  <2> QED
    BY <2>1, <2>2, <2>3 DEF SourceRecords
<1> QED
  BY <1>3, <1>4, <1>5, <1>6 DEF StageTellsDisposition

LEMMA SourcesTyped ==
  ASSUME TypeInv, SourceEffect
  PROVE  sources' \in SourceRecords /\ sources'.evidence + sources'.pending <= sources'.inputs
<1> DEFINE s == sources
<1>1. s \in SourceRecords /\ s.evidence + s.pending <= s.inputs
  BY DEF TypeInv, FactsTyped
<1>2. row = None => s.evidence = 0
  BY DEF TypeInv, StageTellsDisposition
<1> HIDE DEF s
<1>3. s.inputs \in Nat /\ s.related \in Nat /\ s.evidence \in Nat /\ s.pending \in Nat
  BY <1>1 DEF SourceRecords
<1>4. ASSUME NEW n \in 0..s.related, NEW reject \in BOOLEAN, row = None, NEW t,
             t = [s EXCEPT !.inputs = n + 1, !.pending = n + 1, !.related = @ - n, !.rejected = reject]
      PROVE  t \in SourceRecords /\ t.evidence + t.pending <= t.inputs
  <2>1. n + 1 \in Nat /\ s.related - n \in Nat
    BY <1>3
  <2>2. /\ t \in SourceRecords /\ t.evidence = s.evidence
        /\ t.inputs = n + 1 /\ t.pending = n + 1
    BY <1>1, <1>4, <2>1 DEF SourceRecords
  <2> QED
    BY <1>2, <1>4, <2>1, <2>2
<1>5. ASSUME NEW n \in 0..s.related, NEW reject \in BOOLEAN, NEW t,
             t = [s EXCEPT !.inputs = @ + n, !.related = @ - n, !.pending = @ + n,
                           !.rejected = @ \/ (n > 0 /\ reject)]
      PROVE  t \in SourceRecords /\ t.evidence + t.pending <= t.inputs
  <2>1. s.inputs + n \in Nat /\ s.related - n \in Nat /\ s.pending + n \in Nat
    BY <1>3
  <2> DEFINE c == s.rejected \/ (n > 0 /\ reject)
  <2>2. c \in BOOLEAN
    OBVIOUS
  <2>3. t = [s EXCEPT !.inputs = @ + n, !.related = @ - n, !.pending = @ + n, !.rejected = c]
    BY <1>1, <1>5 DEF SourceRecords
  <2> HIDE DEF c
  <2>4. /\ t \in SourceRecords /\ t.evidence = s.evidence
        /\ t.inputs = s.inputs + n /\ t.pending = s.pending + n
    BY <1>1, <2>1, <2>2, <2>3 DEF SourceRecords
  <2> QED
    BY <1>1, <1>3, <2>4
<1>6. ASSUME NEW n \in 0..s.pending, NEW t,
             t = [s EXCEPT !.evidence = @ + n, !.pending = 0, !.extracting = FALSE]
      PROVE  t \in SourceRecords /\ t.evidence + t.pending <= t.inputs
  <2>1. s.evidence + n \in Nat /\ 0 \in Nat
    BY <1>3
  <2>2. t \in SourceRecords /\ t.evidence = s.evidence + n /\ t.pending = 0 /\ t.inputs = s.inputs
    BY <1>1, <1>6, <2>1 DEF SourceRecords
  <2> QED
    BY <1>1, <1>3, <2>2
<1>7. ASSUME NEW extracting \in BOOLEAN, NEW t, t = [s EXCEPT !.extracting = extracting]
      PROVE  t \in SourceRecords /\ t.evidence + t.pending <= t.inputs
  BY <1>1, <1>7 DEF SourceRecords
<1>8. \/ sources' = s
      \/ row = None /\ \E n \in 0..s.related, reject \in BOOLEAN :
           sources' = [s EXCEPT !.inputs = n + 1, !.pending = n + 1, !.related = @ - n, !.rejected = reject]
      \/ \E n \in 0..s.related, reject \in BOOLEAN :
           sources' = [s EXCEPT !.inputs = @ + n, !.related = @ - n, !.pending = @ + n,
                                !.rejected = @ \/ (n > 0 /\ reject)]
      \/ \E n \in 0..s.pending : sources' = [s EXCEPT !.evidence = @ + n, !.pending = 0, !.extracting = FALSE]
      \/ \E extracting \in BOOLEAN : sources' = [s EXCEPT !.extracting = extracting]
  BY DEF s, SourceEffect, FirstLinks, FirstInputs, LinkRelated, Extracts
<1> QED
  BY <1>1, <1>4, <1>5, <1>6, <1>7, <1>8

LEMMA EntryStep ==
  ASSUME TypeInv, ItemEffect, TableEffect
  PROVE  entry' \in EntryRecords /\ EntryRefers'
<1>1. PacksKept /\ IntentsKept /\ BriefsKept
  BY PacksGrow, IntentsGrow, BriefsGrow
<1>2. /\ Len(packs) <= Len(packs') /\ Len(intents) <= Len(intents') /\ Len(briefs) <= Len(briefs')
      /\ Len(packs') \in Nat /\ Len(intents') \in Nat /\ Len(briefs') \in Nat
  BY <1>1 DEF PacksKept, IntentsKept, BriefsKept, Extends
<1> DEFINE e == entry
<1>3. e \in EntryRecords /\ EntryRefers
  BY DEF TypeInv, ItemTyped
<1>4. ASSUME NEW t \in EntryRecords, t.seo \in 0..Len(packs), t.drafting \in 0..Len(briefs),
             t.briefing.pack \in 0..Len(packs), t.briefing.intent \in 0..Len(intents), entry' = t
      PROVE  entry' \in EntryRecords /\ EntryRefers'
  BY <1>2, <1>4, Rows DEF EntryRefers
<1>5. CASE UNCHANGED entry
  BY <1>3, <1>4, <1>5 DEF EntryRefers
<1>6. ASSUME NEW m \in IntentTask, AnalysisAdvances(m)
      PROVE  entry' \in EntryRecords /\ EntryRefers'
  <2> DEFINE pack == task[m].pack
             intent == task[m].result
             t == [e EXCEPT !.briefing = [pack |-> pack, intent |-> intent]]
  <2>1. pack \in DOMAIN packs /\ intent \in DOMAIN intents /\ entry' = t
    <3>1. m \in Message /\ Fits(m, task[m]) /\ task[m].pc = "analysed"
      BY <1>6, Kinds DEF AnalysisAdvances, TypeInv, HoldersRefer
    <3> QED
      BY <1>6, <3>1 DEF Fits, Names, HasResult, AnalysisAdvances
  <2> HIDE DEF pack, intent
  <2>2. pack \in Nat /\ intent \in Nat /\ pack \in 0..Len(packs) /\ intent \in 0..Len(intents)
    BY <2>1, Rows
  <2>3. /\ t \in EntryRecords /\ t.seo = e.seo /\ t.drafting = e.drafting
        /\ t.briefing.pack = pack /\ t.briefing.intent = intent
    <3> HIDE DEF e
    <3> QED
      BY <1>3, <2>2 DEF EntryRecords
  <2> HIDE DEF t
  <2> QED
    BY <1>3, <1>4, <2>1, <2>2, <2>3 DEF EntryRefers
<1>7. ASSUME NEW m \in PackTask, PackMoves(m), entry' # entry
      PROVE  entry' \in EntryRecords /\ EntryRefers'
  <2> DEFINE pack == task[m].result
             t == [e EXCEPT !.seo = pack]
  <2>1. pack \in DOMAIN packs /\ entry' = t
    <3>1. m \in Message /\ Fits(m, task[m]) /\ task[m].pc = "packed"
      BY <1>7, Kinds DEF PackMoves, TypeInv, HoldersRefer
    <3> QED
      BY <1>7, <3>1 DEF Fits, HasResult, PackMoves
  <2> HIDE DEF pack
  <2>2. pack \in Nat /\ pack \in 0..Len(packs)
    BY <2>1, Rows
  <2>3. t \in EntryRecords /\ t.seo = pack /\ t.drafting = e.drafting /\ t.briefing = e.briefing
    <3> HIDE DEF e
    <3> QED
      BY <1>3, <2>2 DEF EntryRecords
  <2> HIDE DEF t
  <2> QED
    BY <1>3, <1>4, <2>1, <2>2, <2>3 DEF EntryRefers
<1>8. ASSUME NEW b \in DOMAIN briefs, AcceptsBrief(b)
      PROVE  entry' \in EntryRecords /\ EntryRefers'
  <2> DEFINE t == [e EXCEPT !.drafting = b]
  <2>1. entry' = t /\ b \in Nat /\ b \in 0..Len(briefs)
    BY <1>8, Rows DEF AcceptsBrief
  <2>2. t \in EntryRecords /\ t.drafting = b /\ t.seo = e.seo /\ t.briefing = e.briefing
    <3> HIDE DEF e
    <3> QED
      BY <1>3, <2>1 DEF EntryRecords
  <2> HIDE DEF t
  <2> QED
    BY <1>3, <1>4, <2>1, <2>2 DEF EntryRefers
<1> QED
  BY <1>5, <1>6, <1>7, <1>8 DEF ItemEffect, Scores, Promotes, Commissions, Rejects, Advances, LeavesBlocked

\* What Fits will say of a message after the step.
WillFit(m, t) ==
  /\ t.pc \in PcOf(m)
  /\ t.pc # "idle" =>
       /\ m \in PackTask \cup IntentTask \cup BriefTask => t.idea \in DOMAIN ideas'
       /\ m \in IntentTask \cup BriefTask => t.pack \in DOMAIN packs'
       /\ m \in BriefTask => t.intent \in DOMAIN intents'
  /\ t.pc \notin {"idle", "queued"} => Commissioned'
  /\ t.pc = "analysed" => t.result \in DOMAIN intents'
  /\ t.pc \in {"packed", "dispatching"} => t.result \in DOMAIN packs'

\* Rows that a message names stay, and so does the commissioning it was admitted under.
LEMMA FitsStay ==
  ASSUME TypeInv, ItemEffect, TableEffect, NEW m \in Message, NEW t
  PROVE  /\ Fits(m, t) => WillFit(m, t)
         /\ (/\ t.pc \in PcOf(m) \ {"idle"} /\ Names(m, t) /\ (t.pc # "queued" => Commissioned)
             /\ t.pc = "analysed" => t.result \in DOMAIN intents'
             /\ t.pc \in {"packed", "dispatching"} => t.result \in DOMAIN packs') => WillFit(m, t)
<1>1. /\ DOMAIN ideas \subseteq DOMAIN ideas' /\ DOMAIN packs \subseteq DOMAIN packs'
      /\ DOMAIN intents \subseteq DOMAIN intents'
  BY TablesStep
<1>2. Commissioned => Commissioned'
  BY DispositionStays DEF Commissioned
<1> QED
  BY <1>1, <1>2 DEF Fits, WillFit, Names, HasResult

LEMMA IdleFits ==
  ASSUME NEW m
  PROVE  WillFit(m, NoTask)
BY DEF WillFit, PcOf, NoTask

LEMMA TasksStep ==
  ASSUME TypeInv, ItemEffect, TableEffect, TaskEffect
  PROVE  task' \in [Message -> TaskRecords] /\ \A m \in Message : Fits(m, task[m])'
<1>1. task \in [Message -> TaskRecords] /\ \A m \in Message : Fits(m, task[m])
  BY DEF TypeInv, RestTyped, HoldersRefer
<1>2. \A m \in Message : WillFit(m, task[m])
  BY <1>1, FitsStay
<1>3. ASSUME task' \in [Message -> TaskRecords], \A m \in Message : WillFit(m, task'[m])
      PROVE  \A m \in Message : Fits(m, task[m])'
  BY <1>3 DEF WillFit, Fits, Names, HasResult
<1>4. ASSUME NEW k \in Message, NEW t \in TaskRecords, Put(k, t), WillFit(k, t)
      PROVE  task' \in [Message -> TaskRecords] /\ \A m \in Message : WillFit(m, task'[m])
  <2>1. task' \in [Message -> TaskRecords]
    BY <1>1, <1>4 DEF Put
  <2>2. \A m \in Message : task'[m] = IF m = k THEN t ELSE task[m]
    BY <1>1, <1>4 DEF Put
  <2> QED
    BY <1>2, <1>4, <2>1, <2>2
<1>5. CASE UNCHANGED task
  BY <1>1, <1>2, <1>3, <1>5
<1>6. ASSUME NEW k \in Message, Idles(k) \/ Works(k)
      PROVE  task' \in [Message -> TaskRecords] /\ \A m \in Message : WillFit(m, task'[m])
  <2>1. CASE Idles(k)
    BY <1>4, <2>1, IdleTyped, IdleFits DEF Idles
  <2>2. CASE Works(k)
    <3>1. PICK t \in TaskRecords :
            /\ Put(k, t) /\ t.pc \in PcOf(k) \ {"idle"} /\ Names(k, t)
            /\ t.pc # "queued" => Commissioned
            /\ t.pc = "analysed" => t.result \in DOMAIN intents'
            /\ t.pc \in {"packed", "dispatching"} => t.result \in DOMAIN packs'
      BY <2>2 DEF Works
    <3>2. WillFit(k, t)
      BY <3>1, FitsStay
    <3> QED
      BY <1>4, <3>1, <3>2
  <2> QED
    BY <1>6, <2>1, <2>2
<1>7. ASSUME NEW k \in PackTask, NEW n \in IntentTask, HandsOver(k, n)
      PROVE  task' \in [Message -> TaskRecords] /\ \A m \in Message : WillFit(m, task'[m])
  <2> DEFINE idea == task[k].idea
             pack == task[k].result
             t == IntentOrder(0, idea, pack)
  <2>1. k \in Message /\ n \in Message /\ n # k /\ task[k].pc = "dispatching" /\ Fits(k, task[k])
    BY <1>1, <1>7, Kinds DEF HandsOver
  <2>2. idea \in DOMAIN ideas /\ pack \in DOMAIN packs
    BY <2>1 DEF Fits, Names, HasResult
  <2>3. idea \in Nat /\ pack \in Nat /\ 0 \in Nat
    BY <2>2, Rows
  <2>4. task' = [task EXCEPT ![k] = NoTask, ![n] = t]
    BY <1>7 DEF HandsOver, IntentOrder
  <2> HIDE DEF idea, pack
  <2>5. t \in TaskRecords /\ t.pc = "queued" /\ t.idea = idea /\ t.pack = pack
    BY <2>3, IntentTold
  <2> HIDE DEF t
  <2>6. WillFit(n, t)
    <3>1. t.pc \in PcOf(n) \ {"idle"} /\ Names(n, t)
      BY <2>2, <2>5, Kinds DEF PcOf, Names
    <3>2. t.pc # "analysed" /\ t.pc \notin {"packed", "dispatching"}
      BY <2>5
    <3> QED
      BY <2>1, <2>5, <3>1, <3>2, FitsStay
  <2>7. task' \in [Message -> TaskRecords]
    BY <1>1, <2>1, <2>4, <2>5, IdleTyped
  <2>8. \A m \in Message : task'[m] = IF m = n THEN t ELSE IF m = k THEN NoTask ELSE task[m]
    BY <1>1, <2>1, <2>4
  <2> QED
    BY <1>2, <2>6, <2>7, <2>8, IdleFits
<1> QED
  BY <1>3, <1>5, <1>6, <1>7 DEF TaskEffect

\* The brief a sweep takes along is one of the briefs, if there is any.
LEMMA StageBrief ==
  ASSUME TypeInv, Snapshot.brief_status # None
  PROVE  BriefForStage \in DOMAIN briefs
<1>1. briefs # <<>>
  BY DEF Snapshot
<1>2. Len(briefs) \in DOMAIN briefs
  <2>1. briefs \in Seq(BriefRecords)
    BY DEF TypeInv, TablesTyped
  <2> QED
    BY <1>1, <2>1
<1>3. ActiveBriefs # {} => Latest(ActiveBriefs) \in ActiveBriefs
  <2>1. ActiveBriefs \in SUBSET Nat /\ IsFiniteSet(ActiveBriefs)
    BY Rows
  <2> QED
    BY <2>1, GreatestOfFinite DEF Latest
<1> QED
  BY <1>2, <1>3 DEF BriefForStage, ActiveBriefs

LEMMA HoldersStep ==
  ASSUME TypeInv, TableEffect, HolderEffect
  PROVE  /\ selected' \in 0..Len(ideas')
         /\ step' = [a \in Sweep |-> step'[a]] /\ request' \in RequestRecords
         /\ request'.pc = "accept" => request'.brief \in DOMAIN briefs'
         /\ \A a \in Sweep : step'[a].pc = "planned" /\ step'[a].status # None => step'[a].brief \in DOMAIN briefs'
<1>1. DOMAIN ideas \subseteq DOMAIN ideas' /\ DOMAIN briefs \subseteq DOMAIN briefs' /\ TablesTyped'
  BY TablesStep
<1>2. /\ selected \in 0..Len(ideas) /\ step = [a \in Sweep |-> step[a]] /\ request \in RequestRecords
      /\ request.pc = "accept" => request.brief \in DOMAIN briefs
      /\ \A a \in Sweep : step[a].pc = "planned" /\ step[a].status # None => step[a].brief \in DOMAIN briefs
  BY DEF TypeInv, FactsTyped, RestTyped, HoldersRefer
<1>3. selected' \in 0..Len(ideas')
  <2>1. DOMAIN ideas' = 1..Len(ideas') /\ Len(ideas') \in Nat
    BY <1>1 DEF TablesTyped
  <2>2. DOMAIN ideas = 1..Len(ideas) /\ Len(ideas) \in Nat
    BY Rows
  <2>3. Len(ideas) <= Len(ideas')
    BY <1>1, <2>1, <2>2
  <2>4. selected' \in 0..Len(ideas)
    BY <1>2, <2>2 DEF HolderEffect
  <2> QED
    BY <2>1, <2>2, <2>3, <2>4
<1>4. request' \in RequestRecords /\ (request'.pc = "accept" => request'.brief \in DOMAIN briefs')
  BY <1>1, <1>2 DEF HolderEffect, Asks
<1>5. CASE UNCHANGED step
  BY <1>1, <1>2, <1>3, <1>4, <1>5
<1>6. ASSUME NEW a \in Sweep, NEW s, step' = [step EXCEPT ![a] = s],
             s.pc = "planned" /\ s.status # None => s.brief \in DOMAIN briefs
      PROVE  /\ step' = [k \in Sweep |-> step'[k]]
             /\ \A k \in Sweep : step'[k].pc = "planned" /\ step'[k].status # None => step'[k].brief \in DOMAIN briefs'
  <2>1. step' = [k \in Sweep |-> IF k = a THEN s ELSE step[k]]
    BY <1>2, <1>6
  <2> QED
    BY <1>1, <1>2, <1>6, <2>1
<1>7. NoStep.pc = "idle"
  BY DEF NoStep
<1>8. ASSUME NEW a \in Sweep, PlansWith(a)
      PROVE  /\ step' = [k \in Sweep |-> step'[k]]
             /\ \A k \in Sweep : step'[k].pc = "planned" /\ step'[k].status # None => step'[k].brief \in DOMAIN briefs'
  <2> DEFINE s == [pc |-> "planned", action |-> Planned, brief |-> BriefForStage,
                   disposition |-> opportunity.disposition, status |-> Snapshot.brief_status]
  <2>1. step' = [step EXCEPT ![a] = s]
    BY <1>8 DEF PlansWith
  <2>2. s.status = Snapshot.brief_status /\ s.brief = BriefForStage
    OBVIOUS
  <2> HIDE DEF s
  <2>3. s.status # None => s.brief \in DOMAIN briefs
    BY <2>2, StageBrief
  <2> QED
    BY <1>6, <2>1, <2>3
<1> QED
  BY <1>3, <1>4, <1>5, <1>6, <1>7, <1>8 DEF HolderEffect

LEMMA TypeStep ==
  ASSUME TypeInv, [Next]_vars
  PROVE  TypeInv'
<1>1. TaskEffect /\ TableEffect /\ ItemEffect /\ SourceEffect /\ HolderEffect
  BY EveryTaskEffect, EveryTableEffect, EveryItemEffect, EverySourceEffect, EveryHolderEffect
<1>2. ItemTyped' /\ EntryRefers' /\ StageTellsDisposition'
  BY <1>1, StageStep, EntryStep DEF ItemTyped
<1>3. FactsTyped'
  <2>1. decision' \in DuplicateDecisionOutcome /\ selected' \in 0..Len(ideas')
    BY <1>1, HoldersStep DEF HolderEffect
  <2> QED
    BY <1>1, <2>1, OpportunityTyped, SourcesTyped DEF FactsTyped
<1>4. TablesTyped' /\ TablesRefer'
  BY <1>1, TablesStep
<1>5. RestTyped' /\ HoldersRefer'
  BY <1>1, TasksStep, HoldersStep DEF RestTyped, HoldersRefer
<1> QED
  BY <1>2, <1>3, <1>4, <1>5 DEF TypeInv

LEMMA TypeInit ==
  ASSUME Init
  PROVE  TypeInv
<1>1. ItemTyped /\ EntryRefers
  BY DEF Init, ItemTyped, EntryRecords, EntryRefers
<1>2. FactsTyped
  <2>1. opportunity \in EditorialOpportunity
    BY DEF Init, NoOpportunity, EditorialOpportunity
  <2>2. sources \in SourceRecords /\ sources.evidence + sources.pending <= sources.inputs
    <3>1. PICK related \in 0..1, observed \in BOOLEAN :
            sources = [NoSources EXCEPT !.related = related, !.observed = observed]
      BY DEF Init
    <3> DEFINE none == NoSources
    <3>2. none \in SourceRecords /\ none.evidence = 0 /\ none.pending = 0 /\ none.inputs = 0
      BY DEF NoSources, SourceRecords
    <3> HIDE DEF none
    <3>3. sources = [none EXCEPT !.related = related, !.observed = observed] /\ related \in Nat
      BY <3>1 DEF none
    <3>4. sources \in SourceRecords /\ sources.evidence = 0 /\ sources.pending = 0 /\ sources.inputs = 0
      BY <3>2, <3>3 DEF SourceRecords
    <3> QED
      BY <3>4
  <2>3. decision \in DuplicateDecisionOutcome /\ selected \in 0..Len(ideas)
    BY DEF Init
  <2> QED
    BY <2>1, <2>2, <2>3 DEF FactsTyped
<1>3. TablesTyped /\ TablesRefer
  BY DEF Init, TablesTyped, TablesRefer
<1>4. RestTyped
  BY IdleTyped, NoRequestTyped DEF Init, RestTyped
<1>5. HoldersRefer
  <2>1. \A m \in Message : Fits(m, task[m])
    BY DEF Init, Fits, PcOf, HasResult, NoTask
  <2>2. request.pc # "accept" /\ \A a \in Sweep : step[a].pc # "planned"
    BY DEF Init, NoRequest, NoStep
  <2> QED
    BY <2>1, <2>2 DEF HoldersRefer
<1>6. StageTellsDisposition
  BY DEF Init, StageTellsDisposition, NoOpportunity, NoSources, None
<1> QED
  BY <1>1, <1>2, <1>3, <1>4, <1>5, <1>6 DEF TypeInv

LEMMA TypeAlways == Spec => []TypeInv
<1>1. Init => TypeInv
  BY TypeInit
<1>2. TypeInv /\ [Next]_vars => TypeInv'
  BY TypeStep
<1> QED
  BY <1>1, <1>2, PTL DEF Spec

LEMMA TypesAreOK ==
  ASSUME TypeInv
  PROVE  TypeOK
<1>1. row \in WorkflowState \cup {None}
  BY DEF TypeInv, ItemTyped, Stages, WorkflowState
<1>2. /\ entry.seo \in 0..Len(packs) /\ entry.drafting \in 0..Len(briefs)
      /\ entry.briefing.pack \in 0..Len(packs) /\ entry.briefing.intent \in 0..Len(intents)
  BY DEF TypeInv, EntryRefers
<1>3. /\ opportunity \in EditorialOpportunity
      /\ decision \in DuplicateDecisionOutcome /\ selected \in 0..Len(ideas)
      /\ sources.evidence + sources.pending <= sources.inputs
  BY DEF TypeInv, FactsTyped
<1>4. /\ ideas \in Seq(Idea) /\ packs \in Seq(PackRecords)
      /\ intents \in Seq(IntentRecords) /\ briefs \in Seq(BriefRecords) /\ TablesRefer
  BY DEF TypeInv, TablesTyped
<1>5. \A i \in DOMAIN ideas : ideas[i] \in Idea
  BY <1>4
<1>6. ASSUME NEW p \in DOMAIN packs
      PROVE  packs[p] \in EvidencePack
  <2>1. packs[p] \in PackRecords /\ packs[p].idea \in DOMAIN ideas
    BY <1>4 DEF TablesRefer
  <2> QED
    BY <2>1 DEF PackRecords, EvidencePack
<1>7. ASSUME NEW n \in DOMAIN intents
      PROVE  intents[n] \in SearchIntentAnalysis
  <2>1. /\ intents[n] \in IntentRecords /\ intents[n].idea \in DOMAIN ideas
        /\ intents[n].attempt \in DOMAIN attempts["intent_synthesis"]
    BY <1>4 DEF TablesRefer
  <2> QED
    BY <2>1 DEF IntentRecords, SearchIntentAnalysis
<1>8. ASSUME NEW b \in DOMAIN briefs
      PROVE  briefs[b] \in ContentBrief
  <2>1. /\ briefs[b] \in BriefRecords /\ briefs[b].idea \in DOMAIN ideas
        /\ briefs[b].pack \in DOMAIN packs /\ briefs[b].intent \in DOMAIN intents
    BY <1>4 DEF TablesRefer
  <2> QED
    BY <2>1 DEF BriefRecords, ContentBrief
<1>9. \A m \in Message : task[m].pc \in {"idle", "queued", "calling", "analysed", "packed", "dispatching"}
  <2>1. task \in [Message -> TaskRecords]
    BY DEF TypeInv, RestTyped
  <2> QED
    BY <2>1 DEF TaskRecords, TaskStates
<1> QED
  BY <1>1, <1>2, <1>3, <1>5, <1>6, <1>7, <1>8, <1>9 DEF TypeOK

\* Every state of the commissioning of an item is well typed, and what a row, a
\* pin or the selection refers to exists, whatever was delivered or lost.
THEOREM CommissioningAlwaysTyped == Spec => []TypeOK
BY TypeAlways, TypesAreOK, PTL

-----------------------------------------------------------------------------
(* Dispositions.                                                            *)

LEMMA DispositionStep ==
  ASSUME TypeInv, [Next]_vars
  PROVE  /\ opportunity.disposition \in {"commissioned", "rejected"} =>
              opportunity'.disposition = opportunity.disposition
         /\ row = "idea_scoring" /\ row' # row =>
              opportunity'.disposition = IF row' = "rejected" THEN "rejected" ELSE "commissioned"
<1>1. ItemEffect
  BY EveryItemEffect
<1>2. ASSUME row = "idea_scoring", row' # row
      PROVE  opportunity'.disposition = IF row' = "rejected" THEN "rejected" ELSE "commissioned"
  <2>1. opportunity \in EditorialOpportunity /\ opportunity.disposition = "open" /\ ~Commissioned
    BY <1>2 DEF TypeInv, FactsTyped, StageTellsDisposition, Commissioned
  <2>2. \A m \in Message : task[m].pc \in {"idle", "queued"}
    BY <2>1 DEF TypeInv, HoldersRefer, Fits
  <2>3. ~Advances
    <3>1. \A m \in IntentTask : ~AnalysisAdvances(m)
      BY <2>2, Kinds DEF AnalysisAdvances
    <3>2. \A m \in PackTask : ~PackMoves(m)
      BY <2>2, Kinds DEF PackMoves
    <3>3. \A b \in DOMAIN briefs : ~AcceptsBrief(b)
      BY <2>1 DEF AcceptsBrief, GatesHold
    <3> QED
      BY <1>2, <3>1, <3>2, <3>3 DEF Advances, LeavesBlocked
  <2>4. Commissions \/ Rejects
    BY <1>1, <1>2, <2>3 DEF ItemEffect, Scores, Promotes, None
  <2> QED
    BY <2>1, <2>4 DEF Commissions, Rejects, EditorialOpportunity
<1> QED
  BY <1>1, <1>2, DispositionStays

\* Of a commissioning and a rejection, by the operator or by any number of sweeps,
\* one wins for good: the opportunity is read again under the row lock.
THEOREM OneDispositionAlwaysWins == Spec => OneDispositionWins
<1>1. TypeInv /\ [Next]_vars =>
        [/\ opportunity.disposition \in {"commissioned", "rejected"} =>
              opportunity'.disposition = opportunity.disposition
         /\ row = "idea_scoring" /\ row' # row =>
              opportunity'.disposition = IF row' = "rejected" THEN "rejected" ELSE "commissioned"]_vars
  BY DispositionStep
<1> QED
  BY <1>1, TypeAlways, PTL DEF Spec, OneDispositionWins

-----------------------------------------------------------------------------
(* Briefs.                                                                  *)

\* What is accepted gives way to nothing: composition only replaces a draft, and
\* the unique index refuses a second acceptance.
LEMMA AcceptedStep ==
  ASSUME TypeInv, [Next]_vars, NEW b \in DOMAIN briefs, briefs[b].status = "accepted_for_drafting"
  PROVE  briefs'[b] = briefs[b]
<1>1. TableEffect
  BY EveryTableEffect
<1>2. b \in ActiveBriefs
  BY DEF ActiveBriefs
<1>3. \A m : ~AddsBrief(m)
  BY <1>2 DEF AddsBrief, BriefGivesWay
<1>4. ASSUME NEW c \in DOMAIN briefs, AcceptsBrief(c)
      PROVE  briefs'[b] = briefs[b]
  <2>1. c = b
    BY <1>2, <1>4 DEF AcceptsBrief, UniqueActiveBrief
  <2>2. briefs \in Seq(BriefRecords)
    BY DEF TypeInv, TablesTyped
  <2> DEFINE old == briefs[b]
  <2>3. old \in BriefRecords /\ old.status = "accepted_for_drafting"
    BY <2>2
  <2>4. briefs'[b] = [old EXCEPT !.status = "accepted_for_drafting"]
    BY <1>4, <2>1, <2>2 DEF AcceptsBrief
  <2> HIDE DEF old
  <2>5. [old EXCEPT !.status = "accepted_for_drafting"] = old
    BY <2>3 DEF BriefRecords
  <2> QED
    BY <2>4, <2>5 DEF old
<1> QED
  BY <1>1, <1>3, <1>4 DEF TableEffect, Answers, AddsIdea, AddsIntent, AddsPack, ResolvesPack, artifacts

\* An accepted brief is never changed or taken back, however late a composition
\* answers and however many acceptances wait for the lock.
THEOREM AcceptedBriefAlwaysStays == Spec => AcceptedBriefStays
<1>1. TypeInv /\ [Next]_vars =>
        [\A b \in DOMAIN briefs : briefs[b].status = "accepted_for_drafting" => briefs'[b] = briefs[b]]_vars
  BY AcceptedStep
<1> QED
  BY <1>1, TypeAlways, PTL DEF Spec, AcceptedBriefStays

\* The pack, the analysis and the idea of a brief that was accepted.
RestsOn(b) ==
  /\ UpstreamAgrees(briefs[b]) /\ Ready(briefs[b].pack)
  /\ ideas[briefs[b].idea].originality = "passed"

\* None of them changes, and neither does what the brief refers to.
LEMMA RestsStill ==
  ASSUME TypeInv, TableEffect, NEW b \in DOMAIN briefs, RestsOn(b)
  PROVE  /\ UpstreamAgrees(briefs[b])' /\ Ready(briefs[b].pack)'
         /\ ideas'[briefs'[b].idea].originality = "passed"
<1>1. IdeasKept /\ IntentsKept /\ PacksKept /\ BriefsKept
  BY IdeasGrow, IntentsGrow, PacksGrow, BriefsGrow
<1>2. briefs[b].idea \in DOMAIN ideas /\ briefs[b].pack \in DOMAIN packs /\ briefs[b].intent \in DOMAIN intents
  BY DEF TypeInv, TablesRefer
<1>3. briefs'[b].idea = briefs[b].idea /\ briefs'[b].pack = briefs[b].pack /\ briefs'[b].intent = briefs[b].intent
  BY <1>1 DEF BriefsKept
<1>4. /\ packs'[briefs[b].pack].idea = packs[briefs[b].pack].idea
      /\ packs'[briefs[b].pack].sufficiency = packs[briefs[b].pack].sufficiency
      /\ intents'[briefs[b].intent] = intents[briefs[b].intent]
      /\ ideas'[briefs[b].idea] = ideas[briefs[b].idea]
  BY <1>1, <1>2 DEF IdeasKept, IntentsKept, PacksKept, Extends
<1> QED
  BY <1>3, <1>4 DEF RestsOn, UpstreamAgrees, Ready

LEMMA ActiveAfterAcceptance ==
  ASSUME TypeInv, NEW b \in DOMAIN briefs, AcceptsBrief(b)
  PROVE  /\ ActiveBriefs' = {b} /\ briefs'[b].status = "accepted_for_drafting"
         /\ entry'.drafting = b /\ RestsOn(b)
<1>1. briefs \in Seq(BriefRecords) /\ entry \in EntryRecords
  BY DEF TypeInv, TablesTyped, ItemTyped
<1> DEFINE old == briefs[b]
           e == [old EXCEPT !.status = "accepted_for_drafting"]
<1>2. briefs' = [briefs EXCEPT ![b] = e] /\ old \in BriefRecords
  BY <1>1 DEF AcceptsBrief
<1> HIDE DEF old
<1>3. e.status = "accepted_for_drafting"
  BY <1>2 DEF BriefRecords
<1> HIDE DEF e
<1>4. briefs' = [c \in DOMAIN briefs |-> IF c = b THEN e ELSE briefs[c]]
  BY <1>1, <1>2
<1>5. \A c \in DOMAIN briefs : c # b => briefs[c].status = "superseded"
  BY DEF AcceptsBrief, UniqueActiveBrief, ActiveBriefs
<1>6. ActiveBriefs' = {b}
  BY <1>3, <1>4, <1>5 DEF ActiveBriefs
<1>7. entry'.drafting = b
  BY <1>1 DEF AcceptsBrief, EntryRecords
<1>8. RestsOn(b)
  BY DEF AcceptsBrief, GatesHold, RestsOn
<1> QED
  BY <1>3, <1>4, <1>6, <1>7, <1>8

LEMMA DraftingStep ==
  ASSUME TypeInv, DraftingRestsOnItsBrief, [Next]_vars
  PROVE  DraftingRestsOnItsBrief'
<1>1. TableEffect /\ ItemEffect
  BY EveryTableEffect, EveryItemEffect
<1>2. ASSUME NEW b \in DOMAIN briefs, entry'.drafting = b, ActiveBriefs' = {b},
             briefs'[b].status = "accepted_for_drafting", RestsOn(b)
      PROVE  DraftingRestsOnItsBrief'
  BY <1>1, <1>2, RestsStill DEF DraftingRestsOnItsBrief, UpstreamAgrees, Ready
<1>3. ASSUME NEW b \in DOMAIN briefs, AcceptsBrief(b)
      PROVE  DraftingRestsOnItsBrief'
  BY <1>2, <1>3, ActiveAfterAcceptance
<1>4. ASSUME row' = "drafting", \A b \in DOMAIN briefs : ~AcceptsBrief(b)
      PROVE  DraftingRestsOnItsBrief'
  <2>1. row = "drafting" /\ UNCHANGED entry
    BY <1>1, <1>4 DEF ItemEffect, Scores, Promotes, Commissions, Rejects, Advances, AnalysisAdvances, PackMoves,
      LeavesBlocked
  <2> DEFINE b == entry.drafting
  <2>2. ActiveBriefs = {b} /\ briefs[b].status = "accepted_for_drafting" /\ RestsOn(b)
    BY <2>1 DEF DraftingRestsOnItsBrief, RestsOn
  <2>3. b \in DOMAIN briefs
    BY <2>2 DEF ActiveBriefs
  <2>4. UNCHANGED briefs
    <3>1. \A m : ~AddsBrief(m)
      BY <2>1 DEF AddsBrief
    <3> QED
      BY <1>1, <1>4, <3>1 DEF TableEffect, Answers, AddsIdea, AddsIntent, AddsPack, ResolvesPack, artifacts
  <2>5. ActiveBriefs' = {b} /\ briefs'[b].status = "accepted_for_drafting" /\ entry'.drafting = b
    BY <2>1, <2>2, <2>4 DEF ActiveBriefs
  <2> HIDE DEF b
  <2> QED
    BY <1>2, <2>2, <2>3, <2>5
<1> QED
  BY <1>3, <1>4 DEF DraftingRestsOnItsBrief

\* The item is with the writer only with the one brief that is not superseded, and
\* that brief's idea, READY pack and analysis are those its gates were checked on.
THEOREM DraftingAlwaysRestsOnItsBrief == Spec => []DraftingRestsOnItsBrief
<1>1. Init => DraftingRestsOnItsBrief
  BY DEF Init, DraftingRestsOnItsBrief, None
<1>2. TypeInv /\ DraftingRestsOnItsBrief /\ [Next]_vars => DraftingRestsOnItsBrief'
  BY DraftingStep
<1> QED
  BY <1>1, <1>2, TypeAlways, PTL DEF Spec
=============================================================================

--------------------------- MODULE MissionsProofs ---------------------------
(***************************************************************************)
(* What holds of Missions for any ideas, pages, citations, finalize        *)
(* workers and bounds.                                                     *)
(***************************************************************************)
EXTENDS Missions, FiniteFacts

PageStates == {"unknown", "discovered", "accepted", "fetched", "fetch_failed"}
DocumentStates == {"none", "normalised", "judged", "failed"}

\* Any state an instance may start from: whatever is known of the pages.
MissionInits ==
  \E pages \in [Page -> PageStates], docs \in [Page -> DocumentStates],
     used \in [commands : Nat, decisions : Nat, crashes : Nat, failures : Nat] :
    MissionInit(pages, docs, used)

MissionSpec == MissionInits /\ [][MissionNext]_missionVars

-----------------------------------------------------------------------------
(* Helpers.                                                                 *)

LEMMA CitesPages ==
  ASSUME NEW i \in Idea
  PROVE  /\ DOMAIN Cites[i] \subseteq Nat
         /\ \A n \in DOMAIN Cites[i] : Cites[i][n] \in Page
         /\ Pages(i) \subseteq Page
<1>1. Cites[i] \in Seq(Page)
  BY MissionConstants
<1>2. DOMAIN Cites[i] = 1..Len(Cites[i]) /\ Len(Cites[i]) \in Nat
  BY <1>1
<1> QED
  BY <1>1, <1>2 DEF Pages

\* The pages an idea is grounded in are pages it cites.
LEMMA CitedPages ==
  ASSUME NEW i \in Idea, NEW p \in Cited(i)
  PROVE  p \in Page /\ \E n \in DOMAIN Cites[i] : Cites[i][n] = p
BY CitesPages DEF Cited, Pages

\* What the first free document is, and what it means that there is none.
LEMMA RootMeans ==
  ASSUME NEW i \in Idea, NEW taken
  PROVE  /\ Root(i, taken) \in Page \cup {Nothing}
         /\ Root(i, taken) = Nothing =>
              \A p \in Cited(i) : pageDoc[p] = "judged" => p \in taken
<1> DEFINE free == {n \in DOMAIN Cites[i] :
                      Cites[i][n] \in Cited(i) \ taken /\ pageDoc[Cites[i][n]] = "judged"}
           least == CHOOSE n \in free : \A m \in free : n <= m
<1>1. Root(i, taken) = IF free = {} THEN Nothing ELSE Cites[i][least]
  BY DEF Root
<1>2. ASSUME free # {}
      PROVE  Cites[i][least] \in Page
  <2>1. free \in SUBSET Nat
    BY CitesPages
  <2>2. least \in free
    <3> HIDE DEF free
    <3> QED
      BY <1>2, <2>1, LeastOfSome
  <2> QED
    BY <2>2, CitesPages
<1>3. free = {} => \A p \in Cited(i) : pageDoc[p] = "judged" => p \in taken
  BY CitedPages
<1> HIDE DEF free, least
<1> QED
  BY <1>1, <1>2, <1>3, MissionConstants

-----------------------------------------------------------------------------
(* Types.  Of a check the run's type invariant says little; here it says    *)
(* that a plan gives some ideas a page or nothing.                          *)

RunRecords ==
  [pc : Working \cup {"unused", "over"}, own : SUBSET Idea, known : SUBSET Page,
   new : SUBSET Page, accepts : SUBSET Page]

DropRecords == [idea : Idea, page : Page, judged : BOOLEAN]

CheckRecords ==
  [pc : {"idle", "promoting", "committed"}, check : 0..MaxChecks,
   plan : UNION {[S -> Page \cup {Nothing}] : S \in SUBSET Idea},
   docs : SUBSET DropRecords, closes : BOOLEAN, promoted : BOOLEAN]

StatusTyped ==
  /\ mission \in MissionStatuses /\ queued \in Nat
  /\ recent \in BOOLEAN /\ asked \in BOOLEAN /\ waited \in BOOLEAN /\ orphaned \in BOOLEAN

IdeasTyped == strong \subseteq rows /\ rows \subseteq Idea /\ signals \subseteq EngineRun

PagesTyped ==
  page \in [Page -> PageStates] /\ pageDoc \in [Page -> DocumentStates] /\ toFetch \subseteq Page

OpenedTyped == opened \subseteq [root : Page, idea : Idea \cup {Nothing}]

MissionTypes ==
  /\ StatusTyped /\ IdeasTyped /\ PagesTyped /\ OpenedTyped
  /\ engine \in [EngineRun -> RunRecords]
  /\ checks \subseteq 1..MaxChecks /\ finalizer \in [Finalizer -> CheckRecords]
  /\ \A f \in Finalizer : finalizer[f].pc # "idle" => finalizer[f].check # 0
  /\ dropped \subseteq DropRecords

LEMMA SomeChecks == MaxChecks \in Nat /\ 1 \in 1..MaxChecks /\ 0 \in 0..MaxChecks
<1>1. MaxChecks \in Nat /\ MaxChecks # 0
  BY MissionConstants
<1> QED
  BY <1>1

LEMMA RestingTyped == Resting \in CheckRecords /\ Resting.pc = "idle"
<1>1. [i \in {} |-> Nothing] \in [{} -> Page \cup {Nothing}]
  OBVIOUS
<1> QED
  BY <1>1, SomeChecks DEF Resting, CheckRecords

LEMMA NeededPages ==
  ASSUME engine \in [EngineRun -> RunRecords], NEW x \in EngineRun
  PROVE  Needed(x) \subseteq Page
<1>1. engine[x].own \subseteq Idea
  BY DEF RunRecords
<1> QED
  BY <1>1, CitesPages DEF Needed, Best

\* A run that moves, or ends without what it had accepted, keeps its type.
LEMMA RunMoves ==
  ASSUME engine \in [EngineRun -> RunRecords], NEW x \in EngineRun,
         NEW to \in Working \cup {"unused", "over"}
  PROVE  /\ [engine EXCEPT ![x].pc = to] \in [EngineRun -> RunRecords]
         /\ [engine EXCEPT ![x].pc = to, ![x].accepts = {}] \in [EngineRun -> RunRecords]
         /\ \A S \in SUBSET Page :
              [engine EXCEPT ![x].pc = to, ![x].accepts = {}, ![x].new = S]
                \in [EngineRun -> RunRecords]
         /\ \A S \in SUBSET Page :
              [engine EXCEPT ![x].pc = to, ![x].accepts = S] \in [EngineRun -> RunRecords]
         /\ \A S, T \in SUBSET Page :
              [engine EXCEPT ![x].pc = to, ![x].known = S, ![x].new = T]
                \in [EngineRun -> RunRecords]
BY DEF RunRecords

LEMMA InitTyped == MissionInits => MissionTypes
<1> SUFFICES ASSUME NEW pages \in [Page -> PageStates], NEW docs \in [Page -> DocumentStates],
                    NEW used, MissionInit(pages, docs, used)
             PROVE  MissionTypes
  BY DEF MissionInits
<1>1. engine \in [EngineRun -> RunRecords]
  <2>1. NoRun \in RunRecords
    BY DEF NoRun, RunRecords
  <2> QED
    BY <2>1 DEF MissionInit
<1>2. /\ finalizer \in [Finalizer -> CheckRecords]
      /\ \A f \in Finalizer : finalizer[f].pc # "idle" => finalizer[f].check # 0
  BY RestingTyped DEF MissionInit, Resting
<1>3. StatusTyped
  BY DEF MissionInit, StatusTyped, MissionStatuses
<1>4. IdeasTyped /\ PagesTyped /\ OpenedTyped /\ checks \subseteq 1..MaxChecks /\ dropped \subseteq DropRecords
  BY DEF MissionInit, IdeasTyped, PagesTyped, OpenedTyped
<1> QED
  BY <1>1, <1>2, <1>3, <1>4 DEF MissionTypes

LEMMA RouteTypes ==
  ASSUME MissionTypes, NEW sent \in BOOLEAN, RequestRun \/ EnqueueRun(sent)
  PROVE  MissionTypes'
<1>1. StatusTyped'
  <2>1. mission' \in MissionStatuses /\ queued' \in Nat
    BY DEF MissionTypes, StatusTyped, MissionStatuses, RequestRun, EnqueueRun
  <2>2. asked' \in BOOLEAN
    BY DEF RequestRun, EnqueueRun
  <2>3. UNCHANGED <<recent, waited, orphaned>>
    BY DEF RequestRun, EnqueueRun, RouteUnchanged
  <2> QED
    BY <2>1, <2>2, <2>3 DEF MissionTypes, StatusTyped
<1>2. UNCHANGED <<engine, ideaVars, pageVars, checks, finalizer, opened, dropped>>
  BY DEF RequestRun, EnqueueRun, RouteUnchanged
<1> QED
  BY <1>1, <1>2 DEF MissionTypes, IdeasTyped, PagesTyped, OpenedTyped, ideaVars, pageVars

\* What the stages of a run leave alone, but for the run itself.
LEMMA RunLeaves ==
  ASSUME RunUnchanged
  PROVE  UNCHANGED <<asked, checks, finalizer, opened, dropped>>
BY DEF RunUnchanged

LEMMA MessageTypes ==
  ASSUME MissionTypes, NEW x \in EngineRun, StartRun(x) \/ DropRun
  PROVE  MissionTypes'
<1>1. CASE StartRun(x)
  <2>1. engine' \in [EngineRun -> RunRecords]
    BY <1>1, RunMoves DEF StartRun, MissionTypes, Working
  <2>2. StatusTyped'
    BY <1>1, RunLeaves DEF MissionTypes, StatusTyped, StartRun
  <2> QED
    BY <1>1, <2>1, <2>2, RunLeaves
       DEF MissionTypes, IdeasTyped, PagesTyped, OpenedTyped, ideaVars, pageVars, StartRun
<1>2. CASE DropRun
  <2>1. StatusTyped'
    BY <1>2, RunLeaves DEF MissionTypes, StatusTyped, DropRun
  <2> QED
    BY <1>2, <2>1, RunLeaves
       DEF MissionTypes, IdeasTyped, PagesTyped, OpenedTyped, ideaVars, pageVars, DropRun
<1> QED
  BY <1>1, <1>2

LEMMA EarlyStageTypes ==
  ASSUME MissionTypes, NEW x \in EngineRun,
         BeginRun(x) \/ Search(x) \/ Extract(x) \/ Evaluate(x)
  PROVE  MissionTypes'
<1> USE DEF MissionTypes
<1>1. StatusTyped'
  BY RunLeaves DEF StatusTyped, MissionStatuses, Open, BeginRun, Search, Extract, Evaluate
<1>2. UNCHANGED <<pageVars, checks, finalizer, opened, dropped>>
  BY RunLeaves DEF BeginRun, Search, Extract, Evaluate
<1>3. CASE BeginRun(x)
  <2>1. engine' \in [EngineRun -> RunRecords]
    BY <1>3, RunMoves DEF BeginRun, Moves, Working
  <2>2. IdeasTyped'
    BY <1>3 DEF BeginRun, IdeasTyped
  <2> QED
    BY <1>1, <1>2, <2>1, <2>2 DEF PagesTyped, OpenedTyped, pageVars
<1>4. CASE Search(x)
  <2>1. engine' \in [EngineRun -> RunRecords]
    <3> DEFINE known == {p \in Page : Document(p)}
               new == {p \in Page : page[p] = "unknown"}
    <3>1. known \in SUBSET Page /\ new \in SUBSET Page /\ "searched" \in Working
      BY DEF Working
    <3>2. engine' = [engine EXCEPT ![x].pc = "searched", ![x].known = known, ![x].new = new]
      BY <1>4 DEF Search
    <3> HIDE DEF known, new
    <3> QED
      BY <3>1, <3>2, RunMoves
  <2>2. IdeasTyped'
    BY <1>4 DEF Search, IdeasTyped
  <2> QED
    BY <1>1, <1>2, <2>1, <2>2 DEF PagesTyped, OpenedTyped, pageVars
<1>5. CASE Extract(x)
  <2>1. Finds[x] \subseteq Idea
    BY MissionConstants DEF EngineRun
  <2>2. engine' \in [EngineRun -> RunRecords]
    BY <1>5, <2>1 DEF Extract, RunRecords, Working
  <2>3. IdeasTyped'
    BY <1>5, <2>1 DEF Extract, IdeasTyped
  <2> QED
    BY <1>1, <1>2, <2>2, <2>3 DEF PagesTyped, OpenedTyped, pageVars
<1>6. CASE Evaluate(x)
  <2>1. engine' \in [EngineRun -> RunRecords]
    BY <1>6, RunMoves DEF Evaluate, Moves, Working
  <2>2. IdeasTyped'
    BY <1>6 DEF Evaluate, IdeasTyped, Moves, Broken
  <2> QED
    BY <1>1, <1>2, <2>1, <2>2 DEF PagesTyped, OpenedTyped, pageVars
<1> QED
  BY <1>3, <1>4, <1>5, <1>6

LEMMA WrittenPages ==
  ASSUME PagesTyped, NEW x \in EngineRun, WritePages(x)
  PROVE  page' \in [Page -> PageStates]
BY DEF PagesTyped, WritePages, PageStates

LEMMA LateStageTypes ==
  ASSUME MissionTypes, NEW x \in EngineRun,
         Dispatch(x) \/ CommitGrounding(x) \/ SendFinalize(x) \/ RunBreaks(x)
  PROVE  MissionTypes'
<1> USE DEF MissionTypes
<1>1. StatusTyped'
  <2>1. mission' \in MissionStatuses /\ queued' \in Nat
    BY DEF StatusTyped, MissionStatuses, Open, Dispatch, CommitGrounding, SendFinalize, RunBreaks
  <2>2. recent' \in BOOLEAN /\ waited' \in BOOLEAN
    BY DEF StatusTyped, Dispatch, CommitGrounding, SendFinalize, RunBreaks
  <2>3. UNCHANGED asked
    BY RunLeaves DEF Dispatch, CommitGrounding, SendFinalize, RunBreaks
  <2>4. orphaned' \in BOOLEAN
    BY DEF StatusTyped, Dispatch, CommitGrounding, SendFinalize, RunBreaks, MessageGone
  <2> QED
    BY <2>1, <2>2, <2>3, <2>4 DEF StatusTyped
<1>2. UNCHANGED <<ideaVars, finalizer, opened, dropped>>
  BY RunLeaves DEF Dispatch, CommitGrounding, SendFinalize, RunBreaks
<1>3. IdeasTyped' /\ OpenedTyped'
  BY <1>2 DEF IdeasTyped, OpenedTyped, ideaVars
<1>4. CASE Dispatch(x)
  <2> DEFINE accepts == {p \in Needed(x) \ engine[x].new : page[p] = "discovered"}
  <2>1. accepts \in SUBSET Page /\ toFetch' \subseteq Page
    BY <1>4, NeededPages DEF Dispatch, PagesTyped
  <2>2. engine' = [engine EXCEPT ![x].pc = "dispatched", ![x].accepts = accepts]
    BY <1>4 DEF Dispatch
  <2>3. engine' \in [EngineRun -> RunRecords]
    <3> HIDE DEF accepts, MissionTypes
    <3>1. engine \in [EngineRun -> RunRecords]
      BY DEF MissionTypes
    <3> QED
      BY <3>1, <2>1, <2>2, RunMoves DEF Working
  <2>4. UNCHANGED <<page, pageDoc, checks>>
    BY <1>4, RunLeaves DEF Dispatch
  <2> QED
    BY <1>1, <1>2, <1>3, <2>1, <2>3, <2>4 DEF PagesTyped
<1>5. CASE CommitGrounding(x)
  <2>1. PagesTyped'
    BY <1>5, WrittenPages DEF CommitGrounding, PagesTyped
  <2>2. engine[x].new \ Needed(x) \in SUBSET Page
    BY DEF RunRecords
  <2>3. engine' = [engine EXCEPT ![x].pc = "grounded", ![x].accepts = {},
                                 ![x].new = engine[x].new \ Needed(x)]
    BY <1>5 DEF CommitGrounding
  <2>4. engine' \in [EngineRun -> RunRecords]
    BY <2>2, <2>3, RunMoves DEF Working
  <2>5. UNCHANGED checks
    BY <1>5, RunLeaves DEF CommitGrounding
  <2> QED
    BY <1>1, <1>2, <1>3, <2>1, <2>4, <2>5
<1>6. CASE SendFinalize(x)
  <2>1. engine' \in [EngineRun -> RunRecords]
    BY <1>6, RunMoves DEF SendFinalize, Moves
  <2>2. checks' \subseteq 1..MaxChecks
    BY <1>6, SomeChecks DEF SendFinalize
  <2>3. UNCHANGED pageVars
    BY <1>6 DEF SendFinalize
  <2> QED
    BY <1>1, <1>2, <1>3, <2>1, <2>2, <2>3 DEF PagesTyped, pageVars
<1>7. CASE RunBreaks(x)
  <2>1. engine' \in [EngineRun -> RunRecords]
    BY <1>7, RunMoves DEF RunBreaks
  <2>2. UNCHANGED <<pageVars, checks>>
    BY <1>7, RunLeaves DEF RunBreaks
  <2> QED
    BY <1>1, <1>2, <1>3, <2>1, <2>2 DEF PagesTyped, pageVars
<1> QED
  BY <1>4, <1>5, <1>6, <1>7

LEMMA RunFaultTypes ==
  ASSUME MissionTypes, NEW x \in EngineRun, NEW back \in BOOLEAN, RunFails(x) \/ RunDies(x, back)
  PROVE  MissionTypes'
<1> USE DEF MissionTypes
<1>1. StatusTyped'
  <2>1. mission' \in MissionStatuses /\ queued' \in Nat
    BY DEF StatusTyped, MissionStatuses, RunFails, RunDies
  <2>2. recent' \in BOOLEAN /\ waited' \in BOOLEAN
    BY DEF StatusTyped, RunFails, RunDies
  <2>3. UNCHANGED asked
    BY RunLeaves DEF RunFails, RunDies
  <2>4. orphaned' \in BOOLEAN
    BY DEF StatusTyped, RunFails, RunDies, MessageGone
  <2> QED
    BY <2>1, <2>2, <2>3, <2>4 DEF StatusTyped
<1>2. UNCHANGED <<ideaVars, finalizer, opened, dropped, checks, pageDoc, toFetch>>
  BY RunLeaves DEF RunFails, RunDies, pageVars
<1>3. IdeasTyped' /\ OpenedTyped'
  BY <1>2 DEF IdeasTyped, OpenedTyped, ideaVars
<1>4. CASE RunFails(x)
  <2>1. PagesTyped'
    BY <1>2, <1>4, WrittenPages DEF RunFails, PagesTyped
  <2> DEFINE new == IF engine[x].pc = "dispatched" THEN engine[x].new \ Needed(x) ELSE engine[x].new
  <2>2. new \in SUBSET Page
    BY DEF RunRecords
  <2>3. engine' = [engine EXCEPT ![x].pc = "over", ![x].accepts = {}, ![x].new = new]
    BY <1>4 DEF RunFails
  <2>4. engine' \in [EngineRun -> RunRecords]
    <3> HIDE DEF new
    <3> QED
      BY <2>2, <2>3, RunMoves
  <2> QED
    BY <1>1, <1>2, <1>3, <2>1, <2>4
<1>5. CASE RunDies(x, back)
  <2>1. engine' \in [EngineRun -> RunRecords]
    BY <1>5, RunMoves DEF RunDies
  <2>2. UNCHANGED page
    BY <1>5 DEF RunDies, pageVars
  <2> QED
    BY <1>1, <1>2, <1>3, <2>1, <2>2 DEF PagesTyped
<1> QED
  BY <1>4, <1>5

LEMMA PageTypes ==
  ASSUME MissionTypes, NEW p \in Page,
         \/ PageWork(p) \/ OperatorAccepts(p) \/ OperatorFetches(p)
         \/ FetchPage(p, FALSE) \/ NormalisePage(p, FALSE)
  PROVE  MissionTypes'
<1>1. PageUnchanged
  BY DEF PageWork, FetchPage, NormalisePage, JudgePage, IntakePromotes, OperatorAccepts,
     OperatorFetches
<1>2. StatusTyped' /\ IdeasTyped'
  BY <1>1 DEF MissionTypes, PageUnchanged, StatusTyped, IdeasTyped, ideaVars
<1>3. UNCHANGED <<engine, checks, finalizer, dropped>>
  BY <1>1 DEF PageUnchanged
<1>4. PagesTyped'
  BY DEF MissionTypes, PagesTyped, PageStates, DocumentStates, pageVars, PageWork, FetchPage,
     NormalisePage, JudgePage, IntakePromotes, OperatorAccepts, OperatorFetches
<1>5. OpenedTyped'
  BY DEF MissionTypes, OpenedTyped, PageWork, FetchPage, NormalisePage, JudgePage, IntakePromotes,
     OperatorAccepts, OperatorFetches
<1> QED
  BY <1>2, <1>3, <1>4, <1>5 DEF MissionTypes

\* A plan gives promotable ideas, so ideas with a row, a page or nothing.
LEMMA PlanTypes ==
  ASSUME MissionTypes, NEW plan \in Plans
  PROVE  /\ DOMAIN plan \subseteq strong /\ DOMAIN plan \in SUBSET Idea
         /\ plan \in [DOMAIN plan -> Page \cup {Nothing}]
<1> DEFINE grounded == {i \in PromotableIdeas : ~HasOpportunity(i) /\ GroundedDocuments(i) # {}}
<1>1. plan \in [grounded -> Page \cup {Nothing}]
  BY DEF Plans
<1>2. grounded \subseteq strong
  BY DEF PromotableIdeas, Best
<1>3. DOMAIN plan = grounded /\ plan \in [DOMAIN plan -> Page \cup {Nothing}]
  BY <1>1
<1> HIDE DEF grounded
<1> QED
  BY <1>2, <1>3 DEF MissionTypes, IdeasTyped

LEMMA CheckMoves ==
  ASSUME finalizer \in [Finalizer -> CheckRecords], NEW f \in Finalizer,
         NEW c \in CheckRecords, c.pc # "idle" => c.check # 0,
         \A g \in Finalizer : finalizer[g].pc # "idle" => finalizer[g].check # 0,
         finalizer' = [finalizer EXCEPT ![f] = c]
  PROVE  /\ finalizer' \in [Finalizer -> CheckRecords]
         /\ \A g \in Finalizer : finalizer'[g].pc # "idle" => finalizer'[g].check # 0
OBVIOUS

LEMMA CheckStarts ==
  ASSUME MissionTypes, NEW f \in Finalizer, NEW k \in 1..MaxChecks, StartCheck(f, k)
  PROVE  /\ finalizer' \in [Finalizer -> CheckRecords]
         /\ \A g \in Finalizer : finalizer'[g].pc # "idle" => finalizer'[g].check # 0
<1> DEFINE docs(plan) ==
      UNION {{[idea |-> i, page |-> p, judged |-> pageDoc[p] = "judged"] :
                p \in GroundedDocuments(i)} : i \in {j \in DOMAIN plan : plan[j] = Nothing}}
<1>1. PICK plan \in Plans, closes \in BOOLEAN, promoted \in BOOLEAN :
        finalizer' = [finalizer EXCEPT ![f] =
          [pc |-> "promoting", check |-> k, plan |-> plan, docs |-> docs(plan),
           closes |-> closes, promoted |-> promoted]]
  <2>1. PICK plan \in Plans :
          finalizer' = [finalizer EXCEPT ![f] =
            [pc |-> "promoting", check |-> k, plan |-> plan, docs |-> docs(plan),
             closes |-> Closes(\E i \in PromotableIdeas :
                                 ~HasOpportunity(i) /\ i \notin DOMAIN plan /\ FetchPending(i)),
             promoted |-> \E i \in PromotableIdeas :
                            HasOpportunity(i) \/ (i \in DOMAIN plan /\ plan[i] # Nothing)]]
    BY DEF StartCheck
  <2>2. Closes(\E i \in PromotableIdeas :
                 ~HasOpportunity(i) /\ i \notin DOMAIN plan /\ FetchPending(i)) \in BOOLEAN
    BY DEF Closes, MissionTypes, StatusTyped
  <2> HIDE DEF docs
  <2> QED
    BY <2>1, <2>2
<1>2. docs(plan) \subseteq DropRecords
  <2>1. ASSUME NEW i \in DOMAIN plan, NEW p \in GroundedDocuments(i)
        PROVE  [idea |-> i, page |-> p, judged |-> pageDoc[p] = "judged"] \in DropRecords
    <3>1. i \in Idea
      BY PlanTypes
    <3>2. p \in Page
      BY <3>1, CitedPages DEF GroundedDocuments
    <3> QED
      BY <3>1, <3>2 DEF DropRecords
  <2> QED
    BY <2>1
<1>3. plan \in UNION {[S -> Page \cup {Nothing}] : S \in SUBSET Idea}
  BY PlanTypes
<1> HIDE DEF docs
<1>4. [pc |-> "promoting", check |-> k, plan |-> plan, docs |-> docs(plan),
       closes |-> closes, promoted |-> promoted] \in CheckRecords
  BY <1>2, <1>3, MissionConstants DEF CheckRecords
<1> QED
  BY <1>1, <1>4, CheckMoves DEF MissionTypes

LEMMA CheckMessageTypes ==
  ASSUME MissionTypes, CheckMessage
  PROVE  MissionTypes'
<1>1. ASSUME NEW f \in Finalizer, NEW k \in 1..MaxChecks, StartCheck(f, k)
      PROVE  MissionTypes'
  <2>1. /\ finalizer' \in [Finalizer -> CheckRecords]
        /\ \A g \in Finalizer : finalizer'[g].pc # "idle" => finalizer'[g].check # 0
    BY <1>1, CheckStarts
  <2>2. UNCHANGED <<mission, recent, rows, strong, opened, dropped, orphaned>>
        /\ checks' \subseteq 1..MaxChecks
    BY <1>1 DEF StartCheck, MissionTypes
  <2>3. UNCHANGED <<asked, queued, engine, signals, pageVars, waited>>
    BY <1>1 DEF StartCheck, CheckUnchanged
  <2> QED
    BY <2>1, <2>2, <2>3 DEF MissionTypes, StatusTyped, IdeasTyped, PagesTyped, OpenedTyped, pageVars
<1>2. ASSUME NEW k \in 1..MaxChecks, SkipCheck(k)
      PROVE  MissionTypes'
  <2>1. UNCHANGED <<mission, recent, rows, strong, finalizer, opened, dropped, orphaned>>
        /\ checks' \subseteq 1..MaxChecks
    BY <1>2 DEF SkipCheck, MissionTypes
  <2>2. UNCHANGED <<asked, queued, engine, signals, pageVars, waited>>
    BY <1>2 DEF SkipCheck, CheckUnchanged
  <2> QED
    BY <2>1, <2>2 DEF MissionTypes, StatusTyped, IdeasTyped, PagesTyped, OpenedTyped, pageVars
<1> QED
  BY <1>1, <1>2 DEF CheckMessage

LEMMA OutcomeStatus == ASSUME NEW b PROVE Outcome(b) \in MissionStatuses
BY DEF Outcome, MissionStatuses

\* What a plan writes: an opportunity for every idea that got a page.
LEMMA PlannedOpened ==
  ASSUME finalizer \in [Finalizer -> CheckRecords], NEW f \in Finalizer
  PROVE  LET plan == finalizer[f].plan
             without == {i \in DOMAIN plan : plan[i] = Nothing} IN
         {[root |-> plan[i], idea |-> i] : i \in DOMAIN plan \ without}
           \subseteq [root : Page, idea : Idea \cup {Nothing}]
<1> DEFINE plan == finalizer[f].plan
<1>1. plan \in UNION {[S -> Page \cup {Nothing}] : S \in SUBSET Idea}
  BY DEF CheckRecords
<1>2. DOMAIN plan \subseteq Idea /\ \A i \in DOMAIN plan : plan[i] \in Page \cup {Nothing}
  BY <1>1
<1> HIDE DEF plan
<1>3. ASSUME NEW i \in DOMAIN plan \ {j \in DOMAIN plan : plan[j] = Nothing}
      PROVE  [root |-> plan[i], idea |-> i] \in [root : Page, idea : Idea \cup {Nothing}]
  BY <1>2
<1> QED
  BY <1>3 DEF plan

LEMMA CheckWorkTypes ==
  ASSUME MissionTypes, NEW f \in Finalizer, NEW back \in BOOLEAN,
         CheckWork(f) \/ CheckDies(f, back)
  PROVE  MissionTypes'
<1>1. CheckUnchanged
  BY DEF CheckWork, CommitCheck, CheckFails, SendNext, CheckDies
<1>2. UNCHANGED <<asked, queued, engine, signals, pageVars, waited>>
  BY <1>1 DEF CheckUnchanged
<1>3. PagesTyped'
  BY <1>2 DEF MissionTypes, PagesTyped, pageVars
<1>4. CASE CommitCheck(f)
  <2>1. /\ finalizer' \in [Finalizer -> CheckRecords]
        /\ \A g \in Finalizer : finalizer'[g].pc # "idle" => finalizer'[g].check # 0
    BY <1>4 DEF CommitCheck, MissionTypes, CheckRecords
  <2>2. OpenedTyped'
    BY <1>4, PlannedOpened DEF CommitCheck, MissionTypes, OpenedTyped
  <2>3. dropped' \subseteq DropRecords
    BY <1>4 DEF CommitCheck, MissionTypes, CheckRecords
  <2>4. mission' \in MissionStatuses
    BY <1>4, OutcomeStatus DEF CommitCheck, MissionTypes, StatusTyped
  <2>5. recent' \in BOOLEAN
    BY <1>4 DEF CommitCheck
  <2>6. strong' \subseteq strong /\ UNCHANGED <<rows, checks, orphaned>>
    BY <1>4 DEF CommitCheck
  <2> QED
    BY <1>2, <1>3, <2>1, <2>2, <2>3, <2>4, <2>5, <2>6 DEF MissionTypes, StatusTyped, IdeasTyped
<1>5. CASE CheckFails(f)
  <2>1. /\ finalizer' \in [Finalizer -> CheckRecords]
        /\ \A g \in Finalizer : finalizer'[g].pc # "idle" => finalizer'[g].check # 0
    BY <1>5, RestingTyped, CheckMoves DEF CheckFails, MissionTypes
  <2>2. orphaned' \in BOOLEAN
    BY <1>5 DEF CheckFails, MessageGone
  <2>3. UNCHANGED <<mission, recent, rows, strong, checks, opened, dropped>>
    BY <1>5 DEF CheckFails
  <2> QED
    BY <1>2, <1>3, <2>1, <2>2, <2>3 DEF MissionTypes, StatusTyped, IdeasTyped, OpenedTyped
<1>6. CASE SendNext(f)
  <2>1. /\ finalizer' \in [Finalizer -> CheckRecords]
        /\ \A g \in Finalizer : finalizer'[g].pc # "idle" => finalizer'[g].check # 0
    BY <1>6, RestingTyped, CheckMoves DEF SendNext, MissionTypes
  <2>2. checks' \subseteq 1..MaxChecks
    <3>1. finalizer[f].check \in 0..MaxChecks /\ checks \subseteq 1..MaxChecks
      BY DEF MissionTypes, CheckRecords
    <3>2. finalizer[f].check < MaxChecks => finalizer[f].check + 1 \in 1..MaxChecks
      BY <3>1, SomeChecks
    <3> QED
      BY <1>6, <3>1, <3>2 DEF SendNext
  <2>3. mission' \in MissionStatuses
    BY <1>6, OutcomeStatus DEF SendNext, MissionTypes, StatusTyped
  <2>4. recent' \in BOOLEAN
    BY <1>6 DEF SendNext
  <2>5. UNCHANGED <<rows, strong, opened, dropped, orphaned>>
    BY <1>6 DEF SendNext
  <2> QED
    BY <1>2, <1>3, <2>1, <2>2, <2>3, <2>4, <2>5 DEF MissionTypes, StatusTyped, IdeasTyped, OpenedTyped
<1>7. CASE CheckDies(f, back)
  <2>1. /\ finalizer' \in [Finalizer -> CheckRecords]
        /\ \A g \in Finalizer : finalizer'[g].pc # "idle" => finalizer'[g].check # 0
    BY <1>7, RestingTyped, CheckMoves DEF CheckDies, MissionTypes
  <2>2. checks' \subseteq 1..MaxChecks
    <3>1. finalizer[f].check \in 0..MaxChecks /\ checks \subseteq 1..MaxChecks
      BY DEF MissionTypes, CheckRecords
    <3>2. finalizer[f].check \in 1..MaxChecks
      BY <1>7, <3>1, MissionConstants DEF CheckDies, MissionTypes
    <3> QED
      BY <1>7, <3>1, <3>2 DEF CheckDies
  <2>3. orphaned' \in BOOLEAN
    BY <1>7 DEF CheckDies, MessageGone, MissionTypes, StatusTyped
  <2>4. UNCHANGED <<mission, recent, rows, strong, opened, dropped>>
    BY <1>7 DEF CheckDies
  <2> QED
    BY <1>2, <1>3, <2>1, <2>2, <2>3, <2>4 DEF MissionTypes, StatusTyped, IdeasTyped, OpenedTyped
<1> QED
  BY <1>4, <1>5, <1>6, <1>7 DEF CheckWork

LEMMA TimeTypes ==
  ASSUME MissionTypes, LogAges \/ WaitEnds
  PROVE  MissionTypes'
<1>1. TimeUnchanged /\ recent' \in BOOLEAN /\ waited' \in BOOLEAN
  BY DEF LogAges, WaitEnds, MissionTypes, StatusTyped
<1>2. UNCHANGED <<mission, asked, queued, engine, ideaVars, pageVars, checks, finalizer, opened,
                  dropped, orphaned>>
  BY <1>1 DEF TimeUnchanged
<1> QED
  BY <1>1, <1>2 DEF MissionTypes, StatusTyped, IdeasTyped, PagesTyped, OpenedTyped, ideaVars, pageVars

\* The actions, once: what a step of a mission can be.
LEMMA MissionSteps ==
  ASSUME MissionNext
  PROVE  \/ \E sent \in BOOLEAN : RequestRun \/ EnqueueRun(sent)
         \/ DropRun \/ CheckMessage \/ LogAges \/ WaitEnds
         \/ \E x \in EngineRun : StartRun(x) \/ RunWork(x) \/ RunFails(x)
                                   \/ \E back \in BOOLEAN : RunDies(x, back)
         \/ \E f \in Finalizer : CheckWork(f) \/ \E back \in BOOLEAN : CheckDies(f, back)
         \/ \E p \in Page : PageWork(p) \/ OperatorAccepts(p) \/ OperatorFetches(p)
                              \/ FetchPage(p, FALSE) \/ NormalisePage(p, FALSE)
BY DEF MissionNext, RunMessage, MissionFaults

LEMMA StepTypes ==
  ASSUME MissionTypes, [MissionNext]_missionVars
  PROVE  MissionTypes'
<1>1. CASE UNCHANGED missionVars
  BY <1>1 DEF missionVars, MissionTypes, StatusTyped, IdeasTyped, PagesTyped, OpenedTyped, ideaVars,
     pageVars
<1>2. ASSUME NEW x \in EngineRun, DropRun \/ StartRun(x)
      PROVE  MissionTypes'
  BY <1>2, MessageTypes
<1>3. DropRun => MissionTypes'
  <2>1. 1 \in EngineRun
    BY MissionConstants DEF EngineRun
  <2> QED
    BY <1>2, <2>1
<1>4. ASSUME NEW x \in EngineRun, RunWork(x)
      PROVE  MissionTypes'
  BY <1>4, EarlyStageTypes, LateStageTypes DEF RunWork
<1>5. CASE MissionNext
  BY <1>2, <1>3, <1>4, <1>5, MissionSteps, RouteTypes, CheckMessageTypes, TimeTypes, RunFaultTypes,
     CheckWorkTypes, PageTypes
<1> QED
  BY <1>1, <1>5

LEMMA TypesTyped == MissionTypes => MissionTypeOK
BY DEF MissionTypes, MissionTypeOK, StatusTyped, IdeasTyped, PagesTyped, OpenedTyped, RunRecords,
   CheckRecords, DropRecords, PageStates, DocumentStates

\* The variables of a mission keep their types; that strong ideas have rows is up to the commit
\* of a run that fails when another run has deleted them (engine.py:1468).
THEOREM MissionAlwaysTyped == MissionSpec => []MissionTypeOK
<1>1. MissionTypes /\ [MissionNext]_missionVars => MissionTypes'
  BY StepTypes
<1> QED
  BY InitTyped, <1>1, TypesTyped, PTL DEF MissionSpec

-----------------------------------------------------------------------------
(* Ideas are taken out for a cause.  Between the reading of a check and its  *)
(* commit others open opportunities, and a mission may be rerun: what the    *)
(* check has read of the documents stays true because roots are never given  *)
(* back, and the roots it has planned itself are taken when it commits.      *)

Planned(f) == {finalizer[f].plan[j] : j \in DOMAIN finalizer[f].plan}

JudgedAreTaken ==
  \A f \in Finalizer : finalizer[f].pc = "promoting" =>
    \A d \in finalizer[f].docs : d.judged => d.page \in Roots \cup Planned(f)

DropInv == MissionTypes /\ JudgedAreTaken /\ DroppedForCause

\* Roots are never given back.
LEMMA RootsGrow ==
  ASSUME [MissionNext]_missionVars
  PROVE  opened \subseteq opened' /\ Roots \subseteq Roots'
<1>1. opened \subseteq opened'
  <2>1. CASE UNCHANGED missionVars
    BY <2>1 DEF missionVars
  <2>2. ASSUME NEW sent \in BOOLEAN, RequestRun \/ EnqueueRun(sent)
        PROVE  UNCHANGED opened
    BY <2>2 DEF RequestRun, EnqueueRun, RouteUnchanged
  <2>3. ASSUME NEW x \in EngineRun, NEW back \in BOOLEAN,
               DropRun \/ StartRun(x) \/ RunWork(x) \/ RunFails(x) \/ RunDies(x, back)
        PROVE  UNCHANGED opened
    BY <2>3 DEF DropRun, StartRun, RunWork, BeginRun, Search, Extract, Evaluate, Dispatch,
       CommitGrounding, SendFinalize, RunBreaks, RunFails, RunDies, RunUnchanged
  <2>4. DropRun => UNCHANGED opened
    BY DEF DropRun, RunUnchanged
  <2>5. ASSUME CheckMessage \/ LogAges \/ WaitEnds
        PROVE  UNCHANGED opened
    BY <2>5 DEF CheckMessage, StartCheck, SkipCheck, LogAges, WaitEnds, TimeUnchanged
  <2>6. ASSUME NEW f \in Finalizer, NEW back \in BOOLEAN, CheckWork(f) \/ CheckDies(f, back)
        PROVE  opened \subseteq opened'
    BY <2>6 DEF CheckWork, CommitCheck, CheckFails, SendNext, CheckDies
  <2>7. ASSUME NEW p \in Page,
               \/ PageWork(p) \/ OperatorAccepts(p) \/ OperatorFetches(p)
               \/ FetchPage(p, FALSE) \/ NormalisePage(p, FALSE)
        PROVE  opened \subseteq opened'
    BY <2>7 DEF PageWork, FetchPage, NormalisePage, JudgePage, IntakePromotes, OperatorAccepts,
       OperatorFetches
  <2> QED
    BY <2>1, <2>2, <2>3, <2>4, <2>5, <2>6, <2>7, MissionSteps
<1> QED
  BY <1>1 DEF Roots

\* Only a finalize check starts one, and only a commit takes an idea out.
LEMMA ChecksMove ==
  ASSUME [MissionNext]_missionVars
  PROVE  \/ UNCHANGED <<finalizer, dropped>>
         \/ \E f \in Finalizer : \/ \E k \in 1..MaxChecks : StartCheck(f, k)
                                 \/ CommitCheck(f)
                                 \/ finalizer' = [finalizer EXCEPT ![f] = Resting] /\ UNCHANGED dropped
<1>1. CASE UNCHANGED missionVars
  BY <1>1 DEF missionVars
<1>2. ASSUME NEW sent \in BOOLEAN, RequestRun \/ EnqueueRun(sent)
      PROVE  UNCHANGED <<finalizer, dropped>>
  BY <1>2 DEF RequestRun, EnqueueRun, RouteUnchanged
<1>3. ASSUME NEW x \in EngineRun, NEW back \in BOOLEAN,
             StartRun(x) \/ RunWork(x) \/ RunFails(x) \/ RunDies(x, back)
      PROVE  UNCHANGED <<finalizer, dropped>>
  BY <1>3 DEF StartRun, RunWork, BeginRun, Search, Extract, Evaluate, Dispatch, CommitGrounding,
     SendFinalize, RunBreaks, RunFails, RunDies, RunUnchanged
<1>4. ASSUME DropRun \/ LogAges \/ WaitEnds
      PROVE  UNCHANGED <<finalizer, dropped>>
  BY <1>4 DEF DropRun, RunUnchanged, LogAges, WaitEnds, TimeUnchanged
<1>5. ASSUME CheckMessage
      PROVE  UNCHANGED <<finalizer, dropped>> \/ \E f \in Finalizer, k \in 1..MaxChecks : StartCheck(f, k)
  BY <1>5 DEF CheckMessage, SkipCheck
<1>6. ASSUME NEW f \in Finalizer, NEW back \in BOOLEAN, CheckWork(f) \/ CheckDies(f, back)
      PROVE  CommitCheck(f) \/ (finalizer' = [finalizer EXCEPT ![f] = Resting] /\ UNCHANGED dropped)
  BY <1>6 DEF CheckWork, CheckFails, SendNext, CheckDies
<1>7. ASSUME NEW p \in Page,
             \/ PageWork(p) \/ OperatorAccepts(p) \/ OperatorFetches(p)
             \/ FetchPage(p, FALSE) \/ NormalisePage(p, FALSE)
      PROVE  UNCHANGED <<finalizer, dropped>>
  BY <1>7 DEF PageWork, FetchPage, NormalisePage, JudgePage, IntakePromotes, OperatorAccepts,
     OperatorFetches, PageUnchanged
<1> QED
  BY <1>1, <1>2, <1>3, <1>4, <1>5, <1>6, <1>7, MissionSteps

\* An idea that gets no page has no judged document that is not taken, or planned to be.
LEMMA LeftOutForCause ==
  ASSUME MissionTypes, NEW plan \in Plans, NEW i \in DOMAIN plan, plan[i] = Nothing,
         NEW p \in GroundedDocuments(i), pageDoc[p] = "judged"
  PROVE  p \in Roots \cup {plan[j] : j \in DOMAIN plan}
<1> DEFINE grounded == {k \in PromotableIdeas : ~HasOpportunity(k) /\ GroundedDocuments(k) # {}}
           taken == Roots \cup {plan[j] : j \in {k \in grounded : k < i}}
<1>1. plan \in [grounded -> Page \cup {Nothing}]
      /\ \A k \in grounded :
           plan[k] = Root(k, Roots \cup {plan[j] : j \in {l \in grounded : l < k}})
  BY DEF Plans
<1>2. DOMAIN plan = grounded /\ plan[i] = Root(i, taken)
  BY <1>1
<1>3. i \in Idea /\ p \in Cited(i)
  BY PlanTypes DEF GroundedDocuments
<1>4. p \in taken
  <2> HIDE DEF taken
  <2> QED
    BY <1>2, <1>3, RootMeans
<1> QED
  BY <1>2, <1>4

LEMMA StartKeepsCause ==
  ASSUME DropInv, NEW f \in Finalizer, NEW k \in 1..MaxChecks, StartCheck(f, k)
  PROVE  JudgedAreTaken' /\ DroppedForCause'
<1>1. UNCHANGED <<opened, dropped>> /\ Roots' = Roots
  BY DEF StartCheck, Roots
<1>2. PICK plan \in Plans :
        /\ finalizer' = [finalizer EXCEPT ![f] = finalizer'[f]]
        /\ finalizer'[f].plan = plan
        /\ finalizer'[f].docs =
             UNION {{[idea |-> i, page |-> p, judged |-> pageDoc[p] = "judged"] :
                       p \in GroundedDocuments(i)} : i \in {j \in DOMAIN plan : plan[j] = Nothing}}
  BY DEF StartCheck, DropInv, MissionTypes
<1>3. ASSUME NEW d \in finalizer'[f].docs, d.judged
      PROVE  d.page \in Roots \cup {plan[j] : j \in DOMAIN plan}
  <2>1. PICK i \in {j \in DOMAIN plan : plan[j] = Nothing} :
          d \in {[idea |-> i, page |-> p, judged |-> pageDoc[p] = "judged"] : p \in GroundedDocuments(i)}
    BY <1>2
  <2>2. PICK p \in GroundedDocuments(i) :
          d = [idea |-> i, page |-> p, judged |-> pageDoc[p] = "judged"]
    BY <2>1
  <2>3. pageDoc[p] = "judged" /\ d.page = p
    BY <1>3, <2>2
  <2> QED
    BY <2>3, LeftOutForCause DEF DropInv
<1>4. Planned(f)' = {plan[j] : j \in DOMAIN plan}
  BY <1>2 DEF Planned
<1>5. ASSUME NEW g \in Finalizer, g # f
      PROVE  finalizer'[g] = finalizer[g] /\ Planned(g)' = Planned(g)
  BY <1>2, <1>5 DEF Planned, DropInv, MissionTypes
<1>6. JudgedAreTaken'
  <2> SUFFICES ASSUME NEW g \in Finalizer, finalizer'[g].pc = "promoting",
                      NEW d \in finalizer'[g].docs, d.judged
               PROVE  d.page \in Roots \cup Planned(g)'
    BY <1>1 DEF JudgedAreTaken
  <2> QED
    BY <1>3, <1>4, <1>5 DEF DropInv, JudgedAreTaken
<1> QED
  BY <1>1, <1>6 DEF DroppedForCause, DropInv

LEMMA CommitKeepsCause ==
  ASSUME DropInv, NEW f \in Finalizer, CommitCheck(f), [MissionNext]_missionVars
  PROVE  JudgedAreTaken' /\ DroppedForCause'
<1> DEFINE plan == finalizer[f].plan
           without == {i \in DOMAIN plan : plan[i] = Nothing}
<1>1. /\ finalizer[f].pc = "promoting"
      /\ opened' = opened \cup {[root |-> plan[i], idea |-> i] : i \in DOMAIN plan \ without}
      /\ dropped' = dropped \cup finalizer[f].docs
      /\ finalizer' = [finalizer EXCEPT ![f].pc = "committed"]
  BY DEF CommitCheck
<1>2. \A d \in finalizer[f].docs : d.page \in Page
  BY DEF DropInv, MissionTypes, CheckRecords, DropRecords
<1>3. ASSUME NEW d \in finalizer[f].docs, d.judged
      PROVE  d.page \in Roots'
  <2>1. d.page \in Roots \cup Planned(f)
    BY <1>1, <1>3 DEF DropInv, JudgedAreTaken
  <2>2. ASSUME NEW j \in DOMAIN plan, d.page = plan[j]
        PROVE  d.page \in Roots'
    <3>1. j \in DOMAIN plan \ without
      BY <1>2, <2>2, MissionConstants
    <3>2. [root |-> plan[j], idea |-> j] \in opened'
      BY <1>1, <3>1
    <3> QED
      BY <2>2, <3>2 DEF Roots
  <2> QED
    BY <2>1, <2>2, RootsGrow DEF Planned
<1>4. DroppedForCause'
  BY <1>1, <1>3, RootsGrow DEF DropInv, DroppedForCause
<1>5. JudgedAreTaken'
  <2> SUFFICES ASSUME NEW g \in Finalizer, finalizer'[g].pc = "promoting",
                      NEW d \in finalizer'[g].docs, d.judged
               PROVE  d.page \in Roots' \cup Planned(g)'
    BY DEF JudgedAreTaken
  <2>1. finalizer'[g] = finalizer[g]
    BY <1>1 DEF DropInv, MissionTypes, CheckRecords
  <2> QED
    BY <2>1, RootsGrow DEF DropInv, JudgedAreTaken, Planned
<1> QED
  BY <1>4, <1>5

LEMMA StepKeepsCause ==
  ASSUME DropInv, [MissionNext]_missionVars
  PROVE  DropInv'
<1>1. ASSUME UNCHANGED <<finalizer, dropped>>
      PROVE  JudgedAreTaken' /\ DroppedForCause'
  BY <1>1, RootsGrow DEF DropInv, JudgedAreTaken, DroppedForCause, Planned
<1>2. ASSUME NEW f \in Finalizer, finalizer' = [finalizer EXCEPT ![f] = Resting], UNCHANGED dropped
      PROVE  JudgedAreTaken' /\ DroppedForCause'
  <2>1. DroppedForCause'
    BY <1>2, RootsGrow DEF DropInv, DroppedForCause
  <2>2. JudgedAreTaken'
    <3> SUFFICES ASSUME NEW g \in Finalizer, finalizer'[g].pc = "promoting",
                        NEW d \in finalizer'[g].docs, d.judged
                 PROVE  d.page \in Roots' \cup Planned(g)'
      BY DEF JudgedAreTaken
    <3>1. finalizer'[g] = finalizer[g]
      BY <1>2, RestingTyped DEF DropInv, MissionTypes
    <3> QED
      BY <3>1, RootsGrow DEF DropInv, JudgedAreTaken, Planned
  <2> QED
    BY <2>1, <2>2
<1>3. JudgedAreTaken' /\ DroppedForCause'
  BY <1>1, <1>2, ChecksMove, StartKeepsCause, CommitKeepsCause
<1> QED
  BY <1>3, StepTypes DEF DropInv

LEMMA InitCause == MissionInits => DropInv
<1> SUFFICES ASSUME MissionInits
             PROVE  DropInv
  OBVIOUS
<1>1. dropped = {} /\ \A f \in Finalizer : finalizer[f].pc = "idle"
  BY RestingTyped DEF MissionInits, MissionInit
<1> QED
  BY <1>1, InitTyped DEF DropInv, JudgedAreTaken, DroppedForCause

\* Whatever the pages were, and whoever fetches, promotes, reruns, fails or dies meanwhile:
\* an idea is taken out only when every judged document it is grounded in roots an opportunity
\* (engine.py:964).
THEOREM DroppedAlwaysForCause == MissionSpec => []DroppedForCause
<1>1. DropInv /\ [MissionNext]_missionVars => DropInv'
  BY StepKeepsCause
<1>2. DropInv => DroppedForCause
  BY DEF DropInv
<1> QED
  BY InitCause, <1>1, <1>2, PTL DEF MissionSpec
=============================================================================

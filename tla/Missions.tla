------------------------------ MODULE Missions ------------------------------
(***************************************************************************)
(* One research mission: the routes that queue it, the engine runs that    *)
(* search, judge ideas and send their pages to fetch, and the chain of     *)
(* finalize checks that turns grounded ideas into opportunities            *)
(* (contentos.missions, worker/mission_tasks.py).  The engine commits at   *)
(* every stage, sends fetches before the commit that accepts their pages,  *)
(* and sends its finalize message after its last commit.  A message of a   *)
(* worker that died comes back, or was acknowledged with it.  Intake       *)
(* details what fetches a page and judges its document.                    *)
(***************************************************************************)
EXTENDS Naturals, Sequences, FiniteSets

CONSTANTS
  MaxRuns,      \* bound: engine runs
  Idea,         \* what the runs come up with, the best idea first
  Finds,        \* run |-> the ideas it comes up with and finds strong
  Page,         \* pages the ideas may cite
  Web,          \* pages of the open web: not found by the sources, nor promoted by the intake
  Cites,        \* idea |-> the pages of its signals, in their order
  Finalizer,    \* worker processes that run finalize checks
  Nothing,
  MaxPromoted, MaxChecks,
  MaxMissionCommands, MaxMissionDecisions, MaxMissionCrashes, MaxMissionFailures

ASSUME MissionConstants ==
  /\ Idea \subseteq Nat /\ IsFiniteSet(Idea) /\ Finds \in [1..MaxRuns -> SUBSET Idea]
  /\ \A x, y \in 1..MaxRuns : x # y => Finds[x] \cap Finds[y] = {}
  /\ Web \subseteq Page /\ Cites \in [Idea -> Seq(Page)] /\ Nothing \notin Page \cup Idea
  /\ MaxPromoted \in Nat \ {0} /\ MaxChecks \in Nat \ {0}
  /\ {MaxMissionCommands, MaxMissionDecisions, MaxMissionCrashes, MaxMissionFailures} \subseteq Nat
  /\ MaxRuns \in Nat /\ MaxRuns > MaxMissionCommands + MaxMissionCrashes

VARIABLES
  mission,       \* status of the mission
  recent,        \* its log has an entry of the last 20 minutes
  asked,         \* a request has committed QUEUED, its message is not sent yet
  queued,        \* queued run messages
  engine,        \* where each run is, its ideas, the pages it saw a document of, those
                 \* whose signals name no discovery item, and the pages it has accepted
                 \* without having committed
  rows, strong,  \* ideas that have a row; those recommended for promotion
  signals,       \* runs whose signals have rows
  page, pageDoc, \* discovery item of a page; its document
  toFetch,       \* pages with a queued fetch message
  checks,        \* queued finalize messages, by the number of the check
  finalizer,     \* where each finalize check is, and what it has read
  waited,        \* 15 minutes have passed since grounding started
  opened,        \* opportunities: root page and idea, Nothing for those of the intake
  dropped,       \* history: ideas finalize took out, with what it saw of their pages
  orphaned,      \* history: the last message about the open mission was lost
  missionUsed    \* commands, decisions, crashes and failures so far

ideaVars == <<rows, strong, signals>>
pageVars == <<page, pageDoc, toFetch>>
missionVars == <<mission, recent, asked, queued, engine, ideaVars, pageVars, checks, finalizer,
                 waited, opened, dropped, orphaned, missionUsed>>

EngineRun == 1..MaxRuns
Open == {"running", "grounding"}
MissionStatuses == Open \cup {"queued", "completed", "needs_more_research", "failed"}
Working == {"read", "planning", "searched", "extracted", "evaluated", "dispatched", "grounded"}

Spend(kind, max) == missionUsed[kind] < max /\ missionUsed' = [missionUsed EXCEPT ![kind] = @ + 1]
MissionCommand == Spend("commands", MaxMissionCommands)
PageDecision == Spend("decisions", MaxMissionDecisions)
WorkerDies == Spend("crashes", MaxMissionCrashes)
SomethingFails == Spend("failures", MaxMissionFailures)

Pages(i) == {Cites[i][n] : n \in DOMAIN Cites[i]}
Roots == {o.root : o \in opened}
HasOpportunity(i) == \E o \in opened : o.idea = i
Document(p) == pageDoc[p] \in {"normalised", "judged"}

\* The n best of a set of ideas.
Best(S, n) == {i \in S : Cardinality({j \in S : j < i}) < n}

\* A run is at work, or the checks of a grounding mission go on.
Attended ==
  \/ \E x \in EngineRun : engine[x].pc \in Working
  \/ /\ mission = "grounding"
     /\ \/ checks # {}
        \/ \E f \in Finalizer :
             \/ finalizer[f].pc = "promoting"
             \/ finalizer[f].pc = "committed" /\ ~finalizer[f].closes

\* A message about the mission is gone for good, and nothing else goes on with it.
MessageGone == orphaned' = (orphaned \/ (mission' \in Open /\ ~Attended'))

-----------------------------------------------------------------------------
(* Routes.                                                                  *)

RouteUnchanged ==
  UNCHANGED <<recent, engine, ideaVars, pageVars, checks, finalizer, waited, opened, dropped,
              orphaned>>

\* A mission that is not open is queued, a queued one once more; the commit comes first.
RequestRun ==
  /\ mission \notin Open /\ ~asked
  /\ MissionCommand
  /\ mission' = "queued" /\ asked' = TRUE
  /\ UNCHANGED queued /\ RouteUnchanged

\* The message is sent, or that fails and the mission is marked FAILED.
EnqueueRun(sent) ==
  /\ asked /\ asked' = FALSE
  /\ IF sent THEN queued' = queued + 1 /\ UNCHANGED <<mission, missionUsed>>
     ELSE mission' = "failed" /\ SomethingFails /\ UNCHANGED queued
  /\ RouteUnchanged

-----------------------------------------------------------------------------
(* The run task and the stages of the engine, each committed.               *)

RunUnchanged == UNCHANGED <<asked, checks, finalizer, opened, dropped>>

Unused(x) == engine[x].pc = "unused" /\ \A y \in EngineRun : y < x => engine[y].pc # "unused"

Moves(x, from, to) == engine[x].pc = from /\ engine' = [engine EXCEPT ![x].pc = to]

\* Mutation: a mission is taken for running however old its last entry is.
RunningWhateverAge == mission \in Open

\* Running or grounding, with a log entry of the last 20 minutes.
AlreadyRunning == mission \in Open /\ recent

StartRun(x) ==
  /\ queued > 0 /\ Unused(x) /\ ~AlreadyRunning
  /\ queued' = queued - 1
  /\ engine' = [engine EXCEPT ![x].pc = "read"]
  /\ UNCHANGED <<mission, recent, ideaVars, pageVars, waited, orphaned, missionUsed>>
  /\ RunUnchanged

DropRun ==
  /\ queued > 0 /\ AlreadyRunning
  /\ queued' = queued - 1
  /\ orphaned' = (orphaned \/ (recent /\ ~Attended))
  /\ UNCHANGED <<mission, recent, engine, ideaVars, pageVars, waited, missionUsed>>
  /\ RunUnchanged

\* Signals go, and every idea that did not become an opportunity.
BeginRun(x) ==
  /\ Moves(x, "read", "planning")
  /\ mission' = "running" /\ recent' = TRUE /\ waited' = FALSE
  /\ rows' = {i \in rows : HasOpportunity(i)} /\ strong' = strong \cap rows' /\ signals' = {}
  /\ UNCHANGED <<queued, pageVars, orphaned, missionUsed>> /\ RunUnchanged

Search(x) ==
  /\ engine[x].pc = "planning"
  /\ engine' = [engine EXCEPT ![x].pc = "searched", ![x].known = {p \in Page : Document(p)},
                              ![x].new = {p \in Page : page[p] = "unknown"}]
  /\ signals' = signals \cup {x}
  /\ recent' = TRUE
  /\ UNCHANGED <<mission, queued, rows, strong, pageVars, waited, orphaned, missionUsed>>
  /\ RunUnchanged

\* Of the ideas of a run only those it will find strong matter.
Extract(x) ==
  /\ engine[x].pc = "searched"
  /\ engine' = [engine EXCEPT ![x].pc = "extracted", ![x].own = Finds[x]]
  /\ rows' = rows \cup Finds[x]
  /\ recent' = TRUE
  /\ UNCHANGED <<mission, queued, strong, signals, pageVars, waited, orphaned, missionUsed>>
  /\ RunUnchanged

\* The pages of the best ideas none of whose pages had a document.
Needed(x) ==
  UNION {Pages(i) : i \in {j \in Best(engine[x].own, MaxPromoted) :
                             Pages(j) \cap engine[x].known = {}}}

\* Mutation: nobody notices that a row is gone.
BrokenUnseen(x) == FALSE

\* Another run has deleted the rows this one writes to.
Broken(x) ==
  \/ engine[x].pc = "extracted" /\ ~(engine[x].own \subseteq rows)
  \/ engine[x].pc = "dispatched" /\ x \notin signals /\ Needed(x) \cap engine[x].new # {}

\* Clustering and evaluation write to the rows.
Evaluate(x) ==
  /\ Moves(x, "extracted", "evaluated") /\ ~Broken(x)
  /\ strong' = strong \cup engine[x].own
  /\ recent' = TRUE
  /\ UNCHANGED <<mission, queued, rows, signals, pageVars, waited, orphaned, missionUsed>>
  /\ RunUnchanged

\* Discovered pages are accepted, and fetches are sent, before anything of it is
\* committed; an accepted row is locked until then.
Dispatch(x) ==
  LET accepts == {p \in Needed(x) \ engine[x].new : page[p] = "discovered"} IN
  /\ engine[x].pc = "evaluated"
  /\ \A y \in EngineRun : accepts \cap engine[y].accepts = {}
  /\ engine' = [engine EXCEPT ![x].pc = "dispatched", ![x].accepts = accepts]
  /\ toFetch' = toFetch \cup accepts \cup (Needed(x) \cap engine[x].new)
                  \cup {p \in Needed(x) : page[p] = "accepted"}
  /\ UNCHANGED <<mission, recent, queued, ideaVars, page, pageDoc, waited, orphaned, missionUsed>>
  /\ RunUnchanged

\* What the commit after Dispatch writes: a page that had no discovery item gets one, which
\* nobody accepts, and its signal names it.
WritePages(x) ==
  LET wrote == IF engine[x].pc = "dispatched" THEN Needed(x) ELSE {} IN
  page' = [p \in Page |-> IF p \in engine[x].accepts THEN "accepted"
                          ELSE IF p \in wrote /\ page[p] = "unknown" THEN "discovered" ELSE page[p]]

CommitGrounding(x) ==
  /\ engine[x].pc = "dispatched" /\ ~Broken(x)
  /\ engine' = [engine EXCEPT ![x].pc = "grounded", ![x].accepts = {}, ![x].new = @ \ Needed(x)]
  /\ WritePages(x)
  /\ mission' = "grounding" /\ recent' = TRUE /\ waited' = FALSE
  /\ UNCHANGED <<queued, ideaVars, pageDoc, toFetch, orphaned, missionUsed>> /\ RunUnchanged

SendFinalize(x) ==
  /\ Moves(x, "grounded", "over")
  /\ checks' = checks \cup {1}
  /\ UNCHANGED <<mission, recent, asked, queued, ideaVars, pageVars, finalizer, waited, opened,
                 dropped, orphaned, missionUsed>>

\* An exception of a stage: FAILED is committed, with what the stage had written.
RunFails(x) ==
  /\ engine[x].pc \in Working \ {"read", "grounded"}
  /\ engine[x].pc = "dispatched" => ~Broken(x)
  /\ SomethingFails
  /\ engine' = [engine EXCEPT ![x].pc = "over", ![x].accepts = {},
                  ![x].new = IF engine[x].pc = "dispatched" THEN @ \ Needed(x) ELSE @]
  /\ WritePages(x)
  /\ mission' = "failed" /\ recent' = TRUE
  /\ UNCHANGED <<queued, ideaVars, pageDoc, toFetch, waited, orphaned>> /\ RunUnchanged

\* The session is of no more use, and not even FAILED is written.
RunBreaks(x) ==
  /\ Broken(x)
  /\ engine' = [engine EXCEPT ![x].pc = "over", ![x].accepts = {}]
  /\ UNCHANGED <<mission, recent, queued, ideaVars, pageVars, waited, missionUsed>>
  /\ RunUnchanged
  /\ MessageGone

\* The worker dies: what is not committed is gone, the message comes back or does not.
RunDies(x, back) ==
  /\ engine[x].pc \in Working
  /\ WorkerDies
  /\ engine' = [engine EXCEPT ![x].pc = "over", ![x].accepts = {}]
  /\ UNCHANGED <<mission, recent, ideaVars, pageVars, waited>> /\ RunUnchanged
  /\ IF back THEN queued' = queued + 1 /\ UNCHANGED orphaned
     ELSE UNCHANGED queued /\ MessageGone

-----------------------------------------------------------------------------
(* Pages: what the research tasks do with them, and others who use them.    *)

PageUnchanged ==
  UNCHANGED <<mission, recent, asked, queued, engine, ideaVars, checks, finalizer, waited,
              dropped, orphaned>>

\* The fetch takes the page if its acceptance is committed, and is otherwise gone.
FetchPage(p, ok) ==
  /\ p \in toFetch
  /\ toFetch' = toFetch \ {p}
  /\ ok \/ (page[p] = "accepted" /\ SomethingFails)
  /\ ok => UNCHANGED missionUsed
  /\ page' = [page EXCEPT ![p] = IF @ # "accepted" THEN @
                                 ELSE IF ok THEN "fetched" ELSE "fetch_failed"]
  /\ UNCHANGED <<pageDoc, opened>> /\ PageUnchanged

NormalisePage(p, ok) ==
  /\ page[p] = "fetched" /\ pageDoc[p] = "none"
  /\ pageDoc' = [pageDoc EXCEPT ![p] = IF ok THEN "normalised" ELSE "failed"]
  /\ IF ok THEN UNCHANGED missionUsed ELSE SomethingFails
  /\ UNCHANGED <<page, toFetch, opened>> /\ PageUnchanged

\* The document gets its duplicate decision.
JudgePage(p) ==
  /\ pageDoc[p] = "normalised"
  /\ pageDoc' = [pageDoc EXCEPT ![p] = "judged"]
  /\ UNCHANGED <<page, toFetch, opened, missionUsed>> /\ PageUnchanged

\* The intake promotes the document of a page, which the role of Web sources forbids.
IntakePromotes(p) ==
  /\ pageDoc[p] = "judged" /\ p \notin Roots \cup Web
  /\ opened' = opened \cup {[root |-> p, idea |-> Nothing]}
  /\ UNCHANGED <<pageVars, missionUsed>> /\ PageUnchanged

\* Two decisions of an operator, unless a run holds the row.
OperatorAccepts(p) ==
  /\ PageDecision
  /\ page[p] = "discovered" /\ \A x \in EngineRun : p \notin engine[x].accepts
  /\ page' = [page EXCEPT ![p] = "accepted"]
  /\ UNCHANGED <<pageDoc, toFetch, opened>> /\ PageUnchanged

OperatorFetches(p) ==
  /\ PageDecision
  /\ page[p] = "accepted"
  /\ toFetch' = toFetch \cup {p}
  /\ UNCHANGED <<page, pageDoc, opened>> /\ PageUnchanged

-----------------------------------------------------------------------------
(* Finalize: read, commit, send.                                            *)

CheckUnchanged == UNCHANGED <<asked, queued, engine, signals, pageVars, waited>>

Resting ==
  [pc |-> "idle", check |-> 0, plan |-> [i \in {} |-> Nothing], docs |-> {}, closes |-> FALSE,
   promoted |-> FALSE]

PromotableIdeas == Best(strong, MaxPromoted)

\* The pages whose items the signals of its run name, if the rows are still there.
Cited(i) == UNION {Pages(i) \ engine[x].new : x \in {y \in signals : i \in engine[y].own}}

GroundedDocuments(i) == {p \in Cited(i) : Document(p)}

FetchPending(i) == \E p \in Cited(i) : page[p] \in {"discovered", "accepted", "fetched"}

\* Mutation: the first document with a decision, or none.
FirstOnly(i, taken) ==
  LET judged == {n \in DOMAIN Cites[i] :
                   Cites[i][n] \in Cited(i) /\ pageDoc[Cites[i][n]] = "judged"} IN
  IF \E n \in judged : Cites[i][n] \notin taken /\ \A m \in judged : n <= m
  THEN Cites[i][CHOOSE n \in judged : \A m \in judged : n <= m] ELSE Nothing

\* The first document with a duplicate decision that roots no opportunity.
Root(i, taken) ==
  LET free == {n \in DOMAIN Cites[i] :
                  Cites[i][n] \in Cited(i) \ taken /\ pageDoc[Cites[i][n]] = "judged"}
  IN IF free = {} THEN Nothing ELSE Cites[i][CHOOSE n \in free : \A m \in free : n <= m]

\* Promotable ideas get their roots one after the other, the best first.
Plans ==
  LET grounded == {i \in PromotableIdeas : ~HasOpportunity(i) /\ GroundedDocuments(i) # {}} IN
  {plan \in [grounded -> Page \cup {Nothing}] :
     \A i \in grounded :
       plan[i] = Root(i, Roots \cup {plan[j] : j \in {k \in grounded : k < i}})}

\* Nothing is pending, or the wait is over.
Closes(pending) == ~pending \/ waited

StartCheck(f, k) ==
  /\ k \in checks /\ finalizer[f].pc = "idle" /\ mission \in Open
  /\ checks' = checks \ {k}
  /\ \E plan \in Plans :
       finalizer' = [finalizer EXCEPT ![f] =
         [pc |-> "promoting", check |-> k, plan |-> plan,
          docs |-> UNION {{[idea |-> i, page |-> p, judged |-> pageDoc[p] = "judged"] :
                              p \in GroundedDocuments(i)} :
                            i \in {j \in DOMAIN plan : plan[j] = Nothing}},
          closes |-> Closes(\E i \in PromotableIdeas :
                              ~HasOpportunity(i) /\ i \notin DOMAIN plan /\ FetchPending(i)),
          promoted |-> \E i \in PromotableIdeas :
                         HasOpportunity(i) \/ (i \in DOMAIN plan /\ plan[i] # Nothing)]]
  /\ UNCHANGED <<mission, recent, rows, strong, opened, dropped, orphaned, missionUsed>>
  /\ CheckUnchanged

\* The mission has come to an end already.
SkipCheck(k) ==
  /\ k \in checks /\ mission \notin Open
  /\ checks' = checks \ {k}
  /\ UNCHANGED <<mission, recent, rows, strong, finalizer, opened, dropped, orphaned, missionUsed>>
  /\ CheckUnchanged

\* A root has been taken since, or a rerun has deleted the row of an idea.
Outrun(plan) ==
  \/ ~(DOMAIN plan \subseteq rows)
  \/ \E i \in DOMAIN plan : plan[i] \in Roots

Outcome(promoted) == IF promoted THEN "completed" ELSE "needs_more_research"

\* Everything in one transaction: opportunities, ideas without a free document, the end.
CommitCheck(f) ==
  LET c == finalizer[f]
      without == {i \in DOMAIN c.plan : c.plan[i] = Nothing} IN
  /\ c.pc = "promoting" /\ ~Outrun(c.plan)
  /\ opened' = opened \cup {[root |-> c.plan[i], idea |-> i] : i \in DOMAIN c.plan \ without}
  /\ strong' = strong \ without
  /\ dropped' = dropped \cup c.docs
  /\ mission' = IF c.closes THEN Outcome(c.promoted) ELSE mission
  /\ recent' = (recent \/ c.closes \/ without # DOMAIN c.plan)
  /\ finalizer' = [finalizer EXCEPT ![f].pc = "committed"]
  /\ UNCHANGED <<rows, checks, orphaned, missionUsed>> /\ CheckUnchanged

\* The insert or the update fails: the task fails, and the chain with it.
CheckFails(f) ==
  /\ finalizer[f].pc = "promoting" /\ Outrun(finalizer[f].plan)
  /\ finalizer' = [finalizer EXCEPT ![f] = Resting]
  /\ UNCHANGED <<mission, recent, rows, strong, checks, opened, dropped, missionUsed>>
  /\ CheckUnchanged
  /\ MessageGone

\* After the commit: the next check, or after the last one the end.
SendNext(f) ==
  LET c == finalizer[f]
      givesUp == ~c.closes /\ c.check >= MaxChecks /\ mission = "grounding" IN
  /\ c.pc = "committed"
  /\ finalizer' = [finalizer EXCEPT ![f] = Resting]
  /\ checks' = IF ~c.closes /\ c.check < MaxChecks THEN checks \cup {c.check + 1} ELSE checks
  /\ mission' = IF givesUp THEN Outcome(c.promoted) ELSE mission
  /\ recent' = (recent \/ givesUp)
  /\ UNCHANGED <<rows, strong, opened, dropped, orphaned, missionUsed>>
  /\ CheckUnchanged

CheckDies(f, back) ==
  /\ finalizer[f].pc # "idle"
  /\ WorkerDies
  /\ finalizer' = [finalizer EXCEPT ![f] = Resting]
  /\ UNCHANGED <<mission, recent, rows, strong, opened, dropped>> /\ CheckUnchanged
  /\ IF back THEN checks' = checks \cup {finalizer[f].check} /\ UNCHANGED orphaned
     ELSE UNCHANGED checks /\ MessageGone

-----------------------------------------------------------------------------
(* Time.                                                                    *)

TimeUnchanged ==
  UNCHANGED <<mission, asked, queued, engine, ideaVars, pageVars, checks, finalizer, opened,
              dropped, orphaned, missionUsed>>

\* 20 minutes without an entry: no stage takes so long.
LogAges ==
  /\ recent /\ \A x \in EngineRun : engine[x].pc \notin Working
  /\ recent' = FALSE
  /\ UNCHANGED waited /\ TimeUnchanged

\* 15 minutes of grounding.
WaitEnds ==
  /\ mission = "grounding" /\ ~waited
  /\ waited' = TRUE
  /\ UNCHANGED recent /\ TimeUnchanged

-----------------------------------------------------------------------------
\* A new mission: QUEUED is committed with it.
NoRun == [pc |-> "unused", own |-> {}, known |-> {}, new |-> {}, accepts |-> {}]

MissionInit(pages, docs, used) ==
  /\ mission = "queued" /\ asked = TRUE /\ queued = 0 /\ recent = FALSE
  /\ engine = [x \in EngineRun |-> NoRun]
  /\ rows = {} /\ strong = {} /\ signals = {}
  /\ page = pages /\ pageDoc = docs /\ toFetch = {}
  /\ checks = {} /\ finalizer = [f \in Finalizer |-> Resting] /\ waited = FALSE
  /\ opened = {} /\ dropped = {} /\ orphaned = FALSE
  /\ missionUsed = used

RunMessage == DropRun \/ \E x \in EngineRun : StartRun(x)

RunWork(x) ==
  BeginRun(x) \/ Search(x) \/ Extract(x) \/ Evaluate(x) \/ Dispatch(x) \/ CommitGrounding(x)
    \/ SendFinalize(x) \/ RunBreaks(x)

CheckMessage == \E k \in 1..MaxChecks : SkipCheck(k) \/ \E f \in Finalizer : StartCheck(f, k)

CheckWork(f) == CommitCheck(f) \/ CheckFails(f) \/ SendNext(f)

PageWork(p) == FetchPage(p, TRUE) \/ NormalisePage(p, TRUE) \/ JudgePage(p) \/ IntakePromotes(p)

MissionFaults ==
  \/ \E x \in EngineRun : RunFails(x) \/ \E back \in BOOLEAN : RunDies(x, back)
  \/ \E f \in Finalizer, back \in BOOLEAN : CheckDies(f, back)
  \/ \E p \in Page : FetchPage(p, FALSE) \/ NormalisePage(p, FALSE)

MissionNext ==
  \/ RequestRun \/ \E sent \in BOOLEAN : EnqueueRun(sent)
  \/ RunMessage \/ CheckMessage \/ MissionFaults \/ LogAges \/ WaitEnds
  \/ \E x \in EngineRun : RunWork(x)
  \/ \E f \in Finalizer : CheckWork(f)
  \/ \E p \in Page : PageWork(p) \/ OperatorAccepts(p) \/ OperatorFetches(p)

-----------------------------------------------------------------------------
(* Properties.                                                              *)

\* The variables have their types.
MissionTypeOK ==
  /\ mission \in MissionStatuses /\ {recent, asked, waited, orphaned} \subseteq BOOLEAN
  /\ queued \in Nat
  /\ engine \in [EngineRun -> [pc : Working \cup {"unused", "over"}, own : SUBSET Idea,
                               known : SUBSET Page, new : SUBSET Page, accepts : SUBSET Page]]
  /\ strong \subseteq rows /\ rows \subseteq Idea /\ signals \subseteq EngineRun
  /\ page \in [Page -> {"unknown", "discovered", "accepted", "fetched", "fetch_failed"}]
  /\ pageDoc \in [Page -> {"none", "normalised", "judged", "failed"}]
  /\ toFetch \subseteq Page /\ checks \subseteq 1..MaxChecks
  /\ \A f \in Finalizer : finalizer[f].pc \in {"idle", "promoting", "committed"}
  /\ opened \subseteq [root : Page, idea : Idea \cup {Nothing}]
  /\ dropped \subseteq [idea : Idea, page : Page, judged : BOOLEAN]

\* An idea is taken out because its documents root other opportunities, as its rationale
\* says, except for documents that had no duplicate decision when finalize looked: one that
\* looks between the document and its decision takes the idea out for good (engine.py:964).
DroppedForCause ==
  \A d \in dropped : d.judged => d.page \in Roots

\* A mission that runs or waits for pages comes to an end, unless its last message is gone:
\* with a worker, with a check that failed, or dropped because the log was younger than 20
\* minutes when it came back; then nobody can run it again (mission_tasks.py:89).
MissionSettles == mission \in Open ~> (mission \notin Open \/ orphaned)
=============================================================================

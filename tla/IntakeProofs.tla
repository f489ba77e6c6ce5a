---------------------------- MODULE IntakeProofs ----------------------------
(***************************************************************************)
(* What holds of Intake for any runs, any finite set of leads, any stories *)
(* and any bounds.                                                         *)
(***************************************************************************)
EXTENDS Intake, FiniteSetTheorems, TLAPS

Stages == {"discovery", "prefilter", "fetch"}
LeadStates ==
  {"elsewhere", "unknown", "discovered", "accepted", "rejected", "fetched", "fetch_failed"}

\* Any state an instance may start from: at most one run, leads without a page, any settings.
IntakeInit ==
  \E runs \in SUBSET Run, leads \in [Lead -> LeadStates \ {"fetched"}],
     e \in [active : BOOLEAN, paused : BOOLEAN, autopilot : BOOLEAN, yields : BOOLEAN],
     u \in [failures : Nat, crashes : Nat, commands : Nat, days : Nat, overlaps : Nat],
     again \in BOOLEAN, sent \in 0..DailyBudget :
    /\ \A r, s \in runs : r = s
    /\ InitWith(runs, leads, e, u, again, sent)

IntakeSpec == IntakeInit /\ [][IntakeNext]_intakeVars

-----------------------------------------------------------------------------
(* Helpers.                                                                 *)

LEMMA LeastBounds ==
  ASSUME NEW a \in Int, NEW b \in Int
  PROVE  Least(a, b) \in {a, b} /\ Least(a, b) <= a /\ Least(a, b) <= b
BY DEF Least

LEMMA LeadsCounted ==
  ASSUME NEW F \in SUBSET Lead
  PROVE  IsFiniteSet(F) /\ Cardinality(F) \in Nat
BY IntakeLeads, FS_Subset, FS_CardinalityType

\* A chunk is a subset that is no larger than asked for.
LEMMA ChunkBounds ==
  ASSUME NEW F \in SUBSET Lead, NEW n \in Int, NEW B \in Chunk(F, n)
  PROVE  B \subseteq F /\ Cardinality(B) <= n
BY LeadsCounted, LeastBounds DEF Chunk

\* The actions, once: what a step of the intake can be.
LEMMA IntakeSteps ==
  ASSUME IntakeNext
  PROVE  \/ Starts \/ Operator \/ NewDay
         \/ \E r \in Run : StepMessage(r) \/ StepWork(r) \/ StepFails(r) \/ StepDies(r)
                             \/ Recover(r) \/ LockExpires(r) \/ Age(r)
         \/ \E l \in Lead :
              FetchWork(l) \/ \E n \in 0..MaxFetchRetries :
                                 FetchSucceeds(l, n, FALSE) \/ FetchDies(l, n)
         \/ \E d \in Doc :
              DocumentWork(d) \/ Normalise(d, FALSE) \/ NormaliseFails(d) \/ Promote(d, FALSE)
BY DEF IntakeNext, Faults

-----------------------------------------------------------------------------
(* One live run: only an insert, a command, a commit and a raise write the  *)
(* status of a run, one run at a time, and only over an index that admits   *)
(* it or from live to live.                                                 *)

AtMostOneLive ==
  /\ status = [r \in Run |-> status[r]]
  /\ \A r, s \in LiveRuns : r = s

\* What may happen to the status of the runs.
Moves(r, to) ==
  /\ status' = [status EXCEPT ![r] = to]
  /\ to \in Live => status[r] \in Live \/ IndexAdmits(r)

LEMMA StatusMoves ==
  ASSUME [IntakeNext]_intakeVars
  PROVE  UNCHANGED status \/ \E r \in Run : \E to : Moves(r, to)
<1>1. CASE UNCHANGED intakeVars
  BY <1>1 DEF intakeVars, runVars
<1>2. ASSUME Starts
      PROVE  UNCHANGED status \/ \E r \in Run : \E to : Moves(r, to)
  BY <1>2 DEF Starts, BeginStart, StartRejected, InsertRun, runVars, Moves
<1>3. ASSUME Operator
      PROVE  UNCHANGED status \/ \E r \in Run : \E to : Moves(r, to)
  <2>1. CASE SetEnvironment
    BY <2>1 DEF SetEnvironment, runVars
  <2>2. ASSUME NEW r \in Run, NEW sent \in BOOLEAN, PauseRun(r) \/ StopRun(r) \/ ResumeRun(r, sent)
        PROVE  \E to : Moves(r, to)
    <3>1. CASE PauseRun(r)
      BY <3>1 DEF PauseRun, Control, Moves, Live
    <3>2. CASE StopRun(r)
      BY <3>2 DEF StopRun, Control, Moves, Live
    <3>3. CASE ResumeRun(r, sent)
      BY <3>3 DEF ResumeRun, Control, Moves, Live
    <3> QED
      BY <2>2, <3>1, <3>2, <3>3
  <2> QED
    BY <1>3, <2>1, <2>2 DEF Operator
<1>4. ASSUME NewDay
      PROVE  UNCHANGED status
  BY <1>4 DEF NewDay
<1>5. ASSUME NEW r \in Run, StepMessage(r) \/ Recover(r) \/ LockExpires(r) \/ Age(r) \/ StepDies(r)
      PROVE  UNCHANGED status
  BY <1>5 DEF StepMessage, LoadRun, DropStep, Recover, LockExpires, Age, StepDies, runVars
<1>6. ASSUME NEW r \in Run, StepFails(r) \/ StepRefused(r)
      PROVE  UNCHANGED status \/ Moves(r, "failed")
  BY <1>6 DEF StepFails, StepRefused, Raise, Moves, Live
<1>7. ASSUME NEW r \in Run, CommitStep(r)
      PROVE  UNCHANGED status \/ Moves(r, step[r].out.to)
  BY <1>7 DEF CommitStep, Moves
<1>8. ASSUME NEW r \in Run, StepWork(r), ~StepRefused(r), ~CommitStep(r)
      PROVE  UNCHANGED status
  BY <1>8 DEF StepWork, Halt, DecideOperationalPause, DecideDiscovery, DecidePrefilter, DecideWait,
      DecideFetch, DecidePromote, DecideAwaitPromotions, DecideComplete, Decides, runVars
<1>9. ASSUME NEW l \in Lead,
             FetchWork(l) \/ \E n \in 0..MaxFetchRetries : FetchSucceeds(l, n, FALSE) \/ FetchDies(l, n)
      PROVE  UNCHANGED status
  BY <1>9 DEF FetchWork, SkipFetch, StartFetch, FetchSucceeds, FetchFails, FetchDies,
      PipelineUnchanged, runVars
<1>10. ASSUME NEW d \in Doc,
              DocumentWork(d) \/ Normalise(d, FALSE) \/ NormaliseFails(d) \/ Promote(d, FALSE)
       PROVE  UNCHANGED status
  BY <1>10 DEF DocumentWork, Normalise, NormaliseFails, ReadCandidates, RecordDecision, Promote,
      PipelineUnchanged, runVars
<1>11. ASSUME NEW r \in Run,
              StepMessage(r) \/ StepWork(r) \/ StepFails(r) \/ StepDies(r) \/ Recover(r)
                \/ LockExpires(r) \/ Age(r)
       PROVE  UNCHANGED status \/ \E to : Moves(r, to)
  <2>1. CASE StepFails(r) \/ StepRefused(r)
    BY <2>1, <1>6
  <2>2. CASE CommitStep(r)
    BY <2>2, <1>7
  <2> QED
    BY <1>11, <1>5, <1>8, <2>1, <2>2
<1>12. ASSUME IntakeNext
       PROVE  UNCHANGED status \/ \E r \in Run : \E to : Moves(r, to)
  BY <1>12, <1>2, <1>3, <1>4, <1>9, <1>10, <1>11, IntakeSteps
<1> QED
  BY <1>1, <1>12

LEMMA MovesKeepOneLive ==
  ASSUME AtMostOneLive, [IntakeNext]_intakeVars
  PROVE  AtMostOneLive'
<1>1. CASE UNCHANGED status
  BY <1>1 DEF AtMostOneLive, LiveRuns
<1>2. ASSUME NEW r \in Run, NEW to, Moves(r, to)
      PROVE  AtMostOneLive'
  BY <1>2 DEF AtMostOneLive, Moves, IndexAdmits, LiveRuns
<1> QED
  BY <1>1, <1>2, StatusMoves

LEMMA OneLiveCounted ==
  ASSUME AtMostOneLive
  PROVE  OneLiveRun
<1>1. CASE LiveRuns = {}
  BY <1>1, FS_EmptySet DEF OneLiveRun
<1>2. ASSUME NEW r \in LiveRuns
      PROVE  OneLiveRun
  <2>1. LiveRuns = {r}
    BY <1>2 DEF AtMostOneLive
  <2> QED
    BY <2>1, FS_Singleton DEF OneLiveRun
<1> QED
  BY <1>1, <1>2

LEMMA InitOneLive == IntakeInit => AtMostOneLive
BY DEF IntakeInit, InitWith, AtMostOneLive, LiveRuns, Live

\* A source never has two live runs, whatever starts, steps, commands and crashes there are
\* and in whatever order (intake/models.py:43).
THEOREM OneLiveRunAlways == IntakeSpec => []OneLiveRun
<1>1. AtMostOneLive /\ [IntakeNext]_intakeVars => AtMostOneLive'
  BY MovesKeepOneLive
<1>2. AtMostOneLive => OneLiveRun
  BY OneLiveCounted
<1> QED
  BY InitOneLive, <1>1, <1>2, PTL DEF IntakeSpec

-----------------------------------------------------------------------------
(* A fetched lead stays fetched.  Not inductive by itself: a fetch that is   *)
(* under way when another one succeeds would take the lead back.  Outside    *)
(* the overlaps there is one HTTP call at a time, and none once there is a   *)
(* snapshot.                                                                 *)

FetchTypeOK ==
  /\ lead = [l \in Lead |-> lead[l]]
  /\ snaps \in [Lead -> 0..MaxSnapshots]
  /\ http \in [Lead -> [0..MaxFetchRetries -> Nat]]

OneFetchAtATime ==
  \A l \in Lead \ overlap : \A n \in 0..MaxFetchRetries :
    http[l][n] > 0 => /\ http[l][n] = 1 /\ snaps[l] = 0
                      /\ \A m \in 0..MaxFetchRetries : http[l][m] > 0 => m = n

FetchInv == FetchTypeOK /\ OneFetchAtATime /\ FetchedStays

FetchStep(l, n) ==
  StartFetch(l, n) \/ FetchFails(l, n) \/ FetchDies(l, n)
    \/ \E sent \in BOOLEAN : FetchSucceeds(l, n, sent)

\* One call more or less for one attempt at a lead.
LEMMA CallsChange ==
  ASSUME FetchTypeOK, NEW l \in Lead, NEW n \in 0..MaxFetchRetries, NEW k \in Nat,
         http' = [http EXCEPT ![l][n] = k]
  PROVE  /\ http' \in [Lead -> [0..MaxFetchRetries -> Nat]]
         /\ \A e \in Lead, m \in 0..MaxFetchRetries :
              http'[e][m] = IF e = l /\ m = n THEN k ELSE http[e][m]
<1>1. http \in [Lead -> [0..MaxFetchRetries -> Nat]]
  BY DEF FetchTypeOK
<1>2. http' = [http EXCEPT ![l] = [http[l] EXCEPT ![n] = k]]
  OBVIOUS
<1>3. [http[l] EXCEPT ![n] = k] \in [0..MaxFetchRetries -> Nat]
  BY <1>1
<1>4. http' \in [Lead -> [0..MaxFetchRetries -> Nat]]
  BY <1>1, <1>2, <1>3
<1>5. \A e \in Lead : http'[e] = IF e = l THEN [http[l] EXCEPT ![n] = k] ELSE http[e]
  BY <1>1, <1>2
<1> QED
  BY <1>1, <1>4, <1>5

LEMMA FetchMoves ==
  ASSUME [IntakeNext]_intakeVars
  PROVE  \/ UNCHANGED <<lead, snaps, http, overlap>>
         \/ \E r \in Run : CommitStep(r)
         \/ \E l \in Lead : \E n \in 0..MaxFetchRetries : FetchStep(l, n)
<1> DEFINE Kept == UNCHANGED <<lead, snaps, http, overlap>>
<1>1. CASE UNCHANGED intakeVars
  BY <1>1 DEF intakeVars, fetchVars
<1>2. ASSUME Starts \/ Operator \/ NewDay
      PROVE  Kept
  BY <1>2 DEF Starts, BeginStart, StartRejected, InsertRun, Operator, SetEnvironment, PauseRun,
      StopRun, ResumeRun, Control, NewDay, fetchVars
<1>3. ASSUME NEW r \in Run,
             StepMessage(r) \/ StepFails(r) \/ StepDies(r) \/ Recover(r) \/ LockExpires(r) \/ Age(r)
      PROVE  Kept
  BY <1>3 DEF StepMessage, LoadRun, DropStep, StepFails, StepDies, Raise, Recover, LockExpires, Age,
      fetchVars
<1>4. ASSUME NEW r \in Run, StepWork(r), ~CommitStep(r)
      PROVE  Kept
  BY <1>4 DEF StepWork, Halt, DecideOperationalPause, DecideDiscovery, DecidePrefilter, DecideWait,
      DecideFetch, DecidePromote, DecideAwaitPromotions, DecideComplete, Decides, StepRefused, Raise,
      fetchVars
<1>5. ASSUME NEW l \in Lead,
             FetchWork(l) \/ \E n \in 0..MaxFetchRetries : FetchSucceeds(l, n, FALSE) \/ FetchDies(l, n)
      PROVE  Kept \/ \E n \in 0..MaxFetchRetries : FetchStep(l, n)
  BY <1>5 DEF FetchWork, SkipFetch, FetchStep
<1>6. ASSUME NEW d \in Doc,
             DocumentWork(d) \/ Normalise(d, FALSE) \/ NormaliseFails(d) \/ Promote(d, FALSE)
      PROVE  Kept
  BY <1>6 DEF DocumentWork, Normalise, NormaliseFails, ReadCandidates, RecordDecision, Promote,
      fetchVars
<1>7. ASSUME IntakeNext
      PROVE  \/ Kept \/ \E r \in Run : CommitStep(r)
             \/ \E l \in Lead : \E n \in 0..MaxFetchRetries : FetchStep(l, n)
  BY <1>7, <1>2, <1>3, <1>4, <1>5, <1>6, IntakeSteps
<1> QED
  BY <1>1, <1>7

LEMMA FetchStepsKeepFetched ==
  ASSUME FetchInv, NEW l \in Lead, NEW n \in 0..MaxFetchRetries, FetchStep(l, n)
  PROVE  FetchInv'
<1>0. FetchTypeOK /\ OneFetchAtATime /\ FetchedStays /\ http[l][n] \in Nat
  BY DEF FetchInv, FetchTypeOK
<1>1. CASE StartFetch(l, n)
  <2>1. http[l][n] + 1 \in Nat /\ http' = [http EXCEPT ![l][n] = http[l][n] + 1]
    BY <1>0, <1>1 DEF StartFetch
  <2>2. /\ lead[l] = "accepted" /\ UNCHANGED <<lead, snaps>>
        /\ l \in overlap' \/ \A m \in 0..MaxFetchRetries : ~(http[l][m] > 0)
        /\ overlap \subseteq overlap'
    BY <1>1 DEF StartFetch, MayFetch, Flying
  <2>3. FetchTypeOK'
    BY <1>0, <2>1, <2>2, CallsChange DEF FetchTypeOK
  <2>4. \A e \in Lead \ overlap' : e = l => snaps[e] = 0 /\ http[l][n] = 0
    BY <1>0, <2>2 DEF FetchTypeOK, FetchedStays
  <2>5. OneFetchAtATime'
    BY <1>0, <2>1, <2>2, <2>4, CallsChange DEF OneFetchAtATime
  <2> QED
    BY <1>0, <2>2, <2>3, <2>5 DEF FetchInv, FetchedStays
<1>2. ASSUME ~StartFetch(l, n)
      PROVE  /\ http[l][n] > 0 /\ http[l][n] - 1 \in Nat
             /\ http' = [http EXCEPT ![l][n] = http[l][n] - 1]
             /\ overlap' = overlap
  BY <1>0, <1>2 DEF FetchStep, FetchFails, FetchDies, FetchSucceeds
\* Whatever a call that ends does to the snapshots, outside the overlaps it was the only one.
<1>3. ASSUME ~StartFetch(l, n), \A e \in Lead : e # l => snaps'[e] = snaps[e]
      PROVE  OneFetchAtATime'
  <2>1. \A e \in Lead, m \in 0..MaxFetchRetries :
          http'[e][m] = IF e = l /\ m = n THEN http[l][n] - 1 ELSE http[e][m]
    BY <1>0, <1>2, <1>3, CallsChange
  <2>2. \A m \in 0..MaxFetchRetries : l \notin overlap => ~(http'[l][m] > 0)
    BY <1>0, <1>2, <1>3, <2>1 DEF OneFetchAtATime
  <2> QED
    BY <1>0, <1>2, <1>3, <2>1, <2>2 DEF OneFetchAtATime
<1>4. l \notin overlap /\ ~StartFetch(l, n) => snaps[l] = 0
  BY <1>0, <1>2 DEF OneFetchAtATime
<1>5. ASSUME NEW sent \in BOOLEAN, FetchSucceeds(l, n, sent), ~StartFetch(l, n)
      PROVE  FetchInv'
  <2> DEFINE k == Least(snaps[l] + 1, MaxSnapshots)
  <2>1. k \in 0..MaxSnapshots
    <3>1. snaps[l] \in Nat /\ MaxSnapshots \in Nat /\ MaxSnapshots > 0
      BY <1>0, IntakeBounds DEF FetchTypeOK
    <3> QED
      BY <3>1 DEF Least
  <2>2. lead' = [lead EXCEPT ![l] = "fetched"] /\ snaps' = [snaps EXCEPT ![l] = k]
    BY <1>5 DEF FetchSucceeds, Attempted
  <2>3. FetchTypeOK'
    BY <1>0, <1>2, <1>5, <2>1, <2>2, CallsChange DEF FetchTypeOK
  <2>4. FetchedStays'
    BY <1>0, <1>2, <1>5, <2>2 DEF FetchTypeOK, FetchedStays
  <2>5. \A e \in Lead : e # l => snaps'[e] = snaps[e]
    BY <1>0, <2>2 DEF FetchTypeOK
  <2> QED
    BY <1>3, <1>5, <2>3, <2>4, <2>5 DEF FetchInv
<1>6. CASE FetchFails(l, n) /\ ~StartFetch(l, n)
  <2>1. PICK state : lead' = [lead EXCEPT ![l] = state] /\ snaps' = snaps
    BY <1>0, <1>6 DEF FetchFails, Attempted, FetchTypeOK
  <2>2. FetchTypeOK'
    <3>1. lead' = [e \in Lead |-> lead'[e]]
      BY <1>0, <2>1 DEF FetchTypeOK
    <3>2. http' \in [Lead -> [0..MaxFetchRetries -> Nat]]
      BY <1>0, <1>2, <1>6, CallsChange
    <3> QED
      BY <1>0, <2>1, <3>1, <3>2 DEF FetchTypeOK
  <2>3. FetchedStays'
    BY <1>0, <1>2, <1>4, <1>6, <2>1 DEF FetchTypeOK, FetchedStays
  <2> QED
    BY <1>3, <1>6, <2>1, <2>2, <2>3 DEF FetchInv
<1>7. CASE FetchDies(l, n) /\ ~StartFetch(l, n)
  <2>1. UNCHANGED <<lead, snaps>>
    BY <1>7 DEF FetchDies
  <2>2. FetchTypeOK' /\ FetchedStays'
    BY <1>0, <1>2, <1>7, <2>1, CallsChange DEF FetchTypeOK, FetchedStays
  <2> QED
    BY <1>3, <1>7, <2>1, <2>2 DEF FetchInv
<1> QED
  BY <1>1, <1>5, <1>6, <1>7 DEF FetchStep

LEMMA CommitsKeepFetched ==
  ASSUME FetchInv, NEW r \in Run, CommitStep(r)
  PROVE  FetchInv'
<1> DEFINE o == step[r].out
<1>1. /\ lead' = LeadsWith(o) /\ snaps' = snaps /\ http' = http
      /\ overlap' = overlap \cup {l \in DOMAIN o.leads : snaps[l] > 0}
  BY DEF CommitStep
<1>2. FetchTypeOK'
  BY <1>1 DEF FetchInv, FetchTypeOK, LeadsWith
<1>3. OneFetchAtATime'
  BY <1>1 DEF FetchInv, OneFetchAtATime
<1>4. FetchedStays'
  BY <1>1 DEF FetchInv, FetchTypeOK, FetchedStays, LeadsWith
<1> QED
  BY <1>2, <1>3, <1>4 DEF FetchInv

LEMMA InitFetched == IntakeInit => FetchInv
BY IntakeBounds DEF IntakeInit, InitWith, FetchInv, FetchTypeOK, OneFetchAtATime, FetchedStays

\* A redelivered or repeated message never takes a fetched lead back: that needs two
\* fetches that overlap or a late step (worker/research_tasks.py:240).
THEOREM FetchedAlwaysStays == IntakeSpec => []FetchedStays
<1>1. FetchInv /\ [IntakeNext]_intakeVars => FetchInv'
  <2> SUFFICES ASSUME FetchInv, [IntakeNext]_intakeVars
               PROVE  FetchInv'
    OBVIOUS
  <2>1. CASE UNCHANGED <<lead, snaps, http, overlap>>
    BY <2>1 DEF FetchInv, FetchTypeOK, OneFetchAtATime, FetchedStays
  <2> QED
    BY <2>1, FetchMoves, FetchStepsKeepFetched, CommitsKeepFetched
<1>2. FetchInv => FetchedStays
  BY DEF FetchInv
<1> QED
  BY InitFetched, <1>1, <1>2, PTL DEF IntakeSpec

-----------------------------------------------------------------------------
(* Types.  A commit writes what its step has decided, so the decisions that *)
(* wait for their commit need types, too.                                   *)

Retries == 0..MaxStepRetries

OutcomeOK(o) ==
  /\ o.to \in {"paused", "completed", Nil}
  /\ o.stage \in Stages \cup {Nil}
  /\ DOMAIN o.leads \subseteq Lead
  /\ \A l \in DOMAIN o.leads : o.leads[l] \in {"discovered", "accepted", "rejected"}
  /\ o.fetch \subseteq Lead /\ o.again \subseteq Lead /\ o.promote \subseteq Doc

RunsOK ==
  /\ status \in [Run -> Statuses] /\ stage \in [Run -> Stages]
  /\ dispatched \in [Run -> SUBSET Lead] /\ aged \in [Run -> SUBSET Lead]
  /\ promoted \in [Run -> SUBSET Doc] /\ promoAged \in [Run -> BOOLEAN]
  /\ today \in 0..DailyBudget /\ spent \in Nat

StepsOK ==
  /\ steps \in [Run -> SUBSET Retries]
  /\ step = [r \in Run |-> step[r]]
  /\ \A r \in Run :
       /\ step[r].pc \in {"idle", "loaded", "halting", "decided", "dead"}
       /\ step[r].retry \in Retries
       /\ step[r].pc = "decided" => OutcomeOK(step[r].out)

LeadsOK ==
  /\ lead \in [Lead -> LeadStates]
  /\ snaps \in [Lead -> 0..MaxSnapshots] /\ overlap \subseteq Lead
  /\ fetches \in [Lead -> SUBSET (0..MaxFetchRetries)]
  /\ http \in [Lead -> [0..MaxFetchRetries -> Nat]]
  /\ \A l \in Lead : lead[l] = "fetched" => snaps[l] > 0

DocsOK ==
  /\ doc \in [Doc -> {"absent", "normalised", "failed"}]
  /\ judging = [d \in Doc |-> judging[d]]
  /\ decision = [d \in Doc |-> decision[d]]
  /\ \A d \in Doc : decision[d].outcome \in Eligible \cup {"duplicate", Nil}
  /\ opportunity \subseteq Doc /\ toNormalise \subseteq Doc /\ toJudge \subseteq Doc
  /\ toPromote \subseteq Doc

TypeInv == RunsOK /\ StepsOK /\ LeadsOK /\ DocsOK

runTypes == <<status, stage, dispatched, aged, promoted, promoAged, today, spent>>
docTypes == <<doc, judging, decision, opportunity, toNormalise, toJudge, toPromote>>

LEMMA TypesKept ==
  /\ RunsOK /\ UNCHANGED runTypes => RunsOK'
  /\ StepsOK /\ UNCHANGED <<step, steps>> => StepsOK'
  /\ LeadsOK /\ UNCHANGED <<lead, snaps, overlap, fetches, http>> => LeadsOK'
  /\ DocsOK /\ UNCHANGED docTypes => DocsOK'
BY DEF RunsOK, StepsOK, LeadsOK, DocsOK, runTypes, docTypes

LEMMA BoundsAreNumbers ==
  /\ MaxSnapshots \in Nat /\ MaxSnapshots > 0 /\ DailyBudget \in Nat /\ MaxFetches \in Nat
  /\ FetchBatch \in Nat /\ MaxStepRetries \in Nat /\ MaxFetchRetries \in Nat
BY IntakeBounds

\* Starts, commands and the new day.
LEMMA LifecycleTyped ==
  ASSUME TypeInv, Starts \/ Operator \/ NewDay
  PROVE  TypeInv'
<1>0. RunsOK /\ StepsOK /\ LeadsOK /\ DocsOK /\ 0 \in Retries
  BY BoundsAreNumbers DEF TypeInv, Retries
<1>1. UNCHANGED <<lead, snaps, overlap, fetches, http>> /\ UNCHANGED docTypes
  BY DEF Starts, BeginStart, StartRejected, InsertRun, Operator, SetEnvironment, PauseRun,
     StopRun, ResumeRun, Control, NewDay, fetchVars, pipeVars, docTypes
<1>2. RunsOK'
  <2>1. CASE NewDay
    BY <1>0, <2>1, BoundsAreNumbers DEF NewDay, RunsOK
  <2>2. CASE Starts
    <3>1. UNCHANGED runTypes \/ \E r \in Run : status' = [status EXCEPT ![r] = "running"] /\
            UNCHANGED <<stage, dispatched, aged, promoted, promoAged, today, spent>>
      BY <2>2 DEF Starts, BeginStart, StartRejected, InsertRun, runVars, runTypes
    <3> QED
      BY <1>0, <3>1, TypesKept DEF RunsOK, Statuses, Live
  <2>3. CASE Operator
    <3>1. \/ UNCHANGED runTypes
          \/ \E r \in Run, to \in Statuses :
               status' = [status EXCEPT ![r] = to] /\
               UNCHANGED <<stage, dispatched, aged, promoted, promoAged, today, spent>>
      <4>1. "paused" \in Statuses /\ "stopped" \in Statuses /\ "running" \in Statuses
        BY DEF Statuses, Live
      <4> QED
        BY <2>3, <4>1 DEF Operator, SetEnvironment, PauseRun, StopRun, ResumeRun, Control,
           runVars, runTypes
    <3> QED
      BY <1>0, <3>1, TypesKept DEF RunsOK
  <2> QED
    BY <2>1, <2>2, <2>3
<1>3. StepsOK'
  <2>1. step' = step /\ (steps' = steps \/ \E r \in Run : steps' = [steps EXCEPT ![r] = @ \cup {0}])
    BY DEF Starts, BeginStart, StartRejected, InsertRun, Operator, SetEnvironment, PauseRun,
       StopRun, ResumeRun, Control, NewDay
  <2>2. steps' \in [Run -> SUBSET Retries]
    BY <1>0, <2>1 DEF StepsOK
  <2> QED
    BY <1>0, <2>1, <2>2 DEF StepsOK
<1> QED
  BY <1>0, <1>1, <1>2, <1>3, TypesKept DEF TypeInv

\* Whatever a step decides is something a commit can write.
LEMMA DecisionsTyped ==
  ASSUME TypeInv, NEW r \in Run, NEW o, Decides(r, o), OutcomeOK(o)
  PROVE  TypeInv'
<1>0. RunsOK /\ StepsOK /\ LeadsOK /\ DocsOK
  BY DEF TypeInv
<1>1. UNCHANGED <<lead, snaps, overlap, fetches, http>> /\ UNCHANGED docTypes
        /\ UNCHANGED runTypes
  BY DEF Decides, StepUnchanged, fetchVars, pipeVars, runVars, runTypes, docTypes
<1>2. StepsOK'
  BY <1>0 DEF Decides, Holding, StepsOK
<1> QED
  BY <1>0, <1>1, <1>2, TypesKept DEF TypeInv

LEMMA NoOutcomeTyped == OutcomeOK(NoOutcome)
BY DEF OutcomeOK, NoOutcome

\* A decision that sends no lead to fetch.
Quiet(o) == OutcomeOK(o) /\ o.fetch = {}

LEMMA OutcomesTyped ==
  ASSUME TypeInv, NEW r \in Run,
         \/ DecideOperationalPause(r) \/ DecideDiscovery(r) \/ DecidePrefilter(r)
         \/ DecideWait(r) \/ DecideFetch(r) \/ DecidePromote(r) \/ DecideAwaitPromotions(r)
         \/ DecideComplete(r)
  PROVE  \E o : Decides(r, o) /\ (Quiet(o) \/ (OutcomeOK(o) /\ DecideFetch(r)))
<1>0. RunsOK
  BY DEF TypeInv
<1>1. CASE DecideOperationalPause(r)
  <2>1. Quiet([NoOutcome EXCEPT !.to = "paused"])
    BY DEF NoOutcome, OutcomeOK, Quiet
  <2> QED
    BY <1>1, <2>1 DEF DecideOperationalPause
<1>2. CASE DecideDiscovery(r)
  <2>1. PICK F \in Entries :
          Decides(r, [NoOutcome EXCEPT !.leads = [l \in F |-> "discovered"],
                                       !.stage = "prefilter", !.next = TRUE])
    BY <1>2 DEF DecideDiscovery
  <2>2. Quiet([NoOutcome EXCEPT !.leads = [l \in F |-> "discovered"],
                                    !.stage = "prefilter", !.next = TRUE])
    BY DEF NoOutcome, OutcomeOK, Quiet, Entries, Stages
  <2> QED
    BY <2>1, <2>2
<1>3. CASE DecidePrefilter(r)
  <2>1. PICK B \in Chunk({l \in Lead : lead[l] = "discovered"}, PrefilterBatch) :
          Decides(r, [NoOutcome EXCEPT
            !.leads = [l \in B |-> classify_url(l)],
            !.stage = IF Cardinality(B) < PrefilterBatch THEN "fetch" ELSE Nil,
            !.next = TRUE])
    BY <1>3 DEF DecidePrefilter
  <2>2. B \subseteq Lead /\ \A l \in B : classify_url(l) \in {"accepted", "rejected"}
    BY DEF Chunk, classify_url
  <2>3. Quiet([NoOutcome EXCEPT
            !.leads = [l \in B |-> classify_url(l)],
            !.stage = IF Cardinality(B) < PrefilterBatch THEN "fetch" ELSE Nil,
            !.next = TRUE])
    BY <2>2 DEF NoOutcome, OutcomeOK, Quiet, Stages
  <2> QED
    BY <2>1, <2>3
<1>4. CASE DecideWait(r)
  <2>1. Stalled(r) \subseteq Lead
    BY <1>0 DEF Stalled, InFlight, RunsOK
  <2>2. Quiet([NoOutcome EXCEPT !.again = Stalled(r), !.next = TRUE])
    BY <2>1 DEF NoOutcome, OutcomeOK, Quiet
  <2> QED
    BY <1>4, <2>2 DEF DecideWait
<1>5. CASE DecideFetch(r)
  <2>1. PICK B \in SUBSET Lead : Decides(r, [NoOutcome EXCEPT !.fetch = B, !.next = TRUE])
    BY <1>5 DEF DecideFetch, Chunk, Candidates
  <2>2. OutcomeOK([NoOutcome EXCEPT !.fetch = B, !.next = TRUE])
    BY DEF NoOutcome, OutcomeOK
  <2> QED
    BY <1>5, <2>1, <2>2
<1>6. CASE DecidePromote(r)
  <2>1. PICK B \in SUBSET Doc : Decides(r, [NoOutcome EXCEPT !.promote = B, !.next = TRUE])
    BY <1>6 DEF DecidePromote, Chunk, Promotable
  <2>2. Quiet([NoOutcome EXCEPT !.promote = B, !.next = TRUE])
    BY DEF NoOutcome, OutcomeOK, Quiet
  <2> QED
    BY <2>1, <2>2
<1>7. CASE DecideAwaitPromotions(r)
  <2>1. Quiet([NoOutcome EXCEPT !.next = TRUE])
    BY DEF NoOutcome, OutcomeOK, Quiet
  <2> QED
    BY <1>7, <2>1 DEF DecideAwaitPromotions
<1>8. CASE DecideComplete(r)
  <2>1. Quiet([NoOutcome EXCEPT !.to = "completed"])
    BY DEF NoOutcome, OutcomeOK, Quiet
  <2> QED
    BY <1>8, <2>1 DEF DecideComplete
<1> QED
  BY <1>1, <1>2, <1>3, <1>4, <1>5, <1>6, <1>7, <1>8

LEMMA CommitTyped ==
  ASSUME TypeInv, NEW r \in Run, CommitStep(r)
  PROVE  TypeInv'
<1> DEFINE o == step[r].out
           n == Cardinality(o.fetch)
<1>0. RunsOK /\ StepsOK /\ LeadsOK /\ DocsOK /\ 0 \in Retries /\ 0 \in 0..MaxFetchRetries
  BY BoundsAreNumbers DEF TypeInv, Retries
<1>1. OutcomeOK(o) /\ step[r].retry \in Retries
  BY <1>0 DEF CommitStep, StepsOK
<1>2. n \in Nat /\ Cardinality(o.again) \in Nat
  BY <1>1, LeadsCounted DEF OutcomeOK
<1>3. RunsOK'
  <2>1. today' = Least(today + n + Cardinality(o.again), DailyBudget) /\ spent' = spent + n
    BY DEF CommitStep
  <2>2. today' \in 0..DailyBudget /\ spent' \in Nat
    BY <1>0, <1>2, <2>1, BoundsAreNumbers DEF RunsOK, Least
  <2>3. status' \in [Run -> Statuses] /\ stage' \in [Run -> Stages]
    BY <1>0, <1>1 DEF CommitStep, RunsOK, OutcomeOK, Statuses, Live
  <2>4. /\ dispatched' \in [Run -> SUBSET Lead] /\ aged' = aged
        /\ promoted' \in [Run -> SUBSET Doc] /\ promoAged' \in [Run -> BOOLEAN]
    <3>1. /\ dispatched' = [dispatched EXCEPT ![r] = @ \cup o.fetch] /\ aged' = aged
          /\ promoted' = [promoted EXCEPT ![r] = @ \cup o.promote]
          /\ promoAged' = [promoAged EXCEPT ![r] = @ /\ o.promote = {}]
      BY DEF CommitStep
    <3>2. promoAged' \in [Run -> BOOLEAN]
      <4>1. (promoAged[r] /\ o.promote = {}) \in BOOLEAN
        OBVIOUS
      <4> QED
        BY <1>0, <3>1, <4>1 DEF RunsOK
    <3> QED
      BY <1>0, <1>1, <3>1, <3>2 DEF RunsOK, OutcomeOK
  <2> QED
    BY <1>0, <2>2, <2>3, <2>4 DEF RunsOK
<1>4. PICK F \in SUBSET Lead, P \in SUBSET Doc :
        Send(F, P) /\ \E k \in Retries : steps' \in {steps, [steps EXCEPT ![r] = @ \cup {k}]}
  <2>1. CASE Sent(r, o)
    BY <1>0, <1>1, <2>1 DEF Sent, OutcomeOK
  <2>2. CASE NotSent(r, o)
    BY <1>0, <1>1, <2>2 DEF NotSent, OutcomeOK
  <2> QED
    BY <2>1, <2>2 DEF CommitStep
<1>5. StepsOK'
  <2>1. step' = [step EXCEPT ![r] = Idle]
    BY DEF CommitStep
  <2>2. steps' \in [Run -> SUBSET Retries]
    BY <1>0, <1>4 DEF StepsOK
  <2> QED
    BY <1>0, <2>1, <2>2 DEF StepsOK, Idle
<1>6. LeadsOK'
  <2>1. /\ lead' = LeadsWith(o) /\ snaps' = snaps /\ http' = http
        /\ overlap' = overlap \cup {l \in DOMAIN o.leads : snaps[l] > 0}
    BY DEF CommitStep
  <2>2. fetches' \in [Lead -> SUBSET (0..MaxFetchRetries)]
    BY <1>0, <1>4 DEF Send, LeadsOK
  <2>3. lead' \in [Lead -> LeadStates]
    BY <1>0, <1>1, <2>1 DEF LeadsOK, LeadsWith, OutcomeOK, LeadStates
  <2>4. \A l \in Lead : lead'[l] = "fetched" => lead[l] = "fetched"
    BY <1>0, <1>1, <2>1 DEF LeadsOK, LeadsWith, OutcomeOK
  <2> QED
    BY <1>0, <1>1, <2>1, <2>2, <2>3, <2>4 DEF LeadsOK, OutcomeOK
<1>7. DocsOK'
  BY <1>0, <1>4 DEF CommitStep, StepUnchanged, pipeVars, Send, DocsOK
<1> QED
  BY <1>3, <1>5, <1>6, <1>7 DEF TypeInv

LEMMA StepsTyped ==
  ASSUME TypeInv, NEW r \in Run,
         StepMessage(r) \/ StepWork(r) \/ StepFails(r) \/ StepDies(r) \/ Recover(r)
           \/ LockExpires(r) \/ Age(r)
  PROVE  TypeInv'
<1>0. RunsOK /\ StepsOK /\ LeadsOK /\ DocsOK /\ 0 \in Retries
  BY BoundsAreNumbers DEF TypeInv, Retries
<1>1. CASE CommitStep(r)
  BY <1>1, CommitTyped
<1>2. CASE \/ DecideOperationalPause(r) \/ DecideDiscovery(r) \/ DecidePrefilter(r)
           \/ DecideWait(r) \/ DecideFetch(r) \/ DecidePromote(r) \/ DecideAwaitPromotions(r)
           \/ DecideComplete(r)
  BY <1>2, OutcomesTyped, DecisionsTyped DEF Quiet
<1>3. CASE Raise(r)
  <2>1. UNCHANGED <<lead, snaps, overlap, fetches, http>> /\ UNCHANGED docTypes
    BY <1>3 DEF Raise, StepUnchanged, fetchVars, pipeVars, docTypes
  <2>2. RunsOK'
    BY <1>0, <1>3 DEF Raise, RunsOK, Statuses
  <2>3. step' = [step EXCEPT ![r] = Idle] /\ (
          \/ steps' = steps
          \/ /\ steps' = [steps EXCEPT ![r] = @ \cup {step[r].retry + 1}]
             /\ step[r].retry < MaxStepRetries)
    BY <1>3 DEF Raise
  <2>4. step[r].retry < MaxStepRetries => step[r].retry + 1 \in Retries
    BY <1>0, BoundsAreNumbers DEF StepsOK, Retries
  <2>5. steps' \in [Run -> SUBSET Retries]
    BY <1>0, <2>3, <2>4 DEF StepsOK
  <2>6. StepsOK'
    BY <1>0, <2>3, <2>5 DEF StepsOK, Idle
  <2> QED
    BY <1>0, <2>1, <2>2, <2>6, TypesKept DEF TypeInv
<1>4. CASE StepMessage(r) \/ Halt(r) \/ StepDies(r) \/ Recover(r) \/ LockExpires(r)
  <2>1. UNCHANGED <<lead, snaps, overlap, fetches, http>> /\ UNCHANGED docTypes
          /\ UNCHANGED runTypes
    BY <1>4 DEF StepMessage, LoadRun, DropStep, Halt, StepDies, Recover, LockExpires,
       StepUnchanged, fetchVars, pipeVars, runVars, docTypes, runTypes
  <2>2. ASSUME NEW n \in Retries, LoadRun(r, n) \/ DropStep(r, n)
        PROVE  StepsOK'
    BY <1>0, <2>2 DEF LoadRun, DropStep, Holding, StepsOK
  <2>3. ASSUME Halt(r) \/ LockExpires(r)
        PROVE  StepsOK'
    BY <1>0, <2>3 DEF Halt, LockExpires, Idle, StepsOK
  <2>4. ASSUME StepDies(r)
        PROVE  StepsOK'
    BY <1>0, <2>4 DEF StepDies, Holding, StepsOK
  <2>5. ASSUME Recover(r)
        PROVE  StepsOK'
    BY <1>0, <2>5 DEF Recover, StepsOK
  <2>6. StepsOK'
    BY <1>4, <2>2, <2>3, <2>4, <2>5 DEF StepMessage, Retries
  <2> QED
    BY <1>0, <2>1, <2>6, TypesKept DEF TypeInv
<1>5. CASE Age(r)
  <2>1. UNCHANGED <<lead, snaps, overlap, fetches, http>> /\ UNCHANGED docTypes
          /\ UNCHANGED <<step, steps>>
    BY <1>5 DEF Age, fetchVars, pipeVars, docTypes
  <2>2. RunsOK'
    BY <1>0, <1>5 DEF Age, RunsOK
  <2> QED
    BY <1>0, <2>1, <2>2, TypesKept DEF TypeInv
<1> QED
  BY <1>1, <1>2, <1>3, <1>4, <1>5 DEF StepWork, StepFails, StepRefused

LEMMA FetchTyped ==
  ASSUME TypeInv, NEW l \in Lead, NEW n \in 0..MaxFetchRetries,
         SkipFetch(l, n) \/ FetchStep(l, n)
  PROVE  TypeInv'
<1>0. RunsOK /\ StepsOK /\ LeadsOK /\ DocsOK /\ http[l][n] \in Nat /\ snaps[l] \in 0..MaxSnapshots
  BY DEF TypeInv, LeadsOK
<1>1. FetchTypeOK
  BY <1>0 DEF LeadsOK, FetchTypeOK
<1>2. UNCHANGED runTypes /\ UNCHANGED <<step, steps>>
  BY DEF SkipFetch, FetchStep, StartFetch, FetchFails, FetchDies, FetchSucceeds, PipelineUnchanged,
     runVars, runTypes
<1>3. http' \in [Lead -> [0..MaxFetchRetries -> Nat]]
  <2>1. CASE SkipFetch(l, n)
    BY <1>0, <2>1 DEF SkipFetch, LeadsOK
  <2>2. CASE StartFetch(l, n)
    <3>1. http[l][n] + 1 \in Nat /\ http' = [http EXCEPT ![l][n] = http[l][n] + 1]
      BY <1>0, <2>2 DEF StartFetch
    <3> QED
      BY <1>1, <3>1, CallsChange
  <2>3. CASE ~SkipFetch(l, n) /\ ~StartFetch(l, n)
    <3>1. http[l][n] - 1 \in Nat /\ http' = [http EXCEPT ![l][n] = http[l][n] - 1]
      BY <1>0, <2>3 DEF FetchStep, FetchFails, FetchDies, FetchSucceeds
    <3> QED
      BY <1>1, <3>1, CallsChange
  <2> QED
    BY <2>1, <2>2, <2>3
<1>4. fetches' \in [Lead -> SUBSET (0..MaxFetchRetries)]
  <2>1. \/ fetches' = fetches
        \/ fetches' = [fetches EXCEPT ![l] = @ \ {n}]
        \/ fetches' = [fetches EXCEPT ![l] = @ \cup {n}]
        \/ n < MaxFetchRetries /\ fetches' = [fetches EXCEPT ![l] = @ \cup {n + 1}]
    BY DEF SkipFetch, FetchStep, StartFetch, FetchFails, FetchDies, FetchSucceeds
  <2>2. fetches \in [Lead -> SUBSET (0..MaxFetchRetries)]
    BY <1>0 DEF LeadsOK
  <2>3. fetches[l] \ {n} \subseteq 0..MaxFetchRetries /\ fetches[l] \cup {n} \subseteq 0..MaxFetchRetries
    BY <2>2
  <2>4. CASE n < MaxFetchRetries /\ fetches' = [fetches EXCEPT ![l] = @ \cup {n + 1}]
    <3>1. fetches[l] \cup {n + 1} \subseteq 0..MaxFetchRetries
      BY <2>2, <2>4, BoundsAreNumbers
    <3> QED
      BY <2>2, <2>4, <3>1
  <2> QED
    BY <2>1, <2>2, <2>3, <2>4
<1>5. \/ UNCHANGED <<lead, snaps>>
      \/ snaps' = snaps /\ \E state \in LeadStates \ {"fetched"} : lead' = [lead EXCEPT ![l] = state]
      \/ \E k \in 1..MaxSnapshots :
           lead' = [lead EXCEPT ![l] = "fetched"] /\ snaps' = [snaps EXCEPT ![l] = k]
  <2>1. CASE SkipFetch(l, n) \/ StartFetch(l, n) \/ FetchDies(l, n)
    BY <2>1 DEF SkipFetch, StartFetch, FetchDies
  <2>2. CASE FetchFails(l, n)
    <3>1. {"accepted", "fetch_failed"} \subseteq LeadStates \ {"fetched"}
      BY DEF LeadStates
    <3>2. snaps' = [snaps EXCEPT ![l] = snaps[l]]
      BY <2>2 DEF FetchFails, Attempted
    <3>3. snaps' = snaps
      BY <1>0, <3>2 DEF LeadsOK
    <3> QED
      BY <2>2, <3>1, <3>3 DEF FetchFails, Attempted
  <2>3. ASSUME NEW sent \in BOOLEAN, FetchSucceeds(l, n, sent)
        PROVE  \E k \in 1..MaxSnapshots :
                 lead' = [lead EXCEPT ![l] = "fetched"] /\ snaps' = [snaps EXCEPT ![l] = k]
    <3>1. Least(snaps[l] + 1, MaxSnapshots) \in 1..MaxSnapshots
      BY <1>0, BoundsAreNumbers DEF Least
    <3> QED
      BY <2>3, <3>1 DEF FetchSucceeds, Attempted
  <2> QED
    BY <2>1, <2>2, <2>3 DEF FetchStep
<1>6. LeadsOK'
  <2>1. overlap' \subseteq Lead
    BY <1>0 DEF SkipFetch, FetchStep, StartFetch, FetchFails, FetchDies, FetchSucceeds, LeadsOK
  <2>2. /\ lead' \in [Lead -> LeadStates] /\ snaps' \in [Lead -> 0..MaxSnapshots]
        /\ \A e \in Lead : lead'[e] = "fetched" => snaps'[e] > 0
    <3>1. CASE UNCHANGED <<lead, snaps>>
      BY <1>0, <3>1 DEF LeadsOK
    <3>2. CASE snaps' = snaps /\ \E state \in LeadStates \ {"fetched"} : lead' = [lead EXCEPT ![l] = state]
      BY <1>0, <3>2 DEF LeadsOK
    <3>3. CASE \E k \in 1..MaxSnapshots :
                 lead' = [lead EXCEPT ![l] = "fetched"] /\ snaps' = [snaps EXCEPT ![l] = k]
      <4>1. "fetched" \in LeadStates
        BY DEF LeadStates
      <4> QED
        BY <1>0, <3>3, <4>1, BoundsAreNumbers DEF LeadsOK
    <3> QED
      BY <1>5, <3>1, <3>2, <3>3
  <2> QED
    BY <1>3, <1>4, <2>1, <2>2 DEF LeadsOK
<1>7. DocsOK'
  <2>1. /\ UNCHANGED <<doc, judging, decision, opportunity, toJudge, toPromote>>
        /\ \/ toNormalise' \in {toNormalise, toNormalise \cup Reused(l)}
           \/ toNormalise' = toNormalise \cup {<<l, Least(snaps[l] + 1, MaxSnapshots)>>}
    BY DEF SkipFetch, FetchStep, StartFetch, FetchFails, FetchDies, FetchSucceeds, PipelineUnchanged,
       pipeVars
  <2>2. <<l, Least(snaps[l] + 1, MaxSnapshots)>> \in Doc
    <3>1. Least(snaps[l] + 1, MaxSnapshots) \in 1..MaxSnapshots
      BY <1>0, BoundsAreNumbers DEF Least
    <3> QED
      BY <3>1 DEF Doc
  <2>3. Reused(l) \subseteq Doc
    BY <1>0, BoundsAreNumbers DEF Reused, LeadsOK, Doc
  <2>4. toNormalise' \subseteq Doc
    BY <1>0, <2>1, <2>2, <2>3 DEF DocsOK
  <2> QED
    BY <1>0, <2>1, <2>4 DEF DocsOK
<1> QED
  BY <1>0, <1>2, <1>6, <1>7, TypesKept DEF TypeInv

LEMMA DocumentsTyped ==
  ASSUME TypeInv, NEW d \in Doc,
         \/ \E sent \in BOOLEAN : Normalise(d, sent) \/ Promote(d, sent)
         \/ NormaliseFails(d) \/ ReadCandidates(d) \/ RecordDecision(d)
  PROVE  TypeInv'
<1>0. RunsOK /\ StepsOK /\ LeadsOK /\ DocsOK
  BY DEF TypeInv
<1>1. UNCHANGED runTypes /\ UNCHANGED <<step, steps>>
        /\ UNCHANGED <<lead, snaps, overlap, fetches, http>>
  BY DEF Normalise, Promote, NormaliseFails, ReadCandidates, RecordDecision, PipelineUnchanged,
     fetchVars, runVars, runTypes
<1>2. DocsOK'
  <2>1. ASSUME NEW sent \in BOOLEAN, Normalise(d, sent)
        PROVE  DocsOK'
    <3>1. doc' \in [Doc -> {"absent", "normalised", "failed"}]
      BY <1>0, <2>1 DEF Normalise, DocsOK
    <3>2. toNormalise' \subseteq Doc /\ toJudge' \subseteq Doc
            /\ UNCHANGED <<judging, decision, opportunity, toPromote>>
      BY <1>0, <2>1 DEF Normalise, DocsOK, PipelineUnchanged
    <3> QED
      BY <1>0, <3>1, <3>2 DEF DocsOK
  <2>2. ASSUME NEW done \in BOOLEAN, Promote(d, done)
        PROVE  DocsOK'
    BY <1>0, <2>2 DEF Promote, pipeVars, DocsOK
  <2>3. ASSUME NormaliseFails(d)
        PROVE  DocsOK'
    BY <1>0, <2>3 DEF NormaliseFails, DocsOK, PipelineUnchanged
  <2>4. ASSUME ReadCandidates(d)
        PROVE  DocsOK'
    BY <1>0, <2>4 DEF ReadCandidates, DocsOK, PipelineUnchanged
  <2>5. ASSUME RecordDecision(d)
        PROVE  DocsOK'
    <3>1. PICK o \in Outcomes(d, judging[d]) :
            decision' = [decision EXCEPT ![d] = [outcome |-> o, saw |-> judging[d]]]
      BY <2>5 DEF RecordDecision
    <3>2. o \in Eligible \cup {"duplicate", Nil}
      BY DEF Outcomes, Eligible
    <3> QED
      BY <1>0, <2>5, <3>1, <3>2 DEF RecordDecision, DocsOK, PipelineUnchanged
  <2> QED
    BY <2>1, <2>2, <2>3, <2>4, <2>5
<1> QED
  BY <1>0, <1>1, <1>2, TypesKept DEF TypeInv

LEMMA NextKeepsTypes ==
  ASSUME TypeInv, [IntakeNext]_intakeVars
  PROVE  TypeInv'
<1>1. CASE UNCHANGED intakeVars
  <2>1. /\ UNCHANGED runTypes /\ UNCHANGED <<step, steps>> /\ UNCHANGED docTypes
        /\ UNCHANGED <<lead, snaps, overlap, fetches, http>>
    BY <1>1 DEF intakeVars, runVars, fetchVars, pipeVars, runTypes, docTypes
  <2> QED
    BY <2>1, TypesKept DEF TypeInv
<1>2. CASE Starts \/ Operator \/ NewDay
  BY <1>2, LifecycleTyped
<1>3. ASSUME NEW l \in Lead,
             FetchWork(l) \/ \E n \in 0..MaxFetchRetries : FetchSucceeds(l, n, FALSE) \/ FetchDies(l, n)
      PROVE  TypeInv'
  <2>1. PICK n \in 0..MaxFetchRetries : SkipFetch(l, n) \/ FetchStep(l, n)
    BY <1>3 DEF FetchWork, FetchStep
  <2> QED
    BY <2>1, FetchTyped
<1>4. ASSUME NEW d \in Doc,
             DocumentWork(d) \/ Normalise(d, FALSE) \/ NormaliseFails(d) \/ Promote(d, FALSE)
      PROVE  TypeInv'
  <2>1. \/ \E sent \in BOOLEAN : Normalise(d, sent) \/ Promote(d, sent)
        \/ NormaliseFails(d) \/ ReadCandidates(d) \/ RecordDecision(d)
    BY <1>4 DEF DocumentWork
  <2> QED
    BY <2>1, DocumentsTyped
<1>5. ASSUME IntakeNext
      PROVE  TypeInv'
  BY <1>2, <1>3, <1>4, <1>5, IntakeSteps, StepsTyped
<1> QED
  BY <1>1, <1>5

LEMMA InitTyped == IntakeInit => TypeInv
<1> SUFFICES ASSUME IntakeInit
             PROVE  TypeInv
  OBVIOUS
<1>1. PICK runs \in SUBSET Run, leads \in [Lead -> LeadStates \ {"fetched"}], sent \in 0..DailyBudget :
        \E e, u, again : InitWith(runs, leads, e, u, again, sent)
  BY DEF IntakeInit
<1>2. RunsOK
  BY <1>1 DEF InitWith, RunsOK, Statuses, Live, Stages
<1>3. 0 \in Retries
  BY BoundsAreNumbers DEF Retries
<1>4. StepsOK
  BY <1>1, <1>3 DEF InitWith, StepsOK, Idle
<1>5. lead = leads /\ lead \in [Lead -> LeadStates] /\ \A l \in Lead : lead[l] # "fetched"
  BY <1>1 DEF InitWith
<1>6. LeadsOK
  BY <1>1, <1>5, BoundsAreNumbers DEF InitWith, LeadsOK
<1>7. DocsOK
  BY <1>1 DEF InitWith, DocsOK
<1> QED
  BY <1>2, <1>4, <1>6, <1>7 DEF TypeInv

LEMMA TypesAsChecked == TypeInv => IntakeTypeOK
BY DEF TypeInv, RunsOK, StepsOK, LeadsOK, DocsOK, IntakeTypeOK, Stages, LeadStates, Retries

\* The rows, the messages and the calls keep their types, however many runs and leads there
\* are and whatever is decided, dies or is sent again.
THEOREM IntakeAlwaysTyped == IntakeSpec => []IntakeTypeOK
<1>1. TypeInv /\ [IntakeNext]_intakeVars => TypeInv'
  BY NextKeepsTypes
<1> QED
  BY InitTyped, <1>1, TypesAsChecked, PTL DEF IntakeSpec

-----------------------------------------------------------------------------
(* The budget.  While no step has dispatched for a run that was stopped or  *)
(* paused under it, what waits to be dispatched fits the day: only the one  *)
(* live run can have something waiting that counts, because a second run is *)
(* not inserted beside it, and what a stopped run dispatches is stale.      *)

\* A decision of a live run that still fits the budget.
FitsTheDay(r) ==
  (status[r] \in Live /\ step[r].pc = "decided")
    => spent + Cardinality(step[r].out.fetch) <= DailyBudget

BudgetInv ==
  /\ TypeInv /\ AtMostOneLive
  /\ \A r \in Run : status[r] = "absent" => step[r].pc \notin {"loaded", "decided"}
  /\ ~stale => spent <= today /\ \A r \in Run : FitsTheDay(r)

BudgetInvNow ==
  /\ \A r \in Run : status[r] = "absent" => step[r].pc \notin {"loaded", "decided"}
  /\ ~stale => spent <= today /\ \A r \in Run : FitsTheDay(r)

\* Nothing that counts changes but the status of a live run.
LEMMA BudgetKept ==
  ASSUME BudgetInv, UNCHANGED <<step, today, spent, stale>>, TypeInv',
         \A r \in Run : status'[r] \in Live \cup {"absent"} =>
           status[r] = status'[r] \/ (status[r] \in Live /\ status'[r] \in Live)
  PROVE  BudgetInvNow'
BY DEF BudgetInv, BudgetInvNow, FitsTheDay, Live

LEMMA BudgetLifecycle ==
  ASSUME BudgetInv, TypeInv', Starts \/ Operator \/ NewDay
  PROVE  BudgetInvNow'
<1>0. status \in [Run -> Statuses] /\ spent \in Nat /\ today \in Nat
  BY BoundsAreNumbers DEF BudgetInv, TypeInv, RunsOK
<1>1. CASE NewDay
  <2>1. \A r \in Run : step[r].pc = "decided" => Cardinality(step[r].out.fetch) \in Nat
    BY LeadsCounted DEF BudgetInv, TypeInv, StepsOK, OutcomeOK
  <2>2. UNCHANGED <<status, step, stale>> /\ spent' = 0 /\ today' = 0
    BY <1>1 DEF NewDay
  <2>3. ASSUME ~stale, NEW r \in Run, status[r] \in Live, step[r].pc = "decided"
        PROVE  0 + Cardinality(step[r].out.fetch) <= DailyBudget
    <3>1. spent + Cardinality(step[r].out.fetch) <= DailyBudget
      BY <2>3 DEF BudgetInv, FitsTheDay
    <3> QED
      BY <1>0, <2>1, <2>3, <3>1, BoundsAreNumbers
  <2> QED
    BY <2>2, <2>3 DEF BudgetInv, BudgetInvNow, FitsTheDay
<1>2. ASSUME NEW who, NEW r \in Run, NEW sent, InsertRun(who, r, sent)
      PROVE  BudgetInvNow'
  <2>1. /\ status[r] = "absent" /\ status' = [status EXCEPT ![r] = "running"]
        /\ UNCHANGED <<step, today, spent, stale>>
    BY <1>2 DEF InsertRun
  <2>2. step[r].pc \notin {"loaded", "decided"}
    BY <2>1 DEF BudgetInv
  <2> QED
    BY <1>0, <2>1, <2>2 DEF BudgetInv, BudgetInvNow, FitsTheDay
<1>3. CASE Starts /\ ~\E who \in {"operator", "autopilot"}, r \in Run, sent \in BOOLEAN :
                       InsertRun(who, r, sent)
  <2>1. UNCHANGED <<status, step, today, spent, stale>>
    BY <1>3 DEF Starts, BeginStart, StartRejected, runVars
  <2> QED
    BY <2>1, BudgetKept
<1>4. CASE Operator
  <2>1. UNCHANGED <<step, today, spent, stale>>
    BY <1>4 DEF Operator, SetEnvironment, PauseRun, StopRun, ResumeRun, Control, runVars
  <2>2. \/ status' = status
        \/ \E r \in Run, to \in {"paused", "stopped", "running"} :
             status[r] \in Live /\ status' = [status EXCEPT ![r] = to]
    BY <1>4 DEF Operator, SetEnvironment, PauseRun, StopRun, ResumeRun, Control, runVars, Live
  <2>3. \A r \in Run : status'[r] \in Live \cup {"absent"} =>
           status[r] = status'[r] \/ (status[r] \in Live /\ status'[r] \in Live)
    BY <1>0, <2>2 DEF Live
  <2> QED
    BY <2>1, <2>3, BudgetKept
<1> QED
  BY <1>1, <1>2, <1>3, <1>4 DEF Starts

\* What a step decides to fetch is no more than what the source may still dispatch.
LEMMA BudgetDecides ==
  ASSUME BudgetInv, NEW r \in Run, NEW o, Decides(r, o),
         Cardinality(o.fetch) \in Nat, Cardinality(o.fetch) <= Remaining(r), status[r] # "absent"
  PROVE  BudgetInvNow'
<1>1. /\ step' = [step EXCEPT ![r] = [pc |-> "decided", retry |-> step[r].retry, out |-> o]]
      /\ UNCHANGED <<status, today, spent, stale>>
  BY DEF Decides, Holding, runVars
<1>2. spent \in Nat /\ today \in Nat /\ step = [q \in Run |-> step[q]]
  BY BoundsAreNumbers DEF BudgetInv, TypeInv, RunsOK, StepsOK
<1>3. ~stale => spent + Cardinality(o.fetch) <= DailyBudget
  BY <1>2, BoundsAreNumbers DEF Remaining, BudgetInv
<1> QED
  BY <1>1, <1>2, <1>3 DEF BudgetInv, BudgetInvNow, FitsTheDay

LEMMA BudgetCommits ==
  ASSUME BudgetInv, NEW r \in Run, CommitStep(r), TypeInv'
  PROVE  BudgetInvNow'
<1> DEFINE o == step[r].out
           n == Cardinality(o.fetch)
           m == Cardinality(o.again)
<1>1. /\ step[r].pc = "decided" /\ step' = [step EXCEPT ![r] = Idle]
      /\ status' = IF o.to = Nil THEN status ELSE [status EXCEPT ![r] = o.to]
      /\ today' = Least(today + n + m, DailyBudget) /\ spent' = spent + n
      /\ stale' = (stale \/ (n > 0 /\ status[r] # "running"))
  BY DEF CommitStep
<1>2. /\ spent \in Nat /\ today \in 0..DailyBudget /\ status \in [Run -> Statuses]
      /\ step = [q \in Run |-> step[q]] /\ OutcomeOK(o)
  BY <1>1 DEF BudgetInv, TypeInv, RunsOK, StepsOK
<1>3. n \in Nat /\ m \in Nat
  BY <1>2, LeadsCounted DEF OutcomeOK
<1>4. status[r] # "absent" /\ (status'[r] = "absent" => o.to = Nil)
  BY <1>1, <1>2 DEF BudgetInv, OutcomeOK
<1>5. \A q \in Run : status'[q] = "absent" => step'[q].pc \notin {"loaded", "decided"}
  BY <1>1, <1>2, <1>4 DEF BudgetInv, Idle
<1>6. ASSUME ~stale'
      PROVE  spent' <= today' /\ \A q \in Run : FitsTheDay(q)'
  <2>1. ~stale /\ (n > 0 => status[r] = "running")
    BY <1>1, <1>6
  <2>2. spent <= today /\ spent + n <= DailyBudget
    <3>1. CASE n = 0
      BY <1>2, <2>1, <3>1, BoundsAreNumbers DEF BudgetInv
    <3>2. CASE n > 0
      BY <1>1, <2>1, <3>2 DEF BudgetInv, FitsTheDay, Live
    <3> QED
      BY <1>3, <3>1, <3>2
  <2>3. spent' <= today'
    BY <1>1, <1>2, <1>3, <2>2, BoundsAreNumbers DEF Least
  <2>4. ASSUME NEW q \in Run, status'[q] \in Live, step'[q].pc = "decided"
        PROVE  spent' + Cardinality(step'[q].out.fetch) <= DailyBudget
    <3>1. q # r /\ status[q] = status'[q] /\ step'[q] = step[q]
      BY <1>1, <1>2, <2>4 DEF Idle
    <3>2. n = 0
      <4>1. CASE status[r] = "running"
        BY <2>4, <3>1, <4>1 DEF BudgetInv, AtMostOneLive, LiveRuns, Live
      <4> QED
        BY <1>3, <2>1, <4>1
    <3> QED
      BY <1>1, <1>2, <2>1, <2>4, <3>1, <3>2 DEF BudgetInv, FitsTheDay
  <2> QED
    BY <2>3, <2>4 DEF FitsTheDay
<1> QED
  BY <1>5, <1>6 DEF BudgetInvNow

LEMMA BudgetSteps ==
  ASSUME BudgetInv, TypeInv', NEW r \in Run,
         StepMessage(r) \/ StepWork(r) \/ StepFails(r) \/ StepDies(r) \/ Recover(r)
           \/ LockExpires(r) \/ Age(r)
  PROVE  BudgetInvNow'
<1>0. /\ spent \in Nat /\ today \in Nat /\ status \in [Run -> Statuses]
      /\ step = [q \in Run |-> step[q]]
  BY BoundsAreNumbers DEF BudgetInv, TypeInv, RunsOK, StepsOK
<1>1. CASE CommitStep(r)
  BY <1>1, BudgetCommits
<1>2. ASSUME NEW o, Decides(r, o), Cardinality(o.fetch) = 0, step[r].pc = "loaded"
      PROVE  BudgetInvNow'
  <2>1. status[r] # "absent" /\ Remaining(r) >= 0 /\ 0 \in Nat
    BY <1>0, <1>2, BoundsAreNumbers DEF BudgetInv, TypeInv, RunsOK, Remaining
  <2> QED
    BY <1>2, <2>1, BudgetDecides
<1>3. CASE DecideFetch(r)
  <2>1. PICK B \in SUBSET Lead :
          /\ Decides(r, [NoOutcome EXCEPT !.fetch = B, !.next = TRUE])
          /\ B \in Chunk(Candidates(r),
                    Least(FetchBatch,
                          Least(MaxFetches - Cardinality(dispatched[r]), Remaining(r))))
    BY <1>3 DEF DecideFetch, Chunk, Candidates
  <2>2. Cardinality(dispatched[r]) \in Nat /\ Remaining(r) \in Int
    BY <1>0, LeadsCounted, BoundsAreNumbers DEF BudgetInv, TypeInv, RunsOK, Remaining
  <2> DEFINE room == Least(MaxFetches - Cardinality(dispatched[r]), Remaining(r))
  <2>3. room \in Int /\ room <= Remaining(r)
    BY <2>2, BoundsAreNumbers, LeastBounds
  <2>4. Least(FetchBatch, room) \in Int /\ Least(FetchBatch, room) <= Remaining(r)
    <3>1. FetchBatch \in Int
      BY BoundsAreNumbers
    <3> HIDE DEF room
    <3> QED
      BY <2>2, <2>3, <3>1, LeastBounds
  <2>5. Candidates(r) \in SUBSET Lead
    BY DEF Candidates
  <2>6. Cardinality(B) <= Least(FetchBatch, room)
    BY <2>1, <2>4, <2>5, ChunkBounds
  <2>7. Cardinality(B) \in Nat
    BY LeadsCounted
  <2>8. Cardinality(B) <= Remaining(r)
    BY <2>2, <2>4, <2>6, <2>7
  <2>9. status[r] # "absent"
    BY <1>3 DEF DecideFetch, InStage, BudgetInv
  <2>10. [NoOutcome EXCEPT !.fetch = B, !.next = TRUE].fetch = B
    BY DEF NoOutcome
  <2> QED
    BY <2>1, <2>7, <2>8, <2>9, <2>10, BudgetDecides
<1>4. CASE \/ DecideOperationalPause(r) \/ DecideDiscovery(r) \/ DecidePrefilter(r)
           \/ DecideWait(r) \/ DecidePromote(r) \/ DecideAwaitPromotions(r)
           \/ DecideComplete(r)
  <2>1. step[r].pc = "loaded"
    BY <1>4 DEF DecideOperationalPause, DecideDiscovery, DecidePrefilter, DecideWait,
       DecidePromote, DecideAwaitPromotions, DecideComplete, InStage, Fetched
  <2>2. CASE ~DecideFetch(r)
    <3>1. PICK o : Decides(r, o) /\ Quiet(o)
      BY <1>4, <2>2, OutcomesTyped DEF BudgetInv
    <3> QED
      BY <1>2, <2>1, <3>1, FS_EmptySet DEF Quiet
  <2> QED
    BY <1>3, <2>2
<1>5. CASE \/ StepMessage(r) \/ Halt(r) \/ StepDies(r) \/ Recover(r) \/ LockExpires(r)
           \/ Age(r) \/ StepFails(r) \/ StepRefused(r)
  <2>1. /\ UNCHANGED <<today, spent, stale>>
        /\ \/ status' = status
           \/ status' = [status EXCEPT ![r] = "failed"]
    BY <1>5 DEF StepMessage, LoadRun, DropStep, Halt, StepDies, Recover, LockExpires, Age,
       StepFails, StepRefused, Raise, StepUnchanged, runVars
  <2>2. \A q \in Run : step'[q] = step[q] \/ (q = r /\ step'[q].pc # "decided"
                          /\ (step'[q].pc = "loaded" => status[q] = "running" /\ status' = status))
    BY <1>0, <1>5 DEF StepMessage, LoadRun, DropStep, Halt, StepDies, Recover, LockExpires, Age,
       StepFails, StepRefused, Raise, Holding, Idle, runVars
  <2>3. \A q \in Run : status'[q] \in Live \cup {"absent"} => status'[q] = status[q]
    BY <1>0, <2>1 DEF Live
  <2> QED
    BY <2>1, <2>2, <2>3 DEF BudgetInv, BudgetInvNow, FitsTheDay, Live
<1> QED
  BY <1>1, <1>3, <1>4, <1>5 DEF StepWork

LEMMA NextKeepsBudget ==
  ASSUME BudgetInv, [IntakeNext]_intakeVars
  PROVE  BudgetInv'
<1>1. TypeInv' /\ AtMostOneLive'
  BY NextKeepsTypes, MovesKeepOneLive DEF BudgetInv
<1>2. ASSUME UNCHANGED <<status, step, today, spent, stale>>
      PROVE  BudgetInvNow'
  BY <1>1, <1>2, BudgetKept
<1>3. ASSUME UNCHANGED intakeVars
      PROVE  BudgetInvNow'
  BY <1>2, <1>3 DEF intakeVars, runVars
<1>4. ASSUME Starts \/ Operator \/ NewDay
      PROVE  BudgetInvNow'
  BY <1>1, <1>4, BudgetLifecycle
<1>5. ASSUME NEW l \in Lead,
             FetchWork(l) \/ \E n \in 0..MaxFetchRetries : FetchSucceeds(l, n, FALSE) \/ FetchDies(l, n)
      PROVE  BudgetInvNow'
  <2>1. PipelineUnchanged
    BY <1>5 DEF FetchWork, SkipFetch, StartFetch, FetchSucceeds, FetchFails, FetchDies
  <2> QED
    BY <1>2, <2>1 DEF PipelineUnchanged, runVars
<1>6. ASSUME NEW d \in Doc,
             DocumentWork(d) \/ Normalise(d, FALSE) \/ NormaliseFails(d) \/ Promote(d, FALSE)
      PROVE  BudgetInvNow'
  <2>1. UNCHANGED <<status, step, today, spent, stale>>
    BY <1>6 DEF DocumentWork, Normalise, NormaliseFails, ReadCandidates, RecordDecision, Promote,
       PipelineUnchanged, runVars
  <2> QED
    BY <1>2, <2>1
<1>7. ASSUME IntakeNext
      PROVE  BudgetInvNow'
  BY <1>1, <1>4, <1>5, <1>6, <1>7, IntakeSteps, BudgetSteps
<1> QED
  BY <1>1, <1>3, <1>7 DEF BudgetInv, BudgetInvNow

\* More is dispatched in a day than the source's budget only when a step went on for a run
\* that had been stopped or paused under it (intake/orchestrator.py:308).
THEOREM BudgetAlwaysPerSource == IntakeSpec => []BudgetPerSource
<1>1. IntakeInit => BudgetInv
  <2> SUFFICES ASSUME IntakeInit
               PROVE  BudgetInv
    OBVIOUS
  <2>1. TypeInv /\ AtMostOneLive
    BY InitTyped, InitOneLive
  <2>2. spent = today /\ step = [r \in Run |-> Idle]
    BY DEF IntakeInit, InitWith
  <2>3. spent \in Nat
    BY <2>1 DEF TypeInv, RunsOK
  <2> QED
    BY <2>1, <2>2, <2>3 DEF BudgetInv, FitsTheDay, Idle
<1>2. BudgetInv /\ [IntakeNext]_intakeVars => BudgetInv'
  BY NextKeepsBudget
<1>3. BudgetInv => BudgetPerSource
  BY BoundsAreNumbers DEF BudgetInv, TypeInv, RunsOK, BudgetPerSource
<1> QED
  BY <1>1, <1>2, <1>3, PTL DEF IntakeSpec

-----------------------------------------------------------------------------
(* A lost story.  Evaluations read everything that is normalised so far, so *)
(* what two of them have seen is ordered by which of them read first; and   *)
(* the first one of a story that found a duplicate is in the sight of the   *)
(* document it found.                                                       *)

Decided(d) == decision[d].outcome # Nil
Read(d) == Decided(d) \/ judging[d] # Nil
Saw(d) == IF Decided(d) THEN decision[d].saw ELSE judging[d]
Seen(d) == Saw(d) \cup {d}
Normalised == {d \in Doc : doc[d] = "normalised"}

SightInv ==
  /\ \A d \in Doc : Decided(d) => judging[d] = Nil
  /\ \A d \in Doc : Read(d) => Seen(d) \subseteq Normalised /\ d \notin Saw(d)
  /\ \A d, e \in Doc : Read(d) /\ Read(e) => Seen(d) \subseteq Seen(e) \/ Seen(e) \subseteq Seen(d)
  /\ \A d \in Doc : decision[d].outcome = "duplicate" => SameStory(d, decision[d].saw) # {}
  /\ toJudge \subseteq Normalised

DocSteps == 
  \E d \in Doc :
    \/ \E sent \in BOOLEAN : Normalise(d, sent)
    \/ NormaliseFails(d) \/ ReadCandidates(d) \/ RecordDecision(d)

LEMMA DocMoves ==
  ASSUME [IntakeNext]_intakeVars
  PROVE  UNCHANGED <<doc, judging, decision, toJudge>> \/ DocSteps
<1> DEFINE Kept == UNCHANGED <<doc, judging, decision, toJudge>>
<1>1. CASE UNCHANGED intakeVars
  BY <1>1 DEF intakeVars, pipeVars
<1>2. ASSUME Starts \/ Operator \/ NewDay
      PROVE  Kept
  BY <1>2 DEF Starts, BeginStart, StartRejected, InsertRun, Operator, SetEnvironment, PauseRun,
      StopRun, ResumeRun, Control, NewDay, pipeVars
<1>3. ASSUME NEW r \in Run,
             StepMessage(r) \/ StepFails(r) \/ StepDies(r) \/ Recover(r) \/ LockExpires(r) \/ Age(r)
      PROVE  Kept
  BY <1>3 DEF StepMessage, LoadRun, DropStep, StepFails, StepDies, Raise, Recover, LockExpires, Age,
      StepUnchanged, pipeVars
<1>4. ASSUME NEW r \in Run, StepWork(r)
      PROVE  Kept
  BY <1>4 DEF StepWork, Halt, DecideOperationalPause, DecideDiscovery, DecidePrefilter, DecideWait,
      DecideFetch, DecidePromote, DecideAwaitPromotions, DecideComplete, Decides, StepRefused, Raise,
      CommitStep, StepUnchanged, pipeVars
<1>5. ASSUME NEW l \in Lead,
             FetchWork(l) \/ \E n \in 0..MaxFetchRetries : FetchSucceeds(l, n, FALSE) \/ FetchDies(l, n)
      PROVE  Kept
  BY <1>5 DEF FetchWork, SkipFetch, StartFetch, FetchSucceeds, FetchFails, FetchDies, pipeVars
<1>6. ASSUME NEW d \in Doc,
             DocumentWork(d) \/ Normalise(d, FALSE) \/ NormaliseFails(d) \/ Promote(d, FALSE)
      PROVE  Kept \/ DocSteps
  <2>1. CASE Promote(d, TRUE) \/ Promote(d, FALSE)
    BY <2>1 DEF Promote, pipeVars
  <2> QED
    BY <1>6, <2>1 DEF DocumentWork, DocSteps
<1>7. ASSUME IntakeNext
      PROVE  Kept \/ DocSteps
  BY <1>7, <1>2, <1>3, <1>4, <1>5, <1>6, IntakeSteps
<1> QED
  BY <1>1, <1>7

\* One more document is normalised, or none.
LEMMA NormalisingKeepsSight ==
  ASSUME SightInv, UNCHANGED <<judging, decision>>, Normalised \subseteq Normalised',
         toJudge' \subseteq Normalised'
  PROVE  SightInv'
BY DEF SightInv, Read, Decided, Saw, Seen, SameStory

LEMMA DocStepsKeepSight ==
  ASSUME SightInv, TypeInv, DocSteps
  PROVE  SightInv'
<1>0. /\ doc \in [Doc -> {"absent", "normalised", "failed"}]
      /\ judging = [d \in Doc |-> judging[d]] /\ decision = [d \in Doc |-> decision[d]]
  BY DEF TypeInv, DocsOK
<1>1. ASSUME NEW d \in Doc, NEW sent \in BOOLEAN, Normalise(d, sent)
      PROVE  SightInv'
  <2>1. Normalised \subseteq Normalised'
    BY <1>0, <1>1 DEF Normalise, Normalised
  <2>2. toJudge' \subseteq Normalised'
    BY <1>0, <1>1, <2>1 DEF Normalise, Normalised, SightInv
  <2> QED
    BY <1>1, <2>1, <2>2, NormalisingKeepsSight DEF Normalise
<1>2. ASSUME NEW d \in Doc, NormaliseFails(d)
      PROVE  SightInv'
  <2>1. Normalised' = Normalised
    BY <1>0, <1>2 DEF NormaliseFails, Normalised
  <2> QED
    BY <1>2, <2>1, NormalisingKeepsSight DEF NormaliseFails, SightInv
<1>3. ASSUME NEW d \in Doc, ReadCandidates(d), Decided(d)
      PROVE  SightInv'
  <2>1. UNCHANGED <<doc, judging, decision>> /\ toJudge' \subseteq toJudge
    BY <1>3 DEF ReadCandidates, Decided
  <2> QED
    BY <2>1, NormalisingKeepsSight DEF SightInv, Normalised
<1>4. ASSUME NEW d \in Doc, ReadCandidates(d), ~Decided(d)
      PROVE  SightInv'
  <2>1. /\ judging' = [judging EXCEPT ![d] = Normalised \ {d}]
        /\ UNCHANGED <<doc, decision, toJudge>> /\ d \in toJudge
    BY <1>4 DEF ReadCandidates, Decided, Comparable, Normalised
  <2>2. d \in Normalised /\ Normalised' = Normalised
    BY <2>1 DEF SightInv, Normalised
  <2>3. Saw(d)' = Normalised \ {d} /\ Seen(d)' = Normalised /\ ~Decided(d)'
    BY <1>0, <1>4, <2>1, <2>2 DEF Saw, Seen, Decided
  <2>4. \A e \in Doc : e # d => /\ judging'[e] = judging[e] /\ Saw(e)' = Saw(e) /\ Seen(e)' = Seen(e)
                                /\ Read(e)' = Read(e)
    BY <1>0, <2>1 DEF Saw, Seen, Read, Decided
  <2>5. \A e \in Doc : Decided(e)' => judging'[e] = Nil
    BY <1>4, <2>1, <2>4 DEF SightInv, Decided
  <2>6. \A e \in Doc : Read(e)' => Seen(e)' \subseteq Normalised' /\ e \notin Saw(e)'
    BY <2>2, <2>3, <2>4 DEF SightInv
  <2>7. \A e, f \in Doc : Read(e)' /\ Read(f)' => Seen(e)' \subseteq Seen(f)' \/ Seen(f)' \subseteq Seen(e)'
    BY <2>2, <2>3, <2>4, <2>6 DEF SightInv
  <2> QED
    BY <2>1, <2>2, <2>5, <2>6, <2>7 DEF SightInv, SameStory
<1>5. ASSUME NEW d \in Doc, RecordDecision(d)
      PROVE  SightInv'
  <2>1. PICK o \in Outcomes(d, judging[d]) :
          /\ decision' = [decision EXCEPT ![d] = [outcome |-> o, saw |-> judging[d]]]
          /\ judging' = [judging EXCEPT ![d] = Nil]
          /\ UNCHANGED doc /\ toJudge' \subseteq toJudge /\ judging[d] # Nil
    BY <1>5 DEF RecordDecision
  <2>2. /\ o # Nil
        /\ o = "duplicate" => SameStory(d, judging[d]) # {}
    BY IntakeNil DEF Outcomes
  <2>3. \A e \in Doc : e # d => /\ judging'[e] = judging[e] /\ decision'[e] = decision[e]
    BY <1>0, <2>1
  <2>4. Normalised' = Normalised
    BY <2>1 DEF Normalised
  <2>5. /\ judging'[d] = Nil /\ decision'[d] = [outcome |-> o, saw |-> judging[d]] /\ ~Decided(d)
    BY <1>0, <2>1 DEF SightInv
  <2>6. \A e \in Doc : Read(e)' = Read(e) /\ Saw(e)' = Saw(e) /\ Seen(e)' = Seen(e)
    BY <2>1, <2>2, <2>3, <2>5 DEF Read, Saw, Seen, Decided
  <2>7. \A e \in Doc : Decided(e)' => judging'[e] = Nil
    BY <2>3, <2>5 DEF SightInv, Decided
  <2>8. \A e \in Doc : decision'[e].outcome = "duplicate" => SameStory(e, decision'[e].saw) # {}
    BY <2>2, <2>3, <2>5 DEF SightInv
  <2> QED
    BY <2>1, <2>4, <2>6, <2>7, <2>8 DEF SightInv, SameStory
<1> QED
  BY <1>1, <1>2, <1>3, <1>4, <1>5 DEF DocSteps

LEMMA DocsFinite == IsFiniteSet(Doc)
<1>1. IsFiniteSet(1..MaxSnapshots)
  <2>1. 1 \in Int /\ MaxSnapshots \in Int
    BY BoundsAreNumbers
  <2> QED
    BY <2>1, FS_Interval
<1> QED
  BY IntakeLeads, <1>1, FS_Product DEF Doc

\* Of some documents that were read, one has seen no more than any other.
LEMMA FirstReader ==
  ASSUME SightInv, NEW C \in SUBSET Doc, C # {}, \A d \in C : Read(d)
  PROVE  \E d \in C : \A e \in C : Seen(d) \subseteq Seen(e)
<1> DEFINE T == {Seen(d) : d \in C}
<1>1. T \subseteq FiniteSubsetsOf(Doc) /\ T # {}
  <2>1. ASSUME NEW d \in C
        PROVE  Seen(d) \in SUBSET Doc
    BY <2>1 DEF SightInv, Normalised
  <2>2. ASSUME NEW d \in C
        PROVE  IsFiniteSet(Seen(d))
    BY <2>1, DocsFinite, FS_Subset
  <2> QED
    BY <2>1, <2>2 DEF FiniteSubsetsOf
<1>2. PICK S \in T : \A U \in T : ~(<<U, S>> \in StrictSubsetOrdering(Doc))
  <2> HIDE DEF T
  <2> QED
    BY <1>1, DocsFinite, FS_StrictSubsetOrderingWellFounded, WFMin
<1>3. PICK d \in C : S = Seen(d)
  OBVIOUS
<1>4. ASSUME NEW e \in C
      PROVE  Seen(d) \subseteq Seen(e)
  <2>1. Seen(d) \subseteq Seen(e) \/ Seen(e) \subseteq Seen(d)
    BY DEF SightInv
  <2>2. Seen(e) \in SUBSET Doc /\ Seen(d) \in SUBSET Doc
    BY DEF SightInv, Normalised
  <2>3. ~(Seen(e) \subseteq Seen(d) /\ Seen(e) # Seen(d))
    BY <1>2, <1>3, <2>2 DEF StrictSubsetOrdering
  <2> QED
    BY <2>1, <2>3
<1> QED
  BY <1>4

LEMMA RacesLoseStories ==
  ASSUME SightInv
  PROVE  StoryLostOnlyByRace
<1> SUFFICES ASSUME NEW l \in Lead, Copies(Story[l]) # {},
                    \A d \in Copies(Story[l]) : decision[d].outcome = "duplicate"
             PROVE  \E d, e \in Copies(Story[l]) :
                      d # e /\ d \in decision[e].saw /\ e \in decision[d].saw
  BY DEF StoryLostOnlyByRace
<1> DEFINE C == Copies(Story[l])
<1>1. \A d \in C : d \in Doc /\ Decided(d) /\ Read(d) /\ Saw(d) = decision[d].saw
  BY IntakeNil DEF Copies, Read, Decided, Saw
<1>2. PICK d \in C : \A e \in C : Seen(d) \subseteq Seen(e)
  BY <1>1, FirstReader
<1>3. PICK e \in Saw(d) : Story[e[1]] = Story[d[1]]
  BY <1>1 DEF SightInv, SameStory
<1>4. e \in C /\ e # d
  BY <1>1, <1>3 DEF SightInv, Seen, Normalised, Copies
<1>5. d \in Saw(e)
  BY <1>2, <1>4 DEF Seen
<1> QED
  BY <1>1, <1>3, <1>4, <1>5

\* However many pages tell a story, it is lost only when two of them were normalised before
\* either was judged (duplicates/repository.py:89).
THEOREM StoriesAlwaysLostByRace == IntakeSpec => []StoryLostOnlyByRace
<1>1. IntakeInit => SightInv
  <2> SUFFICES ASSUME IntakeInit
               PROVE  SightInv
    OBVIOUS
  <2>1. /\ judging = [d \in Doc |-> Nil] /\ toJudge = {}
        /\ decision = [d \in Doc |-> [outcome |-> Nil, saw |-> {}]]
    BY DEF IntakeInit, InitWith
  <2> QED
    BY <2>1, IntakeNil DEF SightInv, Read, Decided
<1>2. SightInv /\ TypeInv /\ [IntakeNext]_intakeVars => SightInv'
  <2> SUFFICES ASSUME SightInv, TypeInv, [IntakeNext]_intakeVars
               PROVE  SightInv'
    OBVIOUS
  <2>1. CASE UNCHANGED <<doc, judging, decision, toJudge>>
    BY <2>1, NormalisingKeepsSight DEF Normalised, SightInv
  <2> QED
    BY <2>1, DocMoves, DocStepsKeepSight
<1>3. TypeInv /\ [IntakeNext]_intakeVars => TypeInv'
  BY NextKeepsTypes
<1>4. SightInv => StoryLostOnlyByRace
  BY RacesLoseStories
<1> QED
  BY InitTyped, <1>1, <1>2, <1>3, <1>4, PTL DEF IntakeSpec
=============================================================================

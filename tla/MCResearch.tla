----------------------------- MODULE MCResearch -----------------------------
(***************************************************************************)
(* The lock on a small instance, three deliveries of one task for one      *)
(* entity; the intake of one source, whose steps take such a lock; and one *)
(* mission.  `focus` says which of the three a behaviour is about: the     *)
(* others stay where they start.  An intake or mission behaviour starts    *)
(* from one of a few situations, each with its own share of the faults.    *)
(***************************************************************************)
EXTENDS ExecutionLock, Intake, Missions, TLC

CONSTANTS e1, e2, e3, k1

MCKeyOf == [e \in Execution |-> k1]

CONSTANTS r1, r2, l1, l2

\* Both leads tell one story.
MCStory == [l \in Lead |-> "story"]

CONSTANTS p1, p2, w1, f1, f2

\* The first run comes up with two ideas that share a page, a second run with a third.
MCCites == (1 :> <<p1, w1>>) @@ (2 :> <<p1, p2>>) @@ (3 :> <<p2>>)
MCFinds == (1 :> {1, 2}) @@ (2 :> {3}) @@ (3 :> {})

VARIABLE focus

MCvars == <<focus, vars, intakeVars, missionVars>>

-----------------------------------------------------------------------------
(* The situations an intake behaviour starts from.                          *)

Source(yields) == [active |-> TRUE, paused |-> FALSE, autopilot |-> TRUE, yields |-> yields]

\* What is left of the failures, crashes, commands, days and overlaps.
Left(f, c, m, d, o) ==
  [failures |-> MaxFailures - f, crashes |-> MaxCrashes - c, commands |-> MaxCommands - m,
   days |-> MaxDays - d, overlaps |-> MaxOverlaps - o]

Leads(S, s) == [l \in Lead |-> IF l \in S THEN s ELSE "elsewhere"]

\* A run with one accepted lead.
RunWith(yields, left, again, sent) ==
  InitWith({r1}, Leads({l1}, "accepted"), Source(yields), left, again, sent)

Situations ==
  \/ RunWith(FALSE, Left(0, 0, 1, 0, 0), TRUE, 1)     \* a command, and another run starts
  \* Two commands.
  \/ InitWith({r1}, Leads({}, "accepted"), Source(FALSE), Left(0, 0, 2, 0, 0), TRUE, 1)
  \/ RunWith(FALSE, Left(0, 1, 0, 0, 1), FALSE, 0)    \* a worker dies
  \/ RunWith(TRUE, Left(0, 1, 0, 0, 0), FALSE, 0)
  \/ RunWith(FALSE, Left(1, 0, 0, 0, 1), FALSE, 0)    \* an attempt fails
  \/ RunWith(TRUE, Left(1, 0, 0, 0, 0), FALSE, 0)
  \/ RunWith(FALSE, Left(0, 0, 0, 1, 0), FALSE, 2)    \* the budget is spent; a day passes
  \* Two pages tell one story.
  \/ InitWith({r1}, Leads({l1, l2}, "accepted"), Source(FALSE), Left(0, 0, 0, 0, 0), FALSE, 0)
  \* Two actors start the first run; a command may come in between.
  \/ InitWith({}, Leads({l1, l2}, "unknown"), Source(FALSE), Left(0, 0, 1, 0, 0), TRUE, 1)

NoIntake == InitWith({}, Leads({}, "unknown"), Source(FALSE), Left(0, 0, 0, 0, 0), FALSE, 0)

-----------------------------------------------------------------------------
(* The situations a mission behaviour starts from: what is known of p1, p2  *)
(* and w1, and what is left of the runs, decisions, crashes and failures.   *)

PagesAre(a, b, w) == (p1 :> a) @@ (p2 :> b) @@ (w1 :> w)

MissionLeft(c, d, x, f) ==
  [commands |-> MaxMissionCommands - c, decisions |-> MaxMissionDecisions - d,
   crashes |-> MaxMissionCrashes - x, failures |-> MaxMissionFailures - f]

\* p2 is read and judged already, and w1 has never been seen.
P2Known(first, left) ==
  MissionInit(PagesAre(first, "fetched", "unknown"), PagesAre("none", "judged", "none"), left)

MissionSituations ==
  \/ P2Known("discovered", MissionLeft(0, 0, 1, 0))    \* a worker dies
  \/ P2Known("discovered", MissionLeft(0, 0, 0, 1))    \* something fails
  \* The operator accepts and fetches the page of the open web.
  \/ P2Known("fetch_failed", MissionLeft(0, 2, 0, 0))
  \* Everything is judged; the mission is run once more.
  \/ MissionInit(PagesAre("fetched", "fetched", "unknown"),
                 PagesAre("judged", "judged", "none"), MissionLeft(1, 0, 0, 0))

NoMission == P2Known("discovered", MissionLeft(0, 0, 0, 0))

-----------------------------------------------------------------------------
MCInit ==
  /\ Init
  /\ \/ focus = "lock" /\ NoIntake /\ NoMission
     \/ focus = "intake" /\ Situations /\ NoMission
     \/ focus = "mission" /\ NoIntake /\ MissionSituations

LockStep == focus = "lock" /\ Next /\ UNCHANGED <<focus, intakeVars, missionVars>>
IntakeStep == focus = "intake" /\ IntakeNext /\ UNCHANGED <<focus, vars, missionVars>>
MissionStep == focus = "mission" /\ MissionNext /\ UNCHANGED <<focus, vars, intakeVars>>

MCNext == LockStep \/ IntakeStep \/ MissionStep

\* The pipeline behind the steps of an intake goes on, a dead worker's lock expires, and time
\* passes for what was dispatched.
PipelineGoesOn ==
  \/ \E l \in Lead : FetchWork(l)
  \/ \E d \in Doc : DocumentWork(d)
  \/ \E r \in Run : LockExpires(r) \/ Age(r)

\* Messages of a mission are delivered, runs and checks go to their end, and the wait for
\* pages is over.
MissionGoesOn ==
  \/ RunMessage \/ CheckMessage \/ WaitEnds
  \/ \E x \in EngineRun : RunWork(x)
  \/ \E f \in Finalizer : CheckWork(f)

\* Besides, messages and steps of an intake run, the sweep comes round, and the clock of the
\* store moves.
MCFair ==
  /\ WF_vars(focus = "lock" /\ Tick)
  /\ WF_intakeVars(focus = "intake" /\ \E r \in Run : StepMessage(r))
  /\ WF_intakeVars(focus = "intake" /\ \E r \in Run : StepWork(r))
  /\ WF_intakeVars(focus = "intake" /\ \E r \in Run : Recover(r))
  /\ WF_intakeVars(focus = "intake" /\ PipelineGoesOn)
  /\ WF_missionVars(focus = "mission" /\ MissionGoesOn)

MCSpec == MCInit /\ [][MCNext]_MCvars /\ MCFair
=============================================================================

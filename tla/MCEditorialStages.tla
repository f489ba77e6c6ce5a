---------------------------- MODULE MCEditorialStages -----------------------
(* Small instances of EditorialStages: an operator who is away while the    *)
(* autopilot reworks to its limit; one who is away while workers die and a   *)
(* media need is open; one who acts beside the autopilot.                    *)
EXTENDS EditorialStages

CONSTANTS w1, e1, q1, i1, i2, a1, body1, need1

NoFailure == failures = MaxFailures
NoCrash   == crashes = MaxCrashes
Autopilot(m) == mode = m /\ away /\ commands = 0

AutopilotReworks ==
  Autopilot("autonomous") /\ spent = 0 /\ NoFailure /\ NoCrash /\ bound = Need
CallsFail ==
  Autopilot("autonomous") /\ spent = Budget - 4 /\ failures = 0 /\ NoCrash /\ bound = Need
WorkersDie ==
  Autopilot("autonomous") /\ spent = Budget - 3 /\ NoFailure /\ crashes = 0 /\ bound = {}
OperatorHelps ==
  mode = "autonomous" /\ ~away /\ commands = MaxCommands - 1
    /\ spent = Budget - 3 /\ NoFailure /\ NoCrash /\ bound = Need
OperatorAlone ==
  mode = "off" /\ ~away /\ commands = 0
    /\ spent = Budget - 2 /\ NoFailure /\ NoCrash /\ bound = {}

MCInit == Init /\ (AutopilotReworks \/ CallsFail \/ WorkersDie \/ OperatorHelps \/ OperatorAlone)

MCSpec == MCInit /\ [][Next]_vars /\ StageFairness
=============================================================================

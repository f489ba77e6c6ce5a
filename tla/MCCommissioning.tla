---------------------------- MODULE MCCommissioning -------------------------
(* Small instances of Commissioning: an operator who is away while providers *)
(* fail, windows pass early and decisions change, or while workers die; one  *)
(* who works without the autopilot; and one who gives a few commands beside  *)
(* it, from several points of the pipeline on.                               *)
EXTENDS Commissioning

CONSTANTS s1, i1, p1, p2, n1, n2, b1, a1

NoFailure == failures = MaxFailures
NoCrash   == crashes = MaxCrashes
Away      == mode = "autonomous" /\ away /\ commands = 0

CallsFail     == Away /\ failures = 0 /\ NoCrash /\ decision = "unique"
                   /\ ~(sources.related = 1 /\ sources.observed)
WorkersDie    == Away /\ NoFailure /\ crashes = 0 /\ decision = "unique" /\ sources.related = 1
                   /\ ~sources.observed
OperatorAlone == mode = "off" /\ ~away /\ commands = 0 /\ NoFailure /\ NoCrash
                   /\ decision = "duplicate" /\ sources.related = 0 /\ ~sources.observed

\* What the pipeline has done by itself when a score waits for its commissioning,
\* when an idea waits for its pack, when the pack turns out to be conflicted, when
\* the brief is a draft and a second analysis came late, and when a late pack has
\* brought an accepted brief back to BRIEFING.
Start == {"scored", "selected", "conflicted", "briefed", "returned"}

StoredAttempts(subject, n) ==
  [i \in 1..n |-> [subject |-> subject, retry |-> i - 1, status |-> "succeeded"]]

From(start) ==
  LET scored  == start = "scored"
      briefed == start \in {"briefed", "returned"}
      one     == IF briefed THEN 1 ELSE 0
  IN
  /\ row = CASE scored               -> "idea_scoring"
             [] start = "selected"   -> "evidence_building"
             [] start = "conflicted" -> "blocked"
             [] OTHER                -> "briefing"
  /\ fresh = {} /\ serial = (start # "returned")
  /\ entry = [seo |-> one, briefing |-> [pack |-> one, intent |-> one],
              drafting |-> IF start = "returned" THEN 1 ELSE 0]
  /\ opportunity = [NoOpportunity EXCEPT !.score = "commissionable",
                                         !.disposition = IF scored THEN "open" ELSE "commissioned"]
  /\ decision = "unique"
  /\ sources = IF scored THEN [NoSources EXCEPT !.inputs = 1, !.pending = 1]
                         ELSE [NoSources EXCEPT !.inputs = 2, !.evidence = 2]
  /\ ideas = IF scored THEN <<>> ELSE <<[originality |-> "passed", inputs |-> 2]>>
  /\ selected = Len(ideas)
  /\ packs = CASE start \in {"scored", "selected"} -> <<>>
               [] start = "conflicted" -> <<[idea |-> 1, evidence |-> 2, assembled |-> "unresolved",
                                             contradiction |-> "unresolved", sufficiency |-> "conflicted"]>>
               [] OTHER -> <<[idea |-> 1, evidence |-> 2, assembled |-> "none",
                              contradiction |-> "none", sufficiency |-> "ready"]>>
  /\ intents = [n \in 1..2 * one |-> [idea |-> 1, attempt |-> n]]
  /\ briefs = [b \in 1..one |-> [idea |-> 1, pack |-> 1, intent |-> 1, sound |-> TRUE,
                                 status |-> IF start = "returned" THEN "accepted_for_drafting" ELSE "draft"]]
  /\ attempts = [idea_candidates   |-> StoredAttempts(<<2, 2>>, Len(ideas)),
                 intent_synthesis  |-> StoredAttempts(<<1>>, Len(intents)),
                 brief_composition |-> StoredAttempts(<<1, 1, 1>>, Len(briefs))]
  /\ task = [m \in Message |-> NoTask]
  /\ step = [a \in Sweep |-> NoStep] /\ request = NoRequest /\ recent = {}
  /\ mode = "autonomous" /\ away = FALSE /\ exhausted = FALSE /\ lost = FALSE
  /\ commands = MaxCommands - (CASE start = "conflicted" -> 3 [] start = "selected" -> 1 [] OTHER -> 2)
  /\ NoFailure /\ NoCrash

OperatorDecides == \E start \in Start : From(start)

MCInit == (Init /\ (CallsFail \/ WorkersDie \/ OperatorAlone)) \/ OperatorDecides

MCSpec == MCInit /\ [][Next]_vars /\ CommissioningFairness
=============================================================================

--------------------------- MODULE MCPublication ---------------------------
(***************************************************************************)
(* Publication on small instances.                                         *)
(***************************************************************************)
EXTENDS Publication, TLC

CONSTANTS c1, c2, p1, p2, h1, h2, d1, d2

\* Two contents with different payloads.
DistinctPayloads == c1 :> p1 @@ c2 :> p2

\* Reviewers, messages, and the two contents together with their packages.
MCSymmetry ==
  Permutations(Reviewer) \cup Permutations(Delivery)
    \cup {c1 :> c2 @@ c2 :> c1 @@ p1 :> p2 @@ p2 :> p1}
=============================================================================

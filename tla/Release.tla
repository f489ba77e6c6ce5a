------------------------------ MODULE Release ------------------------------
(***************************************************************************)
(* What publication promises of one item, whoever decides, schedules,      *)
(* delivers, retries or crashes: contents are approved by a human, a       *)
(* package is made of an approved content, a package goes live, its        *)
(* success is recorded, and only then is the item shown as published.      *)
(* Nothing on this way is ever taken back.                                 *)
(***************************************************************************)
CONSTANTS Content, PackageHash, None

VARIABLES
  approved,   \* contents a human approved
  packaged,   \* packages: a hash over a content
  live,       \* hashes the outside world can see
  recorded,   \* hashes whose success is known
  shown       \* the hash the item claims to be published as

released == <<approved, packaged, live, recorded, shown>>

Init == approved = {} /\ packaged = {} /\ live = {} /\ recorded = {} /\ shown = None

Approve(c) ==
  /\ approved' = approved \cup {c}
  /\ UNCHANGED <<packaged, live, recorded, shown>>

Package(h, c) ==
  /\ c \in approved
  /\ packaged' = packaged \cup {[hash |-> h, content |-> c]}
  /\ UNCHANGED <<approved, live, recorded, shown>>

GoLive(h) ==
  /\ \E p \in packaged : p.hash = h
  /\ live' = live \cup {h}
  /\ UNCHANGED <<approved, packaged, recorded, shown>>

RecordSuccess(h) ==
  /\ h \in live
  /\ recorded' = recorded \cup {h}
  /\ UNCHANGED <<approved, packaged, live, shown>>

Show(h) ==
  /\ h \in recorded
  /\ shown' = h
  /\ UNCHANGED <<approved, packaged, live, recorded>>

Next ==
  \/ \E c \in Content : Approve(c)
  \/ \E h \in PackageHash : GoLive(h) \/ RecordSuccess(h) \/ Show(h)
  \/ \E h \in PackageHash, c \in Content : Package(h, c)

Spec == Init /\ [][Next]_released
=============================================================================

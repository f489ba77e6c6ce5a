--------------------------- MODULE WorkflowProofs ---------------------------
(***************************************************************************)
(* What Workflow guarantees for every set of sessions, every past and      *)
(* every number of events.                                                 *)
(***************************************************************************)
EXTENDS Workflow, FiniteFacts

(***************************************************************************)
(* The states the exits lead to are states of the vocabulary.              *)
(***************************************************************************)
LEMMA StructuralType ==
  ASSUME NEW s
  PROVE  STRUCTURAL_TRANSITIONS(s) \subseteq WorkflowState
BY DEF STRUCTURAL_TRANSITIONS, WorkflowState

\* A resumed block returns to a state of the vocabulary.
LEMMA EntryType ==
  ASSUME NEW h \in Seq(Event(Reason)), NEW s
  PROVE  EntryFromState(h, s) \subseteq WorkflowState
<1> SUFFICES ASSUME NEW prior \in EntryFromState(h, s)
             PROVE  prior \in WorkflowState
  OBVIOUS
<1>1. PICK i \in DOMAIN h : prior = h[i].from_state /\ prior # None
  BY DEF EntryFromState, LatestEntry, Entries
<1>2. h[i] \in Event(Reason)
  BY <1>1
<1> QED
  BY <1>1, <1>2 DEF Event

\* So does a resolved rework.
LEMMA ReworkType ==
  ASSUME NEW h \in Seq(Event(Reason))
  PROVE  ReworkTarget(h) \subseteq WorkflowState
<1> SUFFICES ASSUME NEW target \in ReworkTarget(h)
             PROVE  target \in WorkflowState
  OBVIOUS
<1>1. PICK i \in DOMAIN h : /\ target \in {h[i].responsible_state, h[i].from_state}
                           /\ target # None
  BY DEF ReworkTarget, LatestEntry, Entries
<1>2. h[i] \in Event(Reason)
  BY <1>1
<1> QED
  BY <1>1, <1>2 DEF Event

\* Every exit of every state does (_allowed_targets).
LEMMA AllowedType ==
  ASSUME NEW h \in Seq(Event(Reason)), NEW s
  PROVE  AllowedTargets(s, h) \subseteq WorkflowState
<1>1. "rejected" \in WorkflowState
  BY DEF WorkflowState
<1> QED
  BY <1>1, StructuralType, EntryType, ReworkType DEF AllowedTargets

(***************************************************************************)
(* What an accepted transition of a copy leaves behind.                    *)
(***************************************************************************)
LEMMA AssignedType ==
  ASSUME NEW item \in Row, NEW to \in WorkflowState, NEW reason \in Reason
  PROVE  Assigned(item, to, reason) \in Row
BY DEF Assigned, Row

\* The committed row and the history grown by exactly one event.
LEMMA TransitionEffect ==
  ASSUME TypeOK, NEW item \in Row, NEW to \in WorkflowState,
         NEW responsible \in WorkflowState \cup {None}, NEW reason \in Reason,
         Transition(item, to, responsible, reason)
  PROVE  /\ row' \in Row
         /\ events' \in Seq(Event(Reason)) /\ events' # <<>>
         /\ Len(events') = Len(events) + 1
         /\ \A i \in 1..Len(events) : events'[i] = events[i]
         /\ events'[Len(events')] =
              [from_state |-> item.current_state, to_state |-> to,
               responsible_state |-> responsible, reason |-> reason]
<1> DEFINE new == [from_state |-> item.current_state, to_state |-> to,
                   responsible_state |-> responsible, reason |-> reason]
<1>1. new \in Event(Reason)
  BY DEF Event, Row
<1>2. events' = Append(events, new)
  BY DEF Transition
<1>3. row' \in Row
  <2>1. Assigned(item, to, reason) \in Row
    BY AssignedType
  <2>2. row \in Row /\ row' = Flushed(row, item, Assigned(item, to, reason))
    BY DEF Transition, TypeOK
  <2> QED
    BY <2>1, <2>2 DEF Flushed, Row
<1> HIDE DEF new
<1>4. /\ events' \in Seq(Event(Reason)) /\ events' # <<>>
      /\ Len(events') = Len(events) + 1
      /\ \A i \in 1..Len(events) : events'[i] = events[i]
      /\ events'[Len(events')] = new
  BY <1>1, <1>2 DEF TypeOK
<1> QED
  BY <1>3, <1>4 DEF new

-----------------------------------------------------------------------------
(***************************************************************************)
(* The inductive invariant.  The row follows the history only because no   *)
(* transition is a self-loop: a copy whose state changes always carries    *)
(* current_state in its UPDATE, however stale it is.  That needs the       *)
(* history itself to record no self-loop and no rework routed outside the  *)
(* content stages, since the exits of BLOCKED and CHANGES_REQUESTED are    *)
(* read from it.                                                           *)
(***************************************************************************)
EventMoves(e) ==
  /\ e.to_state # e.from_state
  /\ e.responsible_state \in ContentStages \cup {None}

HistoryMoves == \A i \in 1..Len(events) : EventMoves(events[i])

TargetsMove ==
  \A s \in Session :
    /\ session[s].pc = "resolve_block" => session[s].item.current_state = "blocked"
    /\ session[s].pc = "resolve_changes" =>
         session[s].item.current_state = "changes_requested"
    /\ session[s].pc = "target" => session[s].to # session[s].item.current_state

RowInv == TypeOK /\ RowProjectsHistory /\ HistoryMoves /\ TargetsMove

\* A rework is only ever routed to a content stage.
LEMMA ResponsibleIsContentStage ==
  ASSUME NEW s
  PROVE  PERMITTED_RESPONSIBLE_STATES(s) \subseteq ContentStages
BY DEF PERMITTED_RESPONSIBLE_STATES, ContentStages

\* The targets read from a history of moves are moves.
LEMMA DerivedTargetsMove ==
  ASSUME TypeOK, HistoryMoves
  PROVE  /\ "blocked" \notin EntryFromState(events, "blocked")
         /\ "changes_requested" \notin ReworkTarget(events)
<1>1. \A i \in DOMAIN events : EventMoves(events[i])
  BY DEF TypeOK, HistoryMoves
<1>2. "changes_requested" \notin ContentStages
  BY DEF ContentStages
<1>3. "blocked" \notin EntryFromState(events, "blocked")
  BY <1>1 DEF EntryFromState, LatestEntry, Entries, EventMoves
<1>4. ASSUME NEW i \in LatestEntry(events, "changes_requested")
      PROVE  /\ events[i].from_state # "changes_requested"
             /\ events[i].responsible_state # "changes_requested"
  BY <1>1, <1>2 DEF LatestEntry, Entries, EventMoves, None
<1> QED
  BY <1>3, <1>4 DEF ReworkTarget

\* Every accumulated past satisfies the strengthening.
LEMMA InitRowInv == Init => RowInv
<1> SUFFICES ASSUME Init PROVE RowInv
  OBVIOUS
<1>1. PICK past \in Past :
        /\ events = past
        /\ row = [CreatedRow EXCEPT !.current_state = past[Len(past)].to_state]
        /\ limit = Len(past) + MaxNewEvents
        /\ session = [s \in Session |-> NoSession]
  BY DEF Init
<1>2. past \in Seq(Event(Reason)) /\ past # <<>>
  BY PastAssumption DEF Accumulated
<1>3. Len(past) \in Nat /\ Len(past) \in 1..Len(past) /\ past[Len(past)] \in Event(Reason)
  BY <1>2
<1>4. CreatedRow \in Row
  BY DEF CreatedRow, Row, INITIAL_STATE, WorkflowState
<1>5. row \in Row /\ row.current_state = past[Len(past)].to_state
  BY <1>1, <1>3, <1>4 DEF Row, Event, CreatedRow
<1>6. NoSession \in SessionRecord
  BY <1>4 DEF NoSession, SessionRecord, INITIAL_STATE, WorkflowState
<1>7. session \in [Session -> SessionRecord]
  BY <1>1, <1>6
<1>8. limit \in Nat
  BY <1>1, <1>3, BoundAssumption
<1>9. TypeOK /\ RowProjectsHistory
  BY <1>1, <1>2, <1>5, <1>7, <1>8 DEF TypeOK, RowProjectsHistory
<1>10. ASSUME NEW i \in 1..Len(past)
       PROVE  EventMoves(past[i])
  <2>1. CASE i = 1
    <3>1. \E r \in Reason : past[1] = CreationEvent(r)
      BY PastAssumption DEF Accumulated
    <3> QED
      BY <2>1, <3>1 DEF CreationEvent, EventMoves, INITIAL_STATE, None
  <2>2. CASE i # 1
    <3>1. i \in 2..Len(past)
      BY <2>2, <1>3
    <3>2. /\ past[i].to_state # past[i].from_state
          /\ past[i].responsible_state # None =>
               past[i].responsible_state \in PERMITTED_RESPONSIBLE_STATES(past[i].from_state)
      BY <3>1, PastAssumption DEF Accumulated
    <3> QED
      BY <3>2, ResponsibleIsContentStage DEF EventMoves
  <2> QED
    BY <2>1, <2>2
<1>11. HistoryMoves
  BY <1>1, <1>10 DEF HistoryMoves
<1>12. TargetsMove
  BY <1>1 DEF TargetsMove, NoSession
<1> QED
  BY <1>9, <1>11, <1>12 DEF RowInv

\* A transition whose target is not the copy's own state writes the row's state.
LEMMA TransitionKeepsRow ==
  ASSUME RowInv, NEW item \in Row, NEW to \in WorkflowState, to # item.current_state,
         NEW responsible \in WorkflowState \cup {None}, NEW reason \in Reason,
         Transition(item, to, responsible, reason)
  PROVE  /\ row' \in Row
         /\ events' \in Seq(Event(Reason)) /\ events' # <<>>
         /\ RowProjectsHistory'
         /\ HistoryMoves'
<1> DEFINE new == [from_state |-> item.current_state, to_state |-> to,
                   responsible_state |-> responsible, reason |-> reason]
<1>1. TypeOK
  BY DEF RowInv
<1>2. /\ row' \in Row
      /\ events' \in Seq(Event(Reason)) /\ events' # <<>>
      /\ Len(events') = Len(events) + 1
      /\ \A i \in 1..Len(events) : events'[i] = events[i]
      /\ events'[Len(events')] = new
  BY <1>1, TransitionEffect
<1>3. row'.current_state = to
  BY DEF Transition, Flushed, Assigned
<1>4. RowProjectsHistory'
  BY <1>2, <1>3 DEF RowProjectsHistory
<1>5. EventMoves(new)
  BY ResponsibleIsContentStage DEF Transition, Accepts, EventMoves
<1> HIDE DEF new
<1>6. Len(events) \in Nat
  BY <1>1 DEF TypeOK
<1>7. HistoryMoves'
  BY <1>2, <1>5, <1>6 DEF RowInv, HistoryMoves
<1> QED
  BY <1>2, <1>4, <1>7

\* Sessions other than s are untouched when only s is updated.
LEMMA SessionStep ==
  ASSUME RowInv, NEW s \in Session, NEW r \in SessionRecord,
         session' = [session EXCEPT ![s] = r],
         r.pc = "resolve_block" => r.item.current_state = "blocked",
         r.pc = "resolve_changes" => r.item.current_state = "changes_requested",
         r.pc = "target" => r.to # r.item.current_state
  PROVE  session' \in [Session -> SessionRecord] /\ TargetsMove'
BY DEF RowInv, TypeOK, TargetsMove

\* Every step of every session keeps it.
LEMMA NextKeepsRowInv == RowInv /\ [Next]_vars => RowInv'
<1> SUFFICES ASSUME RowInv, [Next]_vars
             PROVE  RowInv'
  OBVIOUS
<1>1. TypeOK /\ RowProjectsHistory /\ HistoryMoves /\ TargetsMove
  BY DEF RowInv
<1>2. /\ row \in Row
      /\ events \in Seq(Event(Reason)) /\ events # <<>>
      /\ limit \in Nat
      /\ \A s \in Session : session[s] \in SessionRecord
      /\ session \in [Session -> SessionRecord]
  BY <1>1 DEF TypeOK
<1>3. \A s \in Session : session[s].item \in Row /\ session[s].to \in WorkflowState
  BY <1>2 DEF SessionRecord
<1>4. \A s \in Session : Copy(s) \in Row
  BY <1>2, <1>3 DEF Copy
<1>a. ASSUME UNCHANGED <<row, events, limit>>,
             session' \in [Session -> SessionRecord] /\ TargetsMove'
      PROVE  RowInv'
  BY <1>1, <1>2, <1>a DEF RowInv, TypeOK, RowProjectsHistory, HistoryMoves
<1>b. ASSUME NEW item \in Row, NEW to \in WorkflowState, to # item.current_state,
             NEW responsible \in WorkflowState \cup {None}, NEW reason \in Reason,
             Transition(item, to, responsible, reason),
             session' \in [Session -> SessionRecord] /\ TargetsMove',
             UNCHANGED limit
      PROVE  RowInv'
  <2>1. /\ row' \in Row
        /\ events' \in Seq(Event(Reason)) /\ events' # <<>>
        /\ RowProjectsHistory' /\ HistoryMoves'
    BY <1>b, TransitionKeepsRow
  <2>2. TypeOK'
    BY <2>1, <1>b, <1>2 DEF TypeOK
  <2> QED
    BY <2>1, <2>2, <1>b DEF RowInv
<1>5. CASE FreshTransition
  <2>1. PICK to \in AllowedTargets(row.current_state, events) \ {row.current_state},
             responsible \in WorkflowState \cup {None}, reason \in Reason :
          Transition(row, to, responsible, reason)
    BY <1>5 DEF FreshTransition
  <2>2. to \in WorkflowState /\ to # row.current_state
    BY <2>1, <1>2, AllowedType
  <2>3. session' \in [Session -> SessionRecord] /\ TargetsMove' /\ UNCHANGED limit
    BY <1>5, <1>1, <1>2 DEF FreshTransition, TargetsMove
  <2> QED
    BY <2>1, <2>2, <2>3, <1>2, <1>b
<1>6. ASSUME NEW s \in Session, LoadItem(s)
      PROVE  RowInv'
  <2> DEFINE r == [session[s] EXCEPT !.pc = "holding", !.item = row]
  <2>1. r \in SessionRecord /\ r.pc = "holding"
    BY <1>2 DEF SessionRecord
  <2>2. session' = [session EXCEPT ![s] = r]
    BY <1>6, <1>2 DEF LoadItem
  <2> HIDE DEF r
  <2>3. session' \in [Session -> SessionRecord] /\ TargetsMove'
    BY <2>1, <2>2, SessionStep
  <2> QED
    BY <2>3, <1>6, <1>a DEF LoadItem
<1>7. ASSUME NEW s \in Session, HeldTransition(s)
      PROVE  RowInv'
  <2>1. PICK to \in HeldRequests[session[s].item.current_state],
             responsible \in WorkflowState \cup {None}, reason \in Reason :
          /\ Transition(session[s].item, to, responsible, reason)
          /\ session' = [session EXCEPT ![s].item = Assigned(session[s].item, to, reason)]
    BY <1>7 DEF HeldTransition
  <2>2. session[s].item.current_state \in WorkflowState
    BY <1>3 DEF Row
  <2>3. to \in WorkflowState /\ to # session[s].item.current_state
    BY <2>1, <2>2, HeldRequestsAssumption
  <2> DEFINE r == [session[s] EXCEPT !.item = Assigned(session[s].item, to, reason)]
  <2>4. r \in SessionRecord /\ r.pc = "holding"
    BY <1>7, <1>2, <1>3, <2>3, AssignedType DEF SessionRecord, HeldTransition
  <2>5. session' = [session EXCEPT ![s] = r]
    BY <2>1, <1>2
  <2> HIDE DEF r
  <2>6. session' \in [Session -> SessionRecord] /\ TargetsMove'
    BY <2>4, <2>5, SessionStep
  <2> QED
    BY <2>1, <2>3, <2>6, <1>3, <1>7, <1>b DEF HeldTransition
<1>8. ASSUME NEW s \in Session, ResolveBlock(s)
      PROVE  RowInv'
  <2> DEFINE r == [session[s] EXCEPT !.pc = "resolve_block", !.item = Copy(s)]
  <2>1. r \in SessionRecord /\ r.pc = "resolve_block" /\ r.item.current_state = "blocked"
    BY <1>8, <1>2, <1>4 DEF SessionRecord, ResolveBlock
  <2>2. session' = [session EXCEPT ![s] = r]
    BY <1>8, <1>2 DEF ResolveBlock
  <2> HIDE DEF r
  <2>3. session' \in [Session -> SessionRecord] /\ TargetsMove'
    BY <2>1, <2>2, SessionStep
  <2> QED
    BY <2>3, <1>8, <1>a DEF ResolveBlock
<1>9. ASSUME NEW s \in Session, DeriveResumeTarget(s)
      PROVE  RowInv'
  <2>1. PICK prior \in EntryFromState(events, "blocked") :
          session' = [session EXCEPT ![s].pc = "target", ![s].to = prior]
    BY <1>9 DEF DeriveResumeTarget
  <2>2. prior \in WorkflowState /\ prior # "blocked"
    BY <2>1, <1>1, <1>2, EntryType, DerivedTargetsMove
  <2>3. session[s].item.current_state = "blocked"
    BY <1>9, <1>1 DEF DeriveResumeTarget, TargetsMove
  <2> DEFINE r == [session[s] EXCEPT !.pc = "target", !.to = prior]
  <2>4. r \in SessionRecord /\ r.pc = "target" /\ r.to # r.item.current_state
    BY <1>2, <2>2, <2>3 DEF SessionRecord
  <2>5. session' = [session EXCEPT ![s] = r]
    BY <2>1, <1>2
  <2> HIDE DEF r
  <2>6. session' \in [Session -> SessionRecord] /\ TargetsMove'
    BY <2>4, <2>5, SessionStep
  <2> QED
    BY <2>6, <1>9, <1>a DEF DeriveResumeTarget
<1>10. ASSUME NEW s \in Session, ResolveChangesRequested(s)
       PROVE  RowInv'
  <2> DEFINE r == [session[s] EXCEPT !.pc = "resolve_changes", !.item = Copy(s)]
  <2>1. /\ r \in SessionRecord /\ r.pc = "resolve_changes"
        /\ r.item.current_state = "changes_requested"
    BY <1>10, <1>2, <1>4 DEF SessionRecord, ResolveChangesRequested
  <2>2. session' = [session EXCEPT ![s] = r]
    BY <1>10, <1>2 DEF ResolveChangesRequested
  <2> HIDE DEF r
  <2>3. session' \in [Session -> SessionRecord] /\ TargetsMove'
    BY <2>1, <2>2, SessionStep
  <2> QED
    BY <2>3, <1>10, <1>a DEF ResolveChangesRequested
<1>11. ASSUME NEW s \in Session, DeriveReworkTarget(s)
       PROVE  RowInv'
  <2>1. PICK target \in ReworkTarget(events) :
          session' = [session EXCEPT ![s].pc = "target", ![s].to = target]
    BY <1>11 DEF DeriveReworkTarget
  <2>2. target \in WorkflowState /\ target # "changes_requested"
    BY <2>1, <1>1, <1>2, ReworkType, DerivedTargetsMove
  <2>3. session[s].item.current_state = "changes_requested"
    BY <1>11, <1>1 DEF DeriveReworkTarget, TargetsMove
  <2> DEFINE r == [session[s] EXCEPT !.pc = "target", !.to = target]
  <2>4. r \in SessionRecord /\ r.pc = "target" /\ r.to # r.item.current_state
    BY <1>2, <2>2, <2>3 DEF SessionRecord
  <2>5. session' = [session EXCEPT ![s] = r]
    BY <2>1, <1>2
  <2> HIDE DEF r
  <2>6. session' \in [Session -> SessionRecord] /\ TargetsMove'
    BY <2>4, <2>5, SessionStep
  <2> QED
    BY <2>6, <1>11, <1>a DEF DeriveReworkTarget
<1>12. ASSUME NEW s \in Session, RejectBlocked(s)
       PROVE  RowInv'
  <2> DEFINE r == [pc |-> "target", item |-> Copy(s), to |-> "rejected"]
  <2>1. r \in SessionRecord /\ r.pc = "target" /\ r.to # r.item.current_state
    BY <1>12, <1>4 DEF SessionRecord, RejectBlocked, WorkflowState
  <2>2. session' = [session EXCEPT ![s] = r]
    BY <1>12 DEF RejectBlocked
  <2> HIDE DEF r
  <2>3. session' \in [Session -> SessionRecord] /\ TargetsMove'
    BY <2>1, <2>2, SessionStep
  <2> QED
    BY <2>3, <1>12, <1>a DEF RejectBlocked
<1>13. ASSUME NEW s \in Session, MoveToTarget(s)
       PROVE  RowInv'
  <2>1. PICK reason \in Reason :
          /\ Transition(session[s].item, session[s].to, None, reason)
          /\ session' = [session EXCEPT ![s].pc = "holding",
                ![s].item = Assigned(session[s].item, session[s].to, reason)]
    BY <1>13 DEF MoveToTarget
  <2>2. session[s].to # session[s].item.current_state
    BY <1>13, <1>1 DEF MoveToTarget, TargetsMove
  <2> DEFINE r == [session[s] EXCEPT !.pc = "holding",
                     !.item = Assigned(session[s].item, session[s].to, reason)]
  <2>3. Assigned(session[s].item, session[s].to, reason) \in Row
    BY <1>3, AssignedType
  <2>4. r \in SessionRecord /\ r.pc = "holding"
    BY <1>2, <2>3 DEF SessionRecord
  <2>5. session' = [session EXCEPT ![s] = r]
    BY <2>1, <1>2
  <2> HIDE DEF r
  <2>6. session' \in [Session -> SessionRecord] /\ TargetsMove'
    BY <2>4, <2>5, SessionStep
  <2>7. session[s].item \in Row /\ session[s].to \in WorkflowState
    BY <1>3
  <2>8. UNCHANGED limit
    BY <1>13 DEF MoveToTarget
  <2> QED
    BY <2>1, <2>2, <2>6, <2>7, <2>8, <1>b
<1>14. ASSUME NEW s \in Session, EndSession(s)
       PROVE  RowInv'
  <2>1. NoSession \in SessionRecord /\ NoSession.pc = "idle"
    BY DEF NoSession, SessionRecord, CreatedRow, Row, INITIAL_STATE, WorkflowState
  <2>2. session' = [session EXCEPT ![s] = NoSession]
    BY <1>14 DEF EndSession
  <2>3. session' \in [Session -> SessionRecord] /\ TargetsMove'
    BY <2>1, <2>2, SessionStep
  <2> QED
    BY <2>3, <1>14, <1>a DEF EndSession
<1>15. CASE UNCHANGED vars
  BY <1>15, <1>1 DEF vars, RowInv, TypeOK, RowProjectsHistory, HistoryMoves, TargetsMove
<1> QED
  BY <1>5, <1>6, <1>7, <1>8, <1>9, <1>10, <1>11, <1>12, <1>13, <1>14, <1>15 DEF Next

-----------------------------------------------------------------------------
\* The strengthening holds of every behaviour.
LEMMA RowInvAlways == Spec => []RowInv
BY InitRowInv, NextKeepsRowInv, PTL DEF Spec

\* For every set of sessions, every past and every number of new events, the row,
\* the history and what each session holds keep their types: what transition() writes
\* (workflow/service.py) always satisfies the columns and the closed state vocabulary.
THEOREM WorkflowTypeOK == Spec => []TypeOK
<1>1. RowInv => TypeOK
  BY DEF RowInv
<1> QED
  BY <1>1, RowInvAlways, PTL

\* However stale the copies the sessions validate against, the state column of
\* editorial_work_items is the state the newest editorial_workflow_events row entered.
THEOREM RowAlwaysProjectsHistory == Spec => []RowProjectsHistory
<1>1. RowInv => RowProjectsHistory
  BY DEF RowInv
<1> QED
  BY <1>1, RowInvAlways, PTL

-----------------------------------------------------------------------------
(***************************************************************************)
(* The exit of BLOCKED.                                                    *)
(***************************************************************************)
\* When the newest event entered BLOCKED, that event alone decides the exits.
LEMMA BlockedExit ==
  ASSUME NEW h \in Seq(Event(Reason)), h # <<>>, h[Len(h)].to_state = "blocked"
  PROVE  AllowedTargets("blocked", h) \subseteq {"rejected", h[Len(h)].from_state}
<1>1. Len(h) \in DOMAIN h /\ \A i \in DOMAIN h : i <= Len(h)
  OBVIOUS
<1>2. Len(h) \in Entries(h, "blocked")
  BY <1>1 DEF Entries
<1>3. \A i \in LatestEntry(h, "blocked") : i = Len(h)
  BY <1>1, <1>2 DEF LatestEntry, Entries
<1> QED
  BY <1>3 DEF AllowedTargets, EntryFromState

\* The step appends the event of an accepted move of a copy to another state, and the
\* sessions end up with the copies they had or with the moved one.
AppendsMove ==
  \E item \in Row, to \in WorkflowState,
     responsible \in WorkflowState \cup {None}, reason \in Reason :
    /\ to # item.current_state
    /\ Transition(item, to, responsible, reason)
    /\ item = row \/ \E s \in Session : item = session[s].item
    /\ \A t \in Session : session'[t].item \in {session[t].item, Assigned(item, to, reason)}

\* Every other step leaves the history alone.
LEMMA HistorySteps ==
  ASSUME RowInv, [Next]_vars
  PROVE  UNCHANGED events \/ AppendsMove
<1>1. /\ row \in Row
      /\ events \in Seq(Event(Reason))
      /\ session \in [Session -> SessionRecord]
      /\ \A s \in Session : session[s].item \in Row /\ session[s].to \in WorkflowState
  BY DEF RowInv, TypeOK, SessionRecord
<1>2. ASSUME FreshTransition
      PROVE  AppendsMove
  BY <1>1, <1>2, AllowedType DEF FreshTransition, AppendsMove
<1>3. ASSUME NEW s \in Session, HeldTransition(s)
      PROVE  AppendsMove
  <2>1. session[s].item.current_state \in WorkflowState
    BY <1>1 DEF Row
  <2>2. PICK to \in HeldRequests[session[s].item.current_state],
             responsible \in WorkflowState \cup {None}, reason \in Reason :
          /\ Transition(session[s].item, to, responsible, reason)
          /\ session' = [session EXCEPT ![s].item = Assigned(session[s].item, to, reason)]
    BY <1>3 DEF HeldTransition
  <2>3. to \in WorkflowState /\ to # session[s].item.current_state
    BY <2>1, <2>2, HeldRequestsAssumption
  <2>4. \A t \in Session :
          session'[t].item \in {session[t].item, Assigned(session[s].item, to, reason)}
    BY <1>1, <2>2 DEF SessionRecord
  <2> QED
    BY <1>1, <2>2, <2>3, <2>4 DEF AppendsMove
<1>4. ASSUME NEW s \in Session, MoveToTarget(s)
      PROVE  AppendsMove
  <2>1. PICK reason \in Reason :
          /\ Transition(session[s].item, session[s].to, None, reason)
          /\ session' = [session EXCEPT ![s].pc = "holding",
                ![s].item = Assigned(session[s].item, session[s].to, reason)]
    BY <1>4 DEF MoveToTarget
  <2>2. session[s].to \in WorkflowState /\ session[s].to # session[s].item.current_state
    BY <1>1, <1>4 DEF RowInv, TargetsMove, MoveToTarget
  <2>3. \A t \in Session :
          session'[t].item \in {session[t].item,
                                Assigned(session[s].item, session[s].to, reason)}
    BY <1>1, <2>1 DEF SessionRecord
  <2> QED
    BY <1>1, <2>1, <2>2, <2>3 DEF AppendsMove
<1>5. ASSUME NEW s \in Session,
             \/ LoadItem(s) \/ ResolveBlock(s) \/ DeriveResumeTarget(s)
             \/ ResolveChangesRequested(s) \/ DeriveReworkTarget(s)
             \/ RejectBlocked(s) \/ EndSession(s)
      PROVE  UNCHANGED events
  BY <1>5 DEF LoadItem, ResolveBlock, DeriveResumeTarget, ResolveChangesRequested,
              DeriveReworkTarget, RejectBlocked, EndSession
<1>6. CASE UNCHANGED vars
  BY <1>6 DEF vars
<1> QED
  BY <1>2, <1>3, <1>4, <1>5, <1>6 DEF Next

\* An event appended to a chained history leaves the state the newest one entered.
LEMMA ChainedAppend ==
  ASSUME TypeOK, NEW item \in Row, NEW to \in WorkflowState,
         NEW responsible \in WorkflowState \cup {None}, NEW reason \in Reason,
         Transition(item, to, responsible, reason), Chained(events')
  PROVE  Chained(events) /\ item.current_state = events[Len(events)].to_state
<1> DEFINE new == [from_state |-> item.current_state, to_state |-> to,
                   responsible_state |-> responsible, reason |-> reason]
<1>1. /\ Len(events') = Len(events) + 1
      /\ \A i \in 1..Len(events) : events'[i] = events[i]
      /\ events'[Len(events')] = new
  BY TransitionEffect
<1>2. Len(events) \in Nat \ {0}
  BY DEF TypeOK
<1>3. \A i \in 2..(Len(events) + 1) : events'[i].from_state = events'[i - 1].to_state
  BY <1>1 DEF Chained
<1>4. Chained(events)
  <2> SUFFICES ASSUME NEW i \in 2..Len(events)
               PROVE  events[i].from_state = events[i - 1].to_state
    BY DEF Chained
  <2>1. i \in 1..Len(events) /\ i - 1 \in 1..Len(events) /\ i \in 2..(Len(events) + 1)
    BY <1>2
  <2> QED
    BY <2>1, <1>1, <1>3
<1>5. Len(events) + 1 \in 2..(Len(events) + 1) /\ Len(events) \in 1..Len(events)
  BY <1>2
<1>6. events'[Len(events) + 1].from_state = events'[Len(events)].to_state
  BY <1>2, <1>3, <1>5
<1>7. events'[Len(events)] = events[Len(events)]
  BY <1>1, <1>5
<1>8. events'[Len(events) + 1].from_state = item.current_state
  BY <1>1
<1> QED
  BY <1>4, <1>6, <1>7, <1>8

\* A past the service accumulated only leaves BLOCKED the way it came.
LEMMA InitBlockedRoundTrip == Init => BlockedRoundTrip
<1> SUFFICES ASSUME Init, NEW i \in 2..Len(events), events[i].from_state = "blocked"
             PROVE  events[i].to_state \in {"rejected", events[i - 1].from_state}
  BY DEF BlockedRoundTrip
<1>1. PICK past \in Past : events = past
  BY DEF Init
<1>2. /\ past \in Seq(Event(Reason))
      /\ past[i].from_state = past[i - 1].to_state
      /\ past[i].to_state \in AllowedTargets(past[i].from_state, SubSeq(past, 1, i - 1))
  BY <1>1, PastAssumption DEF Accumulated, Chained
<1> DEFINE h == SubSeq(past, 1, i - 1)
<1>3. /\ h \in Seq(Event(Reason)) /\ Len(h) = i - 1 /\ h # <<>>
      /\ h[i - 1] = past[i - 1]
  BY <1>1, <1>2
<1>4. past[i].to_state \in AllowedTargets("blocked", h)
  BY <1>1, <1>2
<1> HIDE DEF h
<1>5. h[Len(h)].to_state = "blocked"
  BY <1>1, <1>2, <1>3
<1>6. past[i].to_state \in {"rejected", h[Len(h)].from_state}
  BY <1>3, <1>4, <1>5, BlockedExit
<1> QED
  BY <1>1, <1>3, <1>6

\* No step of any session adds another way out.
LEMMA NextKeepsBlockedRoundTrip ==
  RowInv /\ BlockedRoundTrip /\ [Next]_vars => BlockedRoundTrip'
<1> SUFFICES ASSUME RowInv, BlockedRoundTrip, [Next]_vars, Chained(events'),
                    NEW i \in 2..Len(events'), events'[i].from_state = "blocked"
             PROVE  events'[i].to_state \in {"rejected", events'[i - 1].from_state}
  BY DEF BlockedRoundTrip
<1>1. TypeOK
  BY DEF RowInv
<1>2. CASE UNCHANGED events
  BY <1>2 DEF BlockedRoundTrip
<1>3. ASSUME NEW item \in Row, NEW to \in WorkflowState,
             NEW responsible \in WorkflowState \cup {None}, NEW reason \in Reason,
             Transition(item, to, responsible, reason)
      PROVE  events'[i].to_state \in {"rejected", events'[i - 1].from_state}
  <2> DEFINE new == [from_state |-> item.current_state, to_state |-> to,
                     responsible_state |-> responsible, reason |-> reason]
  <2>1. /\ Len(events') = Len(events) + 1
        /\ \A n \in 1..Len(events) : events'[n] = events[n]
        /\ events'[Len(events')] = new
    BY <1>1, <1>3, TransitionEffect
  <2>2. Chained(events) /\ item.current_state = events[Len(events)].to_state
    BY <1>1, <1>3, ChainedAppend
  <2>3. Len(events) \in Nat \ {0} /\ events \in Seq(Event(Reason)) /\ events # <<>>
    BY <1>1 DEF TypeOK
  <2>4. CASE i \in 2..Len(events)
    <3>1. i \in 1..Len(events) /\ i - 1 \in 1..Len(events)
      BY <2>3, <2>4
    <3>2. events'[i] = events[i] /\ events'[i - 1] = events[i - 1]
      BY <2>1, <3>1
    <3> QED
      BY <2>2, <2>4, <3>2 DEF BlockedRoundTrip
  <2>5. CASE i = Len(events) + 1
    <3>1. events'[i] = new /\ events'[i - 1] = events[Len(events)]
      BY <2>1, <2>3, <2>5
    <3>2. item.current_state = "blocked" /\ events'[i].to_state = to
      BY <3>1
    <3>3. to \in AllowedTargets("blocked", events)
      BY <1>3, <3>2 DEF Transition, Accepts
    <3> HIDE DEF new
    <3>4. to \in {"rejected", events[Len(events)].from_state}
      BY <2>2, <2>3, <3>2, <3>3, BlockedExit
    <3> QED
      BY <3>1, <3>2, <3>4
  <2> QED
    BY <2>1, <2>3, <2>4, <2>5
<1> QED
  BY <1>2, <1>3, HistorySteps DEF AppendsMove

\* However many sessions resolve, reject and re-block an item at once, a history in
\* which no stale copy was written leaves BLOCKED only to REJECTED or to the state the
\* item was blocked in (resolve_block and _allowed_targets in workflow/service.py).
THEOREM BlockedAlwaysRoundTrips == Spec => []BlockedRoundTrip
<1>1. Init => RowInv /\ BlockedRoundTrip
  BY InitRowInv, InitBlockedRoundTrip
<1>2. RowInv /\ BlockedRoundTrip /\ [Next]_vars => (RowInv /\ BlockedRoundTrip)'
  BY NextKeepsRowInv, NextKeepsBlockedRoundTrip
<1> QED
  BY <1>1, <1>2, PTL DEF Spec

-----------------------------------------------------------------------------
(***************************************************************************)
(* The reason columns.  They are not written through the event, and a      *)
(* flush leaves out the columns the copy did not change, so the row is     *)
(* explained only because every copy is: it holds a reason exactly when    *)
(* its state asks for one, so entering or leaving BLOCKED or REJECTED      *)
(* always changes the column.                                              *)
(***************************************************************************)
Explained(item) ==
  /\ item.blocked_reason # None <=> item.current_state = "blocked"
  /\ item.rejected_reason # None <=> item.current_state = "rejected"

CopiesExplained ==
  Chained(events) =>
    Explained(row) /\ \A s \in Session : Explained(session[s].item)

ReasonInv == RowInv /\ RowExplainsItself /\ CopiesExplained

\* The created row needs no reason.
LEMMA CreatedExplained == Explained(CreatedRow)
BY DEF Explained, CreatedRow, INITIAL_STATE

\* A move to another state keeps a copy explained.
LEMMA AssignedExplained ==
  ASSUME NEW item \in Row, Explained(item), NEW to \in WorkflowState,
         to # item.current_state, NEW reason \in Reason
  PROVE  Explained(Assigned(item, to, reason))
BY ReasonAssumption DEF Explained, Assigned, Row

\* Writing the changes of an explained copy over an explained row of the same state
\* gives exactly the reason of the move, and none to any other state.
LEMMA FlushedExplained ==
  ASSUME NEW stored \in Row, Explained(stored), NEW item \in Row, Explained(item),
         item.current_state = stored.current_state,
         NEW to \in WorkflowState, to # item.current_state, NEW reason \in Reason
  PROVE  LET new == Flushed(stored, item, Assigned(item, to, reason)) IN
           /\ new.current_state = to
           /\ new.blocked_reason = IF to = "blocked" THEN reason ELSE None
           /\ new.rejected_reason = IF to = "rejected" THEN reason ELSE None
BY ReasonAssumption DEF Explained, Flushed, Assigned, Row

\* A watched item starts with neither reason.
LEMMA InitReasons == Init => RowExplainsItself /\ CopiesExplained
<1> SUFFICES ASSUME Init PROVE RowExplainsItself /\ CopiesExplained
  OBVIOUS
<1>1. PICK past \in Past :
        /\ events = past
        /\ row = [CreatedRow EXCEPT !.current_state = past[Len(past)].to_state]
        /\ session = [s \in Session |-> NoSession]
  BY DEF Init
<1>2. past[Len(past)].to_state \notin {"blocked", "rejected"}
  BY PastAssumption
<1>3. /\ row.current_state = past[Len(past)].to_state
      /\ row.blocked_reason = None /\ row.rejected_reason = None
  BY <1>1 DEF CreatedRow
<1>4. \A s \in Session : Explained(session[s].item)
  BY <1>1, CreatedExplained DEF NoSession
<1> QED
  BY <1>1, <1>2, <1>3, <1>4 DEF RowExplainsItself, CopiesExplained, Explained

\* A step that leaves the history alone is not a move.
LEMMA QuietSteps ==
  ASSUME RowInv, [Next]_vars, UNCHANGED events
  PROVE  \/ UNCHANGED vars
         \/ \E s \in Session :
              \/ LoadItem(s) \/ ResolveBlock(s) \/ DeriveResumeTarget(s)
              \/ ResolveChangesRequested(s) \/ DeriveReworkTarget(s)
              \/ RejectBlocked(s) \/ EndSession(s)
<1>1. events \in Seq(Event(Reason))
  BY DEF RowInv, TypeOK
<1>2. ASSUME NEW item, NEW to, NEW responsible, NEW reason,
             Transition(item, to, responsible, reason)
      PROVE  FALSE
  <2>1. Len(events') = Len(events) + 1
    BY <1>1, <1>2 DEF Transition
  <2> QED
    BY <1>1, <2>1
<1>3. ~FreshTransition
  BY <1>2 DEF FreshTransition
<1>4. \A s \in Session : ~HeldTransition(s) /\ ~MoveToTarget(s)
  BY <1>2 DEF HeldTransition, MoveToTarget
<1> QED
  BY <1>3, <1>4 DEF Next

\* Such a step does not write the row, and a copy it makes is the row or a blank one.
LEMMA CopySteps ==
  ASSUME RowInv, [Next]_vars, UNCHANGED events
  PROVE  /\ UNCHANGED row
         /\ \A t \in Session : session'[t].item \in {session[t].item, row, CreatedRow}
<1>1. session \in [Session -> SessionRecord]
  BY DEF RowInv, TypeOK
<1>2. ASSUME NEW s \in Session,
             \/ LoadItem(s) \/ ResolveBlock(s) \/ DeriveResumeTarget(s)
             \/ ResolveChangesRequested(s) \/ DeriveReworkTarget(s)
             \/ RejectBlocked(s) \/ EndSession(s)
      PROVE  /\ UNCHANGED row
             /\ \A t \in Session : session'[t].item \in {session[t].item, row, CreatedRow}
  <2>1. CASE LoadItem(s)
    BY <2>1, <1>1 DEF LoadItem, SessionRecord
  <2>2. CASE ResolveBlock(s)
    BY <2>2, <1>1 DEF ResolveBlock, Copy, SessionRecord
  <2>3. CASE DeriveResumeTarget(s)
    BY <2>3, <1>1 DEF DeriveResumeTarget, SessionRecord
  <2>4. CASE ResolveChangesRequested(s)
    BY <2>4, <1>1 DEF ResolveChangesRequested, Copy, SessionRecord
  <2>5. CASE DeriveReworkTarget(s)
    BY <2>5, <1>1 DEF DeriveReworkTarget, SessionRecord
  <2>6. CASE RejectBlocked(s)
    BY <2>6, <1>1 DEF RejectBlocked, Copy, SessionRecord
  <2>7. CASE EndSession(s)
    BY <2>7, <1>1 DEF EndSession, NoSession, SessionRecord
  <2> QED
    BY <1>2, <2>1, <2>2, <2>3, <2>4, <2>5, <2>6, <2>7
<1>3. CASE UNCHANGED vars
  BY <1>3 DEF vars
<1> QED
  BY <1>2, <1>3, QuietSteps

\* No step leaves an old reason behind.
LEMMA NextKeepsReasons ==
  ReasonInv /\ [Next]_vars => RowExplainsItself' /\ CopiesExplained'
<1> SUFFICES ASSUME ReasonInv, [Next]_vars
             PROVE  RowExplainsItself' /\ CopiesExplained'
  OBVIOUS
<1>1. RowInv /\ RowExplainsItself /\ CopiesExplained /\ TypeOK /\ RowProjectsHistory
  BY DEF ReasonInv, RowInv
<1>2. CASE UNCHANGED events
  <2>1. \A t \in Session : session'[t].item \in {session[t].item, row, CreatedRow}
    BY <1>1, <1>2, CopySteps
  <2>2. UNCHANGED row
    BY <1>1, <1>2, CopySteps
  <2>3. RowExplainsItself'
    BY <1>1, <1>2, <2>2 DEF RowExplainsItself
  <2>4. CopiesExplained'
    BY <1>1, <1>2, <2>1, <2>2, CreatedExplained DEF CopiesExplained
  <2> QED
    BY <2>3, <2>4
<1>3. CASE AppendsMove
  <2> SUFFICES ASSUME Chained(events')
               PROVE  RowExplainsItself' /\ CopiesExplained'
    BY DEF RowExplainsItself, CopiesExplained
  <2>1. PICK item \in Row, to \in WorkflowState,
             responsible \in WorkflowState \cup {None}, reason \in Reason :
          /\ to # item.current_state
          /\ Transition(item, to, responsible, reason)
          /\ item = row \/ \E s \in Session : item = session[s].item
          /\ \A t \in Session :
               session'[t].item \in {session[t].item, Assigned(item, to, reason)}
    BY <1>3 DEF AppendsMove
  <2>2. Chained(events) /\ item.current_state = row.current_state
    BY <1>1, <2>1, ChainedAppend DEF RowProjectsHistory
  <2>3. Explained(row) /\ Explained(item) /\ \A s \in Session : Explained(session[s].item)
    BY <1>1, <2>1, <2>2 DEF CopiesExplained
  <2>4. Explained(Assigned(item, to, reason))
    BY <2>1, <2>3, AssignedExplained
  <2>5. row \in Row /\ row' = Flushed(row, item, Assigned(item, to, reason))
    BY <1>1, <2>1 DEF TypeOK, Transition
  <2>6. /\ row'.current_state = to
        /\ row'.blocked_reason = IF to = "blocked" THEN reason ELSE None
        /\ row'.rejected_reason = IF to = "rejected" THEN reason ELSE None
    BY <2>1, <2>2, <2>3, <2>5, FlushedExplained
  <2>7. events'[Len(events')].reason = reason
    <3>1. events'[Len(events')] =
            [from_state |-> item.current_state, to_state |-> to,
             responsible_state |-> responsible, reason |-> reason]
      BY <1>1, <2>1, TransitionEffect
    <3> QED
      BY <3>1
  <2>8. RowExplainsItself'
    BY <2>6, <2>7 DEF RowExplainsItself
  <2>9. Explained(row')
    BY <2>6, ReasonAssumption DEF Explained
  <2>10. CopiesExplained'
    BY <2>1, <2>3, <2>4, <2>9 DEF CopiesExplained
  <2> QED
    BY <2>8, <2>10
<1> QED
  BY <1>1, <1>2, <1>3, HistorySteps

\* While no stale copy was written, the row shows the reason of the very event that
\* blocked or rejected it, and none otherwise (the attributes transition() assigns and
\* the CHECK constraints of workflow/models.py).
THEOREM RowAlwaysExplainsItself == Spec => []RowExplainsItself
<1>1. Init => ReasonInv
  BY InitRowInv, InitReasons DEF ReasonInv
<1>2. ReasonInv /\ [Next]_vars => ReasonInv'
  BY NextKeepsRowInv, NextKeepsReasons DEF ReasonInv
<1>3. ReasonInv => RowExplainsItself
  BY DEF ReasonInv
<1> QED
  BY <1>1, <1>2, <1>3, PTL DEF Spec

-----------------------------------------------------------------------------
(***************************************************************************)
(* No release without an approval.  A history in which no stale copy was   *)
(* written is one the service accumulated, and an accumulated history has  *)
(* the property: its earliest counterexample would have a predecessor      *)
(* that is a release stage without an approval itself.                     *)
(***************************************************************************)
LawfulHistory == Chained(events) => Accumulated(events)

\* A move of an up-to-date copy extends an accumulated history to another one.
LEMMA NextKeepsLawfulHistory ==
  RowInv /\ LawfulHistory /\ [Next]_vars => LawfulHistory'
<1> SUFFICES ASSUME RowInv, LawfulHistory, [Next]_vars, Chained(events')
             PROVE  Accumulated(events')
  BY DEF LawfulHistory
<1>1. TypeOK
  BY DEF RowInv
<1>2. CASE UNCHANGED events
  BY <1>2 DEF LawfulHistory
<1>3. CASE AppendsMove
  <2>1. PICK item \in Row, to \in WorkflowState,
             responsible \in WorkflowState \cup {None}, reason \in Reason :
          to # item.current_state /\ Transition(item, to, responsible, reason)
    BY <1>3 DEF AppendsMove
  <2> DEFINE new == [from_state |-> item.current_state, to_state |-> to,
                     responsible_state |-> responsible, reason |-> reason]
  <2>2. /\ events' \in Seq(Event(Reason)) /\ events' # <<>>
        /\ Len(events') = Len(events) + 1
        /\ \A n \in 1..Len(events) : events'[n] = events[n]
        /\ events'[Len(events')] = new
    BY <1>1, <2>1, TransitionEffect
  <2>3. Accumulated(events)
    BY <1>1, <2>1, ChainedAppend DEF LawfulHistory
  <2>4. events \in Seq(Event(Reason)) /\ Len(events) \in Nat \ {0}
    BY <1>1 DEF TypeOK
  <2>5. /\ new.to_state \in AllowedTargets(new.from_state, events)
        /\ new.to_state # new.from_state
        /\ new.responsible_state # None =>
             new.responsible_state \in PERMITTED_RESPONSIBLE_STATES(new.from_state)
    BY <2>1 DEF Transition, Accepts
  <2> HIDE DEF new
  <2>6. \E r \in Reason : events'[1] = CreationEvent(r)
    BY <2>2, <2>3, <2>4 DEF Accumulated
  <2>7. ASSUME NEW i \in 2..Len(events')
        PROVE  /\ events'[i].to_state \in
                    AllowedTargets(events'[i].from_state, SubSeq(events', 1, i - 1))
               /\ events'[i].to_state # events'[i].from_state
               /\ events'[i].responsible_state # None =>
                    events'[i].responsible_state \in
                      PERMITTED_RESPONSIBLE_STATES(events'[i].from_state)
    <3>1. SubSeq(events', 1, i - 1) = SubSeq(events, 1, i - 1)
      BY <2>2, <2>4
    <3>2. CASE i \in 2..Len(events)
      <4>1. events'[i] = events[i]
        BY <2>2, <2>4, <3>2
      <4> QED
        BY <2>3, <3>1, <3>2, <4>1 DEF Accumulated
    <3>3. CASE i = Len(events')
      <4>1. events'[i] = new /\ SubSeq(events, 1, i - 1) = events
        BY <2>2, <2>4, <3>3
      <4> QED
        BY <2>5, <3>1, <4>1
    <3> QED
      BY <2>2, <2>4, <3>2, <3>3
  <2> QED
    BY <2>2, <2>6, <2>7 DEF Accumulated
<1> QED
  BY <1>2, <1>3, HistorySteps

\* PINTEREST_PENDING lies between two release stages.
Released == ReleaseStages \cup {"pinterest_pending"}

ApprovedBefore(h, i) ==
  \E j \in Entries(h, "approved") :
    j < i /\ \A k \in j..i : h[k].to_state \notin ContentStages

\* A release stage is entered from another one or from APPROVED, and never left for
\* CHANGES_REQUESTED.
LEMMA ReleaseMatrix ==
  ASSUME NEW s
  PROVE  /\ STRUCTURAL_TRANSITIONS(s) \cap Released # {} => s \in Released \cup {"approved"}
         /\ s \in Released => "changes_requested" \notin STRUCTURAL_TRANSITIONS(s)
BY DEF STRUCTURAL_TRANSITIONS, Released, ReleaseStages

\* When the newest event entered CHANGES_REQUESTED, it alone decides the exit.
LEMMA ReworkExit ==
  ASSUME NEW h \in Seq(Event(Reason)), h # <<>>, h[Len(h)].to_state = "changes_requested"
  PROVE  AllowedTargets("changes_requested", h) \subseteq
           {h[Len(h)].from_state} \cup ({h[Len(h)].responsible_state} \ {None})
<1>1. Len(h) \in DOMAIN h /\ \A i \in DOMAIN h : i <= Len(h)
  OBVIOUS
<1>2. Len(h) \in Entries(h, "changes_requested")
  BY <1>1 DEF Entries
<1>3. \A i \in LatestEntry(h, "changes_requested") : i = Len(h)
  BY <1>1, <1>2 DEF LatestEntry, Entries
<1> QED
  BY <1>3 DEF AllowedTargets, ReworkTarget

\* One approval reaches as far as no content stage is entered.
LEMMA ApprovedLater ==
  ASSUME NEW h \in Seq(Event(Reason)), NEW m \in DOMAIN h, NEW n \in DOMAIN h, m <= n,
         ApprovedBefore(h, m), \A k \in m..n : h[k].to_state \notin ContentStages
  PROVE  ApprovedBefore(h, n)
<1>1. PICK j \in Entries(h, "approved") :
        j < m /\ \A k \in j..m : h[k].to_state \notin ContentStages
  BY DEF ApprovedBefore
<1>2. j \in Nat /\ m \in Nat /\ n \in Nat
  BY <1>1 DEF Entries
<1>3. \A k \in j..n : k \in j..m \/ k \in m..n
  BY <1>1, <1>2
<1> QED
  BY <1>1, <1>2, <1>3 DEF ApprovedBefore

\* In an accumulated history every release stage is entered under an approval.
LEMMA AccumulatedIsApproved ==
  ASSUME NEW h, Accumulated(h), NEW n \in DOMAIN h, h[n].to_state \in Released
  PROVE  ApprovedBefore(h, n)
<1> DEFINE Unapproved ==
      {i \in Nat : i \in DOMAIN h /\ h[i].to_state \in Released /\ ~ApprovedBefore(h, i)}
<1> SUFFICES ASSUME n \in Unapproved PROVE FALSE
  BY DEF Accumulated
<1>1. PICK i \in Unapproved : \A m \in Unapproved : i <= m
  BY LeastOfSome
<1>2. h \in Seq(Event(Reason)) /\ i \in 1..Len(h) /\ h[i].to_state \in Released
  BY <1>1 DEF Accumulated
<1>3. h[1].to_state = INITIAL_STATE
  BY DEF Accumulated, CreationEvent
<1>4. i \in 2..Len(h)
  BY <1>2, <1>3 DEF INITIAL_STATE, Released, ReleaseStages
<1> DEFINE g == SubSeq(h, 1, i - 1)
           p == h[i - 1].to_state
<1>5. /\ h[i].to_state \in AllowedTargets(p, g)
      /\ i - 1 \in 1..Len(h)
  BY <1>4 DEF Accumulated, Chained
<1>6. g \in Seq(Event(Reason)) /\ g # <<>> /\ Len(g) = i - 1 /\ g[i - 1] = h[i - 1]
  BY <1>2, <1>4
<1>7. \A s \in Released \cup {"approved", "blocked"} : s \notin ContentStages
  BY DEF Released, ReleaseStages, ContentStages
<1>8. ASSUME NEW m \in DOMAIN h, m < i, h[m].to_state \in Released
      PROVE  ApprovedBefore(h, m)
  BY <1>1, <1>2, <1>8
<1>9. ~ApprovedBefore(h, i)
  BY <1>1
<1>10. CASE p = "approved"
  <2>1. i - 1 \in Entries(h, "approved")
    BY <1>2, <1>5, <1>10 DEF Entries
  <2>2. \A k \in (i - 1)..i : h[k].to_state \notin ContentStages
    BY <1>2, <1>4, <1>7, <1>10
  <2> QED
    BY <1>2, <1>9, <2>1, <2>2 DEF ApprovedBefore
<1>11. CASE p \in Released
  <2>1. ApprovedBefore(h, i - 1)
    BY <1>2, <1>4, <1>5, <1>8, <1>11
  <2>2. \A k \in (i - 1)..i : h[k].to_state \notin ContentStages
    BY <1>2, <1>4, <1>7, <1>11
  <2> QED
    BY <1>2, <1>4, <1>5, <1>9, <2>1, <2>2, ApprovedLater
<1>12. CASE p = "blocked"
  <2>1. h[i].to_state \in {"rejected", h[i - 1].from_state}
    <3>1. g[Len(g)].to_state = "blocked" /\ h[i].to_state \in AllowedTargets("blocked", g)
      BY <1>5, <1>6, <1>12
    <3>2. h[i].to_state \in {"rejected", g[Len(g)].from_state}
      BY <1>6, <3>1, BlockedExit
    <3> QED
      BY <1>6, <3>2
  <2>2. h[i - 1].from_state \in Released
    BY <1>2, <2>1 DEF Released, ReleaseStages
  <2>3. i - 1 # 1
    BY <1>3, <1>12 DEF INITIAL_STATE
  <2>4. i - 1 \in 2..Len(h) /\ i - 2 \in DOMAIN h /\ i - 2 < i
    BY <1>2, <1>4, <2>3
  <2>5. h[i - 1].from_state = h[(i - 1) - 1].to_state
    BY <2>4 DEF Accumulated, Chained
  <2>6. (i - 1) - 1 = i - 2
    BY <1>2
  <2>7. h[i - 2].to_state \in Released
    BY <2>2, <2>5, <2>6
  <2>8. ApprovedBefore(h, i - 2)
    BY <1>8, <2>4, <2>7
  <2>9. \A k \in (i - 2)..i : k = i - 2 \/ k = i - 1 \/ k = i
    BY <1>2
  <2>10. \A k \in (i - 2)..i : h[k].to_state \notin ContentStages
    BY <1>2, <1>7, <1>12, <2>7, <2>9
  <2>11. i \in DOMAIN h /\ i - 2 <= i
    BY <1>2
  <2> QED
    BY <1>2, <1>9, <2>4, <2>8, <2>10, <2>11, ApprovedLater
<1>13. CASE p = "changes_requested"
  <2>1. h[i].to_state \in
          {h[i - 1].from_state} \cup ({h[i - 1].responsible_state} \ {None})
    <3>1. /\ g[Len(g)].to_state = "changes_requested"
          /\ h[i].to_state \in AllowedTargets("changes_requested", g)
      BY <1>5, <1>6, <1>13
    <3>2. h[i].to_state \in
            {g[Len(g)].from_state} \cup ({g[Len(g)].responsible_state} \ {None})
      BY <1>6, <3>1, ReworkExit
    <3> QED
      BY <1>6, <3>2
  <2>2. i - 1 # 1
    BY <1>3, <1>13 DEF INITIAL_STATE
  <2>3. i - 1 \in 2..Len(h)
    BY <1>2, <1>4, <2>2
  <2>4. /\ p \in AllowedTargets(h[i - 1].from_state, SubSeq(h, 1, (i - 1) - 1))
        /\ h[i - 1].responsible_state # None =>
             h[i - 1].responsible_state \in
               PERMITTED_RESPONSIBLE_STATES(h[i - 1].from_state)
    BY <2>3 DEF Accumulated
  <2>5. h[i - 1].responsible_state \in ContentStages \cup {None}
    BY <2>4, ResponsibleIsContentStage
  <2>6. h[i - 1].from_state \in Released
    BY <1>2, <1>7, <2>1, <2>5
  <2>7. p \in STRUCTURAL_TRANSITIONS(h[i - 1].from_state)
    BY <2>4, <2>6 DEF AllowedTargets, Released, ReleaseStages
  <2> QED
    BY <1>13, <2>6, <2>7, ReleaseMatrix
<1>14. CASE p \notin Released \cup {"approved", "blocked", "changes_requested"}
  <2>1. h[i].to_state \in STRUCTURAL_TRANSITIONS(p)
    BY <1>5, <1>14 DEF AllowedTargets
  <2> QED
    BY <1>2, <1>14, <2>1, ReleaseMatrix
<1> QED
  BY <1>10, <1>11, <1>12, <1>13, <1>14

\* However many sessions race, resume blocks and resolve reworks, a history in which no
\* stale copy was written enters a release stage only after the human approved the
\* content as it then was (the matrix and _allowed_targets of workflow/service.py).
THEOREM ApprovalAlwaysBeforeRelease == Spec => []ApprovalBeforeRelease
<1>1. Init => RowInv /\ LawfulHistory
  BY InitRowInv, PastAssumption DEF Init, LawfulHistory
<1>2. RowInv /\ LawfulHistory /\ [Next]_vars => (RowInv /\ LawfulHistory)'
  BY NextKeepsRowInv, NextKeepsLawfulHistory
<1>3. RowInv /\ LawfulHistory => ApprovalBeforeRelease
  BY AccumulatedIsApproved
  DEF LawfulHistory, ApprovalBeforeRelease, ApprovedBefore, Released
<1> QED
  BY <1>1, <1>2, <1>3, PTL DEF Spec
=============================================================================

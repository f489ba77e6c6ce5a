------------------------------ MODULE Workflow ------------------------------
(***************************************************************************)
(* One editorial work item: the editorial_work_items row, its append-only  *)
(* event history, and the database sessions that move it through           *)
(* WorkflowService (contentos.workflow.service).                           *)
(*                                                                         *)
(* A session that still references the item it loaded keeps that copy: the *)
(* SELECT ... FOR UPDATE of a transition takes the row lock but does not   *)
(* refresh an object of the identity map, so the copy may be older than    *)
(* the row it is validated against.  A session that let go of its copy     *)
(* reads the row afresh under the lock.  A transition and its commit are   *)
(* one step: the row lock orders them, and a session that dies in between  *)
(* leaves nothing behind.                                                  *)
(***************************************************************************)
EXTENDS WorkflowMatrix

CONSTANTS
  Session,        \* database sessions that keep a reference to the item
  Reason,         \* the reasons a caller may give
  HeldRequests,   \* state |-> the targets a caller that kept its copy asks for
  Past,           \* histories the item may have when the model starts watching
  MaxNewEvents    \* bound on the events appended after that

VARIABLES
  row,      \* the committed editorial_work_items row
  events,   \* the committed editorial_workflow_events, in id order
  session,  \* what each session holds
  limit     \* bound on Len(events)

vars == <<row, events, session, limit>>

Row ==
  [current_state : WorkflowState, blocked_reason : Reason \cup {None},
   rejected_reason : Reason \cup {None}]

SessionRecord ==
  [pc : {"idle", "holding", "resolve_block", "resolve_changes", "target"},
   item : Row, to : WorkflowState]

\* create_work_item: the row and the event every history begins with.
CreatedRow ==
  [current_state |-> INITIAL_STATE, blocked_reason |-> None, rejected_reason |-> None]

CreationEvent(reason) ==
  [from_state |-> None, to_state |-> INITIAL_STATE,
   responsible_state |-> None, reason |-> reason]

\* No stale copy was ever written: each event leaves where the last arrived.
Chained(h) == \A i \in 2..Len(h) : h[i].from_state = h[i - 1].to_state

\* A history the service wrote with fresh copies only.
Accumulated(h) ==
  /\ h \in Seq(Event(Reason))
  /\ h # <<>>
  /\ \E r \in Reason : h[1] = CreationEvent(r)
  /\ Chained(h)
  /\ \A i \in 2..Len(h) :
       /\ h[i].to_state \in AllowedTargets(h[i].from_state, SubSeq(h, 1, i - 1))
       /\ h[i].to_state # h[i].from_state
       /\ h[i].responsible_state # None =>
            h[i].responsible_state \in PERMITTED_RESPONSIBLE_STATES(h[i].from_state)

ASSUME ReasonAssumption == None \notin Reason
ASSUME BoundAssumption == MaxNewEvents \in Nat
\* The watched item starts neither BLOCKED nor REJECTED, so its row holds no reason.
ASSUME PastAssumption ==
  \A h \in Past :
    Accumulated(h) /\ h[Len(h)].to_state \notin {"blocked", "rejected"}
\* No caller of the code asks for MEASURING -> MEASURING, the only self-loop.
ASSUME HeldRequestsAssumption ==
  /\ HeldRequests \in [WorkflowState -> SUBSET WorkflowState]
  /\ \A s \in WorkflowState : s \notin HeldRequests[s]

-----------------------------------------------------------------------------
\* Mutation: the reason column is given the state instead of the reason.
AssignedState(item, to, reason) ==
  [current_state   |-> to,
   blocked_reason  |-> IF to = "blocked" THEN to ELSE item.blocked_reason,
   rejected_reason |-> IF to = "rejected" THEN reason ELSE item.rejected_reason]

\* Mutation: leaving BLOCKED or REJECTED does not clear the reason.
AssignedKeepingReasons(item, to, reason) ==
  [current_state   |-> to,
   blocked_reason  |-> IF to = "blocked" THEN reason ELSE item.blocked_reason,
   rejected_reason |-> IF to = "rejected" THEN reason ELSE item.rejected_reason]

\* The item in memory after transition() has assigned its attributes.
Assigned(item, to, reason) ==
  [current_state   |-> to,
   blocked_reason  |-> IF to = "blocked" THEN reason
                       ELSE IF item.current_state = "blocked" THEN None
                       ELSE item.blocked_reason,
   rejected_reason |-> IF to = "rejected" THEN reason
                       ELSE IF item.current_state = "rejected" THEN None
                       ELSE item.rejected_reason]

\* Mutation: a column somebody else changed meanwhile is left alone.
FlushedIfUnchanged(stored, loaded, assigned) ==
  [c \in {"current_state", "blocked_reason", "rejected_reason"} |->
     IF assigned[c] # loaded[c] /\ stored[c] = loaded[c] THEN assigned[c] ELSE stored[c]]

\* The UPDATE of the flush: only the columns whose value differs from the loaded one.
Flushed(stored, loaded, assigned) ==
  [c \in {"current_state", "blocked_reason", "rejected_reason"} |->
     IF assigned[c] # loaded[c] THEN assigned[c] ELSE stored[c]]

\* The table's CHECK constraints; a row that breaks one rolls the transaction back.
RowChecks(r) ==
  /\ r.current_state = "blocked" => r.blocked_reason # None
  /\ r.current_state = "rejected" => r.rejected_reason # None

\* transition() accepts the move of the copy `item` in the committed history.
Accepts(item, to, responsible) ==
  /\ responsible # None => to = "changes_requested"
  /\ to \in AllowedTargets(item.current_state, events)
  /\ responsible # None =>
       responsible \in PERMITTED_RESPONSIBLE_STATES(item.current_state)

\* transition() and its commit: one event, one UPDATE.
Transition(item, to, responsible, reason) ==
  /\ Accepts(item, to, responsible)
  /\ Len(events) < limit
  /\ events' = Append(events, [from_state |-> item.current_state, to_state |-> to,
                               responsible_state |-> responsible, reason |-> reason])
  /\ row' = Flushed(row, item, Assigned(item, to, reason))
  /\ RowChecks(row')

NoSession == [pc |-> "idle", item |-> CreatedRow, to |-> INITIAL_STATE]

Idle(s) == session[s].pc = "idle"

\* get_by_id: a session that kept its copy gets it back, another one reads the row.
Copy(s) == IF Idle(s) THEN row ELSE session[s].item

-----------------------------------------------------------------------------
\* A caller that holds no copy: the service reads the row under the lock.
FreshTransition ==
  /\ \E to \in AllowedTargets(row.current_state, events) \ {row.current_state},
        responsible \in WorkflowState \cup {None}, reason \in Reason :
       Transition(row, to, responsible, reason)
  /\ UNCHANGED <<session, limit>>

\* A task or a service method loads the item, checks its state and keeps it.
LoadItem(s) ==
  /\ Idle(s)
  /\ session' = [session EXCEPT ![s].pc = "holding", ![s].item = row]
  /\ UNCHANGED <<row, events, limit>>

\* ... and later moves it from the state it saw.
HeldTransition(s) ==
  /\ session[s].pc = "holding"
  /\ \E to \in HeldRequests[session[s].item.current_state],
        responsible \in WorkflowState \cup {None}, reason \in Reason :
       /\ Transition(session[s].item, to, responsible, reason)
       /\ session' = [session EXCEPT ![s].item = Assigned(session[s].item, to, reason)]
  /\ UNCHANGED limit

\* resolve_block: the copy must be BLOCKED.
ResolveBlock(s) ==
  /\ session[s].pc \in {"idle", "holding"}
  /\ Copy(s).current_state = "blocked"
  /\ session' = [session EXCEPT ![s].pc = "resolve_block", ![s].item = Copy(s)]
  /\ UNCHANGED <<row, events, limit>>

\* ... its target is read from the newest BLOCKED entry.
DeriveResumeTarget(s) ==
  /\ session[s].pc = "resolve_block"
  /\ \E prior \in EntryFromState(events, "blocked") :
       session' = [session EXCEPT ![s].pc = "target", ![s].to = prior]
  /\ UNCHANGED <<row, events, limit>>

\* resolve_changes_requested: the copy must be CHANGES_REQUESTED.
ResolveChangesRequested(s) ==
  /\ session[s].pc \in {"idle", "holding"}
  /\ Copy(s).current_state = "changes_requested"
  /\ session' = [session EXCEPT ![s].pc = "resolve_changes", ![s].item = Copy(s)]
  /\ UNCHANGED <<row, events, limit>>

\* ... its target is the recorded responsible state or the origin.
DeriveReworkTarget(s) ==
  /\ session[s].pc = "resolve_changes"
  /\ \E target \in ReworkTarget(events) :
       session' = [session EXCEPT ![s].pc = "target", ![s].to = target]
  /\ UNCHANGED <<row, events, limit>>

\* reject_blocked: the copy must be BLOCKED, the target is fixed.
RejectBlocked(s) ==
  /\ session[s].pc \in {"idle", "holding"}
  /\ Copy(s).current_state = "blocked"
  /\ session' = [session EXCEPT ![s] = [pc |-> "target", item |-> Copy(s), to |-> "rejected"]]
  /\ UNCHANGED <<row, events, limit>>

\* The transition() call that ends each of the three, with the copy still held.
MoveToTarget(s) ==
  /\ session[s].pc = "target"
  /\ \E reason \in Reason :
       /\ Transition(session[s].item, session[s].to, None, reason)
       /\ session' = [session EXCEPT ![s].pc = "holding",
                                     ![s].item = Assigned(session[s].item, session[s].to, reason)]
  /\ UNCHANGED limit

\* The session ends: its work is done, the service refused, or the process died.
EndSession(s) ==
  /\ ~Idle(s)
  /\ session' = [session EXCEPT ![s] = NoSession]
  /\ UNCHANGED <<row, events, limit>>

-----------------------------------------------------------------------------
Init ==
  \E past \in Past :
    /\ events = past
    /\ row = [CreatedRow EXCEPT !.current_state = past[Len(past)].to_state]
    /\ limit = Len(past) + MaxNewEvents
    /\ session = [s \in Session |-> NoSession]

Next ==
  \/ FreshTransition
  \/ \E s \in Session :
       \/ LoadItem(s) \/ HeldTransition(s)
       \/ ResolveBlock(s) \/ DeriveResumeTarget(s)
       \/ ResolveChangesRequested(s) \/ DeriveReworkTarget(s)
       \/ RejectBlocked(s) \/ MoveToTarget(s)
       \/ EndSession(s)

Spec == Init /\ [][Next]_vars

-----------------------------------------------------------------------------
(* Properties.                                                              *)

\* The variables have their types.
TypeOK ==
  /\ row \in Row
  /\ events \in Seq(Event(Reason)) /\ events # <<>>
  /\ session \in [Session -> SessionRecord]
  /\ limit \in Nat

\* The row always shows the state the newest event entered, whoever wrote last
\* and with however old a copy: the editor's screen never disagrees with the
\* audit trail (transition() writes both, but the UPDATE only carries changes).
RowProjectsHistory == row.current_state = events[Len(events)].to_state

\* While no stale copy was written, a BLOCKED or REJECTED row carries the reason of
\* the event that put it there and every other row carries none: resuming, resolving
\* and re-blocking by several sessions never leave an old reason behind.
RowExplainsItself ==
  Chained(events) =>
    LET newest == events[Len(events)] IN
    /\ row.blocked_reason = IF row.current_state = "blocked" THEN newest.reason ELSE None
    /\ row.rejected_reason = IF row.current_state = "rejected" THEN newest.reason ELSE None

\* While no stale copy was written, leaving BLOCKED either rejects the item or puts it
\* back in the very state it was blocked in: two operators resolving, rejecting and
\* re-blocking at once never resume a state of an earlier block.
BlockedRoundTrip ==
  Chained(events) =>
    \A i \in 2..Len(events) :
      events[i].from_state = "blocked" =>
        events[i].to_state \in {"rejected", events[i - 1].from_state}

ContentStages == {"drafting", "editing", "qa_review"}
ReleaseStages == {"scheduled", "publishing", "published", "distributed", "measuring"}

\* While no stale copy was written, no item gets past the human: whenever it enters a
\* release stage, it was APPROVED after it last was in a stage that changes content.
\* Neither a resumed block nor a rework routed upstream is a way around the approval.
ApprovalBeforeRelease ==
  Chained(events) =>
    \A i \in {n \in DOMAIN events : events[n].to_state \in ReleaseStages} :
      \E j \in Entries(events, "approved") :
        /\ j < i
        /\ \A k \in j..i : events[k].to_state \notin ContentStages

\* The history is chained: each event leaves the state the one before it entered
\* (transition() promises that a raced request fails instead of appending
\* impossible history).
NoImpossibleHistory == Chained(events)
=============================================================================

--------------------------- MODULE ExecutionLock ---------------------------
(***************************************************************************)
(* The per-entity lock around provider-calling tasks                       *)
(* (contentos.worker.execution_lock and the exclusive() decorator of the   *)
(* editorial tasks): one key per task and entity, taken with SET NX EX for *)
(* the whole execution and released by comparing the holder's token.       *)
(***************************************************************************)
EXTENDS Naturals

CONSTANTS
  Execution,   \* executions of guarded tasks; the token of one is itself
  Key,         \* lock keys: a task name and an entity
  KeyOf,       \* execution |-> its key
  None,        \* no holder
  Ttl,         \* seconds a key lives: the provider timeout and a margin
  MaxTime      \* bound on the clock

ASSUME LockConstants ==
  /\ KeyOf \in [Execution -> Key]
  /\ None \notin Execution
  /\ Ttl \in Nat \ {0} /\ MaxTime \in Nat

VARIABLES
  now,      \* the store's clock
  lock,     \* key |-> who set it and when it expires
  pc,       \* where each execution is
  started   \* when it entered the task body

vars == <<now, lock, pc, started>>

Entry == [holder : Execution \cup {None}, expires : Nat]
Unset == [holder |-> None, expires |-> 0]

\* The key is unset or its TTL has passed.
Free(k) == lock[k].holder = None \/ lock[k].expires <= now

Young(e) == now < started[e] + Ttl

\* Mutation: the key is set without a TTL.
NeverExpires(e) == [holder |-> e, expires |-> MaxTime + 1]

\* Mutation: the token names the entity, not the execution.
TakenForKey(e) == [holder |-> KeyOf[e], expires |-> now + Ttl]

\* SET key token NX EX ttl.
Taken(e) == [holder |-> e, expires |-> now + Ttl]

\* Mutation: DEL without comparing the token.
ReleasedBlindly(e) == [lock EXCEPT ![KeyOf[e]] = Unset]

\* The release script: only the holder's token deletes the key.
Released(e) ==
  IF lock[KeyOf[e]].holder = e THEN [lock EXCEPT ![KeyOf[e]] = Unset] ELSE lock

-----------------------------------------------------------------------------
\* The key is free: the execution takes it and runs the task body.
Acquire(e) ==
  /\ pc[e] = "waiting"
  /\ Free(KeyOf[e])
  /\ lock' = [lock EXCEPT ![KeyOf[e]] = Taken(e)]
  /\ pc' = [pc EXCEPT ![e] = "running"]
  /\ started' = [started EXCEPT ![e] = now]
  /\ UNCHANGED now

\* Another execution holds it: the duplicate reports and leaves.
LeaveDuplicate(e) ==
  /\ pc[e] = "waiting"
  /\ ~Free(KeyOf[e])
  /\ pc' = [pc EXCEPT ![e] = "duplicate_in_flight"]
  /\ UNCHANGED <<now, lock, started>>

\* The body returned or raised: the lock is released.
Finish(e) ==
  /\ pc[e] = "running"
  /\ lock' = Released(e)
  /\ pc' = [pc EXCEPT ![e] = "finished"]
  /\ UNCHANGED <<now, started>>

\* The worker dies inside the body and never releases; the message comes back
\* as another execution.
Crash(e) ==
  /\ pc[e] = "running"
  /\ pc' = [pc EXCEPT ![e] = "crashed"]
  /\ UNCHANGED <<now, lock, started>>

Tick ==
  /\ now < MaxTime
  /\ now' = now + 1
  /\ UNCHANGED <<lock, pc, started>>

Init ==
  /\ now = 0
  /\ lock = [k \in Key |-> Unset]
  /\ pc = [e \in Execution |-> "waiting"]
  /\ started = [e \in Execution |-> 0]

Next ==
  \/ Tick
  \/ \E e \in Execution : Acquire(e) \/ LeaveDuplicate(e) \/ Finish(e) \/ Crash(e)

Spec == Init /\ [][Next]_vars

\* The clock of the store does not stop.
FairSpec == Spec /\ WF_vars(Tick)

-----------------------------------------------------------------------------
(* Properties.                                                              *)

\* The variables have their types.
TypeOK ==
  /\ now \in Nat
  /\ lock \in [Key -> Entry]
  /\ pc \in [Execution ->
              {"waiting", "running", "duplicate_in_flight", "finished", "crashed"}]
  /\ started \in [Execution -> Nat]

\* Two executions of a task on one entity are inside the provider call at once only if
\* one of them has outlived its TTL, whoever crashed, overran or released before.
MutualExclusion ==
  \A e, f \in Execution :
    (e # f /\ KeyOf[e] = KeyOf[f] /\ pc[e] = "running" /\ pc[f] = "running")
      => ~Young(e) \/ ~Young(f)

\* A key that has not expired goes away only when the execution that took it finishes:
\* one that overran its TTL cannot release its successor's lock.
OnlyHolderReleases ==
  [][\A k \in Key :
       (~Free(k) /\ lock'[k] # lock[k]) => pc'[lock[k].holder] = "finished"]_vars

Pinned ==
  {e \in Execution : /\ pc[e] = "crashed" /\ started[e] + Ttl <= MaxTime
                     /\ lock[KeyOf[e]].holder = e /\ ~Free(KeyOf[e])}

\* Workers that die never pin their entities: the keys become free again.
CrashNeverPins == Pinned # {} ~> Pinned = {}
=============================================================================

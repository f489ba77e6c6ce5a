------------------------ MODULE ExecutionLockProofs ------------------------
(***************************************************************************)
(* ExecutionLock keeps young executions apart for every set of executions  *)
(* and keys and every TTL.                                                 *)
(***************************************************************************)
EXTENDS ExecutionLock, TLAPS

(***************************************************************************)
(* The inductive invariant: an execution inside the task body that has not *)
(* outlived its TTL is the holder on record, until exactly that moment.    *)
(***************************************************************************)
HolderInv ==
  \A e \in Execution :
    (pc[e] = "running" /\ Young(e))
      => lock[KeyOf[e]] = [holder |-> e, expires |-> started[e] + Ttl]

LockInv == TypeOK /\ HolderInv

LEMMA InitLockInv == Init => LockInv
BY LockConstants DEF Init, LockInv, TypeOK, HolderInv, Entry, Unset

LEMMA NextKeepsLockInv == LockInv /\ [Next]_vars => LockInv'
<1> SUFFICES ASSUME LockInv, [Next]_vars
             PROVE  LockInv'
  OBVIOUS
<1> USE LockConstants
<1>0. TypeOK /\ HolderInv
  BY DEF LockInv
<1>1. CASE Tick
  BY <1>0, <1>1 DEF Tick, LockInv, TypeOK, HolderInv, Young
<1>2. ASSUME NEW e \in Execution, Acquire(e)
      PROVE  LockInv'
  <2>1. KeyOf[e] \in Key /\ Taken(e) \in Entry
    BY <1>0 DEF TypeOK, Taken, Entry
  <2>2. TypeOK'
    BY <1>0, <1>2, <2>1 DEF Acquire, TypeOK
  <2>3. ASSUME NEW f \in Execution, pc'[f] = "running", Young(f)'
        PROVE  lock'[KeyOf[f]] = [holder |-> f, expires |-> started'[f] + Ttl]
    <3>1. CASE f = e
      BY <1>0, <1>2, <2>1, <3>1 DEF Acquire, TypeOK, Taken
    <3>2. CASE f # e
      <4>1. pc[f] = "running" /\ Young(f) /\ started'[f] = started[f]
        BY <1>0, <1>2, <2>3, <3>2 DEF Acquire, TypeOK, Young
      <4>2. lock[KeyOf[f]] = [holder |-> f, expires |-> started[f] + Ttl]
        BY <1>0, <4>1 DEF HolderInv
      <4>3. ~Free(KeyOf[f])
        BY <1>0, <4>1, <4>2 DEF Free, Young, TypeOK
      <4>4. KeyOf[f] # KeyOf[e]
        BY <1>2, <4>3 DEF Acquire
      <4> QED
        BY <1>0, <1>2, <4>1, <4>2, <4>4 DEF Acquire, TypeOK
    <3> QED
      BY <3>1, <3>2
  <2> QED
    BY <2>2, <2>3 DEF LockInv, HolderInv
<1>3. ASSUME NEW e \in Execution, LeaveDuplicate(e)
      PROVE  LockInv'
  BY <1>0, <1>3 DEF LeaveDuplicate, LockInv, TypeOK, HolderInv, Young
<1>4. ASSUME NEW e \in Execution, Finish(e)
      PROVE  LockInv'
  <2>1. KeyOf[e] \in Key /\ Unset \in Entry
    BY DEF Unset, Entry
  <2>2. TypeOK'
    BY <1>0, <1>4, <2>1 DEF Finish, Released, TypeOK
  <2>3. ASSUME NEW f \in Execution, pc'[f] = "running", Young(f)'
        PROVE  lock'[KeyOf[f]] = [holder |-> f, expires |-> started'[f] + Ttl]
    <3>1. f # e /\ pc[f] = "running" /\ Young(f)
      BY <1>0, <1>4, <2>3 DEF Finish, TypeOK, Young
    <3>2. lock[KeyOf[f]] = [holder |-> f, expires |-> started[f] + Ttl]
      BY <1>0, <3>1 DEF HolderInv
    <3>3. lock'[KeyOf[f]] = lock[KeyOf[f]]
      BY <1>0, <1>4, <3>1, <3>2 DEF Finish, Released, TypeOK
    <3> QED
      BY <1>4, <3>2, <3>3 DEF Finish
  <2> QED
    BY <2>2, <2>3 DEF LockInv, HolderInv
<1>5. ASSUME NEW e \in Execution, Crash(e)
      PROVE  LockInv'
  BY <1>0, <1>5 DEF Crash, LockInv, TypeOK, HolderInv, Young
<1>6. CASE UNCHANGED vars
  BY <1>0, <1>6 DEF vars, LockInv, TypeOK, HolderInv, Young
<1> QED
  BY <1>1, <1>2, <1>3, <1>4, <1>5, <1>6 DEF Next

\* The strengthening holds of every behaviour.
LEMMA LockInvAlways == Spec => []LockInv
BY InitLockInv, NextKeepsLockInv, PTL DEF Spec

\* The clock, the keys and the executions keep their types.
THEOREM ExecutionLockTypeOK == Spec => []TypeOK
<1>1. LockInv => TypeOK
  BY DEF LockInv
<1> QED
  BY <1>1, LockInvAlways, PTL

\* For every set of executions, keys and TTL: no two executions of a guarded task are
\* inside one entity's provider call while both are younger than the TTL that
\* exclusive() gives the lock (worker/editorial_tasks.py).
THEOREM YoungExecutionsExclude == Spec => []MutualExclusion
<1>1. LockInv => MutualExclusion
  <2> SUFFICES ASSUME LockInv, NEW e \in Execution, NEW f \in Execution,
                      e # f, KeyOf[e] = KeyOf[f],
                      pc[e] = "running", pc[f] = "running", Young(e), Young(f)
               PROVE  FALSE
    BY DEF MutualExclusion
  <2>1. /\ lock[KeyOf[e]] = [holder |-> e, expires |-> started[e] + Ttl]
        /\ lock[KeyOf[f]] = [holder |-> f, expires |-> started[f] + Ttl]
    BY DEF LockInv, HolderInv
  <2>2. lock[KeyOf[e]].holder = e /\ lock[KeyOf[f]].holder = f
    BY <2>1
  <2> QED
    BY <2>2
<1> QED
  BY <1>1, LockInvAlways, PTL

\* A key that has not expired goes away only when the execution that took it finishes, for
\* any number of executions that overrun their TTL (execution_lock.py, release script).
THEOREM HoldersAloneRelease == Spec => OnlyHolderReleases
<1>1. ASSUME TypeOK, [Next]_vars, NEW k \in Key, ~Free(k), lock'[k] # lock[k]
      PROVE  pc'[lock[k].holder] = "finished"
  <2>1. PICK e \in Execution : Acquire(e) \/ Finish(e)
    BY <1>1 DEF Next, Tick, LeaveDuplicate, Crash, vars
  <2>2. KeyOf[e] = k
    BY <1>1, <2>1, LockConstants DEF Acquire, Finish, Released, TypeOK
  <2>3. CASE Acquire(e)
    BY <1>1, <2>2, <2>3 DEF Acquire
  <2>4. CASE Finish(e)
    <3>1. lock[k].holder = e
      BY <1>1, <2>2, <2>4 DEF Finish, Released
    <3> QED
      BY <1>1, <2>4, <3>1 DEF Finish, TypeOK
  <2> QED
    BY <2>1, <2>3, <2>4
<1>2. TypeOK /\ [Next]_vars
        => [\A k \in Key : (~Free(k) /\ lock'[k] # lock[k]) => pc'[lock[k].holder] = "finished"]_vars
  BY <1>1
<1> QED
  BY ExecutionLockTypeOK, <1>2, PTL DEF Spec, OnlyHolderReleases
=============================================================================

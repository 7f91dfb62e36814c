--------------------------- MODULE LifecycleProofs ---------------------------
(***************************************************************************)
(* Proofs about ProviderLifecycle, for any sets of tasks and pools.        *)
(***************************************************************************)
EXTENDS ProviderLifecycle, TLAPS

\* What the task in initialize knows while it holds the lock.
Initializing(t) ==
    /\ pc[t] \in {"init_open", "init_schema", "init_undo"} => ~ready
    /\ pc[t] = "init_open" => pool = mine[t] /\ state[mine[t]] = "new"
    /\ pc[t] = "init_schema" => pool = mine[t] /\ state[mine[t]] = "open"
    /\ pc[t] = "init_undo" => pool = None
    /\ pc[t] = "close_pool" => pool = None /\ ~ready

\* As long as no task is cancelled, a pool outlives the critical section only in
\* an initialized provider, so the next initialize has none to replace.
Kept == cancels = MaxCancels => /\ lock = None /\ ~ready => pool = None
                                /\ \A p \in Pool : state[p] = "open" => pool = p

LifeInv == /\ TypeOK
           /\ cancels <= MaxCancels
           /\ \A t \in Task : Initializing(t)
           /\ ReadyHasPool
           /\ Kept

-----------------------------------------------------------------------------

LEMMA LifeInit == Init => LifeInv
<1> SUFFICES ASSUME Init PROVE LifeInv
  OBVIOUS
<1>1. TypeOK
  BY LifecycleAssumption DEF Init, TypeOK, Labels, Locked
<1>2. \A t \in Task : Initializing(t)
  BY DEF Init, Initializing
<1>3. ReadyHasPool /\ Kept /\ cancels <= MaxCancels
  BY LifecycleAssumption DEF Init, ReadyHasPool, Kept
<1> QED
  BY <1>1, <1>2, <1>3 DEF LifeInv

LEMMA NewPoolUnused == Unused # {} => NewPool \in Pool /\ state[NewPool] = "unused"
BY DEF Unused, NewPool

LEMMA BeginKeeps ==
    ASSUME LifeInv, NEW t \in Task, Begin(t)
    PROVE  LifeInv'
BY LifecycleAssumption DEF Begin, LifeInv,
   TypeOK, Initializing, ReadyHasPool, Kept, Labels, Locked, At, Goto, End

LEMMA InitLockKeeps ==
    ASSUME LifeInv, NEW t \in Task, InitLock(t)
    PROVE  LifeInv'
BY LifecycleAssumption, NewPoolUnused DEF InitLock, LifeInv,
   TypeOK, Initializing, ReadyHasPool, Kept, Labels, Locked, At, Goto, End, Stay

LEMMA InitWorkKeeps ==
    ASSUME LifeInv, NEW t \in Task,
           InitOpen(t) \/ InitSchema(t) \/ InitRaise(t) \/ InitUndo(t)
    PROVE  LifeInv'
<1>1. CASE InitOpen(t)
  BY <1>1, LifecycleAssumption DEF InitOpen, LifeInv, TypeOK, Initializing, ReadyHasPool, Kept,
     Labels, Locked, At, Goto, End, Stay
<1>2. CASE InitSchema(t)
  BY <1>2, LifecycleAssumption DEF InitSchema, LifeInv, TypeOK, Initializing, ReadyHasPool, Kept,
     Labels, Locked, At, Goto, End, Stay
<1>3. CASE InitRaise(t)
  BY <1>3, LifecycleAssumption DEF InitRaise, LifeInv, TypeOK, Initializing, ReadyHasPool, Kept,
     Labels, Locked, At, Goto, End, Stay, Error
<1>4. CASE InitUndo(t)
  BY <1>4, LifecycleAssumption DEF InitUndo, LifeInv, TypeOK, Initializing, ReadyHasPool, Kept,
     Labels, Locked, At, Goto, End, Stay
<1> QED
  BY <1>1, <1>2, <1>3, <1>4

LEMMA CloseKeeps ==
    ASSUME LifeInv, NEW t \in Task, CloseLock(t) \/ ClosePool(t)
    PROVE  LifeInv'
<1>1. CASE CloseLock(t)
  <2>1. pc[t] = "close_lock" /\ pool' = None /\ ready' = FALSE /\ lock = None
    BY <1>1 DEF CloseLock, At
  <2>2. \A u \in Task : pc[u] \notin Locked
    BY <2>1, LifecycleAssumption DEF LifeInv, TypeOK
  <2>3. CASE pool = None
    <3>1. /\ pc' = [pc EXCEPT ![t] = "idle"]
          /\ mine' = [mine EXCEPT ![t] = None]
          /\ out' = [out EXCEPT ![t] = "ok"]
          /\ UNCHANGED <<lock, state, left, errors, cancels>>
      BY <1>1, <2>3 DEF CloseLock, End, Goto, Stay
    <3>2. TypeOK'
      BY <2>1, <2>2, <3>1, LifecycleAssumption DEF LifeInv, TypeOK, Labels, Locked
    <3>3. \A u \in Task : Initializing(u)'
      BY <2>1, <2>2, <3>1 DEF LifeInv, TypeOK, Initializing, Locked
    <3>4. Kept'
      BY <2>1, <2>3, <3>1 DEF LifeInv, TypeOK, Kept
    <3> QED
      BY <2>1, <3>1, <3>2, <3>3, <3>4 DEF LifeInv, ReadyHasPool
  <2>4. CASE pool # None
    <3>1. /\ lock' = t
          /\ state' = [state EXCEPT ![pool] = "closed"]
          /\ pc' = [pc EXCEPT ![t] = "close_pool"]
          /\ UNCHANGED <<mine, out, left, errors, cancels>>
      BY <1>1, <2>4 DEF CloseLock, Goto, Stay
    <3>2. TypeOK'
      BY <2>1, <2>2, <3>1, LifecycleAssumption DEF LifeInv, TypeOK, Labels, Locked
    <3>3. \A u \in Task : Initializing(u)'
      BY <2>1, <2>2, <3>1 DEF LifeInv, TypeOK, Initializing, Locked
    <3>4. Kept'
      BY <2>1, <2>4, <3>1 DEF LifeInv, TypeOK, Kept
    <3> QED
      BY <2>1, <3>1, <3>2, <3>3, <3>4 DEF LifeInv, ReadyHasPool
  <2> QED
    BY <2>3, <2>4
<1>2. CASE ClosePool(t)
  BY <1>2, LifecycleAssumption DEF ClosePool, LifeInv, TypeOK, Initializing, ReadyHasPool, Kept,
     Labels, Locked, At, Goto, End, Stay
<1> QED
  BY <1>1, <1>2

LEMMA UseKeeps ==
    ASSUME LifeInv, NEW t \in Task, GetConn(t) \/ OpEnd(t)
    PROVE  LifeInv'
BY LifecycleAssumption DEF GetConn, OpEnd, LifeInv,
   TypeOK, Initializing, ReadyHasPool, Kept, Labels, Locked, At, Goto, End, Stay

LEMMA CancelKeeps ==
    ASSUME LifeInv, NEW t \in Task, Cancel(t)
    PROVE  LifeInv'
BY LifecycleAssumption DEF Cancel, LifeInv,
   TypeOK, Initializing, ReadyHasPool, Kept, Labels, Locked, At, Goto, End

LEMMA LifeNext == LifeInv /\ [Next]_vars => LifeInv'
<1> SUFFICES ASSUME LifeInv, [Next]_vars PROVE LifeInv'
  OBVIOUS
<1>1. CASE UNCHANGED vars
  BY <1>1 DEF vars, LifeInv, TypeOK, Initializing, ReadyHasPool, Kept
<1>2. ASSUME NEW t \in Task, Begin(t) \/ Step(t) \/ InitRaise(t) \/ Cancel(t)
      PROVE  LifeInv'
  BY <1>2, BeginKeeps, InitLockKeeps, InitWorkKeeps, CloseKeeps, UseKeeps, CancelKeeps
     DEF Step
<1> QED
  BY <1>1, <1>2 DEF Next, Finished

-----------------------------------------------------------------------------

\* The life cycle's variables keep their types and one task at a time is in the
\* critical section, however many tasks initialize, close, fail or are cancelled.
THEOREM LifecycleTypes == Spec => []TypeOK
<1>1. Spec => []LifeInv
  BY LifeInit, LifeNext, PTL DEF Spec
<1>2. LifeInv => TypeOK
  BY DEF LifeInv
<1> QED
  BY <1>1, <1>2, PTL

\* Whatever overlaps, _initialized means that _pool is an open pool.
THEOREM ReadyPool == Spec => []ReadyHasPool
<1>1. Spec => []LifeInv
  BY LifeInit, LifeNext, PTL DEF Spec
<1>2. LifeInv => ReadyHasPool
  BY DEF LifeInv
<1> QED
  BY <1>1, <1>2, PTL

\* Neither an error in initialize nor any overlap of initialize and close leaves
\* an open pool that _pool does not name, until a task is cancelled.
THEOREM PoolKept == Spec => []NoPoolLost
<1>1. Spec => []LifeInv
  BY LifeInit, LifeNext, PTL DEF Spec
<1>2. LifeInv => NoPoolLost
  BY DEF LifeInv, Kept, NoPoolLost
<1> QED
  BY <1>1, <1>2, PTL
=============================================================================

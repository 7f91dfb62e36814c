-------------------------- MODULE ProviderLifecycle --------------------------
(***************************************************************************)
(* initialize, close and the use of pooled connections by concurrent tasks *)
(* on one PostgresStorageProvider that owns its pool                       *)
(* (src/chuk_vfs_postgres/provider.py).  Tasks run on one event loop: what *)
(* lies between two awaits is one action.                                  *)
(***************************************************************************)
EXTENDS Naturals, FiniteSets

CONSTANTS Task,        \* asyncio tasks
          Pool,        \* AsyncConnectionPool objects
          None,
          MaxCalls,    \* bound: calls begun in a behaviour
          MaxErrors,   \* bound: exceptions of the database or the pool
          MaxCancels   \* bound: tasks cancelled

ASSUME LifecycleAssumption ==
    /\ None \notin Task /\ None \notin Pool /\ IsFiniteSet(Pool)
    /\ MaxCalls \in Nat /\ MaxErrors \in Nat /\ MaxCancels \in Nat
    /\ Cardinality(Pool) > MaxCalls

VARIABLES ready,     \* _initialized
          pool,      \* _pool
          lock,      \* the task holding _init_lock_obj
          state,     \* of each pool object: unused, new, open, or given to close()
          pc,        \* the await each task is in
          mine,      \* the pool object in the task's local variables
          out,       \* how the task's last call ended
          left, errors, cancels   \* what may still happen

vars == <<ready, pool, lock, state, pc, mine, out, left, errors, cancels>>

\* In the body of `async with self._init_lock()`.
Locked == {"init_open", "init_schema", "init_undo", "close_pool"}

Labels == {"idle", "init_lock", "init_open", "init_schema", "init_undo",
           "close_lock", "close_pool", "op_getconn", "op_run"}

\* Types; one task at a time is in the critical section, and every task that
\* works on a pool has one.
TypeOK == /\ ready \in BOOLEAN
          /\ pool \in Pool \cup {None}
          /\ lock \in Task \cup {None}
          /\ state \in [Pool -> {"unused", "new", "open", "closed"}]
          /\ pc \in [Task -> Labels]
          /\ mine \in [Task -> Pool \cup {None}]
          /\ out \in [Task -> {"none", "ok", "error"}]
          /\ left \in Nat /\ errors \in Nat /\ cancels \in Nat
          /\ \A t \in Task : lock = t <=> pc[t] \in Locked
          /\ \A t \in Task : (mine[t] = None) <=> (pc[t] \in {"idle", "init_lock", "close_lock", "close_pool"})

Init == /\ ready = FALSE /\ pool = None /\ lock = None
        /\ state = [p \in Pool |-> "unused"]
        /\ pc = [t \in Task |-> "idle"] /\ mine = [t \in Task |-> None]
        /\ out = [t \in Task |-> "none"]
        /\ left = MaxCalls /\ errors = MaxErrors /\ cancels = MaxCancels

At(t, label) == pc[t] = label
Goto(t, label) == pc' = [pc EXCEPT ![t] = label]

End(t, how) == /\ Goto(t, "idle")
               /\ mine' = [mine EXCEPT ![t] = None]
               /\ out' = [out EXCEPT ![t] = how]

Stay == UNCHANGED <<left, errors, cancels>>
Error == errors > 0 /\ errors' = errors - 1 /\ UNCHANGED <<left, cancels>>

Unused == {p \in Pool : state[p] = "unused"}

NewPool == CHOOSE p \in Unused : TRUE

-----------------------------------------------------------------------------

\* A call: initialize and close wait for the lock; every other operation is
\* refused at once by _require_initialized.
Begin(t) ==
    /\ At(t, "idle") /\ left > 0
    /\ left' = left - 1
    /\ \/ /\ pc' \in {[pc EXCEPT ![t] = l] : l \in {"init_lock", "close_lock"}}
          /\ out' = [out EXCEPT ![t] = "none"] /\ UNCHANGED mine
       \/ IF ready /\ pool # None
          THEN /\ Goto(t, "op_getconn") /\ mine' = [mine EXCEPT ![t] = pool]
               /\ out' = [out EXCEPT ![t] = "none"]
          ELSE End(t, "error")
    /\ UNCHANGED <<ready, pool, lock, state, errors, cancels>>

(* initialize *)

\* Under the lock: done already, or a new pool becomes _pool before it is open.
InitLock(t) ==
    /\ At(t, "init_lock") /\ lock = None
    /\ IF ready THEN End(t, "ok") /\ UNCHANGED <<pool, lock, state>>
       ELSE /\ Unused # {}
            /\ lock' = t
            /\ pool' = NewPool
            /\ state' = [state EXCEPT ![NewPool] = "new"]
            /\ mine' = [mine EXCEPT ![t] = NewPool]
            /\ Goto(t, "init_open") /\ UNCHANGED out
    /\ Stay /\ UNCHANGED ready

InitOpen(t) ==
    /\ At(t, "init_open")
    /\ state' = [state EXCEPT ![mine[t]] = "open"]
    /\ Goto(t, "init_schema")
    /\ Stay /\ UNCHANGED <<ready, pool, lock, mine, out>>

\* A connection, _ensure_schema, and only then _initialized.
InitSchema(t) ==
    /\ At(t, "init_schema")
    /\ ready' = TRUE
    /\ lock' = None
    /\ End(t, "ok")
    /\ Stay /\ UNCHANGED <<pool, state>>

\* Mutant: the exception leaves _pool set.
InitRaiseKeepsPool(t) ==
    /\ pc[t] \in {"init_open", "init_schema"} /\ Error
    /\ lock' = None
    /\ End(t, "error")
    /\ UNCHANGED <<ready, pool, state>>

\* except Exception: forget the pool and close it.
InitRaise(t) ==
    /\ pc[t] \in {"init_open", "init_schema"} /\ Error
    /\ pool' = None
    /\ state' = [state EXCEPT ![mine[t]] = "closed"]
    /\ Goto(t, "init_undo")
    /\ UNCHANGED <<ready, lock, mine, out>>

\* Mutant: the lock is not released by an exception.
InitUndoKeepsLock(t) ==
    /\ At(t, "init_undo")
    /\ End(t, "error")
    /\ Stay /\ UNCHANGED <<ready, pool, lock, state>>

InitUndo(t) ==
    /\ At(t, "init_undo")
    /\ lock' = None
    /\ End(t, "error")
    /\ Stay /\ UNCHANGED <<ready, pool, state>>

(* close *)

\* Mutant: close does not take the lock.
CloseUnlocked(t) ==
    /\ At(t, "close_lock")
    /\ pool' = None /\ ready' = FALSE
    /\ IF pool = None THEN End(t, "ok") /\ UNCHANGED state
       ELSE /\ state' = [state EXCEPT ![pool] = "closed"]
            /\ Goto(t, "close_pool") /\ UNCHANGED <<mine, out>>
    /\ Stay /\ UNCHANGED lock

CloseLock(t) ==
    /\ At(t, "close_lock") /\ lock = None
    /\ pool' = None /\ ready' = FALSE
    /\ IF pool = None THEN End(t, "ok") /\ UNCHANGED <<lock, state>>
       ELSE /\ lock' = t
            /\ state' = [state EXCEPT ![pool] = "closed"]
            /\ Goto(t, "close_pool") /\ UNCHANGED <<mine, out>>
    /\ Stay

\* await pool.close(), whose exceptions and cancellation are suppressed.
ClosePool(t) ==
    /\ At(t, "close_pool")
    /\ lock' = IF lock = t THEN None ELSE lock
    /\ End(t, "ok")
    /\ Stay /\ UNCHANGED <<ready, pool, state>>

(* every other operation *)

\* pool.connection(): refused when the pool was closed since the check.
GetConn(t) ==
    /\ At(t, "op_getconn")
    /\ IF state[mine[t]] = "open" THEN Goto(t, "op_run") /\ UNCHANGED <<mine, out>>
       ELSE End(t, "error")
    /\ Stay /\ UNCHANGED <<ready, pool, lock, state>>

OpEnd(t) ==
    /\ At(t, "op_run")
    /\ End(t, "ok")
    /\ Stay /\ UNCHANGED <<ready, pool, lock, state>>

\* asyncio.CancelledError is not an Exception: initialize leaves its lock, but
\* not the handler for errors; close swallows it.
Cancel(t) ==
    /\ cancels > 0 /\ pc[t] \notin {"idle", "close_pool"}
    /\ cancels' = cancels - 1
    /\ lock' = IF lock = t THEN None ELSE lock
    /\ End(t, "error")
    /\ IF At(t, "init_open") THEN state' \in {state, [state EXCEPT ![mine[t]] = "open"]}
       ELSE UNCHANGED state
    /\ UNCHANGED <<ready, pool, left, errors>>

Step(t) == \/ InitLock(t) \/ InitOpen(t) \/ InitSchema(t) \/ InitUndo(t)
           \/ CloseLock(t) \/ ClosePool(t)
           \/ GetConn(t) \/ OpEnd(t)

Finished == left = 0 /\ (\A t \in Task : At(t, "idle")) /\ UNCHANGED vars

Next == \/ \E t \in Task : Begin(t) \/ Step(t) \/ InitRaise(t) \/ Cancel(t)
        \/ Finished

Spec == Init /\ [][Next]_vars

\* The event loop runs every task whose await is done.
Fairness == \A t \in Task : WF_vars(Step(t))

FairSpec == Spec /\ Fairness

-----------------------------------------------------------------------------
(* Properties *)

\* An initialized provider has an open pool, however initialize, close, errors
\* and cancellations overlap.
ReadyHasPool == ready => pool # None /\ state[pool] = "open"

\* Every pool that may hold connections is _pool or has been given to close():
\* no error of initialize leaves one behind, and no call replaces one.  Until a
\* task is cancelled: CancelledError passes initialize's `except Exception`.
NoPoolLost == cancels = MaxCancels => \A p \in Pool : state[p] = "open" => pool = p

\* Every call returns: neither an error nor a cancellation keeps the others from
\* the lifecycle lock.
LifecycleReturns == \A t \in Task : ~At(t, "idle") ~> At(t, "idle")
=============================================================================

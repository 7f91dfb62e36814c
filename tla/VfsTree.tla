------------------------------- MODULE VfsTree -------------------------------
(***************************************************************************)
(* The node tree of one filesystem under concurrent provider calls:        *)
(* create_node, delete_node, move_node and create_directory of             *)
(* PostgresStorageProvider (src/chuk_vfs_postgres/provider.py).            *)
(*                                                                         *)
(* Every call runs in one transaction of its own session (_acquire and     *)
(* _tx); one action is one SQL statement, from the moment its locks are    *)
(* granted, together with the Python that follows it up to the next        *)
(* statement.  Committed rows change only in Commit.  A path is the        *)
(* sequence of its names: the root is << >>.                               *)
(***************************************************************************)
EXTENDS PgRows

CONSTANTS Tree0,      \* the rows committed before the calls begin
          Calls,      \* the calls a session may make
          MaxCalls,   \* bound: calls begun in a behaviour
          MaxFaults   \* bound: calls that die of a cancellation or lost connection

Ops == {"create_node", "delete_node", "move_node", "create_directory"}

Row == [st : {"free", "live", "dead"},
        parent : Node \cup {None},
        name : Name \cup {None},
        dir : BOOLEAN]

RowsTypeOK == /\ db \in [Node -> Row]
              /\ new \in [Node -> Row]
              /\ owner \in [Node -> Sess \cup {None}]
              /\ shares \in [Node -> SUBSET Sess]

NodeRow(p, nm, isDir) == [st |-> "live", parent |-> p, name |-> nm, dir |-> isDir]

Call == [op : Ops, path : Seq(Name), dst : Seq(Name), dir : BOOLEAN]

\* Nodes of S that no path from the root reaches are those of a cycle.
Uprooted(rows, S) == S # {} /\ \A n \in S : rows[n].parent \in S

LiveNodes(rows) == {n \in Node : rows[n].st = "live" /\ n # Root}

Acyclic(rows) == \A S \in SUBSET LiveNodes(rows) : ~Uprooted(rows, S)

DirsAcyclic(rows) ==
    \A S \in SUBSET {n \in LiveNodes(rows) : rows[n].dir} : ~Uprooted(rows, S)

Unique(rows) == \A n, m \in Node : SameEntry(rows[n], rows[m]) => n = m

HasParent(rows, n) == \/ n = Root /\ rows[n].parent = None
                      \/ n # Root /\ rows[n].parent \in Node
                                  /\ rows[rows[n].parent].st = "live"

ParentIsDir(rows, n) == rows[n].parent \in Node => rows[rows[n].parent].dir

\* create_directory can leave a directory below a file (see ParentsAreDirs), so
\* the calls may also begin in a tree that has one.
WellFormed(rows) ==
    /\ Unique(rows) /\ DirsAcyclic(rows)
    /\ rows[Root].st = "live" /\ rows[Root].dir
    /\ \A n \in Node : rows[n].st = "live" => HasParent(rows, n)

ASSUME TreeAssumption == Tree0 \in [Node -> Row] /\ WellFormed(Tree0)
ASSUME CallAssumption == /\ Calls \subseteq Call /\ None \notin Call
                         /\ MaxCalls \in Nat /\ MaxFaults \in Nat

VARIABLES topo,    \* the session holding the move-topology advisory lock, or None
          pc,      \* the statement each session executes next
          f,       \* the local variables of each session's call
          left,    \* calls that may still begin
          faults   \* faults that may still happen

vars == <<db, new, owner, shares, topo, pc, f, left, faults>>

Labels == {"idle", "walk", "cn_insert", "fk", "del_lock", "del_check", "del_row",
           "cascade", "mv_topo", "mv_lock_src", "mv_lock_dst", "mv_check",
           "mv_within", "mv_update", "mk_child", "mk_insert", "mk_again", "commit"}

\* cur, rest: the row _resolve has reached and the names still to walk;
\* src: the row being moved; up: `current` in _is_within; k: the components
\* create_directory has finished; out: the call's result.
Frame == [call : Call, cur : Node, rest : Seq(Name), src : Node \cup {None},
          up : Node \cup {None}, k : Nat, out : {"none", "true", "false", "error"}]

NoCall == [op |-> "delete_node", path |-> << >>, dst |-> << >>, dir |-> FALSE]

Fresh(c, out) == [call |-> c, cur |-> Root, rest |-> << >>, src |-> None,
                  up |-> None, k |-> 0, out |-> out]

TypeOK == /\ RowsTypeOK
          /\ topo \in Sess \cup {None}
          /\ pc \in [Sess -> Labels]
          /\ f \in [Sess -> Frame]
          /\ left \in Nat
          /\ faults \in Nat

Init == /\ db = Tree0 /\ new = Tree0
        /\ owner = [n \in Node |-> None] /\ shares = [n \in Node |-> {}]
        /\ topo = None
        /\ pc = [s \in Sess |-> "idle"]
        /\ f = [s \in Sess |-> Fresh(NoCall, "none")]
        /\ left = MaxCalls /\ faults = MaxFaults

-----------------------------------------------------------------------------
(* Steps shared by the handlers *)

\* _split: the path of the parent directory and the name in it.
Parent(path) == SubSeq(path, 1, Len(path) - 1)
Base(path) == path[Len(path)]

At(s, label) == pc[s] = label

Goto(s, label) == pc' = [pc EXCEPT ![s] = label]

Stay == UNCHANGED <<left, faults>>

\* return ok: leaving the transaction block commits it, whatever ok is.
Return(s, ok) == /\ Goto(s, "commit")
                 /\ f' = [f EXCEPT ![s].out = IF ok THEN "true" ELSE "false"]

\* The statement after _resolve, in each handler.
AfterWalk(fr) ==
    CASE fr.call.op = "create_node" -> "cn_insert"
      [] fr.call.op = "delete_node" -> "del_lock"
      [] fr.call.op = "move_node" -> IF fr.src = None THEN "mv_lock_src" ELSE "mv_lock_dst"
      [] fr.call.op = "create_directory" -> "mk_child"

\* _resolve(path) in the frame fr: start from the root row.
StartWalk(s, fr, path) ==
    /\ f' = [f EXCEPT ![s] = [fr EXCEPT !.cur = Root, !.rest = path]]
    /\ Goto(s, IF path = << >> THEN AfterWalk(fr) ELSE "walk")

\* Mutant: _resolve without its `if row is None`.
WalkUnchecked(s) ==
    /\ At(s, "walk")
    /\ f' = [f EXCEPT ![s].cur = Child(s, @, Head(f[s].rest)), ![s].rest = Tail(@)]
    /\ Goto(s, IF Tail(f[s].rest) = << >> THEN AfterWalk(f[s]) ELSE "walk")
    /\ Stay /\ UNCHANGED <<rowVars, topo>>

\* One component: SELECT the child of the row reached so far, without a lock.
Walk(s) ==
    /\ At(s, "walk")
    /\ LET c == Child(s, f[s].cur, Head(f[s].rest)) IN
       IF c = None THEN Return(s, FALSE)
       ELSE /\ f' = [f EXCEPT ![s].cur = c, ![s].rest = Tail(@)]
            /\ Goto(s, IF Tail(f[s].rest) = << >> THEN AfterWalk(f[s]) ELSE "walk")
    /\ Stay /\ UNCHANGED <<rowVars, topo>>

\* Leaving the transaction block with an exception.
Abort(s) == /\ RollbackRows(s)
            /\ topo' = IF topo = s THEN None ELSE topo
            /\ Goto(s, "idle")
            /\ f' = [f EXCEPT ![s] = Fresh(NoCall, "error")]

\* Mutant: a session-level pg_advisory_lock, which outlives the transaction.
CommitKeepsTopo(s) ==
    /\ At(s, "commit")
    /\ CommitRows(s)
    /\ Goto(s, "idle")
    /\ f' = [f EXCEPT ![s] = Fresh(NoCall, f[s].out)]
    /\ Stay /\ UNCHANGED topo

Commit(s) ==
    /\ At(s, "commit")
    /\ CommitRows(s)
    /\ topo' = IF topo = s THEN None ELSE topo
    /\ Goto(s, "idle")
    /\ f' = [f EXCEPT ![s] = Fresh(NoCall, f[s].out)]
    /\ Stay

\* A call on "/" returns before it opens a transaction.
RootCall(c) == c.path = << >> \/ (c.op = "move_node" /\ c.dst = << >>)

BeginAtRoot(s, c) ==
    /\ At(s, "idle") /\ left > 0 /\ RootCall(c)
    /\ left' = left - 1
    /\ f' = [f EXCEPT ![s] = Fresh(NoCall, IF c.op = "create_directory"
                                           THEN "true" ELSE "false")]
    /\ UNCHANGED <<rowVars, topo, pc, faults>>

Begin(s, c) ==
    /\ At(s, "idle") /\ left > 0 /\ ~RootCall(c)
    /\ left' = left - 1
    /\ CASE c.op = "create_node" -> StartWalk(s, Fresh(c, "none"), Parent(c.path))
         [] c.op = "delete_node" -> StartWalk(s, Fresh(c, "none"), c.path)
         [] c.op = "create_directory" -> StartWalk(s, Fresh(c, "none"), << >>)
         [] c.op = "move_node" -> /\ f' = [f EXCEPT ![s] = Fresh(c, "none")]
                                  /\ Goto(s, "mv_topo")
    /\ UNCHANGED <<rowVars, topo, faults>>

-----------------------------------------------------------------------------
(* create_node *)

\* INSERT ... ON CONFLICT DO NOTHING below a parent that was a directory when
\* it was resolved (a row never changes is_dir).
CreateInsert(s) ==
    /\ At(s, "cn_insert")
    /\ LET p == f[s].cur
           nm == Base(f[s].call.path) IN
       IF ~Seen(s, p).dir THEN Return(s, FALSE) /\ UNCHANGED rowVars
       ELSE /\ UniqueWaits(s, p, nm) = {}
            /\ IF UniqueConflict(s, p, nm) THEN Return(s, FALSE) /\ UNCHANGED rowVars
               ELSE /\ FreeIds # {}
                    /\ InsertRow(s, FreshId, NodeRow(p, nm, f[s].call.dir))
                    /\ Goto(s, "fk")
                    /\ UNCHANGED <<db, shares, f>>
    /\ Stay /\ UNCHANGED topo

\* The next component of create_directory, from the root again.
NextPart(s) ==
    LET k == f[s].k + 1
        path == f[s].call.path IN
    IF k = Len(path) THEN Return(s, TRUE)
    ELSE StartWalk(s, [f[s] EXCEPT !.k = k], SubSeq(path, 1, k))

\* Mutant: parent_id without REFERENCES.
FkUnchecked(s) ==
    /\ At(s, "fk")
    /\ IF f[s].call.op = "create_node" THEN Return(s, TRUE) ELSE NextPart(s)
    /\ Stay /\ UNCHANGED <<rowVars, topo>>

\* The foreign-key trigger that ends an INSERT: it takes the parent FOR KEY
\* SHARE and raises when the parent is gone.
FkCheck(s) ==
    /\ At(s, "fk")
    /\ ShareWaits(s, f[s].cur) = {}
    /\ IF ~Live(s, f[s].cur) THEN Abort(s)
       ELSE /\ Share(s, f[s].cur)
            /\ IF f[s].call.op = "create_node" THEN Return(s, TRUE) ELSE NextPart(s)
            /\ UNCHANGED <<db, new, owner, topo>>
    /\ Stay

-----------------------------------------------------------------------------
(* delete_node *)

\* _lock_node: the row resolved above, FOR UPDATE, if it still exists.
DelLock(s) ==
    /\ At(s, "del_lock")
    /\ LockWaits(s, f[s].cur) = {}
    /\ IF Live(s, f[s].cur)
       THEN Lock(s, f[s].cur) /\ Goto(s, "del_check") /\ UNCHANGED f
       ELSE Return(s, FALSE) /\ UNCHANGED owner
    /\ Stay /\ UNCHANGED <<db, new, shares, topo>>

\* Mutant: the emptiness check left out.
DelUnchecked(s) ==
    /\ At(s, "del_check")
    /\ Goto(s, "del_row")
    /\ Stay /\ UNCHANGED <<rowVars, topo, f>>

\* Only a directory is searched for children.
DelCheck(s) ==
    /\ At(s, "del_check")
    /\ IF Seen(s, f[s].cur).dir /\ ChildrenOf(s, f[s].cur) # {}
       THEN Return(s, FALSE)
       ELSE Goto(s, "del_row") /\ UNCHANGED f
    /\ Stay /\ UNCHANGED <<rowVars, topo>>

DelRow(s) ==
    /\ At(s, "del_row")
    /\ new' = [new EXCEPT ![f[s].cur].st = "dead"]
    /\ Goto(s, "cascade")
    /\ Stay /\ UNCHANGED <<db, owner, shares, topo, f>>

\* Rows whose parent this transaction has deleted.
Orphans(s) == {n \in Node : /\ Live(s, n) /\ Seen(s, n).parent \in Node
                            /\ owner[Seen(s, n).parent] = s
                            /\ new[Seen(s, n).parent].st = "dead"}

\* ON DELETE CASCADE, one row at a time.
Cascade(s) ==
    /\ At(s, "cascade")
    /\ IF Orphans(s) = {} THEN Return(s, TRUE) /\ UNCHANGED rowVars
       ELSE \E n \in Orphans(s) :
                /\ LockWaits(s, n) = {}
                /\ Lock(s, n)
                /\ new' = [new EXCEPT ![n] = [db[n] EXCEPT !.st = "dead"]]
                /\ UNCHANGED <<db, shares, pc, f>>
    /\ Stay /\ UNCHANGED topo

-----------------------------------------------------------------------------
(* move_node *)

TopoWaits(s) == {topo} \ {s, None}

\* Mutant: no topology lock.
MvUnserialized(s) ==
    /\ At(s, "mv_topo")
    /\ StartWalk(s, f[s], f[s].call.path)
    /\ Stay /\ UNCHANGED <<rowVars, topo>>

\* pg_advisory_xact_lock, one per filesystem: moves validate one at a time.
MvTopo(s) ==
    /\ At(s, "mv_topo")
    /\ TopoWaits(s) = {}
    /\ topo' = s
    /\ StartWalk(s, f[s], f[s].call.path)
    /\ Stay /\ UNCHANGED rowVars

MvLockSrc(s) ==
    /\ At(s, "mv_lock_src")
    /\ LockWaits(s, f[s].cur) = {}
    /\ IF ~Live(s, f[s].cur) THEN Return(s, FALSE) /\ UNCHANGED owner
       ELSE /\ Lock(s, f[s].cur)
            /\ IF f[s].call.path = f[s].call.dst THEN Return(s, TRUE)
               ELSE StartWalk(s, [f[s] EXCEPT !.src = f[s].cur], Parent(f[s].call.dst))
    /\ Stay /\ UNCHANGED <<db, new, shares, topo>>

MvLockDst(s) ==
    /\ At(s, "mv_lock_dst")
    /\ IF ~Seen(s, f[s].cur).dir THEN Return(s, FALSE) /\ UNCHANGED owner
       ELSE /\ LockWaits(s, f[s].cur) = {}
            /\ IF Live(s, f[s].cur)
               THEN Lock(s, f[s].cur) /\ Goto(s, "mv_check") /\ UNCHANGED f
               ELSE Return(s, FALSE) /\ UNCHANGED owner
    /\ Stay /\ UNCHANGED <<db, new, shares, topo>>

\* The destination must be free; only a directory needs the ancestry walk.
MvCheck(s) ==
    /\ At(s, "mv_check")
    /\ IF Child(s, f[s].cur, Base(f[s].call.dst)) # None THEN Return(s, FALSE)
       ELSE /\ f' = [f EXCEPT ![s].up = f[s].cur]
            /\ Goto(s, IF Seen(s, f[s].src).dir THEN "mv_within" ELSE "mv_update")
    /\ Stay /\ UNCHANGED <<rowVars, topo>>

\* One round of _is_within.
MvWithin(s) ==
    /\ At(s, "mv_within")
    /\ IF f[s].up = f[s].src THEN Return(s, FALSE)
       ELSE LET p == IF Live(s, f[s].up) THEN Seen(s, f[s].up).parent ELSE None IN
            /\ f' = [f EXCEPT ![s].up = p]
            /\ Goto(s, IF p = None THEN "mv_update" ELSE "mv_within")
    /\ Stay /\ UNCHANGED <<rowVars, topo>>

\* Mutant: the result of a lost and a won race swapped.
MvUpdateSwapped(s) ==
    /\ At(s, "mv_update")
    /\ UniqueWaits(s, f[s].cur, Base(f[s].call.dst)) = {}
    /\ new' = [new EXCEPT ![f[s].src].parent = f[s].cur,
                          ![f[s].src].name = Base(f[s].call.dst)]
    /\ Return(s, FALSE)
    /\ Stay /\ UNCHANGED <<db, owner, shares, topo>>

\* Mutant: SET parent_id without name.
MvUpdateParentOnly(s) ==
    /\ At(s, "mv_update")
    /\ UniqueWaits(s, f[s].cur, Base(f[s].call.dst)) = {}
    /\ new' = [new EXCEPT ![f[s].src].parent = f[s].cur]
    /\ Return(s, TRUE)
    /\ Stay /\ UNCHANGED <<db, owner, shares, topo>>

\* UPDATE parent_id, name inside a savepoint; UniqueViolation returns False.
MvUpdate(s) ==
    /\ At(s, "mv_update")
    /\ LET p == f[s].cur
           nm == Base(f[s].call.dst) IN
       /\ UniqueWaits(s, p, nm) = {}
       /\ IF UniqueConflict(s, p, nm) THEN Return(s, FALSE) /\ UNCHANGED new
          ELSE /\ new' = [new EXCEPT ![f[s].src].parent = p, ![f[s].src].name = nm]
               /\ Return(s, TRUE)
    /\ Stay /\ UNCHANGED <<db, owner, shares, topo>>

-----------------------------------------------------------------------------
(* create_directory: cur is parent_row, Part(s) the component being created *)

Part(s) == f[s].call.path[f[s].k + 1]

MkChild(s) ==
    /\ At(s, "mk_child")
    /\ LET c == Child(s, f[s].cur, Part(s)) IN
       IF c = None THEN Goto(s, "mk_insert") /\ UNCHANGED f
       ELSE IF Seen(s, c).dir THEN NextPart(s) ELSE Return(s, FALSE)
    /\ Stay /\ UNCHANGED <<rowVars, topo>>

\* Nothing checks that parent_row is a directory.
MkInsert(s) ==
    /\ At(s, "mk_insert")
    /\ UniqueWaits(s, f[s].cur, Part(s)) = {}
    /\ IF UniqueConflict(s, f[s].cur, Part(s))
       THEN Goto(s, "mk_again") /\ UNCHANGED rowVars
       ELSE /\ FreeIds # {}
            /\ InsertRow(s, FreshId, NodeRow(f[s].cur, Part(s), TRUE))
            /\ Goto(s, "fk") /\ UNCHANGED <<db, shares>>
    /\ Stay /\ UNCHANGED <<topo, f>>

\* A concurrent creation won: look again.
MkAgain(s) ==
    /\ At(s, "mk_again")
    /\ LET c == Child(s, f[s].cur, Part(s)) IN
       IF c # None /\ Seen(s, c).dir THEN NextPart(s) ELSE Return(s, FALSE)
    /\ Stay /\ UNCHANGED <<rowVars, topo>>

-----------------------------------------------------------------------------
(* Failures *)

\* A cancelled task or a lost connection: the transaction rolls back.
Fail(s) == /\ faults > 0 /\ ~At(s, "idle")
           /\ faults' = faults - 1
           /\ Abort(s)
           /\ UNCHANGED left

\* The sessions whose commit or rollback the next statement of s waits for.
WaitsFor(s) ==
    CASE pc[s] = "cn_insert" /\ Seen(s, f[s].cur).dir ->
             UniqueWaits(s, f[s].cur, Base(f[s].call.path))
      [] pc[s] = "mk_insert" -> UniqueWaits(s, f[s].cur, Part(s))
      [] pc[s] = "mv_update" -> UniqueWaits(s, f[s].cur, Base(f[s].call.dst))
      [] pc[s] = "fk" -> ShareWaits(s, f[s].cur)
      [] pc[s] \in {"del_lock", "mv_lock_src"} -> LockWaits(s, f[s].cur)
      [] pc[s] = "mv_lock_dst" /\ Seen(s, f[s].cur).dir -> LockWaits(s, f[s].cur)
      [] pc[s] = "cascade" -> UNION {LockWaits(s, n) : n \in Orphans(s)}
      [] pc[s] = "mv_topo" -> TopoWaits(s)
      [] OTHER -> {}

WaitCycle(C) == C # {} /\ \A s \in C : WaitsFor(s) \cap C # {}

\* PostgreSQL's deadlock detector: one session of a cycle gets DeadlockDetected.
DeadlockVictim(s) == /\ \E C \in SUBSET Sess : s \in C /\ WaitCycle(C)
                     /\ Abort(s)
                     /\ Stay

-----------------------------------------------------------------------------

\* The next statement of the call session s has begun.
Step(s) == \/ Walk(s) \/ Commit(s) \/ FkCheck(s)
           \/ CreateInsert(s)
           \/ DelLock(s) \/ DelCheck(s) \/ DelRow(s) \/ Cascade(s)
           \/ MvTopo(s) \/ MvLockSrc(s) \/ MvLockDst(s) \/ MvCheck(s)
           \/ MvWithin(s) \/ MvUpdate(s)
           \/ MkChild(s) \/ MkInsert(s) \/ MkAgain(s)

\* Every call has returned and none may begin.
Finished == /\ left = 0 /\ \A s \in Sess : At(s, "idle")
            /\ UNCHANGED vars

Next == \/ \E s \in Sess : \/ \E c \in Calls : Begin(s, c) \/ BeginAtRoot(s, c)
                           \/ Step(s)
                           \/ Fail(s)
                           \/ DeadlockVictim(s)
        \/ Finished

Spec == Init /\ [][Next]_vars

\* A statement whose locks are granted runs, and the detector finds cycles.
Fairness == \A s \in Sess : WF_vars(Step(s)) /\ WF_vars(DeadlockVictim(s))

FairSpec == Spec /\ Fairness

-----------------------------------------------------------------------------
(* Properties *)

\* Two calls never commit the same name twice in one directory, whichever of
\* create_node, create_directory and move_node they are.
UniqueSiblings == Unique(db)

\* Concurrent move_node calls never commit a cycle: every node stays reachable
\* from the root by its parent links, as move_node's docstring says.
NoCycles == Acyclic(db)

\* Concurrent move_node calls never put directories into one another: a cycle
\* needs a file that has got a directory below it, which move_node does not look for.
NoDirCycles == DirsAcyclic(db)

\* No create or move commits below a directory that a concurrent delete_node
\* removed, and no delete leaves children behind.
NoOrphans == \A n \in Node : db[n].st = "live" => HasParent(db, n)

\* Only directories have children: what create_node, write_file_atomic and
\* move_node refuse, and create_directory does when the path leads to a file.
ParentsAreDirs == \A n \in Node : db[n].st = "live" => ParentIsDir(db, n)

\* delete_node removes a directory only when nothing is in it, also when a
\* create or a move into it races with the emptiness check; only a directory
\* that goes together with its parent may have children.
DirsDieEmpty ==
    [][\A n, m \in Node :
          /\ db[n].st = "live" /\ db[n].dir /\ db'[n].st = "dead" /\ m # n
          /\ db'[db[n].parent].st # "dead"
          => /\ ~(db[m].st = "live" /\ db[m].parent = n)
             /\ ~(db'[m].st = "live" /\ db'[m].parent = n)]_vars

\* A create_node, delete_node or move_node that returns False has changed
\* nothing, although its transaction commits: not after a lost race for the
\* name, nor in the savepoint.  create_directory may keep what it has added.
FalseHasNoEffect ==
    [][\A s \in Sess : /\ At(s, "commit") /\ pc'[s] = "idle" /\ f[s].out = "false"
                       /\ f[s].call.op # "create_directory"
                      => db' = db]_vars

\* No call waits for ever: row locks, unique-index waits and the topology lock
\* are all released, or a deadlock is broken.
CallsReturn == \A s \in Sess : ~At(s, "idle") ~> At(s, "idle")

\* The committed tree and the results are those of atomic operations.
AbsTree == INSTANCE AbstractTree WITH
    tree <- [n \in {m \in Node : db[m].st = "live"} |->
                [parent |-> db[n].parent, name |-> db[n].name, dir |-> db[n].dir]],
    used <- {n \in Node : db[n].st # "free"},
    call <- [s \in Sess |-> IF At(s, "idle") THEN None ELSE f[s].call],
    ret <- [s \in Sess |-> IF At(s, "idle") THEN f[s].out ELSE "none"]

AtomicTree == AbsTree!Spec
=============================================================================

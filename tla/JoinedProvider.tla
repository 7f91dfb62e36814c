--------------------------- MODULE JoinedProvider ---------------------------
(***************************************************************************)
(* Transaction-joined mode and schema creation of PostgresStorageProvider  *)
(* (src/chuk_vfs_postgres/provider.py): providers of one filesystem, each  *)
(* on its own connection, which is pooled, or injected by a caller who     *)
(* runs transactions of his own on it, with autocommit off or on.          *)
(*                                                                         *)
(* The database is a set of facts: the tables, their unique indexes (of an *)
(* older or this version), the root row, nodes, their contents, and the    *)
(* caller's business rows.  One action is one statement from the moment    *)
(* its locks are granted; the statements of _ensure_schema_locked after    *)
(* its advisory lock are one, because ALTER TABLE keeps everybody else off *)
(* vfs_nodes.  Nodes are children of the root; VfsTree has the trees.      *)
(***************************************************************************)
EXTENDS Naturals, FiniteSets

CONSTANTS Conn,      \* connections, each with a provider
          Mode,      \* of each: "pool", "joined" (autocommit off) or "auto"
          Name,      \* names of nodes
          Calls,     \* the calls that may be made
          Dbs0,      \* the databases that may be there at the start
          MaxSteps,  \* bound: calls and caller's statements begun in a behaviour
          MaxFaults  \* bound: database errors

\* write is write_file_atomic, read any operation that only reads.
Ops == {"initialize", "create", "write", "delete", "move", "read"}
Call == [op : Ops, name : Name, dst : Name]

Fact == {<<"tables">>, <<"oldindex">>, <<"index">>, <<"duplicates">>, <<"root">>}
        \cup {<<k, nm>> : k \in {"node", "data"}, nm \in Name} \cup {<<"business", c>> : c \in Conn}

\* _ensure_schema commits the unique index with the tables and the root row.
ASSUME JoinedAssumption == /\ Mode \in [Conn -> {"pool", "joined", "auto"}]
                           /\ Calls \subseteq Call /\ Calls # {} /\ Dbs0 \subseteq SUBSET Fact
                           /\ \A d \in Dbs0 : <<"index">> \in d => {<<"tables">>, <<"root">>} \subseteq d
                           /\ MaxSteps \in Nat /\ MaxFaults \in Nat

VARIABLES db,      \* the committed facts
          txn,     \* the transaction on each connection
          base,    \* the transaction at the savepoint of the call
          block,   \* the call runs in conn.transaction(): its own, nested, or none
          pc,      \* the statement each call executes next
          g,       \* its call, the change it is making, its result
          ready,   \* _initialized of each provider
          told,    \* what the caller's transaction should do, as its calls returned
          undone,  \* the transaction that initialize joined: pending, or rolled back
          left, faults

vars == <<db, txn, base, block, pc, g, ready, told, undone, left, faults>>

Locks == {<<"schema">>, <<"topology">>, <<"use">>, <<"ddl">>}  \* two advisory locks, and modes on vfs_nodes
Change == [add : SUBSET Fact, del : SUBSET Fact]
None == [add |-> {}, del |-> {}]
Txn == [st : {"idle", "open", "failed"}, add : SUBSET Fact, del : SUBSET Fact, held : SUBSET (Locks \cup Fact)]
NoTxn == [st |-> "idle", add |-> {}, del |-> {}, held |-> {}]

Labels == {"idle", "lock", "schema", "topology", "check", "statement", "content", "end"}

TypeOK == /\ db \subseteq Fact
          /\ txn \in [Conn -> Txn] /\ base \in [Conn -> Txn]
          /\ block \in [Conn -> {"own", "savepoint", "none"}]
          /\ pc \in [Conn -> Labels]
          /\ g \in [Conn -> [call : Call, plan : Change, used : BOOLEAN, out : {"none", "true", "false", "error", "collision"}]]
          /\ ready \in [Conn -> BOOLEAN] /\ told \in [Conn -> Change]
          /\ undone \in [Conn -> {"no", "pending", "yes"}] /\ left \in Nat /\ faults \in Nat
          /\ \A c \in Conn : /\ txn[c].st = "idle" => txn[c] = NoTxn
                             /\ Mode[c] = "pool" /\ pc[c] = "idle" => txn[c].st = "idle"

Init == /\ db \in Dbs0
        /\ txn = [c \in Conn |-> NoTxn] /\ base = txn
        /\ block = [c \in Conn |-> "none"] /\ pc = [c \in Conn |-> "idle"]
        /\ g = [c \in Conn |-> [call |-> CHOOSE k \in Calls : TRUE, plan |-> None,
                                used |-> FALSE, out |-> "none"]]
        /\ \E r \in {FALSE, <<"index">> \in db} : ready = [c \in Conn |-> r /\ Mode[c] # "pool"]
        /\ told = [c \in Conn |-> None]
        /\ undone = [c \in Conn |-> "no"]
        /\ left = MaxSteps /\ faults = MaxFaults

-----------------------------------------------------------------------------
(* Transactions of PostgreSQL and psycopg *)

Apply(facts, ch) == (facts \ ch.del) \cup ch.add
View(c) == Apply(db, txn[c])

\* Change x, then y.
Then(x, y) == [add |-> (x.add \ y.del) \cup y.add, del |-> (x.del \ y.add) \cup y.del]

Rivals(c, facts) == {d \in Conn \ {c} : facts \cap (txn[d].add \cup txn[d].del \cup txn[d].held) # {}}
Holders(c, locks) == {d \in Conn \ {c} : txn[d].held \cap locks # {}}

\* A statement outside any transaction opens one, or commits by itself.
Autocommit(c) == Mode[c] = "auto" /\ txn[c].st = "idle"

Execute(c, ch, locks) ==
    IF Autocommit(c) THEN db' = Apply(db, ch) /\ UNCHANGED txn
    ELSE /\ txn' = [txn EXCEPT ![c] = [st |-> "open", add |-> Then(@, ch).add, del |-> Then(@, ch).del,
                                       held |-> @.held \cup locks]]
         /\ UNCHANGED db

Finish(c, out) == /\ pc' = [pc EXCEPT ![c] = "idle"]
                  /\ g' = [g EXCEPT ![c] = [@ EXCEPT !.plan = None, !.used = FALSE, !.out = out]]

Await(c, label, plan, out) == /\ pc' = [pc EXCEPT ![c] = label]
                              /\ g' = [g EXCEPT ![c].plan = plan, ![c].out = out]

Quiet == UNCHANGED <<base, block, ready, told, undone, left, faults>>

\* Mutant: a transaction of the call's own is not rolled back.
RaiseUnfinished(c, sql, out) ==
    /\ txn' = [txn EXCEPT ![c] = CASE block[c] = "savepoint" -> base[c]
                                   [] block[c] # "savepoint" /\ @.st = "open" -> [@ EXCEPT !.st = "failed"]
                                   [] OTHER -> @]
    /\ Finish(c, out)
    /\ UNCHANGED db

\* An exception leaves the call: its block rolls back, and without one a
\* statement that failed takes the caller's transaction with it.
Raise(c, sql, out) ==
    /\ txn' = [txn EXCEPT ![c] = CASE block[c] = "own" -> NoTxn
                                   [] block[c] = "savepoint" -> base[c]
                                   [] block[c] = "none" /\ sql /\ @.st = "open" -> [@ EXCEPT !.st = "failed"]
                                   [] OTHER -> @]
    /\ Finish(c, out)
    /\ UNCHANGED db

-----------------------------------------------------------------------------
(* Calls of the provider *)

\* _ensure_schema joins a transaction that is open, or runs its own.
InitBlock(c) == IF txn[c].st = "idle" THEN "own" ELSE "none"

\* Mutant: _tx without a block of its own for autocommit connections.
TxBlockNone(c) == IF Mode[c] = "pool" THEN "own" ELSE "none"

\* _tx
TxBlock(c) == CASE Mode[c] = "joined" -> "none"
                [] Mode[c] = "auto" /\ txn[c].st # "idle" -> "savepoint"
                [] OTHER -> "own"

First(call) == CASE call.op = "initialize" -> "lock"
                 [] call.op = "move" -> "topology"
                 [] OTHER -> "statement"

\* Nothing runs in a failed transaction, and nothing before initialize.
Begin(c, call) ==
    LET b == CASE call.op = "initialize" -> InitBlock(c)
               [] call.op = "read" -> IF Mode[c] = "pool" THEN "own" ELSE "none"
               [] OTHER -> TxBlock(c) IN
    /\ pc[c] = "idle" /\ left > 0 /\ left' = left - 1
    /\ g' = [g EXCEPT ![c] = [call |-> call, plan |-> None,
                              used |-> <<"use">> \in txn[c].held, out |-> "none"]]
    /\ IF call.op = "initialize" THEN ~ready[c] ELSE ready[c]
    /\ txn[c].st # "failed"
    /\ pc' = [pc EXCEPT ![c] = First(call)]
    /\ block' = [block EXCEPT ![c] = b]
    /\ base' = [base EXCEPT ![c] = IF b = "savepoint" THEN txn[c] ELSE NoTxn]
    /\ txn' = IF b = "own" THEN [txn EXCEPT ![c].st = "open"] ELSE txn
    /\ UNCHANGED <<db, ready, told, undone, faults>>

\* The block is left; the pool takes its connection back.
End(c) ==
    /\ pc[c] = "end"
    /\ IF block[c] = "own" THEN db' = View(c) /\ txn' = [txn EXCEPT ![c] = NoTxn]
       ELSE UNCHANGED <<db, txn>>
    /\ Finish(c, g[c].out)
    /\ told' = IF block[c] = "own" THEN told ELSE [told EXCEPT ![c] = Then(@, g[c].plan)]
    /\ ready' = [ready EXCEPT ![c] = @ \/ g[c].call.op = "initialize"]
    /\ undone' = IF g[c].call.op # "initialize" THEN undone
                 ELSE [undone EXCEPT ![c] = IF block[c] = "own" THEN "no" ELSE "pending"]
    /\ UNCHANGED <<base, block, left, faults>>

\* close(): the injected connection stays as it is.
Close(c) == /\ pc[c] = "idle" /\ ready[c] /\ left > 0 /\ left' = left - 1
            /\ ready' = [ready EXCEPT ![c] = FALSE]
            /\ UNCHANGED <<db, txn, base, block, pc, g, told, undone, faults>>

-----------------------------------------------------------------------------
(* initialize: _ensure_schema_locked *)

\* Mutant: without the advisory lock.
NoLockWaits(c) == {}

LockWaits(c) == Holders(c, {<<"schema">>})

Lock(c) == /\ pc[c] = "lock" /\ LockWaits(c) = {}
           /\ Execute(c, None, {<<"schema">>})
           /\ Await(c, "schema", None, "none")
           /\ Quiet

\* Waits of ALTER TABLE: for every transaction that has used the table.
SchemaWaits(c) == IF <<"tables">> \in View(c) THEN Holders(c, {<<"use">>, <<"ddl">>}) ELSE {}

\* What the statements up to the guard and after it change.
Migration(c) == [add |-> {<<"tables">>}, del |-> {<<"oldindex">>}]
Indexes(c) == [add |-> {<<"index">>, <<"root">>}, del |-> {}]

\* Mutant: initialize reports success when the guard refuses.
SchemaUnguarded(c) ==
    /\ pc[c] = "schema" /\ SchemaWaits(c) = {}
    /\ IF <<"duplicates">> \in View(c)
       THEN Execute(c, Migration(c), {<<"ddl">>}) /\ Await(c, "end", None, "true")
       ELSE /\ Execute(c, Then(Migration(c), Indexes(c)), {<<"use">>, <<"ddl">>})
            /\ Await(c, "end", None, "true")
    /\ Quiet

\* Two CREATE TABLEs at once: IF NOT EXISTS does not keep the second from
\* failing.  The guard's RuntimeError is no database error, a joined
\* transaction stays open with the migration in it.
Schema(c) ==
    /\ pc[c] = "schema" /\ SchemaWaits(c) = {}
    /\ CASE Rivals(c, {<<"tables">>}) # {} -> Raise(c, TRUE, "collision")
         [] Rivals(c, {<<"tables">>}) = {} /\ <<"duplicates">> \in View(c) ->
                IF block[c] = "own" THEN Raise(c, FALSE, "error")
                ELSE Execute(c, Migration(c), {<<"ddl">>}) /\ Finish(c, "error")
         [] OTHER -> /\ Execute(c, Then(Migration(c), Indexes(c)), {<<"use">>, <<"ddl">>})
                     /\ Await(c, "end", None, "true")
    /\ Quiet

-----------------------------------------------------------------------------
(* Operations on nodes *)

Node(c) == <<"node", g[c].call.name>>
Data(c) == <<"data", g[c].call.name>>
Dst(c) == <<"node", g[c].call.dst>>

\* The change a call is to make as a whole.
Plan(c) ==
    CASE g[c].call.op = "create" -> [add |-> {Node(c)}, del |-> {}]
      [] g[c].call.op = "write" -> [add |-> {Node(c), Data(c)}, del |-> {}]
      [] g[c].call.op = "delete" -> [add |-> {}, del |-> {Node(c), Data(c)}]
      [] g[c].call.op = "move" -> [add |-> {Dst(c)} \cup {<<"data", g[c].call.dst>> : x \in {Data(c)} \cap View(c)},
                                   del |-> {Node(c), Data(c)}]
      [] OTHER -> None

\* The rows or index entries of others that a statement waits for.
RowWaits(c) ==
    CASE g[c].call.op = "read" -> {}
      [] g[c].call.op \in {"create", "write"} -> Rivals(c, {Node(c)})
      [] g[c].call.op = "delete" -> IF Node(c) \in View(c) THEN Rivals(c, {Node(c)}) ELSE {}
      [] g[c].call.op = "move" -> Rivals(c, {Dst(c)})

TopologyWaits(c) == Holders(c, {<<"topology">>})

Topology(c) == /\ pc[c] = "topology" /\ TopologyWaits(c) = {}
               /\ Execute(c, None, {<<"topology">>})
               /\ Await(c, "check", None, "none")
               /\ Quiet

\* move_node up to its UPDATE; the source is locked now.
CheckWaits(c) == Holders(c, {<<"ddl">>}) \cup (IF Node(c) \in View(c) THEN Rivals(c, {Node(c)}) ELSE {})

Check(c) ==
    /\ pc[c] = "check" /\ CheckWaits(c) = {}
    /\ CASE <<"tables">> \notin View(c) -> Raise(c, TRUE, "error")
         [] {<<"tables">>, <<"root">>, Node(c)} \subseteq View(c) /\ Dst(c) \notin View(c) ->
                Execute(c, None, {<<"use">>, Node(c)}) /\ Await(c, "statement", None, "none")
         [] OTHER -> Execute(c, None, {<<"use">>}) /\ Await(c, "end", None, "false")
    /\ Quiet

\* Mutant: the UPDATE without its savepoint.
MoveUnprotected(c) ==
    IF Dst(c) \in View(c)
    THEN txn' = [txn EXCEPT ![c].st = "failed"] /\ UNCHANGED db /\ Await(c, "end", None, "false")
    ELSE Execute(c, Plan(c), {<<"use">>}) /\ Await(c, "end", Plan(c), "true")

\* The UPDATE of move_node meets an entry created since the check: the
\* savepoint around it takes the failure.
MoveUpdate(c) == IF Dst(c) \in View(c) THEN Execute(c, None, {}) /\ Await(c, "end", None, "false")
                 ELSE Execute(c, Plan(c), {<<"use">>}) /\ Await(c, "end", Plan(c), "true")

\* The first statement that changes anything: INSERT ... ON CONFLICT DO NOTHING,
\* DELETE of the locked row, or the UPDATE of a move.
StatementWaits(c) == Holders(c, {<<"ddl">>}) \cup RowWaits(c)

Answer(c, ch, label, ok) ==
    Execute(c, ch, {<<"use">>}) /\ Await(c, label, IF ok THEN Plan(c) ELSE None, IF ok THEN "true" ELSE "false")

Statement(c) ==
    LET op == g[c].call.op
        found == {<<"root">>, Node(c)} \subseteq View(c) IN
    /\ pc[c] = "statement" /\ StatementWaits(c) = {}
    /\ CASE <<"tables">> \notin View(c) -> Raise(c, TRUE, "error")
         [] <<"tables">> \in View(c) /\ op = "move" -> MoveUpdate(c)
         [] <<"tables">> \in View(c) /\ op = "read" -> Answer(c, None, "end", found)
         [] <<"tables">> \in View(c) /\ op = "delete" -> Answer(c, IF found THEN Plan(c) ELSE None, "end", found)
         [] OTHER ->
                IF <<"root">> \notin View(c) \/ (found /\ op = "create") THEN Answer(c, None, "end", FALSE)
                ELSE Answer(c, [add |-> {Node(c)}, del |-> {}],
                            IF op = "write" THEN "content" ELSE "end", TRUE)
    /\ Quiet

\* The second statement of write_file_atomic.
Content(c) == /\ pc[c] = "content"
              /\ Execute(c, Plan(c), {<<"use">>})
              /\ Await(c, "end", Plan(c), "true")
              /\ Quiet

-----------------------------------------------------------------------------
(* The callers of joined providers, and failures *)

Idle(c) == pc[c] = "idle" /\ Mode[c] # "pool"
Same == UNCHANGED <<base, block, pc, g, ready, faults>>

CallerBegins(c) == /\ Idle(c) /\ Autocommit(c) /\ left > 0 /\ left' = left - 1
                   /\ txn' = [txn EXCEPT ![c].st = "open"]
                   /\ UNCHANGED <<db, told, undone>> /\ Same

Business(c) ==
    LET ch == [add |-> {<<"business", c>>}, del |-> {}] IN
    /\ Idle(c) /\ txn[c].st # "failed" /\ left > 0 /\ left' = left - 1
    /\ <<"business", c>> \notin View(c)
    /\ Execute(c, ch, {})
    /\ told' = IF Autocommit(c) THEN told ELSE [told EXCEPT ![c] = Then(@, ch)]
    /\ UNCHANGED undone /\ Same

\* COMMIT of a failed transaction is a rollback.
CallerEnds(c, commits) ==
    LET kept == commits /\ txn[c].st = "open" IN
    /\ Idle(c) /\ txn[c].st # "idle"
    /\ db' = IF kept THEN View(c) ELSE db
    /\ txn' = [txn EXCEPT ![c] = NoTxn]
    /\ told' = [told EXCEPT ![c] = None]
    /\ undone' = [undone EXCEPT ![c] = IF @ # "pending" THEN @ ELSE IF kept THEN "no" ELSE "yes"]
    /\ UNCHANGED left /\ Same

Fail(c) == /\ pc[c] # "idle" /\ faults > 0 /\ faults' = faults - 1
           /\ Raise(c, TRUE, "error")
           /\ UNCHANGED <<base, block, ready, told, undone, left>>

WaitsFor(c) == CASE pc[c] = "lock" -> LockWaits(c)
                 [] pc[c] = "schema" -> SchemaWaits(c)
                 [] pc[c] = "topology" -> TopologyWaits(c)
                 [] pc[c] = "check" -> CheckWaits(c)
                 [] pc[c] = "statement" -> StatementWaits(c)
                 [] OTHER -> {}

WaitCycle(C) == C # {} /\ \A c \in C : WaitsFor(c) \cap C # {}

\* PostgreSQL aborts one statement of a cycle.
DeadlockVictim(c) == /\ \E C \in SUBSET Conn : c \in C /\ WaitCycle(C)
                     /\ Raise(c, TRUE, "error")
                     /\ Quiet

-----------------------------------------------------------------------------

Step(c) == \/ Lock(c) \/ Schema(c) \/ Topology(c) \/ Check(c) \/ Statement(c) \/ Content(c)
           \/ End(c) \/ Fail(c) \/ DeadlockVictim(c)

Caller(c) == CallerBegins(c) \/ Business(c) \/ \E commits \in BOOLEAN : CallerEnds(c, commits)

\* Every call has returned and none may begin.
Finished == left = 0 /\ (\A c \in Conn : pc[c] = "idle") /\ UNCHANGED vars

Next == \/ \E c \in Conn : Step(c) \/ Close(c) \/ Caller(c) \/ \E call \in Calls : Begin(c, call)
        \/ Finished

Spec == Init /\ [][Next]_vars

-----------------------------------------------------------------------------
(* Properties *)

Rows(facts) == {x \in facts : x[1] \in {"node", "data", "business"}}

\* Files and business rows are committed together: the database changes only by
\* the whole of one call that ran in a transaction of its own, or by the whole
\* of what the calls and statements of a caller's transaction reported to have
\* done; a call that raised or returned False has no part in it.
Together ==
    [][Rows(db') # Rows(db) =>
          \E c \in Conn :
              \/ /\ pc[c] = "end" /\ block[c] = "own" /\ g[c].out = "true"
                 /\ Rows(db') = Rows(Apply(db, g[c].plan))
              \/ /\ txn[c].st = "open" /\ txn'[c].st = "idle" /\ Mode[c] # "pool"
                 /\ Rows(db') = Rows(Apply(db, told[c]))
              \/ Mode[c] = "auto" /\ Rows(db') = Rows(db) \cup {<<"business", c>>}]_vars

\* A call that returns leaves the caller's transaction usable, even when it
\* lost a race and returns False (the savepoint of move_node); one that raises
\* leaves an autocommit caller's transaction usable as well.
FalseKeepsTxUsable ==
    [][\A c \in Conn : pc[c] # "idle" /\ pc'[c] = "idle" /\ txn'[c].st = "failed" =>
          g'[c].out = "error" /\ block[c] = "none"]_vars

\* An initialized provider has its schema and its root, whatever failed before;
\* but a caller who rolls back takes away what initialize did in his
\* transaction, and the provider does not notice.
ReadySeesRoot ==
    \A c \in Conn : ready[c] /\ undone[c] # "yes" =>
        {<<"tables">>, <<"index">>, <<"root">>} \subseteq View(c) \/ txn[c].st = "failed"

\* Concurrent initialize calls never collide on the tables they create, and
\* wait for one another in a cycle only if one of them joined a transaction
\* that had used the tables before.
InitNeverCollides ==
    /\ \A c \in Conn : g[c].out # "collision"
    /\ \A C \in SUBSET Conn : WaitCycle(C) /\ (\A c \in C : g[c].call.op = "initialize") =>
           \E c \in C : g[c].used
=============================================================================

------------------------------ MODULE VfsFiles ------------------------------
(***************************************************************************)
(* File contents and staged uploads under concurrent provider calls:       *)
(* write_file, write_file_atomic, read_file, set_metadata, start_upload,   *)
(* upload_part, finish_upload, abort_upload and cleanup of the provider    *)
(* (src/chuk_vfs_postgres/provider.py), for one or more filesystems in the *)
(* same tables.                                                            *)
(*                                                                         *)
(* One action is one SQL statement from the moment its locks are granted,  *)
(* with the statements that follow it on rows the transaction has already  *)
(* locked.  A content is a sequence of tokens, one per non-empty call, and *)
(* stands for its own digest; the chunk rows of a node or upload are its   *)
(* `data` (their arithmetic is in ChunkLayout).  Renames, deletions and    *)
(* directory creations, whose statements VfsTree has one by one, are       *)
(* single steps here.                                                      *)
(***************************************************************************)
EXTENDS PgRows

CONSTANTS Upload,     \* upload ids
          MetaKey,    \* keys of the jsonb metadata
          RootOf,     \* the root row of each session's filesystem_id
          Files0,     \* the vfs_nodes rows committed before the calls begin
          Uploads0,   \* the uploads staged before the calls begin
          Calls,      \* the calls a session may make
          Ttl,        \* UPLOAD_TTL_SECONDS, in clock ticks
          Clock0,     \* the time when the calls begin
          MaxClock,   \* bound: the clock stops here
          MaxCalls,   \* bound: calls begun in a behaviour
          MaxOthers,  \* bound: calls of the other operations, taken as single steps,
                      \* and ticks of the clock
          MaxFaults   \* bound: exceptions and cancellations

Ops == {"write_file", "write_file_atomic", "read_file", "set_metadata", "start_upload",
        "upload_part", "finish_upload", "abort_upload", "cleanup"}

\* size and sha256 as finish_upload finds them: not given, equal to what is
\* staged, different, or (size only) not a size at all.
Call == [op : Ops, path : Seq(Name), up : Upload \cup {None}, key : MetaKey \cup {None},
         empty : BOOLEAN,
         excl : BOOLEAN, app : BOOLEAN,
         size : {"none", "match", "differ", "bad"}, sha : {"none", "match", "differ"}]

Content == Seq(Nat)

Row == [st : {"free", "live", "dead"}, parent : Node \cup {None},
        name : Name \cup {None}, dir : BOOLEAN,
        size : Nat, sha : Content \cup {None}, data : Content, meta : [MetaKey -> Nat]]

UploadRow == [st : {"free", "live", "dead"}, root : Node \cup {None}, path : Seq(Name),
              excl : BOOLEAN, app : BOOLEAN, data : Content, size : Nat,
              created_at : Nat]

NoUpload == [st |-> "free", root |-> None, path |-> << >>, excl |-> FALSE, app |-> FALSE,
             data |-> << >>, size |-> 0, created_at |-> 0]

FileRow(p, nm) == [st |-> "live", parent |-> p, name |-> nm, dir |-> FALSE,
                   size |-> 0, sha |-> None, data |-> << >>, meta |-> [k \in MetaKey |-> 0]]

DirRow(p, nm) == [FileRow(p, nm) EXCEPT !.dir = TRUE]

\* size and sha256 of a row are those of its chunks; a file never written has no sha256.
Consistent(v) == /\ v.size = Len(v.data)
                 /\ v.sha \in {None, v.data}
                 /\ v.sha = None => v.data = << >>

\* A call has the arguments of its operation.
WellFormed(c) ==
    /\ c.op \in {"upload_part", "finish_upload", "abort_upload"} => c.up # None
    /\ c.op = "set_metadata" => c.key # None /\ ~c.empty

ASSUME FilesAssumption ==
    /\ RootOf \in [Sess -> Node] /\ Files0 \in [Node -> Row]
    /\ Uploads0 \in [Upload -> UploadRow]
    /\ \A s \in Sess : Files0[RootOf[s]] = DirRow(None, None)
    /\ \A n \in Node : /\ Files0[n].st = "live" => Consistent(Files0[n])
                       /\ Files0[n].parent # None => Files0[Files0[n].parent].st # "free"
    /\ \A u \in Upload : /\ Uploads0[u].size = Len(Uploads0[u].data)
                         /\ Uploads0[u].st # "free" => Uploads0[u].path # << >>
    /\ None \notin Content /\ None \notin Upload
    /\ Calls \subseteq Call /\ \A c \in Calls : WellFormed(c)
    /\ Ttl \in Nat /\ Clock0 \in Nat /\ MaxClock \in Nat /\ MaxCalls \in Nat
    /\ MaxOthers \in Nat /\ MaxFaults \in Nat

\* What AbstractFiles says of a file, an upload and a call is never its None.
ASSUME NoneAssumption ==
    /\ None \notin [parent : Node \cup {None}, name : Name \cup {None}, dir : BOOLEAN,
                    data : Content, meta : [MetaKey -> Nat]]
    /\ None \notin [root : Node \cup {None}, name : Name, excl : BOOLEAN, app : BOOLEAN,
                    data : Content]
    /\ None \notin [c : Call, content : Content]

\* The rows that hold contents.
Places == ({"file"} \X Node) \cup ({"upload"} \X Upload)

\* No token stands for two pieces of content before the calls begin, and those
\* of the calls, 1 .. MaxCalls, are new.
ASSUME TokenAssumption ==
    LET row0(p) == IF p[1] = "file" THEN Files0[p[2]] ELSE Uploads0[p[2]]
        Live0 == {p \in Places : row0(p).st = "live"} IN
    \A a, b \in Live0 : \A i \in DOMAIN row0(a).data, j \in DOMAIN row0(b).data :
        /\ row0(a).data[i] \notin 1 .. MaxCalls
        /\ row0(a).data[i] = row0(b).data[j] => a = b /\ i = j

VARIABLES udb, unew, uowner,   \* vfs_uploads: committed, latest, locked by
          clock,               \* now()
          pc,                  \* the statement each session executes next
          f,                   \* the local variables of each session's call
          left,                \* calls that may still begin
          others,              \* single-step calls that may still happen
          faults               \* faults that may still happen

vars == <<db, new, owner, shares, udb, unew, uowner, clock, pc, f, left, others, faults>>

uploadVars == <<udb, unew, uowner>>

\* Nothing references an upload row from another transaction.
U == INSTANCE PgRows WITH Node <- Upload, db <- udb, new <- unew, owner <- uowner,
                          shares <- [u \in Upload |-> {}]

Labels == {"idle", "walk", "write", "insert", "fk", "again", "read", "meta", "su_insert",
           "up_lock", "fin_upload", "fin_node", "publish", "ab_delete",
           "cl_scan", "cl_delete", "commit"}

\* goal: whether _resolve walks to the node or to its parent; row, size: the
\* target row and the size read with it; made: the INSERT created it; now: the
\* transaction's now(); todo: expired rows cleanup has still to delete; got:
\* what read_file returned.
Frame == [call : Call, content : Content, goal : {"node", "parent"}, cur : Node,
          rest : Seq(Name), row : Node \cup {None}, size : Nat, made : BOOLEAN,
          now : Nat, todo : SUBSET Upload, got : Content,
          out : {"none", "true", "false", "error"}]

NoCall == [op |-> "read_file", path |-> << >>, up |-> None, key |-> None, empty |-> TRUE,
           excl |-> FALSE, app |-> FALSE, size |-> "none", sha |-> "none"]

Fresh(s, c, content, out) ==
    [call |-> c, content |-> content, goal |-> "node", cur |-> RootOf[s], rest |-> << >>,
     row |-> None, size |-> 0, made |-> FALSE, now |-> clock, todo |-> {}, got |-> << >>,
     out |-> out]

TypeOK == /\ db \in [Node -> Row] /\ new \in [Node -> Row]
          /\ owner \in [Node -> Sess \cup {None}] /\ shares \in [Node -> SUBSET Sess]
          /\ udb \in [Upload -> UploadRow] /\ unew \in [Upload -> UploadRow]
          /\ uowner \in [Upload -> Sess \cup {None}]
          /\ pc \in [Sess -> Labels] /\ f \in [Sess -> Frame]
          /\ clock \in Nat /\ left \in Nat /\ others \in Nat /\ faults \in Nat

Init == /\ db = Files0 /\ new = Files0
        /\ owner = [n \in Node |-> None] /\ shares = [n \in Node |-> {}]
        /\ udb = Uploads0 /\ unew = Uploads0
        /\ uowner = [u \in Upload |-> None]
        /\ clock = Clock0 /\ left = MaxCalls /\ others = MaxOthers /\ faults = MaxFaults
        /\ pc = [s \in Sess |-> "idle"]
        /\ f = [s \in Sess |-> Fresh(s, NoCall, << >>, "none")]

-----------------------------------------------------------------------------
(* Steps shared by the handlers *)

Parent(path) == SubSeq(path, 1, Len(path) - 1)
Base(path) == path[Len(path)]

At(s, label) == pc[s] = label
Goto(s, label) == pc' = [pc EXCEPT ![s] = label]
Stay == UNCHANGED <<clock, left, others, faults>>

Return(s, ok) == /\ Goto(s, "commit")
                 /\ f' = [f EXCEPT ![s].out = IF ok THEN "true" ELSE "false"]

\* The upload a call names, as _lock_upload and _delete_upload select it: only
\* when its root belongs to the provider's filesystem.
Own(s, u) == U!Live(s, u) /\ U!Seen(s, u).root = RootOf[s]

\* Their filter keeps the rows of other filesystems, and rows that are gone, out
\* of the lock: only an own row is waited for.
UploadWaits(s, u) == IF Own(s, u) THEN U!LockWaits(s, u) ELSE {}

Staged(s) == unew[f[s].call.up]

Finishing(s) == f[s].call.op = "finish_upload"

\* target_path and the exclusive flag are the call's, or the upload's.
Path(s) == IF Finishing(s) THEN Staged(s).path ELSE f[s].call.path
Exclusive(s) == IF Finishing(s) THEN Staged(s).excl ELSE f[s].call.excl

\* discard(): the upload row is this transaction's already.
Discard(s) == /\ unew' = [unew EXCEPT ![f[s].call.up].st = "dead"]
              /\ UNCHANGED <<udb, uowner>>

\* return False, in finish_upload after discarding the upload.
Refuse(s) == /\ Return(s, FALSE)
             /\ IF Finishing(s) THEN Discard(s) ELSE UNCHANGED uploadVars

Rollback(s) == RollbackRows(s) /\ U!RollbackRows(s)

\* The transaction block is left with an Exception: it rolls back, and the
\* upload calls then try to abort the upload in a transaction of its own.
Raise(s) == /\ Rollback(s)
            /\ IF f[s].call.op \in {"upload_part", "finish_upload"} /\ f[s].out # "error"
               THEN Goto(s, "ab_delete") /\ f' = [f EXCEPT ![s].out = "error"]
               ELSE Goto(s, "idle") /\ f' = [f EXCEPT ![s] = Fresh(s, NoCall, << >>, "error")]

\* Mutant: the connection goes back to the pool with its locks.
CommitKeepsLocks(s) ==
    /\ At(s, "commit")
    /\ db' = [n \in Node |-> Seen(s, n)] /\ udb' = [u \in Upload |-> U!Seen(s, u)]
    /\ Goto(s, "idle")
    /\ f' = [f EXCEPT ![s] = Fresh(s, NoCall, << >>, f[s].out)]
    /\ Stay /\ UNCHANGED <<new, owner, shares, unew, uowner>>

Commit(s) == /\ At(s, "commit")
             /\ CommitRows(s)
             /\ U!CommitRows(s)
             /\ Goto(s, "idle")
             /\ f' = [f EXCEPT ![s] = Fresh(s, NoCall, << >>, f[s].out)]
             /\ Stay

\* The statement that follows when _resolve has found row n.
Found(s, fr, n) ==
    LET next(label, fr2) == Goto(s, label) /\ f' = [f EXCEPT ![s] = fr2]
                            /\ UNCHANGED uploadVars
        refused == Seen(s, n).dir \/ (fr.call.op = "write_file_atomic" /\ fr.call.excl)
        fr1 == [fr EXCEPT !.cur = n, !.rest = << >>] IN
    CASE fr.goal = "parent" -> IF Seen(s, n).dir THEN next("insert", fr1) ELSE Refuse(s)
      [] fr.goal = "node" /\ fr.call.op = "finish_upload" -> next("fin_node", fr1)
      [] fr.goal = "node" /\ fr.call.op = "read_file" -> next("read", fr1)
      [] fr.goal = "node" /\ fr.call.op = "set_metadata" -> next("meta", [fr1 EXCEPT !.row = n])
      [] OTHER -> IF refused THEN next("commit", [fr1 EXCEPT !.out = "false"])
                  ELSE next("write", [fr1 EXCEPT !.row = n])

\* _resolve(path): from the root row of the provider's filesystem.
StartWalk(s, fr, path) ==
    IF path = << >> THEN Found(s, fr, RootOf[s])
    ELSE /\ Goto(s, "walk")
         /\ f' = [f EXCEPT ![s] = [fr EXCEPT !.cur = RootOf[s], !.rest = path]]
         /\ UNCHANGED uploadVars

\* No row at the path: a create-or-replace call goes on with its parent.
ToParent(s, path) == StartWalk(s, [f[s] EXCEPT !.goal = "parent"], Parent(path))

\* Mutant: _resolve without its `if row is None`.
WalkUnchecked(s) ==
    /\ At(s, "walk")
    /\ LET c == Child(s, f[s].cur, Head(f[s].rest)) IN
       IF Len(f[s].rest) = 1 /\ c # None THEN Found(s, f[s], c)
       ELSE /\ f' = [f EXCEPT ![s].cur = c, ![s].rest = Tail(@)]
            /\ UNCHANGED <<uploadVars, pc>>
    /\ Stay /\ UNCHANGED rowVars

Walk(s) ==
    /\ At(s, "walk")
    /\ LET c == Child(s, f[s].cur, Head(f[s].rest)) IN
       CASE c # None /\ Len(f[s].rest) = 1 -> Found(s, f[s], c)
         [] c # None /\ Len(f[s].rest) > 1 ->
                /\ f' = [f EXCEPT ![s].cur = c, ![s].rest = Tail(@)]
                /\ UNCHANGED <<uploadVars, pc>>
         [] c = None /\ f[s].goal = "node"
                     /\ f[s].call.op \in {"write_file_atomic", "finish_upload"} ->
                ToParent(s, Path(s))
         [] OTHER -> Refuse(s)
    /\ Stay /\ UNCHANGED rowVars

\* A malformed size or sha256, an upload to "/", exclusive with append: the call
\* raises before its transaction; finish_upload then still aborts the upload.
Malformed(c) == \/ c.op = "start_upload" /\ (c.path = << >> \/ (c.excl /\ c.app))
                \/ c.op = "finish_upload" /\ c.size = "bad"

\* Bound: there is an id for every start_upload that is under way.
UploadLeft == Cardinality(U!FreeIds) > Cardinality({s \in Sess : At(s, "su_insert")})

Begin(s, c) ==
    /\ At(s, "idle") /\ left > 0
    /\ c.up # None => U!Seen(s, c.up).st # "free"
    /\ c.op = "start_upload" => UploadLeft
    /\ left' = left - 1
    /\ LET fr == Fresh(s, c, IF c.empty THEN << >> ELSE <<left>>, "none")
           start(label, out) == /\ Goto(s, label) /\ f' = [f EXCEPT ![s] = [fr EXCEPT !.out = out]]
                                /\ UNCHANGED uploadVars IN
       CASE c.op \in {"write_file", "write_file_atomic", "read_file", "set_metadata"} -> StartWalk(s, fr, c.path)
         [] c.op = "start_upload" -> IF Malformed(c) THEN /\ f' = [f EXCEPT ![s] = Fresh(s, NoCall, << >>, "error")]
                                                          /\ UNCHANGED <<pc, uploadVars>>
                                     ELSE start("su_insert", "none")
         [] c.op = "finish_upload" -> IF Malformed(c) THEN start("ab_delete", "error")
                                      ELSE start("fin_upload", "none")
         [] c.op = "upload_part" -> start("up_lock", "none")
         [] c.op = "abort_upload" -> start("ab_delete", "none")
         [] c.op = "cleanup" -> start("cl_scan", "none")
    /\ UNCHANGED <<rowVars, clock, others, faults>>

-----------------------------------------------------------------------------
(* Creating the target: write_file_atomic and finish_upload *)

\* INSERT ... ON CONFLICT DO NOTHING of an empty file below the parent.
Insert(s) ==
    /\ At(s, "insert")
    /\ LET p == f[s].cur
           nm == Base(Path(s)) IN
       /\ UniqueWaits(s, p, nm) = {}
       /\ CASE UniqueConflict(s, p, nm) /\ Exclusive(s) -> Refuse(s) /\ UNCHANGED rowVars
            [] UniqueConflict(s, p, nm) /\ ~Exclusive(s) ->
                   Goto(s, "again") /\ UNCHANGED <<rowVars, uploadVars, f>>
            [] OTHER -> /\ FreeIds # {}
                        /\ InsertRow(s, FreshId, FileRow(p, nm))
                        /\ f' = [f EXCEPT ![s].row = FreshId, ![s].made = TRUE]
                        /\ Goto(s, "fk")
                        /\ UNCHANGED <<db, shares, uploadVars>>
    /\ Stay

Publishing(s) == IF Finishing(s) THEN "publish" ELSE "write"

FkCheck(s) ==
    /\ At(s, "fk")
    /\ ShareWaits(s, f[s].cur) = {}
    /\ IF ~Live(s, f[s].cur) THEN Raise(s)
       ELSE /\ Share(s, f[s].cur)
            /\ Goto(s, Publishing(s))
            /\ UNCHANGED <<db, new, owner, uploadVars, f>>
    /\ Stay

\* _child_for_update: the row of the creation that won.
Again(s) ==
    /\ At(s, "again")
    /\ LET c == Child(s, f[s].cur, Base(Path(s))) IN
       IF c = None THEN Refuse(s) /\ UNCHANGED owner
       ELSE /\ LockWaits(s, c) = {}
            /\ Lock(s, c)
            /\ IF Seen(s, c).dir THEN Refuse(s)
               ELSE /\ f' = [f EXCEPT ![s].row = c, ![s].size = Seen(s, c).size]
                    /\ Goto(s, Publishing(s)) /\ UNCHANGED uploadVars
    /\ Stay /\ UNCHANGED <<db, new, shares>>

-----------------------------------------------------------------------------
(* write_file, write_file_atomic, read_file *)

Put(s, n, data) == /\ new' = [new EXCEPT ![n].size = Len(data), ![n].sha = data,
                                         ![n].data = data]
                   /\ Lock(s, n)

\* Mutant: the old chunks are not deleted and the new ones lie behind them.
WriteKeepsChunks(s) ==
    /\ At(s, "write")
    /\ LockWaits(s, f[s].row) = {}
    /\ IF Live(s, f[s].row)
       THEN /\ new' = [new EXCEPT ![f[s].row].size = Len(f[s].content),
                                  ![f[s].row].sha = f[s].content,
                                  ![f[s].row].data = @ \o f[s].content]
            /\ Lock(s, f[s].row)
            /\ Return(s, TRUE) /\ UNCHANGED <<db, shares, uploadVars>>
       ELSE Raise(s)
    /\ Stay

\* Mutant: vfs_chunks.node_id without REFERENCES.
WriteGoneTrue(s) ==
    /\ At(s, "write")
    /\ LockWaits(s, f[s].row) = {}
    /\ IF Live(s, f[s].row) THEN Put(s, f[s].row, f[s].content) /\ UNCHANGED <<db, shares>>
       ELSE UNCHANGED rowVars
    /\ Return(s, TRUE)
    /\ Stay /\ UNCHANGED uploadVars

\* UPDATE size and sha256, DELETE and INSERT the chunks.  The UPDATE of a row
\* that is gone by now touches nothing; the first chunk then has no node to
\* refer to, and an empty content has no chunk.
Write(s) ==
    /\ At(s, "write")
    /\ LockWaits(s, f[s].row) = {}
    /\ CASE Live(s, f[s].row) -> /\ Put(s, f[s].row, f[s].content)
                                 /\ Return(s, TRUE) /\ UNCHANGED <<db, shares, uploadVars>>
         [] ~Live(s, f[s].row) /\ f[s].content = << >> ->
                Return(s, TRUE) /\ UNCHANGED <<rowVars, uploadVars>>
         [] OTHER -> Raise(s)
    /\ Stay

\* Size and chunks in one statement; the transaction has nothing to commit.
Read(s) ==
    /\ At(s, "read")
    /\ LET v == Seen(s, f[s].cur)
           fr(out) == Fresh(s, NoCall, << >>, out) IN
       f' = [f EXCEPT ![s] = IF v.st # "live" \/ v.dir THEN fr("false")
                             ELSE [fr("true") EXCEPT !.got = SubSeq(v.data, 1, v.size)]]
    /\ Goto(s, "idle")
    /\ Stay /\ UNCHANGED <<rowVars, uploadVars>>

\* _lock_node, then UPDATE ... SET metadata = metadata || ... on the locked row.
SetMetadata(s) ==
    /\ At(s, "meta")
    /\ LockWaits(s, f[s].row) = {}
    /\ IF Live(s, f[s].row)
       THEN /\ new' = [new EXCEPT ![f[s].row].meta[f[s].call.key] = f[s].content[1]]
            /\ Lock(s, f[s].row) /\ Return(s, TRUE)
       ELSE Return(s, FALSE) /\ UNCHANGED <<new, owner>>
    /\ Stay /\ UNCHANGED <<db, shares, uploadVars>>

-----------------------------------------------------------------------------
(* Staged uploads *)

\* The INSERT, and the check of its foreign key on the root row.
StartUpload(s) ==
    /\ At(s, "su_insert")
    /\ U!FreeIds # {}
    /\ ShareWaits(s, RootOf[s]) = {}
    /\ Share(s, RootOf[s])
    /\ U!InsertRow(s, U!FreshId,
                   [NoUpload EXCEPT !.st = "live", !.root = RootOf[s], !.path = f[s].call.path,
                                    !.excl = f[s].call.excl, !.app = f[s].call.app,
                                    !.created_at = f[s].now])
    /\ Return(s, TRUE)
    /\ Stay /\ UNCHANGED <<db, new, owner, udb>>

\* _stage_upload_part: lock the upload, add the chunks, then the size.
UploadPart(s) ==
    /\ At(s, "up_lock")
    /\ LET u == f[s].call.up IN
       /\ UploadWaits(s, u) = {}
       /\ IF Own(s, u)
          THEN /\ U!Lock(s, u)
               /\ unew' = [unew EXCEPT ![u].data = @ \o f[s].content,
                                       ![u].size = @ + Len(f[s].content)]
               /\ Return(s, TRUE)
          ELSE Return(s, FALSE) /\ UNCHANGED <<unew, uowner>>
    /\ Stay /\ UNCHANGED <<rowVars, udb>>

\* _lock_upload and the check of the caller's size.
FinUpload(s) ==
    /\ At(s, "fin_upload")
    /\ LET u == f[s].call.up IN
       /\ UploadWaits(s, u) = {}
       /\ CASE ~Own(s, u) -> Return(s, FALSE) /\ UNCHANGED uploadVars
            [] Own(s, u) /\ f[s].call.size = "differ" ->
                   /\ unew' = [unew EXCEPT ![u].st = "dead"]
                   /\ U!Lock(s, u) /\ Return(s, FALSE) /\ UNCHANGED udb
            [] OTHER -> /\ U!Lock(s, u)
                        /\ Goto(s, "walk")
                        /\ f' = [f EXCEPT ![s].rest = unew[u].path]
                        /\ UNCHANGED <<udb, unew>>
    /\ Stay /\ UNCHANGED rowVars

\* Mutant: the row as _resolve read it, without the lock.
FinNodeUnlocked(s) ==
    /\ At(s, "fin_node")
    /\ IF Live(s, f[s].cur) /\ ~Seen(s, f[s].cur).dir /\ ~Exclusive(s)
       THEN /\ f' = [f EXCEPT ![s].row = f[s].cur, ![s].size = Seen(s, f[s].cur).size]
            /\ Goto(s, "publish") /\ UNCHANGED uploadVars
       ELSE Refuse(s)
    /\ Stay /\ UNCHANGED rowVars

\* _lock_node on what _resolve found: gone, not replaceable, or the target.
FinNode(s) ==
    /\ At(s, "fin_node")
    /\ LET n == f[s].cur IN
       /\ LockWaits(s, n) = {}
       /\ IF ~Live(s, n) THEN ToParent(s, Path(s)) /\ UNCHANGED owner
          ELSE /\ Lock(s, n)
               /\ IF Seen(s, n).dir \/ Exclusive(s) THEN Refuse(s)
                  ELSE /\ f' = [f EXCEPT ![s].row = n, ![s].size = Seen(s, n).size]
                       /\ Goto(s, "publish") /\ UNCHANGED uploadVars
    /\ Stay /\ UNCHANGED <<db, new, shares>>

\* _append_sha256, _append_staged_chunks: the first `size` bytes, then the staged.
Appended(s) == SubSeq(Seen(s, f[s].row).data, 1, f[s].size) \o Staged(s).data

\* Mutant: the upload stays behind its publication.
PublishKeepsUpload(s) ==
    /\ At(s, "publish")
    /\ LockWaits(s, f[s].row) = {}
    /\ Put(s, f[s].row, IF Staged(s).app /\ ~f[s].made THEN Appended(s) ELSE Staged(s).data)
    /\ Return(s, TRUE)
    /\ Stay /\ UNCHANGED <<db, shares, uploadVars>>

\* Mutant: the digest of an append is the digest of what was staged.
PublishStagedHash(s) ==
    /\ At(s, "publish")
    /\ LET data == IF Staged(s).app /\ ~f[s].made THEN Appended(s) ELSE Staged(s).data IN
       new' = [new EXCEPT ![f[s].row].size = Len(data), ![f[s].row].sha = Staged(s).data,
                          ![f[s].row].data = data]
    /\ Lock(s, f[s].row)
    /\ Discard(s) /\ Return(s, TRUE)
    /\ Stay /\ UNCHANGED <<db, shares>>

\* An append adds to the locked row; an overwrite or creation compares the
\* caller's digest first.  Then the upload is discarded.
Publish(s) ==
    /\ At(s, "publish")
    /\ LockWaits(s, f[s].row) = {}
    /\ LET append == Staged(s).app /\ ~f[s].made IN
       IF ~append /\ f[s].call.sha = "differ" THEN Refuse(s) /\ UNCHANGED rowVars
       ELSE /\ Put(s, f[s].row, IF append THEN Appended(s) ELSE Staged(s).data)
            /\ Return(s, TRUE) /\ Discard(s)
            /\ UNCHANGED <<db, shares>>
    /\ Stay

\* Mutant: any provider that knows the id may discard the upload.
AbortUploadAny(s) ==
    /\ At(s, "ab_delete")
    /\ LET u == f[s].call.up IN
       /\ U!LockWaits(s, u) = {}
       /\ IF U!Live(s, u) THEN unew' = [unew EXCEPT ![u].st = "dead"] /\ U!Lock(s, u)
          ELSE UNCHANGED <<unew, uowner>>
       /\ Return(s, U!Live(s, u))
    /\ Stay /\ UNCHANGED <<rowVars, udb>>

\* abort_upload, and the best-effort abort after an exception.
AbortUpload(s) ==
    /\ At(s, "ab_delete")
    /\ LET u == f[s].call.up IN
       /\ UploadWaits(s, u) = {}
       /\ IF Own(s, u) THEN unew' = [unew EXCEPT ![u].st = "dead"] /\ U!Lock(s, u)
          ELSE UNCHANGED <<unew, uowner>>
       /\ IF f[s].out = "error" THEN Goto(s, "commit") /\ UNCHANGED f
          ELSE Return(s, Own(s, u))
    /\ Stay /\ UNCHANGED <<rowVars, udb>>

\* Mutant: cleanup looks at every filesystem's uploads.
ExpiredAny(s, u) == U!Live(s, u) /\ U!Seen(s, u).created_at + Ttl < f[s].now

Expired(s, u) == U!Live(s, u) /\ U!Seen(s, u).root = RootOf[s]
                              /\ U!Seen(s, u).created_at + Ttl < f[s].now

\* cleanup: the rows its DELETE sees, then one by one as their locks come free.
CleanupScan(s) ==
    /\ At(s, "cl_scan")
    /\ f' = [f EXCEPT ![s].todo = {u \in Upload : Expired(s, u)}]
    /\ Goto(s, "cl_delete")
    /\ Stay /\ UNCHANGED <<rowVars, uploadVars>>

CleanupDelete(s) ==
    /\ At(s, "cl_delete")
    /\ IF f[s].todo = {} THEN Return(s, TRUE) /\ UNCHANGED uploadVars
       ELSE \E u \in f[s].todo :
                /\ U!LockWaits(s, u) = {}
                /\ f' = [f EXCEPT ![s].todo = @ \ {u}]
                /\ IF U!Live(s, u) THEN unew' = [unew EXCEPT ![u].st = "dead"] /\ U!Lock(s, u)
                   ELSE UNCHANGED <<unew, uowner>>
                /\ UNCHANGED <<udb, pc>>
    /\ Stay /\ UNCHANGED rowVars

-----------------------------------------------------------------------------
(* The other calls of the provider, each as the one transaction it is *)

\* delete_node of a file or an empty directory.
DeleteNode(n) ==
    /\ others > 0 /\ db[n].st = "live" /\ db[n].parent # None
    /\ LockWaits(None, n) = {}
    /\ \A m \in Node : ~(db[m].st = "live" /\ db[m].parent = n)
    /\ db' = [db EXCEPT ![n].st = "dead"]
    /\ new' = [new EXCEPT ![n].st = "dead"]
    /\ others' = others - 1
    /\ UNCHANGED <<owner, shares, uploadVars, clock, pc, f, left, faults>>

\* The parent links of n lead to r.
InTree(rows, n, r) ==
    \A S \in SUBSET Node :
        n \in S /\ (\A m \in S : rows[m].parent # None => rows[m].parent \in S) => r \in S

SameTree(rows, n, m) ==
    \A r \in Node : rows[r].parent = None => (InTree(rows, n, r) <=> InTree(rows, m, r))

\* move_node of a directory, never into itself, or of a file, within a filesystem.
\* No call of this module gives a file entries; VfsTree has the race of
\* create_directory that does.
MoveNode(n, p, nm) ==
    /\ others > 0 /\ db[n].st = "live" /\ db[n].parent # None
    /\ db[p].st = "live" /\ db[p].dir
    /\ LockWaits(None, n) = {} /\ LockWaits(None, p) = {}
    /\ UniqueWaits(None, p, nm) = {} /\ \A m \in Node : ~Holds(db[m], p, nm)
    /\ IF db[n].dir THEN ~InTree(db, p, n) ELSE \A m \in Node : db[m].parent # n
    /\ SameTree(db, n, p)
    /\ db' = [db EXCEPT ![n].parent = p, ![n].name = nm]
    /\ new' = [new EXCEPT ![n].parent = p, ![n].name = nm]
    /\ others' = others - 1
    /\ UNCHANGED <<owner, shares, uploadVars, clock, pc, f, left, faults>>

\* create_directory or create_node of a directory.
MakeDir(p, nm) ==
    /\ others > 0 /\ db[p].st = "live" /\ db[p].dir
    /\ ShareWaits(None, p) = {}
    /\ UniqueWaits(None, p, nm) = {} /\ \A m \in Node : ~Holds(db[m], p, nm)
    /\ FreeIds # {}
    /\ db' = [db EXCEPT ![FreshId] = DirRow(p, nm)]
    /\ new' = [new EXCEPT ![FreshId] = DirRow(p, nm)]
    /\ others' = others - 1
    /\ UNCHANGED <<owner, shares, uploadVars, clock, pc, f, left, faults>>

\* The limit of cleanup goes by.  Bounded like the steps of other clients.
Tick == /\ clock < MaxClock /\ others > 0
        /\ clock' = clock + 1
        /\ others' = others - 1
        /\ UNCHANGED <<rowVars, uploadVars, pc, f, left, faults>>

-----------------------------------------------------------------------------
(* Failures *)

Fault(s) == faults > 0 /\ ~At(s, "idle") /\ faults' = faults - 1 /\ UNCHANGED <<clock, left, others>>

\* A database error, at any statement of the call.
Fail(s) == Fault(s) /\ Raise(s)

\* A cancelled task: CancelledError is no Exception, nothing aborts the upload.
Cancel(s) == /\ Fault(s) /\ Rollback(s)
             /\ Goto(s, "idle")
             /\ f' = [f EXCEPT ![s] = Fresh(s, NoCall, << >>, "error")]

\* The sessions whose commit or rollback the next statement of s waits for.
WaitsFor(s) ==
    CASE pc[s] = "insert" -> UniqueWaits(s, f[s].cur, Base(Path(s)))
      [] pc[s] = "fk" -> ShareWaits(s, f[s].cur)
      [] pc[s] = "again" /\ Child(s, f[s].cur, Base(Path(s))) # None ->
             LockWaits(s, Child(s, f[s].cur, Base(Path(s))))
      [] pc[s] \in {"write", "publish", "meta"} -> LockWaits(s, f[s].row)
      [] pc[s] = "fin_node" -> LockWaits(s, f[s].cur)
      [] pc[s] = "su_insert" -> ShareWaits(s, RootOf[s])
      [] pc[s] \in {"up_lock", "fin_upload", "ab_delete"} -> UploadWaits(s, f[s].call.up)
      [] pc[s] = "cl_delete" -> UNION {U!LockWaits(s, u) : u \in f[s].todo}
      [] OTHER -> {}

WaitCycle(C) == C # {} /\ \A s \in C : WaitsFor(s) \cap C # {}

\* PostgreSQL's deadlock detector: one session of a cycle gets DeadlockDetected.
DeadlockVictim(s) == /\ \E C \in SUBSET Sess : s \in C /\ WaitCycle(C)
                     /\ Raise(s)
                     /\ Stay

-----------------------------------------------------------------------------

\* The next statement of the call session s has begun.
Step(s) == \/ Walk(s) \/ Commit(s) \/ Insert(s) \/ FkCheck(s) \/ Again(s)
           \/ Write(s) \/ Read(s) \/ SetMetadata(s)
           \/ StartUpload(s) \/ UploadPart(s)
           \/ FinUpload(s) \/ FinNode(s) \/ Publish(s)
           \/ AbortUpload(s) \/ CleanupScan(s) \/ CleanupDelete(s)

Environment == \/ Tick
               \/ \E n \in Node : DeleteNode(n)
               \/ \E n, p \in Node, nm \in Name : MoveNode(n, p, nm)
               \/ \E p \in Node, nm \in Name : MakeDir(p, nm)

\* Every call has returned and none may begin.
Finished == left = 0 /\ (\A s \in Sess : At(s, "idle")) /\ UNCHANGED vars

Next == \/ \E s \in Sess : \/ \E c \in Calls : Begin(s, c)
                           \/ Step(s)
                           \/ Fail(s) \/ Cancel(s)
                           \/ DeadlockVictim(s)
        \/ Environment
        \/ Finished

Spec == Init /\ [][Next]_vars

\* A statement whose locks are granted runs, and the detector finds cycles.
Fairness == \A s \in Sess : WF_vars(Step(s) \/ DeadlockVictim(s))

FairSpec == Spec /\ Fairness

-----------------------------------------------------------------------------
(* Properties *)

\* Whatever overlaps, a committed file's size and sha256 are those of its
\* committed chunks: write_file, write_file_atomic and both ways of
\* finish_upload replace the three together.
PublishedConsistent == /\ \A n \in Node : db[n].st = "live" => Consistent(db[n])
                       /\ \A u \in Upload : udb[u].size = Len(udb[u].data)

\* The bytes of one call are in one place only: a part is staged or published,
\* never both, and no retry or race publishes it twice.
RowAt(place) == IF place[1] = "file" THEN db[place[2]] ELSE udb[place[2]]

Stored == {p \in Places : RowAt(p).st = "live"}

PublishedOnce ==
    \A a, b \in Stored : \A i \in DOMAIN RowAt(a).data, j \in DOMAIN RowAt(b).data :
        RowAt(a).data[i] = RowAt(b).data[j] => a = b /\ i = j

\* A provider of one filesystem leaves the files and uploads of every other
\* alone, even when it is handed their upload ids.
Isolated ==
    [][\A s \in Sess : At(s, "commit") /\ pc'[s] = "idle" =>
          /\ \A n \in Node : db'[n] # db[n] => InTree(db', n, RootOf[s])
          /\ \A u \in Upload : udb'[u] # udb[u] => udb'[u].root = RootOf[s]]_vars

\* No call waits for ever, and a deadlock is broken.
CallsReturn == \A s \in Sess : ~At(s, "idle") ~> At(s, "idle")

\* A finish_upload that returns False leaves no trace in the tree.
FailedFinishHasNoEffect ==
    [][\A s \in Sess : /\ At(s, "commit") /\ pc'[s] = "idle"
                       /\ Finishing(s) /\ f[s].out = "false"
                      => db' = db]_vars

\* What AbstractFiles sees of the committed rows and of the calls.
FilesNow == [n \in Node |-> IF db[n].st = "live"
                            THEN [parent |-> db[n].parent, name |-> db[n].name,
                                  dir |-> db[n].dir, data |-> db[n].data, meta |-> db[n].meta]
                            ELSE None]

StagedNow == [u \in Upload |-> IF udb[u].st = "live"
                               THEN [root |-> udb[u].root, name |-> Base(udb[u].path),
                                     excl |-> udb[u].excl, app |-> udb[u].app,
                                     data |-> udb[u].data]
                               ELSE None]

CallNow == [s \in Sess |-> IF At(s, "idle") THEN None
                           ELSE [c |-> f[s].call, content |-> f[s].content]]

RetNow == [s \in Sess |-> IF At(s, "idle") THEN <<f[s].out, f[s].got>> ELSE <<"none", << >> >>]

\* The committed files and the results are those of atomic operations.
AbsFiles == INSTANCE AbstractFiles WITH
    files <- FilesNow, staged <- StagedNow, spent <- {u \in Upload : udb[u].st = "dead"},
    call <- CallNow, ret <- RetNow

AtomicFiles == AbsFiles!Spec
=============================================================================

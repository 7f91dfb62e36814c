# A TLA+ development of chuk-vfs-postgres

The repository stores virtual filesystems in PostgreSQL
(`src/chuk_vfs_postgres/provider.py`, below *provider.py*) and opens them through
fsspec (`src/chuk_fsspec/fs.py`, below *fs.py*). Several providers, in several
processes, work on the same tables; what keeps the stored trees and files sound
is the interplay of transactions at READ COMMITTED, row locks, one advisory
lock, one unique index, foreign keys, and the order of the statements. That
interplay is what these modules state, check and prove.

Run a configuration with `tlc -config X.cfg M`, a module of proofs with
`tlapm M.tla` (`...Proofs` and `FilesRefinement`). `PROJECT.json` lists runs, mutants, findings,
hazards, and the source lines behind every definition.

## The system

| component | state | operations | what makes it hard |
|---|---|---|---|
| node tree | `vfs_nodes`: id, parent_id, name, is_dir, one root per `filesystem_id` | `create_node`, `delete_node`, `move_node`, `create_directory` | paths resolved by one SELECT per component without locks; checks that are stale when the row is locked or the name inserted; moves that each are legal and together make a cycle; deadlocks |
| file contents | `size`, `sha256`, `chunk_size`, `vfs_chunks` | `write_file`, `write_file_atomic`, `read_file`, `read_range` | create-or-replace races; target deleted or renamed between resolution and UPDATE; readers during an overwrite |
| staged uploads | `vfs_uploads`, `vfs_upload_chunks` | `start_upload`, `upload_part`, `finish_upload`, `abort_upload`, `cleanup` | parts, finish, abort and expiry of one upload overlapping; retries of a finish whose reply was lost; an exception followed by a second transaction that aborts; cancellation; ids of another filesystem |
| chunk layout | rows numbered from 0, each in the chunk size of its node or upload | cutting, staging, appending, range reads, SHA-256 | partial last chunks; providers of different chunk sizes; ends of ranges |
| provider life cycle | `_initialized`, `_pool`, `_init_lock_obj` | `initialize`, `close`, `_acquire` | concurrent initialize and close, errors and cancellation in the middle |
| joined providers | an injected connection and the transaction on it | every operation, `_tx` | calls that are part of a caller's transaction, on connections with autocommit off and on; his rollback |
| write handles | `ChukBufferedFile` and `transaction.files` | `open`, `write`, `close`, `__exit__`, `commit`, `discard` | failing with-blocks, failing parts, commits and aborts, deferred commits and their order, other writers between the calls of an append |
| fsspec operations | none of their own | `_mkdir`, `_pipe_file`, `_cp_file`, `_mv`, `mv`, `_rm`, `_get_file`, `_ls` | several provider calls without a common transaction: whatever one of them found may be gone at the next |
| node metadata | `metadata` | `set_metadata` | stale rows, lost keys |
| listing, statistics | none | `list_directory`, `exists`, `get_storage_stats` | two snapshots |
| schema | tables, indexes, the root row | `_ensure_schema` | instances that initialize at once, older databases, dirty ones |
| path normalization | none | `_normalize`, `_split`, `_normalize_path` | string work |

Calls of the provider interact only through the database; a provider call is one
transaction (`_tx`), `finish_upload` and `upload_part` excepted, which abort in a
second one after an exception. The fsspec layer calls the provider and keeps
handles. fsspec itself, psycopg, its pool and PostgreSQL are external; the models
state what the code relies on and mark those definitions external.

What should hold, by component: the committed tree is a tree, with distinct
siblings (it is one except for the first finding below), and every call on it is atomic; a published file is always one whole
content with its own size and digest, and every content call is atomic; an upload
is published at most once and only by its filesystem; layout and digest do not
depend on how the bytes arrived; an initialized provider has an open pool, a
schema and a root; what a caller's transaction commits is what its calls reported,
together with the caller's own rows; a
handle publishes everything or nothing, and when the transaction says so; an
fsspec operation succeeds and fails for a reason, and says which.

## The modules

| module | models | of |
|---|---|---|
| `PgRows` | row versions, FOR UPDATE / FOR KEY SHARE locks, unique-index waits, commit and rollback | PostgreSQL as provider.py uses it |
| `VfsTree` | the four tree mutations, statement by statement | provider.py 376-544, 725-794, 1387-1502 |
| `AbstractTree` | what those calls promise: one atomic change each | |
| `VfsTreeProofs` | proofs about `VfsTree`: types, distinct siblings, no orphans, no cycles of directories, and that it implements `AbstractTree` | |
| `VfsFiles` | contents, metadata and uploads, statement by statement, several filesystems | provider.py 513-545, 824-1265, 1359-1385, 1541-1571 |
| `AbstractFiles` | what those calls promise | |
| `FilesProofs` | proofs about `VfsFiles`: types, size and digest against chunks, bytes are in one place, filesystems leave one another alone | |
| `FilesRefinement` | proof that `VfsFiles` implements `AbstractFiles` | |
| `ChunkLayout` | cutting, staging, appending, reading, digests | provider.py 547-719, 992-1071, 1238-1340; fs.py 396-419 (`cat_file`), 442-483 |
| `ChunkProofs` | proofs about `ChunkLayout` | |
| `ProviderLifecycle` | `initialize`, `close`, operations in flight | provider.py 177-294 |
| `LifecycleProofs` | proofs about `ProviderLifecycle` | |
| `JoinedProvider` | transaction-joined mode, schema creation and migration | provider.py 52-156, 281-353, and the mutations as they run there |
| `JoinedProofs` | proofs about `JoinedProvider` | |
| `BufferedFile` | write handles in and out of fsspec transactions | fs.py 45-240, 531-575 |
| `HandleProofs` | proofs about `BufferedFile` | |
| `FsOperations` | the fsspec operations as sequences of atomic calls | fs.py 290-394, 421-529, 577-595, 639-657 |
| `FsProofs` | proofs about `FsOperations` | |
| `MC...` | instances for TLC | |

`VfsTree` and `VfsFiles` extend `PgRows`; `VfsFiles` takes a second instance of it
for `vfs_uploads`. Each has its abstract specification as an instance under a
refinement mapping (`AbsTree`, `AbsFiles`). `FsOperations` stands on what the two
abstract specifications promise: there a provider call is one step.

### PgRows, VfsTree and VfsFiles

A row has a committed version `db[n]` and a latest version `new[n]`; they differ
only while `owner[n]` has an open transaction. A statement of session `s` sees
`Seen(s, n)`: committed rows and its own. `owner` stands for FOR UPDATE, UPDATE,
DELETE and INSERT, `shares` for the KEY SHARE lock that a foreign-key check takes
on the row it refers to. An INSERT or UPDATE that would add an index entry waits
for every open transaction that adds or removes the same entry (`UniqueWaits`).

A session is one pooled connection. `pc[s]` is its next statement and `f[s]` the
local variables of the Python call (`cur` and `rest` are the loop of `_resolve`,
`src` the row being moved, `up` is `current` in `_is_within`, `k` counts the
components of `create_directory`, `row`, `size` and `made` are those of
`write_file_atomic` and `finish_upload`). One action is one SQL statement from the
moment its locks are granted, with the Python up to the next statement. A
statement on rows the transaction already holds is joined to the one before it,
because nobody can tell the difference: the chunk statements of a write, the
`DELETE` of the upload after a publication. `return False` leaves the transaction
block normally and so commits; only exceptions roll back (`_tx`, provider.py
296-309).

Three choices about PostgreSQL:

- A statement reads its snapshot in the step in which its locks are granted. A real
  statement takes the snapshot when it starts and, after a wait, reads the locked
  row again (EvalPlanQual). For lookups by id, as in `_lock_node`, the two are the
  same. `_child_for_update` selects by name; after a wait PostgreSQL checks the
  condition again on the new version of the same row and returns nothing when it
  does not match, while the model's lookup might find another row under the name.
  That outcome can be had in PostgreSQL by starting the statement later.
- Lock queues have no order: every waiting statement whose conflict is gone may go
  on.
- A cycle of waiting sessions is broken by raising in any one of them
  (`DeadlockVictim`).

In `VfsFiles` a content is a sequence of tokens, one for each call that carries
bytes, so that a lost, doubled or mixed content is seen as such; a digest is the
content it was made of. Metadata map a key to the token of the call that set it.
`Own` is the filter of `_lock_upload` and `_delete_upload` by id and root: a statement
waits (`UploadWaits`) for the row of an upload of its own filesystem only. `start_upload` takes
the KEY SHARE lock of its foreign key on the root row. Tree mutations are single
environment steps there, with the locks they respect; `MoveNode` moves a file, or
a directory with everything below it to a place that is not below itself, also while a
call has walked half of its path. `None` in the lock predicates is such a step: it waits
for everyone.

### The abstract specifications

`AbstractTree` and `AbstractFiles` have a call and a result for each session and
change the tree or the files in the step that returns. True comes with exactly the
change the operation is for, False and exceptions with none. What they do not
promise is as much part of them:

- The *place* is promised up to the name. A path is resolved component by component,
  so a created file is below *some* directory that the walk met, and what is
  deleted or replaced is *some* leaf or file. At READ COMMITTED nothing stronger
  holds, and no test or document asks for it.
- `create_directory` may add several directories, may add them below a file, and
  keeps what it has added when a later component makes it return False. What it has
  put below a file goes with the file when that is deleted, and moves of files are not
  kept from making a cycle through it; moves of directories are.
- `finish_upload` with a wrong digest may leave a new empty file.
- Emptying a file that was deleted since it was resolved returns True
  (`Overtaken`): equal to emptying it just before.

### ChunkLayout

One file and one upload, with real byte sequences and the code's arithmetic. Rows
are functions from `chunk_no`. `content` and `sent` are what the caller wrote; the
invariants compare the rows, digests and every range with them.

### ProviderLifecycle

Tasks of one event loop; what lies between two awaits is one action. `_init_lock`
is `lock`; a pool goes through new, open and closed. `_acquire` reads the pool
before it awaits a connection, so a pool may be closed under an operation, which
then fails.

### JoinedProvider

Each connection has a provider: pooled, injected with autocommit off (`joined`),
or injected with autocommit on (`auto`). `txn[c]` is the transaction on it with what
it adds and deletes and the locks it holds; `block[c]` says what `_tx` or
`_ensure_schema` put around the call: a transaction of its own, a savepoint (what
`conn.transaction()` is inside a block of the caller), or nothing. `base` is the
transaction at that savepoint and `Raise` what an exception does to it. The database is
a set of facts, so that a transaction is a pair of sets; trees are one level deep
here. `told` accumulates what the calls of a caller's transaction reported, which
is what `Together` compares a commit with.

The statements of `_ensure_schema_locked` are two steps, the advisory lock and
the rest: its first statement behind the lock is an `ALTER TABLE`, which waits for everybody
who has used `vfs_nodes` and keeps everybody off until the end. On an empty
database there is no table to lock, and only the advisory lock is left.

### BufferedFile

`WriteThrough` is a write that fills the buffer and goes through `flush` and
`_upload_chunk`; `Close` is the final flush; `LeaveFailed` is `__exit__` with an
exception. `at` is the provider call that a closed handle makes next, one step each, with other
clients in between: `commit()` is `FinishUpload`, or without an upload `AskExisting`, `ReadExisting`,
`AskFree` and `WriteParts`; an upload is given up by `AbortUpload`. A call succeeds,
returns False (which the adapter turns into an exception) or raises (`FinishFails`, `CommitFails`,
the second half of `AbortUpload`). `Breaks` is the except branch of
`_upload_chunk`: it clears `_upload_id`, closes the handle and goes on with an abort, which may
fail as well and is suppressed; `stuck` marks a handle whose upload could not be given
up. `transaction.files` is `files`, and the `Trans...` actions are fsspec's `Transaction`,
whose `complete` takes one handle after the other until it is done or one raises (`Ended`).
`streaming` is chosen once: a provider with staged uploads and `write_file_atomic`, or one
without either, for which the handle keeps its parts. A text handle is a
`TextIOWrapper`, whose own `__exit__` closes the handle like any other exit.

### FsOperations

`pc[c]` is the call of the virtual filesystem that client `c` awaits next, and one
action is that call with the Python behind it. `Ensure` and `Component` are the loop over
path components that `_mkdir` and `_ensure_parent_directories` share. `rename` is
the synchronous `mv`, which is not recursive: fsspec's copy, then its remove. `Resolve` is what
that copy asks first: it leaves a directory out, and puts a file into a
destination that is a directory; only then does `_cp_file` run. `mv` is `_mv`. A content is a
sequence of blocks, each the number of the call that wrote it. `touched[c]` records
what others did to which paths since the call began; properties use it to
excuse exactly what a race explains, and no action reads it but `Walk`, where fsspec
swallows the FileNotFoundError of an entry that vanished. `generic` is chosen
once: a provider without `write_file_atomic` and `read_range`.

## The runs

| run | instance | shows |
|---|---|---|
| `tree_calls` | 2 sessions, 3 calls out of 16 that meet in `/d`, move `/a` and `/b` into one another, or delete and move a file with a directory below it; one may die; 14 node ids | `TypeOK`, `UniqueSiblings`, `NoOrphans`, `NoDirCycles`, `FalseHasNoEffect`, `DirsDieEmpty`, refinement `AtomicTree`, liveness `CallsReturn` |
| `files_calls` | 2 sessions, 3 calls out of 8 on `/d/a`, one tree mutation by another client | `TypeOK`, `PublishedConsistent`, refinement `AtomicFiles` |
| `files_append` | 2 sessions, 3 calls out of 11 on `/a`, two metadata keys, expired uploads, one exception or cancellation, one tree mutation | `PublishedConsistent`, `PublishedOnce`, `AtomicFiles` |
| `files_tenants` | 3 sessions, two of one filesystem and one of another, 2 calls out of 11 on the same upload, file entry and root row, two cleanups among them; the uploads expire, or one tree mutation, moves of directories included, disturbs | `Isolated`, `AtomicFiles`, liveness `CallsReturn` |
| `chunks` | contents of up to 5 bytes of 2 values, chunk sizes 1 to 3, column default 4 | `LaidOutAsWritten`, `ReadsExact`, `HashesExact`, `NeverCorrupt` |
| `lifecycle` | 3 tasks, 4 calls, one error, one cancellation | `TypeOK`, `ReadyHasPool`, `NoPoolLost`, `LifecycleReturns` |
| `joined` | a pooled, a joined and an autocommit connection, 4 databases (empty, older, older with duplicates, current), 4 calls or caller's statements out of all operations, one error | `TypeOK`, `ReadySeesRoot`, `InitNeverCollides`, `Together`, `FalseKeepsTxUsable` |
| `fs_calls` | 3 clients, 3 calls out of 18 on 6 paths (renames of a file to itself, into a directory and into its own directory, a rename of a directory and an `rm` of the root among them) | `TypeOK`, `FailsForAReason`, `TrueMeansDone`, `ExportExact`, `MoveLosesOnlyRaced` |
| `handles` | 2 handles of any mode, text or binary, 2 blocks each, with and without staged uploads, two failing calls (a part or commit and the abort that follows), one foreign write | `TypeOK`, `NothingStaged`, `InOrderOfOpening`, `WholeOrNothing`, `DeferredUntilEnd` |
| `tree_file_cycle` | 2 sessions, 4 calls | violates `NoCycles` |
| `files_failed_finish` | 2 sessions, 2 calls | violates `FailedFinishHasNoEffect` |
| `handles_failed` | one transaction, no failing call | violates `FailedPublishesNothing` |

**Bounds.** `MaxCalls`, `MaxSteps`, `MaxFaults`, `MaxOthers`, `MaxErrors`, `MaxCancels`,
`MaxBlocks`, `MaxLen` and `MaxClock` bound a behaviour and stand in the guards.
Races of the tree and of files are between two calls with a third that prepares or
disturbs; three calls on two sessions have all of those. In `files_tenants` two calls
are enough: the uploads they meet at exist from the start, the third session makes the two
come from one filesystem or from two, and the disturbance is the tick of the clock after which uploads
are expired, or the tree mutation. A directory below a file takes
three calls to come about, so `tree_calls` begins in a tree that a race has left with one
(`RacedTree`), and the cycle of `tree_file_cycle` is a fourth call. The fsspec operations keep
no locks between their steps, so three of them may overlap at once there: two that
meet and a third that changes what they found. In `joined` four steps are a call or
statement of a caller, the initialization or call it meets, and two more for the rest of his
transaction; the initial states have providers that are initialized already. There are enough node and
upload ids for every call to insert what it can (deleted ids do not return, as UUIDs
do not), so no call is kept from running by a lack of ids. In `chunks` a length of 5
with chunk sizes up to 3 has empty, partial, exactly full and overfull
last chunks and appends across one and two boundaries; the default 4 stands for a
row that was created by `create_node` and written by no one. Sessions and handles
are symmetric where only safety is checked.

**Fairness.** `CallsReturn` (`tree_calls`, `files_tenants`) assumes weak fairness of every session's next statement
and of the deadlock detector (in `VfsFiles` of the two together, which is weaker); beginning a call, faults and the environment are
never assumed. The event loop resumes a task when its statement is done, and
PostgreSQL grants a lock to a waiter when its conflict is gone; the detector
runs after `deadlock_timeout`. Weak fairness is enough because the calls are
bounded: with an endless supply of calls an unordered lock could be taken away
again and again, and the models do not claim that it cannot.
`LifecycleReturns` assumes weak fairness of every task.

**Deadlock** is checked in every run except the two of `handles`, where a caller may
simply stop using its handles. The other modules end in `Finished`, which asks that
every call has returned, so a state in which all calls wait is reported.

**Mutants.** Each property of a passing run has a mutant in the module, a
plausible bug (FOR NO KEY UPDATE for FOR UPDATE, no topology lock, the digest of
an append over the staged bytes only, ...) under which the property fails in its
run. They are marked `Mutant:` and no specification uses them.

## What was found

With a run:

1. *A committed cycle* (`tree_file_cycle`, provider.py:1474 and 1430). `create_directory`
   resolves each component afresh and does not check that the row found is a directory.
   If the directory of the round before is deleted and a file takes its name, the next
   one is inserted below the file. `move_node` looks for the destination among the
   descendants of directories only, so it moves that file below its own child, and
   file and directory are a cycle that no path reaches. The docstring of `move_node`
   (provider.py:1391-1395) promises the contrary. `NoDirCycles` and the theorem
   `CyclesNeedFiles` say that nothing else goes wrong: directories alone never form a
   cycle, and without a child below a file nothing does.
2. *An empty file from a refused publication* (`files_failed_finish`,
   provider.py:1188). The digest is compared after the target row was inserted;
   False commits it. tasks.md:95 says that neither a partial file nor an empty node is left.
3. *A failed handle that truncates its target* (`handles_failed`, fs.py:141). Inside
   an fsspec transaction, a handle whose with-block raised is still committed;
   without an upload id `commit()` takes the branch for other providers and
   publishes no bytes.

Described here only:

4. *A deadlock between a move and a creation* (provider.py:1424). The creator has
   inserted the name and its foreign-key check waits for the directory the move has
   locked; the move's UPDATE waits for the inserted entry. PostgreSQL raises
   DeadlockDetected in one of them, and nothing retries (`DeadlockVictim` fires in
   `tree_calls`). tasks.md:211 says that concurrency tests run without deadlocks.
5. `create_directory` that returns False can have committed the components before
   (`mkdir /d/b/a` against `move /d /a`), although docs/architecture.rst:61-62 has
   every mutating method in one transaction and `_tx` is meant to be all or nothing.
   `AbstractTree` says so in `Refuse`.
6. *An initialize that deadlocks.* A provider whose caller has used `vfs_nodes` in the
   transaction that `initialize` joins waits for the advisory lock, whose holder's
   `ALTER TABLE` waits for that transaction. `_ensure_schema` says (provider.py:318-319) that
   concurrent initialization cannot deadlock; `InitNeverCollides` excepts this
   one case, and without the exception it is violated.
7. A caller's rollback undoes the schema that `initialize` created in his transaction,
   while `_initialized` stays True (provider.py:221): the next calls fail on missing
   tables. `ReadySeesRoot` excepts that provider until it initializes again.
8. The duplicate guard raises RuntimeError in a joined transaction without undoing the
   statements before it: a caller who catches it and commits has dropped the old
   index without getting the new one (`Migration` in `Schema`).
9. A task cancelled inside `initialize` leaves an open pool behind `_pool`, because
   `except Exception` does not see CancelledError; the next `initialize` replaces it.
   tasks.md:78 says never to replace a live pool without closing it. `NoPoolLost`
   is therefore stated up to the first cancellation.
10. `_mkdir` returns False when another task makes the same directory between its
   `exists` and its `mkdir` (fs.py:341-342), while `_ensure_parent_directories`
   takes the same answer for success (fs.py:523-525). `FailsForAReason` holds writes and copies
   to the second standard only.
11. The synchronous `mv` copies and then removes: an update of the source between the
   two is lost. A file moved into the directory it is in (`mv /d/f /d`) is copied onto
   itself and then removed: it is lost without any race. `MoveLosesOnlyRaced` says that no other file is.
   A `mv` of an empty directory without `recursive` copies nothing and removes it:
   the destination is not made.
12. An export that is overwritten by content of the same size between two blocks
   mixes the versions without an error; `_get_file` compares sizes only.
13. Providers without staged uploads: an append writes what it read before, and loses
   an update in between; "xb" asks for the path and then writes, and may replace what
   appeared between the two; a failed with-block publishes what was written.
   `WholeOrNothing` promises of such an append what it read, and `FailedPublishesNothing` is
   about staged uploads.
14. `cleanup` compares `created_at` of the upload. An upload to which parts are
   still being added is removed once it is older than the limit.
15. A text-mode handle closes itself through `TextIOWrapper` when its with-block
   raises, and so publishes what was written (`Text` in `BufferedFile`).
16. A failed commit in the middle of an fsspec transaction leaves the handles before it
   published and those behind it staged: `complete` stops at the exception. They are not
   over, so `NothingStaged` does not speak of them. It leaves out one upload besides, that of a handle
   whose own abort, or whose finish inside a transaction, failed (`stuck`). `cleanup` has to remove both.

## What is proved

Each theorem holds for all values of the constants that satisfy the assumptions of its
module; the runs above check the same properties on one instance. Every inductive
invariant was checked by TLC on the instance of its run before it was proved.
A module of proofs goes the same way throughout: lemmas about
helpers, one lemma for each way a statement touches the rows, one for each handler, and
the theorems at the end.

**`VfsTreeProofs`**, from `PgAssumption`, `TreeAssumption` (siblings of the initial tree are
distinct, its directories acyclic, every row has a parent) and `CallAssumption`:

- `TypeCorrect`: `TypeOK` always holds. The inductive invariant `LocalInv` adds to the
  types what each statement label says of the call (`LabelOK`, `PcOf`): that the walk
  has names left, that `_is_within` has a node, that `create_directory` has
  a component. Without it the handlers' local variables leave their types.
- `SiblingsUnique`: `UniqueSiblings` always holds. Uniqueness of the committed rows is
  not inductive, because a commit publishes many versions at once. `TreeInv` adds: rows
  without an owner have one version (`Settled`); the latest versions are
  unique, the committed ones are, and a version held by one transaction does not
  collide with a committed version that another holds or none does
  (`CrossUnique`), so whichever subset of the open transactions commits, the result
  is unique; and every row a handler still means to change is locked by it (`Held`).
  The lemmas `LockKeeps`, `KillKeeps`, `InsertKeeps`, `RekeyKeeps`, `CommitKeeps` and
  `RollbackKeeps` prove this for each way a statement touches rows.

Its second half is about the shape of the tree, from the same assumptions. The invariant `TreeSafe` adds
to `TreeInv`, for every call, what it has read, locked and changed so far that nobody else may
undo (`SessOf`: a deletion past its check has no committed or uncommitted child, an
inserted row has a KEY SHARE lock on its parent, a move between its
walk and its update has seen the ancestors of its destination), and that the rows form a tree
of directories both when the open transactions commit and when they do not (`ShapeInv`):

- `OrphanFree` and `DirCycleFree`: `NoOrphans` and `NoDirCycles` always hold. Acyclicity
  is stated with sets closed under "parent" (`Uprooted`), so no induction over
  paths is needed: a set that a move would uproot contains the moved
  directory and its new parent, and the walk of `_is_within` has left it.
- `CyclesNeedFiles`: `ParentsAreDirs` implies `NoCycles` in every reachable state.

Its last part is the refinement, from the same:

- `FalseChangesNothing` and `DeletedWhenEmpty`: the action properties `FalseHasNoEffect` and
  `DirsDieEmpty`. Only `Commit` changes `db` (`OnlyCommits`), so both follow from what `TreeSafe` says
  of a call in front of its commit.
- `CallsAreAtomic`: `Spec => AtomicTree`. Every step but a commit, a call's begin and its
  failure stutters in `AbstractTree`; a commit is `Succeed` or `Refuse`, by the operation and the result.

**`FilesProofs`**, from `PgAssumption`, `FilesAssumption`
(files and uploads that exist already are consistent, their `parent_id` refers to a row as the foreign key
demands, calls are well formed, `None` is no content and no upload id) and,
for the second result, `TokenAssumption` (the initial bytes are in one place each and are
no call's tokens):

- `FilesTypeCorrect` and `FilesConsistent`: `TypeOK` and `PublishedConsistent` always hold. `FilesInv` has
  the types and what each label says of the call (`PcLocal`), which upload and which node
  row it holds at each statement of `finish_upload`, `upload_part` and `abort_upload` and what it knows of their size
  (`PcHolds`), and the consistency of every version, committed or not.
- `BytesInOnePlace`: `PublishedOnce` always holds. It is not inductive: between the publication and its commit the
  same tokens stand in an uncommitted file and in a committed upload. `FilesOnce` follows where an
  uncommitted row's tokens come from: the transaction's own call, whose
  tokens no committed row has, or a committed row it has locked (`Sourced`).
- `TenantsIsolated`: the action property `Isolated`. A call finds a row by walking down from its root and
  later comes back to it by its id alone, when it may have been moved or deleted. `TenantInv`
  says that what a call has walked to or noted (`LocalOK`) and what it has locked (`OwnedOK`,
  `UpOwnedOK`) is below its own root, or was when it was deleted, and that no row refers to
  one that has never been there (`FkOK`), so that a new row moves nothing. "Below" is
  `InTree`: in every set of rows closed under "parent"; adding or deleting a row keeps it for all others
  (`TreeKept`), and so does moving a directory with what is below it to a place of the same tree that is
  not below itself (`SubtreeKept`), again without an induction over paths. A walk that is on its
  way when a directory moves therefore goes on below the same root.

**`FilesRefinement`**, from the same assumptions and `NoneAssumption` (what `AbstractFiles`
says of a file, an upload or a call is never its `None`):

- `FileCallsAreAtomic`: `Spec => AtomicFiles`. Until its COMMIT a call changes nothing that another one sees,
  so the step of the abstract call is the COMMIT, for `read_file` its SELECT, and every other step
  stutters. `RefInv` says for each statement how the rows and uploads the
  call has locked differ from the committed ones: not at all (`RowsClean`, `UpsClean`), or in one
  row that it made, wrote or tagged and in one upload that it started, extended or
  dropped (`SoFar`); in front of the COMMIT this is exactly what the result
  reports (`Result`: `Succeeded`, `Refused`, `Raised`). A step of another session leaves that
  alone because it leaves locked rows alone (`Spared`; `RowsBy` says the same from the
  other side). Two facts about rows complete it: a transaction that
  changes a file keeps its kind, parent and name (`Fixed`), and a row that is being inserted has its
  index entry for itself (`NoTwin`), which is what makes the created file new in the
  abstract tree also when its creation was tried twice. `Face` and `UpFace` are what
  the abstraction sees of a row and of an upload.
  `RefInv` was an invariant of the runs `files_calls`, `files_append` and `files_tenants` before it was proved.

**`ChunkProofs`**, from `ChunkAssumption`, for any chunk sizes, byte values and lengths:

- `RowsAsWritten`, `ReadsAreExact`, `HashesAreExact` and `ChunksNeverCorrupt`: every property of the
  run `chunks`. The invariant `LayInv` says that the file and the upload are what one write of
  `content` and of `sent` in their chunk sizes would have made. Everything is reduced to parts of a
  sequence between two bounds (`Part`): row `i` is the part between two multiples of the chunk
  size (`CutRows`); cutting again what follows the last full chunk, with more bytes behind it, gives the rows of
  the longer content (`ExtendRows`), which is what staging (`StagedWhole`, where it is used twice) and
  appending (`AppendedWhole`) do; the rows from one number to another join to a part (`JoinRows`), of which a
  range read takes a part (`ReadRangeExact`). `JoinRows` and `ExportWhole` are about recursive
  functions: the parts satisfy the recursion, and of the places where another
  solution would differ there is no last one (`SettledFromTheEnd`, from the well-foundedness of the natural
  numbers), so no induction rule is needed.

**`FsProofs`**, from `PathAssumption` (paths are sequences, closed under prefixes, of bounded length) and
`FsAssumption` (at first, too, an entry is below directories only), for any clients, paths,
tree and calls:

- `FsTyped`, `SuccessIsTrue`, `FailuresHaveReasons`, `ExportIsExact` and `MoveLosesNothing`: every property of
  the run `fs_calls`. An operation holds nothing between two of its calls, so no
  invariant can say what the tree is; `FsInv` says what it is *up to what others did*. For each
  awaited call, `Local` says what the operation's variables are, and `Knows` what it has found out: that
  the chain of directories is there up to the component it is at (`KnowsChain`), that the source of
  a copy is what was read and before the removal is at the target (`KnowsSource`), that every
  entry below the path of an `rm` is still to be listed, still to be removed, or gone (`KnowsRemoved`),
  and that an export has the first blocks of the file (`KnowsRead`); each unless `touched`
  has a path of another client that explains the difference. `Bystanders` proves that a step of
  one client leaves this true of all others, once for every action; one lemma for each action
  (`...Step`) proves that its own operation knows what it should at the next label.
- `FsRooted`: an entry is always below directories only. It is stated for all ancestors at once
  (`TreeOK`), not for parents, which keeps the proof about `mv` of a directory free of an induction over
  paths (`OldOrder`, `MovedTree`). That an `rm` finds the deepest of its entries
  (`DeepestIn`) follows from the bounded length and well-foundedness of the natural numbers.
- `FailuresHaveReasons` is proved by contraposition: one lemma for each action (`...Reason`) shows that an
  undisturbed operation that fails there is `Hopeless`. The proof corrected that definition
  twice: an undisturbed `rm` of the root and a rename of a directory that is not empty
  fail as well, the first because the root is not deleted, the second because fsspec's
  `mv` leaves the directory out of the copy and then cannot remove it. A rename copies a directory at
  all only when another client put it there after `Resolve` (`KnowsSource`).

**`HandleProofs`**, from `HandleAssumption`, for any set of handles in any modes, with or without staged uploads:

- `HandlesTypeCorrect` and `HandlesCleanUp`: `TypeOK` and `NothingStaged` always hold. `HandleInv` says that
  buffer and upload together are the blocks given and that the upload holds what was sent, in order
  (`Matches`), what a closed handle still has and what it has sent (`ClosedOK`), in which state each provider call
  is made (`AtOK`), that only an upload in progress, one about to be aborted or one that could not be
  aborted has something staged (`Clean`), and that a transaction completes the handles of `transaction.files` one
  at a time and in the order of their turns (`Committed`, `FilesOK`).
- `WholeFilesOnly` and `DeferredWaits`: the action properties `WholeOrNothing` and `DeferredUntilEnd`. Every action of a
  handle is one of `Moves`: others keep their records, and the target changes in `FinishUpload` and `WriteParts`
  only, which end the handle; `HandleInv` says what it has staged or kept at that moment.
- `PublishedInOrder`: `InOrderOfOpening` always holds. It is not inductive: an append carries what it has read in
  `existing` to a later step. `OrderInv` says that this, like the target, is in order and consists of blocks of handles that
  are over; the handle that publishes next is the head of `transaction.files`, so its turn is after theirs.

**`JoinedProofs`**, from `JoinedAssumption` (a database with the unique index has the tables and the
root row: `_ensure_schema` commits them in one transaction), for any connections, modes and calls:

- `JoinedTypeCorrect`, `ReadyHasSchema`, `InitsAreSerial`, `CallersKeepTheirTx` and `CommittedTogether`: every property of the
  run `joined`. `JoinInv` says for each connection that its open transaction adds and deletes the rows
  its calls have reported so far together with those of the statement before
  (`Expected`), and the same of the savepoint; that only the holder of the advisory lock has
  changed the schema (`TxnOK`, `OneSchema`); and where the schema is that an initialized provider relies
  on (`SchemaOK`). `InitsAreSerial` needs no induction over the wait cycle: only the
  holder of the lock can be past it, and it waits for a user of the tables.

**`LifecycleProofs`**, from `LifecycleAssumption`, for any tasks and pools:

- `LifecycleTypes`, `ReadyPool` and `PoolKept`: `TypeOK`, `ReadyHasPool` and
  `NoPoolLost` always hold. The inductive invariant `LifeInv` says what a
  task in `initialize` knows between two awaits (`Initializing`: `_pool` is the one
  it made, new or open, and `_initialized` is still False), and that without
  cancellations a provider that is neither initialized nor locked has no pool
  (`Kept`), which is why `initialize` never replaces one.

**Only model-checked:**

- `CallsReturn` and `LifecycleReturns`: liveness under fairness, and with it ENABLED, is
  beyond the prover.

## What is not modelled

- Joined mode beyond what `JoinedProvider` has: uploads (whose second transaction after an
  exception joins the caller's as well), callers at REPEATABLE READ or
  SERIALIZABLE, where a statement behind the topology lock does not see what the
  holder before it committed, and deeper trees.
- `get_metadata`, `list_directory`, `get_node_info` and `get_storage_stats` as statements:
  they change nothing. The answers of listing and lookup are in `FsOperations`;
  `get_storage_stats` counts files and chunks in two snapshots.
- Recursive copies and moves as a whole: fsspec runs the `_cp_file` and `_rm_file` calls in any order or
  at once, and several clients of `FsOperations` do so as well.
- The touch that chuk-virtual-fs performs before it writes through a provider without
  `write_file_atomic`: its write is one step here.
- Compression, reading handles, missing parent directories of `BufferedFile`, and providers that stage uploads
  but have no `write_file_atomic`.
- Path normalization, limits on sizes and names, SQL text, entry points, examples.

## What could come next

- Uploads in joined mode, and the isolation level of the caller.
- A run for cancelled initialization, and one for the initialize that deadlocks.

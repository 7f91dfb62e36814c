---------------------------- MODULE FsOperations ----------------------------
(***************************************************************************)
(* The fsspec operations of ChukFileSystem (src/chuk_fsspec/fs.py): _mkdir,*)
(* _pipe_file, _cp_file, _mv, mv, _rm, _get_file and _ls.  Each is a       *)
(* sequence of calls of the virtual filesystem without a transaction of    *)
(* its own, and other clients act between any two of them.                 *)
(*                                                                         *)
(* One action is one awaited call with the Python up to the next one.  The *)
(* calls themselves are atomic here, which AbstractTree and AbstractFiles  *)
(* promise.  A path is the sequence of its components, << >> the root; a   *)
(* content is a sequence of blocks, each the number of the call that wrote *)
(* it, so that a mixture of two contents is seen as such.                  *)
(***************************************************************************)
EXTENDS Naturals, Sequences, FiniteSets

CONSTANTS Client,    \* tasks that use the filesystem
          Path,      \* the paths other than the root, closed under prefixes
          Tree0,     \* the entries before the calls begin
          Calls,     \* the calls a client may make
          MaxCalls   \* bound: calls begun in a behaviour

Ops == {"mkdir", "pipe", "cp", "rename", "mv", "rm", "get", "ls"}

\* dst: the second path; size: blocks written; flag: create_parents of mkdir,
\* mode="create" of pipe, recursive of rm.
Call == [op : Ops, path : Path \cup {<< >>}, dst : Path \cup {<< >>}, size : Nat, flag : BOOLEAN]

Parent(p) == SubSeq(p, 1, Len(p) - 1)
Below(p, q) == Len(p) < Len(q) /\ SubSeq(q, 1, Len(p)) = p
Prefixes(p) == {SubSeq(p, 1, i) : i \in 1..Len(p)}
Into(p, q) == q \o <<p[Len(p)]>>

Absent == [kind |-> "none", data |-> << >>]
Dir == [kind |-> "dir", data |-> << >>]
File(data) == [kind |-> "file", data |-> data]

Entry == {Absent, Dir} \cup [kind : {"file"}, data : Seq(Nat)]

\* Paths are sequences closed under prefixes, and some path is the deepest.
ASSUME PathAssumption ==
    /\ << >> \notin Path
    /\ \A p \in Path : p \in Seq({p[i] : i \in DOMAIN p}) /\ Prefixes(p) \subseteq Path
    /\ \E p \in Path \cup {<< >>} : \A q \in Path : Len(q) <= Len(p)

\* At first, too, an entry is below directories only.  Path has the places in
\* which a rename may find its destination to be a directory.
ASSUME FsAssumption ==
    /\ Tree0 \in [Path -> Entry]
    /\ \A p, q \in Path : Below(q, p) /\ Tree0[p] # Absent => Tree0[q] = Dir
    /\ Calls \subseteq Call /\ MaxCalls \in Nat
    /\ \A call \in Calls : call.op = "rename" /\ call.path \notin {<< >>, call.dst} =>
           Into(call.path, call.dst) \in Path

VARIABLES tree,      \* the entry at each path
          generic,   \* the provider lacks write_file_atomic and read_range
          pc,        \* the call each client awaits next
          g,         \* the local variables of its operation
          touched,   \* what other clients did to which paths meanwhile
          left       \* calls that may still begin

vars == <<tree, generic, pc, g, touched, left>>

Labels == {"idle", "parent", "exists", "is_dir", "mkdir", "lost", "lost_dir", "preflight",
           "write", "mv_isdir", "mv_into", "info", "read", "mv_exists", "mv", "walk", "rm_info", "rm_ls", "rm",
           "get_info", "range", "whole", "ls_exists", "ls_names", "ls_info"}

\* goal, k: `current` is the first k components of goal; data: the bytes to
\* write; size, got: of an export; dirs, todo: paths to list, to remove or to
\* describe; ok: all(results); copydir: the source of the copy is a directory.
Frame == [call : Call, goal : Path \cup {<< >>}, k : Nat, data : Seq(Nat), size : Nat,
          got : Seq(Nat), dirs : SUBSET (Path \cup {<< >>}), todo : SUBSET (Path \cup {<< >>}),
          ok : BOOLEAN, copydir : BOOLEAN, out : {"none", "true", "false", "raised"}]

NoCall == [op |-> "ls", path |-> << >>, dst |-> << >>, size |-> 0, flag |-> FALSE]

Fresh(call, data) == [call |-> call, goal |-> << >>, k |-> 0, data |-> data, size |-> 0,
                      got |-> << >>, dirs |-> {call.path}, todo |-> {call.path},
                      ok |-> TRUE, copydir |-> FALSE, out |-> "none"]

TypeOK == /\ tree \in [Path -> Entry] /\ generic \in BOOLEAN
          /\ pc \in [Client -> Labels] /\ g \in [Client -> Frame]
          /\ touched \in [Client -> SUBSET ({"made", "other"} \X Path)] /\ left \in Nat
          /\ \A c \in Client : g[c].k <= Len(g[c].goal) /\ Len(g[c].got) <= g[c].size

Init == /\ tree = Tree0 /\ generic \in BOOLEAN
        /\ pc = [c \in Client |-> "idle"]
        /\ g = [c \in Client |-> Fresh(NoCall, << >>)]
        /\ touched = [c \in Client |-> {}] /\ left = MaxCalls

-----------------------------------------------------------------------------
(* The answers of the virtual filesystem, each one provider transaction *)

At(p) == IF p = << >> THEN Dir ELSE tree[p]
Exists(p) == At(p).kind # "none"
IsDir(p) == At(p).kind = "dir"
IsFile(p) == At(p).kind = "file"
ChildrenOf(p) == {q \in Path : Parent(q) = p /\ Exists(q)}

CanMake(p) == p # << >> /\ ~Exists(p) /\ IsDir(Parent(p))
CanPut(p, excl) == p # << >> /\ IsDir(Parent(p)) /\ ~IsDir(p) /\ (excl => ~Exists(p))
CanRemove(p) == p # << >> /\ Exists(p) /\ ChildrenOf(p) = {}
CanMove(p, q) == /\ p # << >> /\ q # << >> /\ Exists(p)
                 /\ p = q \/ (~Exists(q) /\ IsDir(Parent(q)) /\ ~Below(p, q))

\* The entry at r once p is moved to q.
MovedEntry(p, q, r) ==
    IF r = q \/ Below(q, r)
    THEN LET old == p \o SubSeq(r, Len(q) + 1, Len(r)) IN
         IF old \in Path THEN tree[old] ELSE Absent
    ELSE IF r = p \/ Below(p, r) THEN Absent ELSE tree[r]

\* The tree changes; every other client's operation has something to notice.
Change(c, t) ==
    LET how(p) == IF tree[p] = Absent /\ t[p] = Dir THEN "made" ELSE "other"
        news == {<<how(p), p>> : p \in {q \in Path : t[q] # tree[q]}} IN
    /\ tree' = t
    /\ touched' = [d \in Client |-> IF d = c \/ pc[d] = "idle" THEN touched[d]
                                    ELSE touched[d] \cup news]

Same == UNCHANGED <<tree, touched>>

-----------------------------------------------------------------------------
(* Control *)

Keep == UNCHANGED <<generic, left>>
Goto(c, label, fr) == pc' = [pc EXCEPT ![c] = label] /\ g' = [g EXCEPT ![c] = fr]
Await(c, label) == Goto(c, label, g[c])
End(c, out) == Goto(c, "idle", [g[c] EXCEPT !.out = out])
Return(c, ok) == End(c, IF ok THEN "true" ELSE "false")
Raise(c) == End(c, "raised")

Op(c) == g[c].call.op
Path1(c) == g[c].call.path
Cur(c) == SubSeq(g[c].goal, 1, g[c].k)

\* _commit asks providers without write_file_atomic before an exclusive write.
Exclusive(fr) == fr.call.op = "pipe" /\ fr.call.flag

\* _cp_file is done; mv goes on with rm.
Copied(c, fr) == IF fr.call.op = "rename" THEN Goto(c, "rm_info", [fr EXCEPT !.todo = {fr.call.path}])
                 ELSE Goto(c, "idle", [fr EXCEPT !.out = "true"])

\* All components of goal are there; a copied directory then makes its target.
Ensured(c, fr) ==
    CASE fr.call.op = "mkdir" -> Goto(c, "idle", [fr EXCEPT !.out = "true"])
      [] fr.copydir /\ fr.goal # fr.call.dst ->
             Goto(c, "mkdir", [fr EXCEPT !.goal = fr.call.dst, !.k = Len(fr.call.dst)])
      [] fr.copydir /\ fr.goal = fr.call.dst -> Copied(c, fr)
      [] OTHER -> Goto(c, IF generic /\ Exclusive(fr) THEN "preflight" ELSE "write", fr)

\* The loop over the components of goal, from the (k+1)-st.
Component(c, fr) == IF fr.k < Len(fr.goal) THEN Goto(c, "exists", [fr EXCEPT !.k = @ + 1])
                    ELSE Ensured(c, fr)

\* The loop of _mkdir and of _ensure_parent_directories.
Ensure(c, fr, path) == Component(c, [fr EXCEPT !.goal = path, !.k = 0])

Begin(c, call) ==
    /\ pc[c] = "idle" /\ left > 0
    /\ LET fr == Fresh(call, IF call.op = "pipe" THEN [i \in 1 .. call.size |-> left] ELSE << >>) IN
       CASE call.op = "mkdir" /\ ~call.flag /\ Len(call.path) > 1 -> Goto(c, "parent", fr)
         [] call.op = "mkdir" /\ (call.flag \/ Len(call.path) <= 1) -> Ensure(c, fr, call.path)
         [] call.op = "pipe" -> Ensure(c, fr, Parent(call.path))
         [] call.op = "rename" /\ call.path = call.dst -> Goto(c, "idle", [fr EXCEPT !.out = "true"])
         [] call.op = "rename" /\ call.path # call.dst -> Goto(c, "mv_isdir", fr)
         [] call.op = "cp" -> Goto(c, "info", fr)
         [] call.op = "mv" -> Goto(c, "mv_exists", fr)
         [] call.op = "rm" -> IF call.flag THEN Goto(c, "walk", [fr EXCEPT !.todo = {}])
                              ELSE Goto(c, "rm_info", fr)
         [] call.op = "get" -> Goto(c, "get_info", fr)
         [] call.op = "ls" -> Goto(c, "ls_exists", fr)
    /\ left' = left - 1
    /\ touched' = [touched EXCEPT ![c] = {}]
    /\ UNCHANGED <<tree, generic>>

-----------------------------------------------------------------------------
(* Directories: _mkdir and _ensure_parent_directories *)

\* mkdir(create_parents=False).
NeedParent(c) == /\ pc[c] = "parent"
                 /\ IF Exists(Parent(Path1(c))) THEN Ensure(c, g[c], Path1(c)) ELSE Raise(c)
                 /\ Same

AskExists(c) == /\ pc[c] = "exists"
                /\ Await(c, IF Exists(Cur(c)) THEN "is_dir" ELSE "mkdir")
                /\ Same

AskIsDir(c) == /\ pc[c] = "is_dir"
               /\ IF IsDir(Cur(c)) THEN Component(c, g[c]) ELSE Raise(c)
               /\ Same

\* Mutant: a false create is an error.
MakeIntolerant(c) ==
    /\ pc[c] = "mkdir"
    /\ IF CanMake(Cur(c)) THEN Change(c, [tree EXCEPT ![Cur(c)] = Dir]) /\ Component(c, g[c])
       ELSE Same /\ IF Op(c) = "mkdir" THEN Return(c, FALSE) ELSE Raise(c)

Make(c) ==
    /\ pc[c] = "mkdir"
    /\ IF CanMake(Cur(c)) THEN Change(c, [tree EXCEPT ![Cur(c)] = Dir]) /\ Component(c, g[c])
       ELSE Same /\ IF Op(c) = "mkdir" THEN Return(c, FALSE) ELSE Await(c, "lost")

\* A false create is success when another task made the directory.
Lost(c) == /\ \/ /\ pc[c] = "lost"
                 /\ IF Exists(Cur(c)) THEN Await(c, "lost_dir") ELSE Raise(c)
              \/ /\ pc[c] = "lost_dir"
                 /\ IF IsDir(Cur(c)) THEN Component(c, g[c]) ELSE Raise(c)
           /\ Same

-----------------------------------------------------------------------------
(* Writing: _commit, _pipe_file, _cp_file *)

Preflight(c) == /\ pc[c] = "preflight"
                /\ IF Exists(Path1(c)) THEN Raise(c) ELSE Await(c, "write")
                /\ Same

Target(c) == IF Op(c) = "pipe" THEN Path1(c) ELSE g[c].call.dst

\* Mutant: the result of _commit is not looked at.
WriteUnchecked(c) ==
    /\ pc[c] = "write"
    /\ IF CanPut(Target(c), Exclusive(g[c]) /\ ~generic)
       THEN Change(c, [tree EXCEPT ![Target(c)] = File(g[c].data)])
       ELSE Same
    /\ Copied(c, g[c])

Write(c) == /\ pc[c] = "write"
            /\ IF CanPut(Target(c), Exclusive(g[c]) /\ ~generic)
               THEN Change(c, [tree EXCEPT ![Target(c)] = File(g[c].data)]) /\ Copied(c, g[c])
               ELSE Same /\ Raise(c)

\* fsspec's copy, when it is not recursive, leaves a directory out, and mv goes
\* on with rm; it copies a file into a destination that is a directory.
Resolve(c) == LET q == g[c].call.dst IN
              /\ \/ /\ pc[c] = "mv_isdir"
                    /\ IF IsDir(Path1(c)) THEN Goto(c, "rm_info", [g[c] EXCEPT !.copydir = TRUE])
                       ELSE Await(c, "mv_into")
                 \/ /\ pc[c] = "mv_into"
                    /\ IF IsDir(q) THEN Goto(c, "info", [g[c] EXCEPT !.call.dst = Into(Path1(c), q)])
                       ELSE Await(c, "info")
              /\ Same

CopyInfo(c) == /\ pc[c] = "info"
               /\ CASE ~Exists(Path1(c)) -> Raise(c)
                    [] IsDir(Path1(c)) -> Ensure(c, [g[c] EXCEPT !.copydir = TRUE], Parent(g[c].call.dst))
                    [] IsFile(Path1(c)) -> Await(c, "read")
               /\ Same

CopyRead(c) == /\ pc[c] = "read"
               /\ IF IsFile(Path1(c))
                  THEN Ensure(c, [g[c] EXCEPT !.data = At(Path1(c)).data], Parent(g[c].call.dst))
                  ELSE Raise(c)
               /\ Same

-----------------------------------------------------------------------------
(* Moving and removing: _mv, _rm, _rm_file *)

MoveExists(c) == /\ pc[c] = "mv_exists"
                 /\ IF Exists(Path1(c)) THEN Await(c, "mv") ELSE Raise(c)
                 /\ Same

Move(c) == LET q == g[c].call.dst IN
           /\ pc[c] = "mv"
           /\ IF CanMove(Path1(c), q) THEN Change(c, [r \in Path |-> MovedEntry(Path1(c), q, r)])
              ELSE Same
           /\ Return(c, CanMove(Path1(c), q))

\* _expand_path(recursive=True): one directory is listed after the other; a
\* directory with an entry that vanishes meanwhile is left out.
Walk(c) ==
    /\ pc[c] = "walk"
    /\ IF g[c].dirs # {}
       THEN \E d \in g[c].dirs, listed \in {TRUE} \cup (IF touched[c] # {} THEN {FALSE} ELSE {}) :
                LET found == IF listed /\ IsDir(d) THEN ChildrenOf(d) ELSE {} IN
                Goto(c, "walk", [g[c] EXCEPT !.dirs = (@ \ {d}) \cup {q \in found : IsDir(q)},
                                             !.todo = @ \cup found])
       ELSE LET all == g[c].todo \cup (IF Exists(Path1(c)) THEN {Path1(c)} ELSE {}) IN
            IF all = {} THEN Raise(c) ELSE Goto(c, "rm_info", [g[c] EXCEPT !.todo = all])
    /\ Same

\* reversed(paths): an entry comes before the directory it is in.
Victim(c) == CHOOSE p \in g[c].todo : \A q \in g[c].todo : ~Below(p, q)

RmInfo(c) == /\ pc[c] = "rm_info"
             /\ CASE ~Exists(Victim(c)) -> Raise(c)
                  [] IsDir(Victim(c)) -> Await(c, "rm_ls")
                  [] IsFile(Victim(c)) -> Await(c, "rm")
             /\ Same

RmList(c) == /\ pc[c] = "rm_ls"
             /\ IF ChildrenOf(Victim(c)) = {} THEN Await(c, "rm") ELSE Raise(c)
             /\ Same

\* The entry is done; the last one ends the call with all(results).
Removed(c, fr) ==
    LET rest == fr.todo \ {Victim(c)} IN
    CASE rest # {} -> Goto(c, "rm_info", [fr EXCEPT !.todo = rest])
      [] rest = {} -> Goto(c, "idle", [fr EXCEPT !.out = IF fr.ok \/ Op(c) = "rename"
                                                         THEN "true" ELSE "false"])

\* Mutant: what vfs.rm returns is not looked at.
RmIgnored(c) == /\ pc[c] = "rm"
                /\ IF CanRemove(Victim(c)) THEN Change(c, [tree EXCEPT ![Victim(c)] = Absent])
                   ELSE Same
                /\ Removed(c, g[c])

Rm(c) == /\ pc[c] = "rm"
         /\ IF CanRemove(Victim(c)) THEN Change(c, [tree EXCEPT ![Victim(c)] = Absent])
            ELSE Same
         /\ Removed(c, [g[c] EXCEPT !.ok = @ /\ CanRemove(Victim(c))])

-----------------------------------------------------------------------------
(* Reading: _get_file and _ls *)

\* The block-wise export: the next block, or the end.
Blocks(c, fr) == IF Len(fr.got) < fr.size THEN Goto(c, "range", fr)
                 ELSE Goto(c, "idle", [fr EXCEPT !.out = "true"])

GetInfo(c) == /\ pc[c] = "get_info"
              /\ CASE ~Exists(Path1(c)) -> Raise(c)
                   [] IsDir(Path1(c)) -> Return(c, TRUE)
                   [] IsFile(Path1(c)) ->
                          LET fr == [g[c] EXCEPT !.size = Len(At(Path1(c)).data)] IN
                          IF generic THEN Goto(c, "whole", fr) ELSE Blocks(c, fr)
              /\ Same

\* The block at offset Len(got), as read_range finds it now.
Block(c) == LET data == At(Path1(c)).data IN
            IF Len(g[c].got) < Len(data) THEN <<data[Len(g[c].got) + 1]>> ELSE << >>

\* Mutant: a short source read ends the export.
RangeUnchecked(c) ==
    /\ pc[c] = "range"
    /\ CASE ~IsFile(Path1(c)) -> Raise(c)
         [] IsFile(Path1(c)) /\ Block(c) = << >> -> Return(c, TRUE)
         [] OTHER -> Blocks(c, [g[c] EXCEPT !.got = @ \o Block(c)])
    /\ Same

\* Mutant: a range that ends with the file, not at the announced size.
RangeToEnd(c) ==
    /\ pc[c] = "range"
    /\ IF IsFile(Path1(c)) /\ Block(c) # << >>
       THEN Blocks(c, [g[c] EXCEPT !.got = @ \o SubSeq(At(Path1(c)).data, Len(@) + 1, Len(At(Path1(c)).data))])
       ELSE Raise(c)
    /\ Same

ReadRange(c) == /\ pc[c] = "range"
                /\ IF IsFile(Path1(c)) /\ Block(c) # << >>
                   THEN Blocks(c, [g[c] EXCEPT !.got = @ \o Block(c)])
                   ELSE Raise(c)
                /\ Same

Whole(c) == /\ pc[c] = "whole"
            /\ IF IsFile(Path1(c)) /\ Len(At(Path1(c)).data) = g[c].size
               THEN Goto(c, "idle", [g[c] EXCEPT !.got = At(Path1(c)).data, !.out = "true"])
               ELSE Raise(c)
            /\ Same

LsBegin(c) == /\ \/ /\ pc[c] = "ls_exists"
                    /\ IF Exists(Path1(c)) THEN Await(c, "ls_names") ELSE Raise(c)
                 \/ /\ pc[c] = "ls_names"
                    /\ LET names == IF IsDir(Path1(c)) THEN ChildrenOf(Path1(c)) ELSE {} IN
                       IF names = {} THEN Return(c, TRUE)
                       ELSE Goto(c, "ls_info", [g[c] EXCEPT !.todo = names])
              /\ Same

LsInfo(c) == /\ pc[c] = "ls_info"
             /\ \E p \in g[c].todo :
                    CASE ~Exists(p) -> Raise(c)
                      [] Exists(p) /\ g[c].todo = {p} -> Return(c, TRUE)
                      [] OTHER -> Goto(c, "ls_info", [g[c] EXCEPT !.todo = @ \ {p}])
             /\ Same

-----------------------------------------------------------------------------

Step(c) == /\ \/ NeedParent(c) \/ AskExists(c) \/ AskIsDir(c) \/ Make(c) \/ Lost(c)
              \/ Preflight(c) \/ Write(c) \/ Resolve(c) \/ CopyInfo(c) \/ CopyRead(c)
              \/ MoveExists(c) \/ Move(c) \/ Walk(c) \/ RmInfo(c) \/ RmList(c) \/ Rm(c)
              \/ GetInfo(c) \/ ReadRange(c) \/ Whole(c) \/ LsBegin(c) \/ LsInfo(c)
           /\ Keep

\* Every call has returned and none may begin.
Finished == left = 0 /\ (\A c \in Client : pc[c] = "idle") /\ UNCHANGED vars

Next == \/ \E c \in Client : Step(c) \/ \E call \in Calls : Begin(c, call)
        \/ Finished

Spec == Init /\ [][Next]_vars

-----------------------------------------------------------------------------
(* Properties *)

Ended(c) == pc[c] # "idle" /\ pc'[c] = "idle"
Out(c) == g'[c].out

Others(c) == {x[2] : x \in {y \in touched[c] : y[1] = "other"}}
Meddled(c) == {x[2] : x \in touched[c]}

\* The call cannot succeed on this tree, were it alone.  The dst of a rename is
\* by now the path the file goes to.
FileAbove(p) == \E q \in Prefixes(p) \ {p} : IsFile(q)

Hopeless(call) ==
    LET p == call.path
        q == call.dst IN
    CASE call.op = "mkdir" -> IsFile(p) \/ FileAbove(p) \/ (~call.flag /\ ~Exists(Parent(p)))
      [] call.op = "pipe" -> FileAbove(p) \/ IsDir(p) \/ (call.flag /\ Exists(p))
      [] call.op = "cp" ->
             ~Exists(p) \/ FileAbove(q) \/ (IsFile(p) /\ IsDir(q)) \/ (IsDir(p) /\ IsFile(q))
      [] call.op = "rename" ->
             ~Exists(p) \/ ChildrenOf(p) # {} \/ (IsFile(p) /\ (FileAbove(q) \/ IsDir(q)))
      [] call.op = "mv" -> ~CanMove(p, q)
      [] call.op = "rm" -> p = << >> \/ ~Exists(p) \/ (~call.flag /\ ChildrenOf(p) # {})
      [] call.op \in {"get", "ls"} -> ~Exists(p)

\* No call fails out of nothing: when one raises or returns False, it could not
\* have succeeded on the tree either, or another client interfered.  Creating a
\* directory is no interference with a write or a copy, whose missing parents
\* may be made by anybody (_ensure_parent_directories).
FailsForAReason ==
    [][\A c \in Client : Ended(c) /\ Out(c) # "true" =>
          \/ Hopeless(g[c].call)
          \/ IF Op(c) \in {"pipe", "cp"} THEN Others(c) # {} ELSE Meddled(c) # {}]_vars

\* What a returned success says is so, up to what others did meanwhile: mkdir
\* and the copy of a directory leave a directory under every prefix, and rm
\* leaves nothing at or below the path that was there before.
TrueMeansDone ==
    [][\A c \in Client : Ended(c) /\ Out(c) = "true" =>
          /\ Op(c) = "mkdir" \/ (Op(c) = "cp" /\ g[c].copydir) =>
                \A p \in Prefixes(g[c].goal) : tree'[p] = Dir \/ Others(c) # {}
          /\ Op(c) = "rm" =>
                \A p \in Path : p = Path1(c) \/ Below(Path1(c), p) =>
                    tree'[p] = Absent \/ p \in Meddled(c)]_vars

\* A finished export has the size it announced, and is the file's content
\* unless the file was replaced or moved between the blocks (_get_file).
ExportExact ==
    [][\A c \in Client : Ended(c) /\ Out(c) = "true" /\ Op(c) = "get" /\ IsFile(Path1(c)) =>
          /\ Len(g'[c].got) = g'[c].size
          /\ g'[c].got = At(Path1(c)).data \/ Path1(c) \in Others(c)]_vars

\* mv copies and then removes: the content of the file it removes is at the
\* destination afterwards, unless another client changed one of the two paths
\* in between, or the file was moved into the directory it is in: that copies it
\* onto itself, and then removes it.
MoveLosesOnlyRaced ==
    [][\A c \in Client : Op(c) = "rename" /\ pc[c] = "rm" /\ pc'[c] # "rm" /\ IsFile(Path1(c)) =>
          LET p == Path1(c)
              q == g[c].call.dst IN
          \/ q \in Path /\ tree'[q] = tree[p]
          \/ {p, q} \cap Others(c) # {}
          \/ q = p]_vars
=============================================================================

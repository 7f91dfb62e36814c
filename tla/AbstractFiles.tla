--------------------------- MODULE AbstractFiles ---------------------------
(***************************************************************************)
(* What the provider's content operations promise their callers: each call *)
(* takes effect in one step, with exactly the effect its result reports.   *)
(* A file is created complete, replaced as a whole, or appended to; an     *)
(* upload is published or discarded once, and is then gone; metadata are   *)
(* merged key by key.  As in AbstractTree, the file a path led to is       *)
(* promised up to the moment of its resolution, so replaced files are some *)
(* file.                                                                   *)
(***************************************************************************)
EXTENDS Naturals, Sequences, FiniteSets

CONSTANTS Node, Name, Sess, None, Upload, RootOf, MetaKey,
          Calls,      \* records [op, path, up, key, empty, excl, app, size, sha]
          Files0,     \* the initial rows, records with st, parent, name, dir, data, meta
          Uploads0,   \* the initial uploads, records with st, root, path, excl, app, data
          MaxCalls

VARIABLES files,   \* the entry and content of each node, or None
          staged,  \* the upload each id stands for, or None
          spent,   \* upload ids whose upload is published or discarded
          call,    \* the call each session is in, or None
          ret      \* what each session's last call returned

avars == <<files, staged, spent, call, ret>>

Pending == <<"none", << >> >>

Entry(p, nm, isDir, data) == [parent |-> p, name |-> nm, dir |-> isDir, data |-> data,
                              meta |-> [k \in MetaKey |-> 0]]

Last(path) == path[Len(path)]

Init == /\ files = [n \in Node |-> IF Files0[n].st = "live"
                                   THEN [Entry(Files0[n].parent, Files0[n].name, Files0[n].dir,
                                               Files0[n].data) EXCEPT !.meta = Files0[n].meta]
                                   ELSE None]
        /\ staged = [u \in Upload |-> IF Uploads0[u].st = "live"
                                     THEN [root |-> Uploads0[u].root,
                                           name |-> Last(Uploads0[u].path),
                                           excl |-> Uploads0[u].excl,
                                           app |-> Uploads0[u].app, data |-> Uploads0[u].data]
                                     ELSE None]
        /\ spent = {u \in Upload : Uploads0[u].st = "dead"}
        /\ call = [s \in Sess |-> None]
        /\ ret = [s \in Sess |-> Pending]

Present == {n \in Node : files[n] # None}
Files == {n \in Present : ~files[n].dir}
Dirs == {n \in Present : files[n].dir}

NameFree(p, nm) == \A n \in Present : ~(files[n].parent = p /\ files[n].name = nm)

Contents == {<< >>} \cup {<<i>> : i \in 1..MaxCalls}

-----------------------------------------------------------------------------
(* Effects *)

Add(nm, isDir, data) == \E n \in Node \ Present, p \in Dirs :
                            /\ NameFree(p, nm)
                            /\ files' = [files EXCEPT ![n] = Entry(p, nm, isDir, data)]

Replace(data) == \E n \in Files : files' = [files EXCEPT ![n].data = data]

Append_(data) == \E n \in Files : files' = [files EXCEPT ![n].data = @ \o data]

\* Replacing a file that was deleted meanwhile is a replacement just before the
\* deletion; only a content without chunks goes through.
Overtaken(data) == data = << >> /\ UNCHANGED files

Tag(key, value) == \E n \in Present : files' = [files EXCEPT ![n].meta[key] = value]

Mine(s, u) == staged[u] # None /\ staged[u].root = RootOf[s]

Drop(u) == /\ staged' = [staged EXCEPT ![u] = None]
           /\ spent' = spent \cup {u}

\* A new upload under an id that none has had.
Start(s, c) == /\ \E u \in Upload \ spent :
                     /\ staged[u] = None
                     /\ staged' = [staged EXCEPT ![u] = [root |-> RootOf[s],
                                                         name |-> Last(c.path), excl |-> c.excl,
                                                         app |-> c.app, data |-> << >>]]
               /\ UNCHANGED spent

Stage(s, u, x) == /\ Mine(s, u)
                  /\ staged' = [staged EXCEPT ![u].data = @ \o x]
                  /\ UNCHANGED spent

Sweep(s) == \E W \in SUBSET {u \in Upload : Mine(s, u)} :
                /\ staged' = [u \in Upload |-> IF u \in W THEN None ELSE staged[u]]
                /\ spent' = spent \cup W

KeepUploads == UNCHANGED <<staged, spent>>

\* Publishing upload u: what it was started for decides what it may do.
Publish(u) == LET x == staged[u] IN
              \/ Add(x.name, FALSE, x.data)
              \/ ~x.excl /\ IF x.app THEN Append_(x.data) ELSE Replace(x.data)

-----------------------------------------------------------------------------
(* Calls *)

Begin(s) == /\ call[s] = None
            /\ \E c \in Calls, x \in Contents : call' = [call EXCEPT ![s] = [c |-> c, content |-> x]]
            /\ ret' = [ret EXCEPT ![s] = Pending]
            /\ UNCHANGED files /\ KeepUploads

End(s, result) == /\ call[s] # None
                  /\ call' = [call EXCEPT ![s] = None]
                  /\ ret' = [ret EXCEPT ![s] = result]

Succeed(s, c, x) ==
    \/ /\ c.op = "write_file"
       /\ Replace(x) \/ Overtaken(x)
       /\ KeepUploads
    \/ /\ c.op = "write_file_atomic"
       /\ Add(Last(c.path), FALSE, x) \/ (~c.excl /\ (Replace(x) \/ Overtaken(x)))
       /\ KeepUploads
    \/ c.op = "set_metadata" /\ Tag(c.key, x[1]) /\ KeepUploads
    \/ c.op = "start_upload" /\ Start(s, c) /\ UNCHANGED files
    \/ c.op = "upload_part" /\ Stage(s, c.up, x) /\ UNCHANGED files
    \/ /\ c.op = "finish_upload" /\ Mine(s, c.up)
       /\ Publish(c.up) /\ Drop(c.up)
    \/ /\ c.op = "abort_upload" /\ Mine(s, c.up)
       /\ Drop(c.up) /\ UNCHANGED files
    \/ c.op = "cleanup" /\ Sweep(s) /\ UNCHANGED files

\* A failed finish_upload discards the upload; when the digest differs, it
\* leaves the new, empty file that it had created.
Refuse(s, c) == \/ UNCHANGED files /\ KeepUploads
                \/ /\ c.op = "finish_upload" /\ Mine(s, c.up) /\ Drop(c.up)
                   /\ UNCHANGED files
                      \/ (c.sha = "differ" /\ Add(staged[c.up].name, FALSE, << >>))

\* An exception changes no file; the upload may have been aborted.
Raise(s, c) == /\ UNCHANGED files
               /\ \/ KeepUploads
                  \/ c.op \in {"upload_part", "finish_upload"} /\ Mine(s, c.up) /\ Drop(c.up)

Return(s) == \E c \in {call[s].c}, x \in {call[s].content} :
             \/ End(s, <<"true", << >> >>) /\ Succeed(s, c, x)
             \/ End(s, <<"false", << >> >>) /\ Refuse(s, c)
             \/ End(s, <<"error", << >> >>) /\ Raise(s, c)

\* read_file returns the content some file has at that moment, whole.
ReadOne(s) == /\ call[s] # None /\ call[s].c.op = "read_file"
              /\ \E n \in Files : End(s, <<"true", files[n].data>>)
              /\ UNCHANGED files /\ KeepUploads

\* Arguments that are no call at all.
Reject(s) == /\ call[s] = None
             /\ ret' = [ret EXCEPT ![s] = <<"error", << >> >>]
             /\ UNCHANGED <<files, staged, spent, call>>

\* delete_node, move_node and create_directory change entries, never content.
Environment == /\ \/ \E n \in Present : files' = [files EXCEPT ![n] = None]
                  \/ \E n \in Present, p \in Dirs, nm \in Name :
                         /\ files[n].parent # None /\ NameFree(p, nm)
                         /\ files' = [files EXCEPT ![n].parent = p, ![n].name = nm]
                  \/ \E nm \in Name : Add(nm, TRUE, << >>)
               /\ UNCHANGED <<staged, spent, call, ret>>

Next == \/ \E s \in Sess : Begin(s) \/ (call[s] # None /\ Return(s)) \/ ReadOne(s) \/ Reject(s)
        \/ Environment

Spec == Init /\ [][Next]_avars
=============================================================================

----------------------------- MODULE MCVfsFiles -----------------------------
(* Small instances of VfsFiles: node ids are numbers, names are strings. *)
EXTENDS VfsFiles, TLC

CONSTANTS s1, s2, s3

MCSess == {s1, s2}
TwoTenants == {s1, s2, s3}
MCName == {"a", "d"}
MCKey == {"k", "l"}
MCNode == 0..6
MCUpload == {10, 11, 12, 13}
TenantUpload == MCUpload \cup {14}

Sessions == Permutations(Sess)

OneRoot == [s \in Sess |-> 0]
TwoRoots == [s \in Sess |-> IF s = s3 THEN 1 ELSE 0]

NoRow == [FileRow(None, None) EXCEPT !.st = "free"]
RootRow == DirRow(None, None)

\* /a, a file with content.
OneFile == [n \in Node |-> CASE n = 0 -> RootRow
                             [] n = 1 -> [FileRow(0, "a") EXCEPT !.size = 1, !.sha = <<0>>,
                                                                 !.data = <<0>>]
                             [] OTHER -> NoRow]

\* /d, an empty directory.
OneDir == [n \in Node |-> CASE n = 0 -> RootRow
                            [] n = 1 -> DirRow(0, "d")
                            [] OTHER -> NoRow]

\* The roots of two filesystems; one has the directories /d and /a.
TwoTrees == [n \in Node |-> CASE n \in {0, 1} -> RootRow
                              [] n = 2 -> DirRow(0, "d")
                              [] n = 3 -> DirRow(0, "a")
                              [] OTHER -> NoRow]

\* An upload of one part.
Staged_(path, token, root) == [NoUpload EXCEPT !.st = "live", !.root = root, !.path = path,
                                               !.data = <<token>>, !.size = 1]

\* Two uploads to /d/a, one of them exclusive.
TwoUploads == [u \in Upload |-> CASE u = 10 -> Staged_(<<"d", "a">>, 90, 0)
                                  [] u = 11 -> [Staged_(<<"d", "a">>, 91, 0) EXCEPT !.excl = TRUE]
                                  [] OTHER -> NoUpload]

\* Two uploads that append to /a.
TwoAppends == [u \in Upload |-> CASE u = 10 -> [Staged_(<<"a">>, 90, 0) EXCEPT !.app = TRUE]
                                  [] u = 11 -> [Staged_(<<"a">>, 91, 0) EXCEPT !.app = TRUE]
                                  [] OTHER -> NoUpload]

\* Two uploads of one filesystem, one of another.
TenantUploads == [u \in Upload |-> CASE u = 10 -> Staged_(<<"d", "a">>, 90, 0)
                                     [] u = 11 -> Staged_(<<"a", "d">>, 91, 0)
                                     [] u = 12 -> Staged_(<<"a">>, 92, 1)
                                     [] OTHER -> NoUpload]

C(op, path, up) == [NoCall EXCEPT !.op = op, !.path = path, !.up = up, !.empty = FALSE]

Write_(path) == C("write_file", path, None)
Atomic(path) == C("write_file_atomic", path, None)
Meta(path, k) == [C("set_metadata", path, None) EXCEPT !.key = k]
Empty(c) == [c EXCEPT !.empty = TRUE]
Excl(c) == [c EXCEPT !.excl = TRUE]
App(c) == [c EXCEPT !.app = TRUE]
Start(path) == Empty(C("start_upload", path, None))
Part(u) == C("upload_part", << >>, u)
Finish(u) == Empty(C("finish_upload", << >>, u))
Sized(c, z) == [c EXCEPT !.size = z]
Hashed(c, h) == [c EXCEPT !.sha = h]
AbortCall(u) == Empty(C("abort_upload", << >>, u))
CleanupCall == Empty(C("cleanup", << >>, None))
ReadCall(path) == Empty(C("read_file", path, None))

\* Writers and readers of /d/a, and the two uploads to it.
FileCalls == {Write_(<<"d", "a">>), Empty(Write_(<<"d", "a">>)),
              Atomic(<<"d", "a">>), Excl(Atomic(<<"d", "a">>)), ReadCall(<<"d", "a">>),
              Finish(10), Finish(11), Hashed(Finish(10), "differ")}

\* Appends to /a while it is written, replaced, moved away or deleted, and while
\* the uploads expire.
AppendCalls == {Part(10), Finish(10), Finish(11), Hashed(Finish(11), "differ"),
                Sized(Finish(10), "bad"), Sized(Finish(11), "differ"), Write_(<<"a">>), Atomic(<<"a">>), CleanupCall,
                Meta(<<"a">>, "k"), Meta(<<"a">>, "l")}

\* Uploads of two filesystems, every id known to all, that may expire: two
\* cleanups then delete them in either order.
TenantCalls == {Start(<<"a">>), Start(<< >>), Part(12), Finish(10), Finish(12),
                Finish(13), AbortCall(11), AbortCall(12), CleanupCall,
                Atomic(<<"d", "a">>), Meta(<< >>, "k")}
=============================================================================

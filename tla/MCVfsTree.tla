----------------------------- MODULE MCVfsTree -----------------------------
(* Small instances of VfsTree: node ids are numbers, names are strings. *)
EXTENDS VfsTree, TLC

CONSTANTS s1, s2

MCSess == {s1, s2}
MCName == {"a", "b", "d"}

MCNode13 == 0..13

Sessions == Permutations(Sess)

NoRow == [st |-> "free", parent |-> None, name |-> None, dir |-> FALSE]
RootRow == NodeRow(None, None, TRUE)

\* The file /d/a, and the directories /a/b and /b/d.
DirTree == [n \in Node |-> CASE n = Root -> RootRow
                             [] n = 1 -> NodeRow(Root, "d", TRUE)
                             [] n = 2 -> NodeRow(1, "a", FALSE)
                             [] n = 3 -> NodeRow(Root, "a", TRUE)
                             [] n = 4 -> NodeRow(3, "b", TRUE)
                             [] n = 5 -> NodeRow(Root, "b", TRUE)
                             [] n = 6 -> NodeRow(5, "d", TRUE)
                             [] OTHER -> NoRow]

Create(path, dir) == [op |-> "create_node", path |-> path, dst |-> << >>, dir |-> dir]
Delete(path) == [op |-> "delete_node", path |-> path, dst |-> << >>, dir |-> FALSE]
Move(path, dst) == [op |-> "move_node", path |-> path, dst |-> dst, dir |-> FALSE]
MkDir(path) == [op |-> "create_directory", path |-> path, dst |-> << >>, dir |-> FALSE]

\* Also /b/a, a file that a race has left with the directory /b/a/d.
RacedTree == [DirTree EXCEPT ![7] = NodeRow(5, "a", FALSE), ![8] = NodeRow(7, "d", TRUE)]

\* Creations, deletions and moves that meet in one directory, and moves of two
\* directories into one another, each legal alone.
MeetingCalls == {Create(<<"d", "b">>, FALSE), Create(<<"d", "a">>, TRUE),
                 Create(<<"d", "a", "b">>, FALSE),
                 Delete(<<"d">>), Delete(<<"d", "a">>), Delete(<< >>),
                 Move(<<"d", "a">>, <<"a", "a">>), Move(<<"d", "a">>, <<"d", "b">>),
                 Move(<<"d", "a">>, <<"d", "a">>), Move(<<"d">>, <<"d", "b">>),
                 Move(<<"a">>, <<"b", "d", "a">>), Move(<<"b">>, <<"a", "b", "d">>),
                 Delete(<<"b", "a">>), Move(<<"b", "a">>, <<"b", "a", "d", "b">>),
                 MkDir(<<"d", "b", "a">>), MkDir(<< >>)}

\* create_directory against calls that replace its way by a file, which then
\* moves below itself.
CycleCalls == {MkDir(<<"b", "d", "a">>), Delete(<<"b", "d">>), Create(<<"b", "d">>, FALSE),
               Move(<<"b", "d">>, <<"b", "d", "a", "b">>)}
=============================================================================

---------------------------- MODULE AbstractTree ----------------------------
(***************************************************************************)
(* What the provider's tree operations promise their callers: each call    *)
(* changes the tree in one step, by exactly the change its result reports, *)
(* and one that fails changes nothing, create_directory excepted.  The     *)
(* place is promised only up to the name: paths are resolved component by  *)
(* component, so the parent is some directory the walk met, and a deletion *)
(* some leaf it met.                                                       *)
(***************************************************************************)
EXTENDS Naturals, Sequences, FiniteSets

CONSTANTS Node, Root, Name, Sess, None,
          Calls,   \* the calls: records [op, path, dst, dir]
          Tree0    \* the initial rows, records with st, parent, name, dir

VARIABLES tree,    \* the entry of each node that is there
          used,    \* the node ids ever used; a deleted id never returns
          call,    \* the call each session is in, or None
          ret      \* the result of each session's last call, "none" during one

avars == <<tree, used, call, ret>>

Last(path) == path[Len(path)]

Entry(p, nm, isDir) == [parent |-> p, name |-> nm, dir |-> isDir]

\* The entries of the live rows.
Tree(rows) == [n \in {m \in Node : rows[m].st = "live"} |->
                  Entry(rows[n].parent, rows[n].name, rows[n].dir)]

Init == /\ tree = Tree(Tree0)
        /\ used = {n \in Node : Tree0[n].st # "free"}
        /\ call = [s \in Sess |-> None]
        /\ ret = [s \in Sess |-> "none"]

Present == DOMAIN tree

IsDir(n) == n \in Present /\ tree[n].dir

Children(p) == {n \in Present : tree[n].parent = p}

NameFree(p, nm) == \A n \in Children(p) : tree[n].name # nm

\* A set of nodes closed under "parent" that contains n contains n's ancestors.
Below(n, top) == \A S \in SUBSET Present :
                     n \in S /\ (\A m \in S \ {Root} : tree[m].parent \in S) => top \in S

Add(p, nm, isDir) ==
    \E n \in Node \ used :
        /\ IsDir(p) /\ NameFree(p, nm)
        /\ tree' = [m \in Present \cup {n} |-> IF m = n THEN Entry(p, nm, isDir)
                                               ELSE tree[m]]
        /\ used' = used \cup {n}

\* create_directory may add several directories at once, or none; unlike the
\* others it does not promise that what they are added to is a directory.
AddDirs ==
    \E N \in SUBSET (Node \ used) :
        \E par \in [N -> Node], nm \in [N -> Name] :
            /\ \A n \in N : \/ par[n] \in Present /\ NameFree(par[n], nm[n])
                            \/ par[n] \in N \ {n}
            /\ \A n, m \in N : par[n] = par[m] /\ nm[n] = nm[m] => n = m
            /\ tree' = [n \in Present \cup N |-> IF n \in N THEN Entry(par[n], nm[n], TRUE)
                                                ELSE tree[n]]
            /\ used' = used \cup N

\* delete_node takes one node, and with a file what create_directory has put
\* below it.
Remove == \E N \in SUBSET (Present \ {Root}) :
    \E top \in N :
        /\ \A m \in N : Children(m) \subseteq N
        /\ \A m \in N \ {top} : tree[m].parent \in N
        /\ tree[top].dir => N = {top}
        /\ tree' = [n \in Present \ N |-> tree[n]]
        /\ used' = used

\* move_node: no directory into itself or below; of a file that is not promised.
Reparent(nm) == \E n \in Present \ {Root}, p \in Present :
                    /\ IsDir(p) /\ NameFree(p, nm) /\ (tree[n].dir => ~Below(p, n))
                    /\ tree' = [tree EXCEPT ![n].parent = p, ![n].name = nm]
                    /\ used' = used

Nothing == UNCHANGED <<tree, used>>

Begin(s) == /\ call[s] = None
            /\ \E c \in Calls : call' = [call EXCEPT ![s] = c]
            /\ ret' = [ret EXCEPT ![s] = "none"]
            /\ Nothing

End(s, result) == /\ call[s] # None
                  /\ call' = [call EXCEPT ![s] = None]
                  /\ ret' = [ret EXCEPT ![s] = result]

\* True is returned exactly with the change the operation is for.
Succeed(s) ==
    /\ End(s, "true")
    /\ \E c \in {call[s]} :
       \/ c.op = "create_node" /\ \E p \in Node : Add(p, Last(c.path), c.dir)
       \/ c.op = "delete_node" /\ Remove
       \/ c.op = "move_node" /\ IF c.path = c.dst THEN Nothing ELSE Reparent(Last(c.dst))
       \/ c.op = "create_directory" /\ AddDirs

\* False and an exception are returned with none; but a create_directory that
\* fails in the middle of its path keeps the directories it has added.
Refuse(s) == \/ (End(s, "false") \/ End(s, "error")) /\ Nothing
             \/ End(s, "false") /\ call[s].op = "create_directory" /\ AddDirs

\* Calls on the root are answered without a transaction.
AtRoot(s) == /\ call[s] = None
             /\ \E r \in {"true", "false"} : ret' = [ret EXCEPT ![s] = r]
             /\ UNCHANGED call /\ Nothing

Next == \E s \in Sess : Begin(s) \/ Succeed(s) \/ Refuse(s) \/ AtRoot(s)

Spec == Init /\ [][Next]_avars
=============================================================================

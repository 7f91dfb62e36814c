--------------------------- MODULE MCFsOperations ---------------------------
(* Three clients on a tree of six paths. *)
EXTENDS FsOperations, TLC

Clients == Permutations(Client)

D == <<"d">>
F == <<"d", "f">>
E == <<"d", "e">>
G == <<"d", "e", "f">>
H == <<"h">>
HF == <<"h", "f">>

MCPath == {D, F, E, G, H, HF}

MCTree0 == [p \in MCPath |-> CASE p \in {D, E} -> Dir
                               [] p = F -> File(<<8, 9>>)
                               [] OTHER -> Absent]

C(op, p, q, n, flag) == [op |-> op, path |-> p, dst |-> q, size |-> n, flag |-> flag]
Root == << >>

MCCalls == {C("mkdir", E, Root, 0, TRUE), C("mkdir", E, Root, 0, FALSE),
            C("pipe", G, Root, 1, TRUE), C("pipe", F, Root, 2, FALSE), C("pipe", F, Root, 1, FALSE),
            C("cp", F, G, 0, FALSE), C("cp", E, H, 0, FALSE),
            C("rename", F, H, 0, FALSE), C("rename", F, E, 0, FALSE), C("rename", F, D, 0, FALSE),
            C("rename", F, F, 0, FALSE), C("rename", E, D, 0, FALSE),
            C("mv", D, H, 0, FALSE),
            C("rm", D, Root, 0, TRUE), C("rm", E, Root, 0, FALSE), C("rm", Root, Root, 0, FALSE),
            C("get", F, Root, 0, FALSE), C("ls", D, Root, 0, FALSE)}
=============================================================================

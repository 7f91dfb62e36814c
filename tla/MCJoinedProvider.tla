-------------------------- MODULE MCJoinedProvider --------------------------
(* A pooled provider and two joined ones, on four kinds of database. *)
EXTENDS JoinedProvider

CONSTANTS p, j, a

MCConn == {p, j, a}
MCMode == [c \in MCConn |-> IF c = p THEN "pool" ELSE IF c = j THEN "joined" ELSE "auto"]
MCName == {1, 2}

MCCalls == [op : {"initialize", "write", "delete", "read"}, name : {1}, dst : {1}]
           \cup [op : {"create"}, name : {2}, dst : {2}]
           \cup [op : {"move"}, name : {1}, dst : {2}]

Current == {<<"tables">>, <<"index">>, <<"root">>, <<"node", 1>>}
Older == {<<"tables">>, <<"oldindex">>, <<"root">>, <<"node", 1>>}

MCDbs0 == {{}, Older, Older \cup {<<"duplicates">>}, Current}
=============================================================================

------------------------------- MODULE PgRows -------------------------------
(***************************************************************************)
(* What PostgreSQL gives the provider at READ COMMITTED, for the one table *)
(* vfs_nodes: multi-version rows, row locks, a unique index on             *)
(* (parent_id, name) and a self-referencing foreign key.                   *)
(*                                                                         *)
(* A row has a committed version, db[n], and a latest version, new[n],     *)
(* which differs from it only while the transaction owner[n] is open.  A   *)
(* session reads committed versions and its own.  owner[n] holds the row   *)
(* FOR UPDATE (an INSERT or DELETE of the row counts as such); shares[n]   *)
(* are the sessions holding it FOR KEY SHARE, the lock a foreign-key check *)
(* takes on the referenced row.                                            *)
(*                                                                         *)
(* A row is a record with at least st, parent and name; st is "free" for   *)
(* an id that no row has used and "dead" for one whose row is deleted.     *)
(***************************************************************************)
EXTENDS Naturals, Sequences, FiniteSets

CONSTANTS Node,   \* node ids, the primary key of vfs_nodes
          Root,   \* the id of the filesystem's root row
          Name,   \* file and directory names
          Sess,   \* sessions: one pooled connection, one transaction at a time
          None    \* SQL NULL

ASSUME PgAssumption == /\ Root \in Node
                       /\ None \notin Node /\ None \notin Sess /\ None \notin Name

VARIABLES db,      \* the committed version of every row
          new,     \* the latest version of every row
          owner,   \* the session holding the row FOR UPDATE, or None
          shares   \* the sessions holding the row FOR KEY SHARE

rowVars == <<db, new, owner, shares>>

-----------------------------------------------------------------------------
(* Reading *)

\* The version of row n a statement of session s sees.
Seen(s, n) == IF owner[n] = s THEN new[n] ELSE db[n]

Live(s, n) == Seen(s, n).st = "live"

\* Row version v is an entry of the sibling index under (parent, name).
Holds(v, p, nm) == v.st = "live" /\ v.parent = p /\ v.name = nm

\* Two row versions that the unique index does not let stand together.
SameEntry(v, w) == v.parent # None /\ Holds(v, v.parent, v.name)
                                   /\ Holds(w, v.parent, v.name)

\* SELECT ... WHERE parent_id = p AND name = nm.
ChildIds(s, p, nm) == {n \in Node : Holds(Seen(s, n), p, nm)}

Child(s, p, nm) == IF ChildIds(s, p, nm) = {} THEN None
                   ELSE CHOOSE n \in ChildIds(s, p, nm) : TRUE

\* SELECT ... WHERE parent_id = p.
ChildrenOf(s, p) == {n \in Node : Live(s, n) /\ Seen(s, n).parent = p}

-----------------------------------------------------------------------------
(* Locking *)

\* Mutant: FOR NO KEY UPDATE, which a foreign-key check does not wait for.
NoKeyWaits(s, n) == {owner[n]} \ {s, None}

\* The sessions that s waits for to take row n FOR UPDATE ...
LockWaits(s, n) == (shares[n] \cup {owner[n]}) \ {s, None}

Lock(s, n) == owner' = [owner EXCEPT ![n] = s]

\* ... and FOR KEY SHARE, which conflicts only with another's FOR UPDATE.
ShareWaits(s, n) == {owner[n]} \ {s, None}

Share(s, n) == shares' = [shares EXCEPT ![n] = @ \cup {s}]

-----------------------------------------------------------------------------
(* Writing *)

\* The unique index makes s wait for every open transaction that inserted,
\* moved or deleted an entry (p, nm): its outcome decides the conflict.
UniqueRivals(s, p, nm) ==
    {n \in Node : /\ owner[n] \notin {s, None}
                  /\ new[n] # db[n]
                  /\ Holds(new[n], p, nm) \/ Holds(db[n], p, nm)}

\* Mutant: an index that is not unique.
NoUniqueWaits(s, p, nm) == {}

UniqueWaits(s, p, nm) == {owner[n] : n \in UniqueRivals(s, p, nm)}

UniqueConflict(s, p, nm) == ChildIds(s, p, nm) # {}

FreeIds == {n \in Node : new[n].st = "free" /\ owner[n] = None}

\* gen_random_uuid(): an id no row has had.
FreshId == CHOOSE n \in FreeIds : TRUE

InsertRow(s, n, row) ==
    /\ new' = [new EXCEPT ![n] = row]
    /\ owner' = [owner EXCEPT ![n] = s]

-----------------------------------------------------------------------------
(* Transaction end: both outcomes release every row lock of the session *)

ReleaseRows(s) ==
    /\ owner' = [n \in Node |-> IF owner[n] = s THEN None ELSE owner[n]]
    /\ shares' = [n \in Node |-> shares[n] \ {s}]

CommitRows(s) == /\ db' = [n \in Node |-> Seen(s, n)]
                 /\ new' = new
                 /\ ReleaseRows(s)

RollbackRows(s) == /\ db' = db
                   /\ new' = [n \in Node |-> IF owner[n] = s THEN db[n] ELSE new[n]]
                   /\ ReleaseRows(s)
=============================================================================

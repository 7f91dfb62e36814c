--------------------------- MODULE FilesRefinement ---------------------------
(***************************************************************************)
(* VfsFiles implements AbstractFiles, for any sets of nodes, uploads,      *)
(* sessions and calls: each call takes effect in one step, by the change   *)
(* that its result reports (AtomicFiles of VfsFiles).                      *)
(*                                                                         *)
(* Until its COMMIT a call changes nothing that others see, so the step is *)
(* the COMMIT, or the SELECT of read_file.  The invariant says, for each   *)
(* statement a call may be about to execute, how the rows it has locked    *)
(* differ from the committed ones, and that what it found before it locked *)
(* anything is still true enough for the rest of the call.                 *)
(***************************************************************************)
EXTENDS FilesProofs

-----------------------------------------------------------------------------
(* What an open transaction has done *)

\* What a caller sees of a row.
Face(v) == [parent |-> v.parent, name |-> v.name, dir |-> v.dir, data |-> v.data,
            meta |-> v.meta]

\* The rows that s has locked are as they were ...
RowsClean(s) == \A n \in Node : owner[n] = s => new[n] = db[n]

\* ... but for row r.
OnlyRow(s, r) == /\ r \in Node /\ owner[r] = s
                 /\ \A n \in Node \ {r} : owner[n] = s => new[n] = db[n]

UpsClean(s) == \A u \in Upload : uowner[u] = s => unew[u] = udb[u]

OnlyUp(s, u) == /\ u \in Upload /\ uowner[u] = s
                /\ \A w \in Upload \ {u} : uowner[w] = s => unew[w] = udb[w]

\* The directory that s keeps from being deleted while it inserts below it.
Anchor(s, p) == /\ p \in Node /\ s \in shares[p]
                /\ db[p].st = "live" /\ db[p].dir

\* s has created row r with content d.
Made(s, r, nm, d) ==
    /\ OnlyRow(s, r) /\ db[r].st = "free" /\ new[r].st = "live"
    /\ Anchor(s, new[r].parent)
    /\ Face(new[r]) = [Face(FileRow(new[r].parent, nm)) EXCEPT !.data = d]

\* s has given the file of row r the content d.
Wrote(s, r, d) ==
    /\ OnlyRow(s, r) /\ db[r].st = "live" /\ ~db[r].dir /\ new[r].st = "live"
    /\ Face(new[r]) = [Face(db[r]) EXCEPT !.data = d]

\* s has set a key of the metadata of row r.
Tagged(s, r, k, x) ==
    /\ OnlyRow(s, r) /\ db[r].st = "live" /\ new[r].st = "live"
    /\ Face(new[r]) = [Face(db[r]) EXCEPT !.meta[k] = x]

\* What a caller sees of an upload v that has grown to d, and of v.
Grown(v, d) == [root |-> v.root, name |-> Base(v.path), excl |-> v.excl, app |-> v.app,
                data |-> d]

UpFace(v) == Grown(v, v.data)

OwnUp(s, u) == udb[u].st = "live" /\ udb[u].root = RootOf[s]

\* s has discarded its upload u.
Dropped(s, u) == OnlyUp(s, u) /\ OwnUp(s, u) /\ unew[u].st = "dead"

\* s has discarded some of its uploads.
Swept(s) == \A u \in Upload : uowner[u] = s =>
                unew[u] = udb[u] \/ (OwnUp(s, u) /\ unew[u].st = "dead")

Created(s, nm, d) == \E r \in Node : Made(s, r, nm, d)

\* A replacement whose file was deleted before it could lock it goes through when it
\* has no chunks to insert.
Overwrote(s, d) == (RowsClean(s) /\ d = << >>) \/ \E r \in Node : Wrote(s, r, d)

\* What becomes of the content of row version v when upload x is published to it.
Merged(v, x) == IF x.app THEN v.data \o x.data ELSE x.data

\* s has published its upload u.
Published(s, u) == \/ Created(s, Base(udb[u].path), udb[u].data)
                   \/ ~udb[u].excl /\ \E r \in Node : Wrote(s, r, Merged(db[r], udb[u]))

\* s has inserted the upload that call c starts.
Started(s, c) == \E u \in Upload :
    /\ OnlyUp(s, u) /\ udb[u].st = "free" /\ unew[u].st = "live"
    /\ UpFace(unew[u]) = [root |-> RootOf[s], name |-> Base(c.path), excl |-> c.excl,
                          app |-> c.app, data |-> << >>]

\* s has added x to its upload u.
Extended(s, u, x) ==
    /\ OnlyUp(s, u) /\ OwnUp(s, u) /\ unew[u].st = "live"
    /\ UpFace(unew[u]) = Grown(udb[u], udb[u].data \o x)

\* What the transaction of a call that returns True has done.
Succeeded(s, c, x) ==
    \/ c.op = "write_file" /\ UpsClean(s) /\ Overwrote(s, x)
    \/ /\ c.op = "write_file_atomic" /\ UpsClean(s)
       /\ Created(s, Base(c.path), x) \/ (~c.excl /\ Overwrote(s, x))
    \/ c.op = "set_metadata" /\ UpsClean(s) /\ \E r \in Node : Tagged(s, r, c.key, x[1])
    \/ c.op = "start_upload" /\ RowsClean(s) /\ Started(s, c)
    \/ c.op = "upload_part" /\ RowsClean(s) /\ Extended(s, c.up, x)
    \/ c.op = "finish_upload" /\ Dropped(s, c.up) /\ Published(s, c.up)
    \/ c.op = "abort_upload" /\ Dropped(s, c.up) /\ RowsClean(s)
    \/ c.op = "cleanup" /\ Swept(s) /\ RowsClean(s)

Refused(s, c) ==
    \/ RowsClean(s) /\ UpsClean(s)
    \/ /\ c.op = "finish_upload" /\ Dropped(s, c.up)
       /\ RowsClean(s) \/ (c.sha = "differ" /\ Created(s, Base(udb[c.up].path), << >>))

Raised(s, c) ==
    /\ RowsClean(s)
    /\ UpsClean(s) \/ (c.op \in {"upload_part", "finish_upload"} /\ Dropped(s, c.up))

Result(s) == LET c == f[s].call IN
    \/ f[s].out = "true" /\ Succeeded(s, c, f[s].content)
    \/ f[s].out = "false" /\ Refused(s, c)
    \/ f[s].out = "error" /\ Raised(s, c)

\* The INSERT's new row, before its content.
Inserted(s) == /\ f[s].call.op \in MakeOps
               /\ OnlyRow(s, f[s].row) /\ db[f[s].row].st = "free"
               /\ new[f[s].row] = FileRow(f[s].cur, Base(Path(s)))

\* The file that s found, and what it will replace or append to.
Target(s) == /\ RowsClean(s)
             /\ db[f[s].row].st # "free" /\ ~db[f[s].row].dir
             /\ f[s].call.op \in MakeOps => ~Exclusive(s)
             /\ pc[s] = "publish" => f[s].size = new[f[s].row].size

Putting == {"write", "publish"}

\* What the transaction of s has done so far.
SoFar(s) ==
    /\ pc[s] \notin Putting \cup {"fk", "commit"} => RowsClean(s)
    /\ pc[s] = "fk" => Inserted(s)
    /\ pc[s] \in Putting => IF f[s].made THEN Inserted(s) /\ Anchor(s, f[s].cur)
                            ELSE Target(s)
    /\ pc[s] \notin {"commit", "cl_delete"} => UpsClean(s)
    /\ pc[s] = "cl_delete" => Swept(s)
    /\ pc[s] = "commit" => Result(s)

\* What it has found and decided.
Knows(s) ==
    /\ pc[s] \in {"insert", "again", "fk"} => db[f[s].cur].st # "free" /\ db[f[s].cur].dir
    /\ pc[s] \in {"walk", "insert", "again", "fin_upload", "fin_node"} => ~f[s].made
    /\ pc[s] = "again" => ~Exclusive(s)
    /\ pc[s] = "ab_delete" => IF f[s].out = "error"
                              THEN f[s].call.op \in {"upload_part", "finish_upload"}
                              ELSE f[s].call.op = "abort_upload"

\* A row keeps its id, its kind and its entry while a transaction changes it.
Fixed(n) == db[n].st # "free" => /\ new[n].st = db[n].st /\ new[n].dir = db[n].dir
                                 /\ new[n].parent = db[n].parent
                                 /\ new[n].name = db[n].name

\* A row that is being inserted has its entry for itself.
NoTwin(n) == db[n].st = "free" /\ new[n].st = "live" =>
                 \A m \in Node \ {n} : new[m].st = "live" =>
                     ~(new[m].parent = new[n].parent /\ new[m].name = new[n].name)

RefInv == /\ \A n \in Node : Fixed(n) /\ NoTwin(n)
          /\ \A s \in Sess : SoFar(s) /\ Knows(s)
          /\ left <= MaxCalls

\* The inductive invariant.
RefOK == TenantOK /\ RefInv

-----------------------------------------------------------------------------
(* A step of another session, and the calls of t *)

\* What t has locked, anchored and found is as it was.
Spared(t) ==
    /\ f'[t] = f[t] /\ pc'[t] = pc[t]
    /\ \A n \in Node :
          /\ owner'[n] = t <=> owner[n] = t
          /\ owner[n] = t => new'[n] = new[n] /\ db'[n] = db[n]
          /\ t \in shares[n] => t \in shares'[n]
          /\ t \in shares[n] /\ db[n].st = "live" => db'[n].st = "live"
          /\ db[n].st # "free" => db'[n].st # "free" /\ db'[n].dir = db[n].dir
    /\ \A u \in Upload :
          /\ uowner'[u] = t <=> uowner[u] = t
          /\ uowner[u] = t => unew'[u] = unew[u] /\ udb'[u] = udb[u]

LEMMA SparedRows ==
    ASSUME NEW t \in Sess, Spared(t)
    PROVE  /\ RowsClean(t) => RowsClean(t)'
           /\ UpsClean(t) => UpsClean(t)'
           /\ Swept(t) => Swept(t)'
           /\ \A r \in Node : OnlyRow(t, r) => OnlyRow(t, r)'
           /\ \A u \in Upload : /\ OnlyUp(t, u) => OnlyUp(t, u)'
                                /\ Dropped(t, u) => Dropped(t, u)'
           /\ \A p \in Node : Anchor(t, p) => Anchor(t, p)'
<1>1. RowsClean(t) => RowsClean(t)'
  BY DEF Spared, RowsClean
<1>2. UpsClean(t) => UpsClean(t)'
  BY DEF Spared, UpsClean
<1>3. Swept(t) => Swept(t)'
  BY DEF Spared, Swept, OwnUp
<1>4. \A r \in Node : OnlyRow(t, r) => OnlyRow(t, r)'
  BY DEF Spared, OnlyRow
<1>5. \A u \in Upload : OnlyUp(t, u) => OnlyUp(t, u)'
  BY DEF Spared, OnlyUp
<1>6. \A u \in Upload : Dropped(t, u) => Dropped(t, u)'
  <2> SUFFICES ASSUME NEW u \in Upload, Dropped(t, u) PROVE Dropped(t, u)'
    OBVIOUS
  <2>1. OnlyUp(t, u)' /\ unew'[u] = unew[u] /\ udb'[u] = udb[u]
    BY <1>5 DEF Dropped, Spared, OnlyUp
  <2> QED
    BY <2>1 DEF Dropped, OwnUp
<1>7. \A p \in Node : Anchor(t, p) => Anchor(t, p)'
  BY DEF Spared, Anchor
<1> QED
  BY <1>1, <1>2, <1>3, <1>4, <1>5, <1>6, <1>7

LEMMA SparedMade ==
    ASSUME NEW t \in Sess, Spared(t), NEW r \in Node, NEW nm, NEW d, Made(t, r, nm, d)
    PROVE  Made(t, r, nm, d)'
<1>1. OnlyRow(t, r)' /\ new'[r] = new[r] /\ db'[r] = db[r]
  BY SparedRows DEF Made, Spared, OnlyRow
<1>2. PICK p \in Node : p = new[r].parent /\ Anchor(t, p)
  BY DEF Made, Anchor
<1>3. Anchor(t, p)'
  BY <1>2, SparedRows
<1>4. Anchor(t, new[r].parent)'
  BY <1>1, <1>2, <1>3 DEF Anchor
<1> QED
  BY <1>1, <1>4 DEF Made, Face, FileRow

LEMMA SparedWrote ==
    ASSUME NEW t \in Sess, Spared(t), NEW r \in Node, NEW d, Wrote(t, r, d)
    PROVE  Wrote(t, r, d)'
<1>1. OnlyRow(t, r)' /\ new'[r] = new[r] /\ db'[r] = db[r]
  BY SparedRows DEF Wrote, Spared, OnlyRow
<1> QED
  BY <1>1 DEF Wrote, Face

LEMMA SparedTagged ==
    ASSUME NEW t \in Sess, Spared(t), NEW r \in Node, NEW k, NEW x, Tagged(t, r, k, x)
    PROVE  Tagged(t, r, k, x)'
<1>1. OnlyRow(t, r)' /\ new'[r] = new[r] /\ db'[r] = db[r]
  BY SparedRows DEF Tagged, Spared, OnlyRow
<1> QED
  BY <1>1 DEF Tagged, Face

LEMMA SparedDone ==
    ASSUME NEW t \in Sess, Spared(t)
    PROVE  /\ \A nm, d : Created(t, nm, d) => Created(t, nm, d)'
           /\ \A d : Overwrote(t, d) => Overwrote(t, d)'
           /\ \A c : Started(t, c) => Started(t, c)'
           /\ \A u, x : Extended(t, u, x) => Extended(t, u, x)'
           /\ \A u \in Upload : uowner[u] = t /\ Published(t, u) => Published(t, u)'
<1>1. ASSUME NEW nm, NEW d, Created(t, nm, d) PROVE Created(t, nm, d)'
  BY <1>1, SparedMade DEF Created
<1>2. ASSUME NEW d, Overwrote(t, d) PROVE Overwrote(t, d)'
  BY <1>2, SparedWrote, SparedRows DEF Overwrote
<1>3. ASSUME NEW c, Started(t, c) PROVE Started(t, c)'
  <2>1. PICK u \in Upload :
          /\ OnlyUp(t, u) /\ udb[u].st = "free" /\ unew[u].st = "live"
          /\ UpFace(unew[u]) = [root |-> RootOf[t], name |-> Base(c.path), excl |-> c.excl,
                                app |-> c.app, data |-> << >>]
    BY <1>3 DEF Started
  <2>2. OnlyUp(t, u)' /\ unew'[u] = unew[u] /\ udb'[u] = udb[u]
    BY <2>1, SparedRows DEF OnlyUp, Spared
  <2> QED
    BY <2>1, <2>2 DEF Started, UpFace, Grown
<1>4. ASSUME NEW u, NEW x, Extended(t, u, x) PROVE Extended(t, u, x)'
  <2>1. /\ u \in Upload /\ OnlyUp(t, u) /\ OwnUp(t, u) /\ unew[u].st = "live"
        /\ UpFace(unew[u]) = Grown(udb[u], udb[u].data \o x)
    BY <1>4 DEF Extended, OnlyUp
  <2>2. OnlyUp(t, u)' /\ unew'[u] = unew[u] /\ udb'[u] = udb[u]
    BY <2>1, SparedRows DEF OnlyUp, Spared
  <2> QED
    BY <2>1, <2>2 DEF Extended, UpFace, Grown, OwnUp
<1>5. ASSUME NEW u \in Upload, uowner[u] = t, Published(t, u) PROVE Published(t, u)'
  <2>1. PICK x : x = udb[u] /\ udb'[u] = x
    BY <1>5 DEF Spared
  <2>2. CASE Created(t, Base(x.path), x.data)
    <3>1. Created(t, Base(x.path), x.data)'
      BY <1>1, <2>2
    <3> QED
      BY <2>1, <3>1 DEF Published
  <2>3. CASE ~x.excl /\ \E r \in Node : Wrote(t, r, Merged(db[r], x))
    <3>1. PICK r \in Node : Wrote(t, r, Merged(db[r], x))
      BY <2>3
    <3>2. PICK d : d = Merged(db[r], x)
      OBVIOUS
    <3>3. Wrote(t, r, d)' /\ db'[r] = db[r]
      BY <3>1, <3>2, SparedWrote DEF Wrote, OnlyRow, Spared
    <3>4. Wrote(t, r, Merged(db[r], udb[u]))'
      BY <2>1, <3>2, <3>3 DEF Merged
    <3> QED
      BY <2>1, <2>3, <3>4 DEF Published
  <2> QED
    BY <1>5, <2>1, <2>2, <2>3 DEF Published
<1> QED
  BY <1>1, <1>2, <1>3, <1>4, <1>5

LEMMA SparedSucceeded ==
    ASSUME NEW t \in Sess, Spared(t), NEW c, NEW x, Succeeded(t, c, x)
    PROVE  Succeeded(t, c, x)'
<1>1. CASE c.op = "write_file" /\ UpsClean(t) /\ Overwrote(t, x)
  BY <1>1, SparedRows, SparedDone DEF Succeeded
<1>2. CASE /\ c.op = "write_file_atomic" /\ UpsClean(t)
           /\ Created(t, Base(c.path), x) \/ (~c.excl /\ Overwrote(t, x))
  BY <1>2, SparedRows, SparedDone DEF Succeeded
<1>3. CASE c.op = "set_metadata" /\ UpsClean(t) /\ \E r \in Node : Tagged(t, r, c.key, x[1])
  <2>1. PICK k, y : k = c.key /\ y = x[1]
    OBVIOUS
  <2>2. \E r \in Node : Tagged(t, r, k, y)'
    BY <1>3, <2>1, SparedTagged
  <2> QED
    BY <1>3, <2>1, <2>2, SparedRows DEF Succeeded
<1>4. CASE c.op = "start_upload" /\ RowsClean(t) /\ Started(t, c)
  BY <1>4, SparedRows, SparedDone DEF Succeeded
<1>5. CASE c.op = "upload_part" /\ RowsClean(t) /\ Extended(t, c.up, x)
  BY <1>5, SparedRows, SparedDone DEF Succeeded
<1>6. CASE c.op = "finish_upload" /\ Dropped(t, c.up) /\ Published(t, c.up)
  <2>1. c.up \in Upload /\ uowner[c.up] = t
    BY <1>6 DEF Dropped, OnlyUp
  <2>2. Dropped(t, c.up)' /\ Published(t, c.up)'
    BY <1>6, <2>1, SparedRows, SparedDone
  <2> QED
    BY <1>6, <2>2 DEF Succeeded
<1>7. CASE c.op = "abort_upload" /\ Dropped(t, c.up) /\ RowsClean(t)
  <2>1. c.up \in Upload
    BY <1>7 DEF Dropped, OnlyUp
  <2> QED
    BY <1>7, <2>1, SparedRows DEF Succeeded
<1>8. CASE c.op = "cleanup" /\ Swept(t) /\ RowsClean(t)
  BY <1>8, SparedRows DEF Succeeded
<1> QED
  BY <1>1, <1>2, <1>3, <1>4, <1>5, <1>6, <1>7, <1>8 DEF Succeeded

LEMMA SparedRefused ==
    ASSUME NEW t \in Sess, Spared(t), NEW c, Refused(t, c)
    PROVE  Refused(t, c)'
<1>1. CASE RowsClean(t) /\ UpsClean(t)
  BY <1>1, SparedRows DEF Refused
<1>2. CASE /\ c.op = "finish_upload" /\ Dropped(t, c.up)
           /\ RowsClean(t) \/ (c.sha = "differ" /\ Created(t, Base(udb[c.up].path), << >>))
  <2>1. c.up \in Upload /\ uowner[c.up] = t
    BY <1>2 DEF Dropped, OnlyUp
  <2>2. Dropped(t, c.up)' /\ udb'[c.up] = udb[c.up]
    BY <1>2, <2>1, SparedRows DEF Spared
  <2>3. RowsClean(t)' \/ (c.sha = "differ" /\ Created(t, Base(udb[c.up].path), << >>)')
    <3>1. PICK nm, d : nm = Base(udb[c.up].path) /\ nm = Base(udb'[c.up].path) /\ d = << >>
      BY <2>2
    <3>2. RowsClean(t) => RowsClean(t)'
      BY SparedRows
    <3>3. Created(t, nm, d) => Created(t, nm, d)'
      BY SparedDone
    <3> QED
      BY <1>2, <3>1, <3>2, <3>3
  <2> QED
    BY <1>2, <2>2, <2>3 DEF Refused
<1> QED
  BY <1>1, <1>2 DEF Refused

LEMMA SparedRaised ==
    ASSUME NEW t \in Sess, Spared(t), NEW c, Raised(t, c)
    PROVE  Raised(t, c)'
<1>1. Dropped(t, c.up) => c.up \in Upload
  BY DEF Dropped, OnlyUp
<1> QED
  BY <1>1, SparedRows DEF Raised

LEMMA SparedResult ==
    ASSUME NEW t \in Sess, Spared(t), Result(t)
    PROVE  Result(t)'
<1>1. PICK c, x, out : c = f[t].call /\ x = f[t].content /\ out = f[t].out
  OBVIOUS
<1>2. c = f'[t].call /\ x = f'[t].content /\ out = f'[t].out
  BY <1>1 DEF Spared
<1> QED
  BY <1>1, <1>2, SparedSucceeded, SparedRefused, SparedRaised DEF Result

LEMMA SparedPath ==
    ASSUME FilesInv, NEW t \in Sess, Spared(t), pc[t] \in Holding \cup {"write"}
    PROVE  Path(t)' = Path(t) /\ Exclusive(t)' = Exclusive(t)
<1>1. f'[t] = f[t]
  BY DEF Spared
<1>2. CASE Finishing(t)
  <2>1. pc[t] \in Holding
    BY <1>2, CallFacts DEF PcLocal, LabelOK, Finishing
  <2>2. f[t].call.up \in Upload /\ uowner[f[t].call.up] = t
    BY <1>2, <2>1, HoldsUpload
  <2>3. unew'[f[t].call.up] = unew[f[t].call.up]
    BY <2>2 DEF Spared
  <2> QED
    BY <1>1, <1>2, <2>3 DEF Path, Exclusive, Staged, Finishing
<1>3. CASE ~Finishing(t)
  BY <1>1, <1>3 DEF Path, Exclusive, Finishing
<1> QED
  BY <1>2, <1>3

LEMMA SparedInserted ==
    ASSUME FilesInv, NEW t \in Sess, Spared(t), pc[t] \in {"fk", "write", "publish"},
           Inserted(t)
    PROVE  Inserted(t)'
<1>1. f'[t] = f[t] /\ Path(t)' = Path(t)
  BY SparedPath DEF Spared, Holding
<1>2. PICK r \in Node : r = f[t].row /\ OnlyRow(t, r)
  BY DEF Inserted, OnlyRow
<1>3. OnlyRow(t, r)' /\ new'[r] = new[r] /\ db'[r] = db[r]
  BY <1>2, SparedRows DEF Spared, OnlyRow
<1> QED
  BY <1>1, <1>2, <1>3 DEF Inserted

LEMMA SparedTarget ==
    ASSUME FilesInv, NEW t \in Sess, Spared(t), pc[t] \in Putting, Target(t)
    PROVE  Target(t)'
<1>1. f'[t] = f[t] /\ pc'[t] = pc[t] /\ Exclusive(t)' = Exclusive(t)
  BY SparedPath DEF Spared, Holding, Putting
<1>2. PICK r \in Node : r = f[t].row
  BY CallFacts DEF PcLocal, Putting
<1>3. pc[t] = "publish" => owner[r] = t
  BY <1>2, CallFacts DEF PcHolds
<1>4. RowsClean(t)'
  BY SparedRows DEF Target
<1>5. db'[r].st # "free" /\ ~db'[r].dir /\ (pc[t] = "publish" => f[t].size = new'[r].size)
  BY <1>2, <1>3 DEF Target, Spared
<1> QED
  BY <1>1, <1>2, <1>4, <1>5 DEF Target

LEMMA SparedSoFar ==
    ASSUME FilesInv, NEW t \in Sess, Spared(t), SoFar(t)
    PROVE  SoFar(t)'
<1>1. pc'[t] = pc[t] /\ f'[t] = f[t]
  BY DEF Spared
<1>2. pc[t] \in Putting => IF f[t].made THEN Inserted(t)' /\ Anchor(t, f[t].cur)'
                           ELSE Target(t)'
  <2>1. Anchor(t, f[t].cur) => Anchor(t, f[t].cur)'
    <3>1. PICK p \in Node : p = f[t].cur /\ p = f'[t].cur
      BY <1>1, CallFacts
    <3> QED
      BY <3>1, SparedRows DEF Anchor
  <2> QED
    BY <2>1, SparedInserted, SparedTarget DEF SoFar, Putting
<1>3. pc[t] = "fk" => Inserted(t)'
  BY SparedInserted DEF SoFar
<1>4. pc[t] = "commit" => Result(t)'
  BY SparedResult DEF SoFar
<1> QED
  BY <1>1, <1>2, <1>3, <1>4, SparedRows DEF SoFar

LEMMA SparedKnows ==
    ASSUME FilesInv, NEW t \in Sess, Spared(t), Knows(t)
    PROVE  Knows(t)'
<1>1. f'[t] = f[t] /\ pc'[t] = pc[t] /\ f[t].cur \in Node
  BY CallFacts DEF Spared
<1>2. pc[t] = "again" => Exclusive(t)' = Exclusive(t)
  BY SparedPath DEF Holding
<1> QED
  BY <1>1, <1>2 DEF Knows, Spared

-----------------------------------------------------------------------------
(* A step of s before its COMMIT *)

\* It writes and locks only rows that nobody else has locked.
RowsBy(s) ==
    /\ db' = db
    /\ \A n \in Node : \/ owner'[n] = owner[n] /\ new'[n] = new[n]
                       \/ owner[n] \in {s, None} /\ owner'[n] \in {s, None}
    /\ \A t \in Sess \ {s}, n \in Node : t \in shares[n] => t \in shares'[n]

UpsBy(s) ==
    /\ udb' = udb
    /\ \A u \in Upload : \/ uowner'[u] = uowner[u] /\ unew'[u] = unew[u]
                         \/ uowner[u] \in {s, None} /\ uowner'[u] \in {s, None}

RowInv == \A n \in Node : Fixed(n) /\ NoTwin(n)

LEMMA SparedBy ==
    ASSUME NEW s \in Sess, RowsBy(s), UpsBy(s), Alone(s), NEW t \in Sess \ {s}
    PROVE  Spared(t)
<1>1. t # None /\ t # s
  BY PgAssumption
<1> QED
  BY <1>1 DEF Spared, RowsBy, UpsBy, Alone

LEMMA RefStep ==
    ASSUME RefOK, NEW s \in Sess, RowsBy(s), UpsBy(s), Alone(s), RowInv', SoFar(s)', Knows(s)',
           left' <= MaxCalls
    PROVE  RefInv'
<1>1. ASSUME NEW t \in Sess \ {s} PROVE SoFar(t)' /\ Knows(t)'
  <2>1. Spared(t) /\ FilesInv /\ SoFar(t) /\ Knows(t)
    BY SparedBy DEF RefOK, TenantOK, RefInv
  <2> QED
    BY <2>1, SparedSoFar, SparedKnows
<1> QED
  BY <1>1 DEF RefInv, RowInv

\* The call goes on, and its caller sees nothing of it.
Silent(s) == /\ pc[s] # "idle" /\ pc'[s] # "idle" /\ left' = left
             /\ f'[s].call = f[s].call /\ f'[s].content = f[s].content

Quiet(s) == /\ RowsBy(s) /\ UpsBy(s) /\ Alone(s) /\ Silent(s)
            /\ RowInv' /\ SoFar(s)' /\ Knows(s)'

LEMMA QuietRef ==
    ASSUME RefOK, NEW s \in Sess, Quiet(s)
    PROVE  RefInv'
BY RefStep DEF Quiet, Silent, RefOK, RefInv

-----------------------------------------------------------------------------
(* What a step does to the rows *)

LEMMA RowsStill ==
    ASSUME RefOK, NEW s \in Sess, UNCHANGED rowVars
    PROVE  /\ RowsBy(s) /\ RowInv' /\ (RowsClean(s) => RowsClean(s)')
           /\ \A r : OnlyRow(s, r) => OnlyRow(s, r)'
           /\ \A p : Anchor(s, p) => Anchor(s, p)'
BY DEF RefOK, RefInv, RowInv, rowVars, RowsBy, Fixed, NoTwin, RowsClean, OnlyRow, Anchor

\* A row that s may lock has one version, or is its own.
LEMMA RowFacts ==
    ASSUME RefOK, NEW s \in Sess, NEW n \in Node
    PROVE  /\ db[n] \in Row /\ new[n] \in Row /\ owner[n] \in Sess \cup {None}
           /\ owner[n] = None => new[n] = db[n]
           /\ LockWaits(s, n) = {} => owner[n] \in {s, None} /\ Seen(s, n) = new[n]
           /\ RowsClean(s) => Seen(s, n) = db[n]
           /\ RowsClean(s) /\ LockWaits(s, n) = {} => new[n] = db[n]
           /\ Fixed(n) /\ NoTwin(n)
BY RowSeen
   DEF RefOK, TenantOK, FilesInv, RowsOK, RowsTyped, RefInv, RowsClean, Seen, LockWaits

LEMMA RowsLocked ==
    ASSUME RefOK, NEW s \in Sess, NEW n \in Node, LockWaits(s, n) = {}, Lock(s, n),
           UNCHANGED <<db, new, shares>>
    PROVE  RowsBy(s) /\ RowInv' /\ owner'[n] = s /\ (RowsClean(s) => RowsClean(s)')
<1>1. owner[n] \in {s, None} /\ (owner[n] = None => new[n] = db[n])
  BY RowFacts
<1>2. \A m \in Node : owner'[m] = IF m = n THEN s ELSE owner[m]
  BY DEF Lock, RefOK, TenantOK, FilesInv, RowsOK, RowsTyped
<1>3. RowsBy(s)
  BY <1>1, <1>2 DEF RowsBy
<1>4. RowInv'
  BY DEF RefOK, RefInv, RowInv, Fixed, NoTwin
<1> QED
  BY <1>1, <1>2, <1>3, <1>4 DEF RowsClean

\* s locks row n and changes it to v.
RowChange(s, n, v) == /\ new' = [new EXCEPT ![n] = v] /\ owner' = [owner EXCEPT ![n] = s]
                      /\ UNCHANGED <<db, shares>>

\* A new version of row n at the same entry.
LEMMA RowsPut ==
    ASSUME RefOK, NEW s \in Sess, NEW n \in Node, owner[n] \in {s, None}, NEW v \in Row,
           RowChange(s, n, v),
           v.st = new[n].st, v.dir = new[n].dir, v.parent = new[n].parent, v.name = new[n].name
    PROVE  /\ RowsBy(s) /\ RowInv' /\ new'[n] = v
           /\ RowsClean(s) \/ OnlyRow(s, n) => OnlyRow(s, n)'
<1>1. \A m \in Node : /\ owner'[m] = IF m = n THEN s ELSE owner[m]
                      /\ new'[m] = IF m = n THEN v ELSE new[m]
  BY DEF RowChange, RefOK, TenantOK, FilesInv, RowsOK, RowsTyped
<1>2. RowsBy(s)
  BY <1>1 DEF RowsBy, RowChange
<1>3. \A m \in Node : /\ new'[m].st = new[m].st /\ new'[m].dir = new[m].dir
                      /\ new'[m].parent = new[m].parent /\ new'[m].name = new[m].name
  BY <1>1
<1>4. RowInv'
  BY <1>3 DEF RowChange, RefOK, RefInv, RowInv, Fixed, NoTwin
<1>5. RowsClean(s) \/ OnlyRow(s, n) => OnlyRow(s, n)'
  BY <1>1 DEF RowChange, RowsClean, OnlyRow
<1> QED
  BY <1>1, <1>2, <1>4, <1>5

\* The entry (p, nm) is free for s, and for everyone it does not wait for.
LEMMA EntryFree ==
    ASSUME RefOK, NEW s, s \in Sess \cup {None}, NEW p, NEW nm, UniqueWaits(s, p, nm) = {},
           \A m \in Node : ~Holds(Seen(s, m), p, nm), NEW m \in Node
    PROVE  ~Holds(new[m], p, nm)
<1>1. CASE owner[m] = s
  BY <1>1 DEF Seen
<1>2. CASE owner[m] # s /\ new[m] = db[m]
  BY <1>2 DEF Seen
<1>3. CASE owner[m] # s /\ new[m] # db[m]
  <2>1. owner[m] # None
    BY <1>3 DEF RefOK, TenantOK, FilesInv, RowsOK
  <2>2. Holds(new[m], p, nm) => m \in UniqueRivals(s, p, nm)
    BY <1>3, <2>1 DEF UniqueRivals
  <2> QED
    BY <2>2 DEF UniqueWaits
<1> QED
  BY <1>1, <1>2, <1>3

LEMMA RowsInserted ==
    ASSUME RefOK, NEW s \in Sess, NEW n \in Node, owner[n] = None, db[n].st = "free",
           NEW p \in Node, NEW nm \in Name, \A m \in Node : ~Holds(new[m], p, nm),
           InsertRow(s, n, FileRow(p, nm)), UNCHANGED <<db, shares>>
    PROVE  /\ RowsBy(s) /\ RowInv' /\ new'[n] = FileRow(p, nm)
           /\ RowsClean(s) => OnlyRow(s, n)'
<1> DEFINE v == FileRow(p, nm)
<1>0. v.st = "live" /\ v.parent = p /\ v.name = nm
  BY DEF FileRow
<1> HIDE DEF v
<1>1. \A m \in Node : /\ owner'[m] = IF m = n THEN s ELSE owner[m]
                      /\ new'[m] = IF m = n THEN v ELSE new[m]
  BY DEF InsertRow, RefOK, TenantOK, FilesInv, RowsOK, RowsTyped, v
<1>2. RowsBy(s)
  BY <1>1 DEF RowsBy
<1>3. ASSUME NEW k \in Node PROVE Fixed(k)'
  BY <1>1, RowFacts DEF Fixed
<1>4. ASSUME NEW k \in Node PROVE NoTwin(k)'
  <2>1. CASE k = n
    BY <1>0, <1>1, <2>1 DEF NoTwin, Holds
  <2>2. CASE k # n
    <3>1. NoTwin(k) /\ new'[k] = new[k] /\ ~Holds(new[k], p, nm)
      BY <1>1, <2>2, RowFacts
    <3> QED
      BY <1>0, <1>1, <2>2, <3>1 DEF NoTwin, Holds
  <2> QED
    BY <2>1, <2>2
<1>5. RowsClean(s) => OnlyRow(s, n)'
  BY <1>1 DEF RowsClean, OnlyRow
<1> QED
  BY <1>1, <1>2, <1>3, <1>4, <1>5 DEF RowInv, v

-----------------------------------------------------------------------------
(* What a step does to the uploads *)

LEMMA UpsStill ==
    ASSUME NEW s \in Sess, UNCHANGED uploadVars
    PROVE  /\ UpsBy(s) /\ (UpsClean(s) => UpsClean(s)') /\ (Swept(s) => Swept(s)')
           /\ \A u : Dropped(s, u) => Dropped(s, u)'
BY DEF uploadVars, UpsBy, UpsClean, Swept, Dropped, OnlyUp, OwnUp

LEMMA UpFacts ==
    ASSUME RefOK, NEW s \in Sess, NEW u \in Upload, U!LockWaits(s, u) = {}
    PROVE  /\ uowner[u] \in {s, None} /\ unew[u] \in UploadRow /\ U!Seen(s, u) = unew[u]
           /\ UpsClean(s) => unew[u] = udb[u] /\ (Own(s, u) => OwnUp(s, u))
<1>1. /\ uowner[u] \in {s, None} /\ unew[u] \in UploadRow /\ U!Seen(s, u) = unew[u]
      /\ Own(s, u) => unew[u].st = "live" /\ unew[u].root = RootOf[s]
  BY OwnFacts DEF RefOK
<1>2. uowner[u] = None => unew[u] = udb[u]
  BY DEF RefOK, TenantOK, FilesInv, UpsOK
<1> QED
  BY <1>1, <1>2 DEF UpsClean, OwnUp

\* s locks upload row u and changes it to v.
UpChange(s, u, v) == /\ unew' = [unew EXCEPT ![u] = v] /\ uowner' = [uowner EXCEPT ![u] = s]
                     /\ udb' = udb

LEMMA UpsPut ==
    ASSUME RefOK, NEW s \in Sess, NEW u \in Upload, uowner[u] \in {s, None},
           NEW v \in UploadRow, UpChange(s, u, v)
    PROVE  /\ UpsBy(s) /\ unew'[u] = v /\ uowner'[u] = s
           /\ \A w \in Upload \ {u} : unew'[w] = unew[w] /\ uowner'[w] = uowner[w]
           /\ UpsClean(s) => OnlyUp(s, u)'
<1>1. \A w \in Upload : /\ uowner'[w] = IF w = u THEN s ELSE uowner[w]
                        /\ unew'[w] = IF w = u THEN v ELSE unew[w]
  BY DEF UpChange, RefOK, TenantOK, FilesInv, UpsOK, UpsTyped
<1>2. UpsBy(s)
  BY <1>1 DEF UpsBy, UpChange
<1>3. UpsClean(s) => OnlyUp(s, u)'
  BY <1>1 DEF UpsClean, OnlyUp, UpChange
<1> QED
  BY <1>1, <1>2, <1>3

LEMMA UpsLocked ==
    ASSUME RefOK, NEW s \in Sess, NEW u \in Upload, U!LockWaits(s, u) = {}, U!Lock(s, u),
           UNCHANGED <<udb, unew>>
    PROVE  UpsBy(s) /\ (UpsClean(s) => UpsClean(s)')
<1>1. uowner[u] \in {s, None} /\ (uowner[u] = None => unew[u] = udb[u])
  BY UpFacts DEF RefOK, TenantOK, FilesInv, UpsOK
<1>2. \A w \in Upload : uowner'[w] = IF w = u THEN s ELSE uowner[w]
  BY DEF U!Lock, RefOK, TenantOK, FilesInv, UpsOK, UpsTyped
<1> QED
  BY <1>1, <1>2 DEF UpsBy, UpsClean

LEMMA UpsDropped ==
    ASSUME RefOK, NEW s \in Sess, NEW u \in Upload, uowner[u] \in {s, None}, UpsClean(s),
           OwnUp(s, u),
           unew' = [unew EXCEPT ![u].st = "dead"], uowner' = [uowner EXCEPT ![u] = s],
           udb' = udb
    PROVE  UpsBy(s) /\ Dropped(s, u)'
<1>1. PICK v : v = [unew[u] EXCEPT !.st = "dead"]
  OBVIOUS
<1>2. unew[u] \in UploadRow
  BY DEF RefOK, TenantOK, FilesInv, UpsOK, UpsTyped
<1>3. v \in UploadRow /\ v.st = "dead"
  BY <1>1, <1>2 DEF UploadRow
<1>4. UpChange(s, u, v)
  BY <1>1 DEF UpChange
<1>5. UpsBy(s) /\ unew'[u] = v /\ OnlyUp(s, u)' /\ udb' = udb
  BY <1>3, <1>4, UpsPut
<1> QED
  BY <1>3, <1>5 DEF Dropped, OwnUp

\* A finish_upload has its upload locked, as it is committed.
LEMMA HeldUp ==
    ASSUME RefOK, NEW s \in Sess, Finishing(s), pc[s] \in Holding, UpsClean(s),
           NEW u, u = f[s].call.up
    PROVE  /\ u \in Upload /\ uowner[u] = s /\ OwnUp(s, u) /\ unew[u] = udb[u]
           /\ Staged(s) = udb[u] /\ udb[u].data \in Content
           /\ unew[u] \in UploadRow
<1>1. u \in Upload /\ uowner[u] = s /\ unew[u].st = "live" /\ unew[u] \in UploadRow
  BY HoldsUpload DEF RefOK, TenantOK
<1>2. unew[u] = udb[u]
  BY <1>1 DEF UpsClean
<1>3. UpOwnedOK(s, u)
  BY <1>1 DEF RefOK, TenantOK, TenantInv
<1> QED
  BY <1>1, <1>2, <1>3 DEF UpOwnedOK, OwnUp, Staged, UploadRow

LEMMA DiscardDrops ==
    ASSUME RefOK, NEW s \in Sess, Finishing(s), pc[s] \in Holding, UpsClean(s), Discard(s),
           NEW u, u = f[s].call.up
    PROVE  UpsBy(s) /\ Dropped(s, u)'
<1>1. u \in Upload /\ uowner[u] = s /\ OwnUp(s, u)
  BY HeldUp
<1>2. /\ unew' = [unew EXCEPT ![u].st = "dead"] /\ uowner' = [uowner EXCEPT ![u] = s]
      /\ udb' = udb
  BY <1>1 DEF Discard, RefOK, TenantOK, FilesInv, UpsOK, UpsTyped
<1> QED
  BY <1>1, <1>2, UpsDropped

-----------------------------------------------------------------------------
(* How a statement goes on *)

\* With local variables g at statement label.
LEMMA GoesOn ==
    ASSUME RefOK, NEW s \in Sess, NEW label, NEW g, pc[s] # "idle", label # "idle",
           pc' = [pc EXCEPT ![s] = label], f' = [f EXCEPT ![s] = g], left' = left,
           g.call = f[s].call, g.content = f[s].content
    PROVE  Alone(s) /\ Silent(s) /\ pc'[s] = label /\ f'[s] = g
<1>1. /\ f'[s] = g /\ pc'[s] = label
      /\ \A t \in Sess \ {s} : f'[t] = f[t] /\ pc'[t] = pc[t]
  BY DEF RefOK, TenantOK, FilesInv, LocalsTyped
<1> QED
  BY <1>1 DEF Alone, Silent

\* To a statement before which nothing is changed.
LEMMA ToClean ==
    ASSUME NEW s \in Sess, pc'[s] \notin Putting \cup {"fk", "commit", "cl_delete"},
           RowsClean(s)', UpsClean(s)'
    PROVE  SoFar(s)'
BY DEF SoFar

LEMMA ToCommit ==
    ASSUME NEW s \in Sess, pc'[s] = "commit", Result(s)'
    PROVE  SoFar(s)' /\ Knows(s)'
BY DEF SoFar, Knows, Putting

LEMMA Returns ==
    ASSUME RefOK, NEW s \in Sess, NEW ok \in BOOLEAN, pc[s] # "idle", Return(s, ok),
           left' = left
    PROVE  /\ Alone(s) /\ Silent(s) /\ pc'[s] = "commit"
           /\ f'[s].call = f[s].call /\ f'[s].content = f[s].content
           /\ f'[s].out = IF ok THEN "true" ELSE "false"
<1>1. PICK out : out = IF ok THEN "true" ELSE "false"
  OBVIOUS
<1>2. PICK g : g = [f[s] EXCEPT !.out = out]
  OBVIOUS
<1>3. g.call = f[s].call /\ g.content = f[s].content /\ g.out = out
  BY <1>2, CallFacts DEF RefOK, TenantOK, Frame
<1>4. pc' = [pc EXCEPT ![s] = "commit"] /\ f' = [f EXCEPT ![s] = g]
  BY <1>1, <1>2 DEF Return, Goto
<1>5. Alone(s) /\ Silent(s) /\ pc'[s] = "commit" /\ f'[s] = g
  BY <1>3, <1>4, GoesOn
<1> QED
  BY <1>1, <1>3, <1>5

\* return True, when the transaction has done what it reports.
LEMMA SucceedQuiet ==
    ASSUME RefOK, NEW s \in Sess, pc[s] # "idle", Return(s, TRUE), left' = left,
           RowsBy(s), UpsBy(s), RowInv', NEW c, c = f[s].call, NEW x, x = f[s].content,
           Succeeded(s, c, x)'
    PROVE  Quiet(s)
<1>1. /\ Alone(s) /\ Silent(s) /\ pc'[s] = "commit" /\ f'[s].out = "true"
      /\ f'[s].call = c /\ f'[s].content = x
  BY Returns
<1>2. Result(s)'
  BY <1>1 DEF Result
<1> QED
  BY <1>1, <1>2, ToCommit DEF Quiet

LEMMA FailQuiet ==
    ASSUME RefOK, NEW s \in Sess, pc[s] # "idle", Return(s, FALSE), left' = left,
           RowsBy(s), UpsBy(s), RowInv', NEW c, c = f[s].call, Refused(s, c)'
    PROVE  Quiet(s)
<1>1. /\ Alone(s) /\ Silent(s) /\ pc'[s] = "commit" /\ f'[s].out = "false"
      /\ f'[s].call = c
  BY Returns
<1>2. Result(s)'
  BY <1>1 DEF Result
<1> QED
  BY <1>1, <1>2, ToCommit DEF Quiet

\* return False, after discarding the upload in finish_upload.
LEMMA RefuseQuiet ==
    ASSUME RefOK, NEW s \in Sess, pc[s] \in Holding, Refuse(s), left' = left, UpsClean(s),
           RowsBy(s), RowInv', RowsClean(s)'
    PROVE  Quiet(s)
<1>0. pc[s] # "idle" /\ Return(s, FALSE)
  BY DEF Holding, Refuse
<1>1. PICK c : c = f[s].call
  OBVIOUS
<1>2. CASE Finishing(s)
  <2>1. UpsBy(s) /\ Dropped(s, c.up)'
    BY <1>1, <1>2, DiscardDrops DEF Refuse
  <2>2. Refused(s, c)'
    BY <1>1, <1>2, <2>1 DEF Refused, Finishing
  <2> QED
    BY <1>0, <1>1, <2>1, <2>2, FailQuiet
<1>3. CASE ~Finishing(s)
  <2>1. UpsBy(s) /\ UpsClean(s)'
    BY <1>3, UpsStill DEF Refuse
  <2>2. Refused(s, c)'
    BY <2>1 DEF Refused
  <2> QED
    BY <1>0, <1>1, <2>1, <2>2, FailQuiet
<1> QED
  BY <1>2, <1>3

-----------------------------------------------------------------------------
(* The path walk *)

\* A step of s that leaves it, with nothing changed so far, in the call of fr.
OnTheWay(s, fr) ==
    /\ RowsBy(s) /\ UpsBy(s) /\ Alone(s) /\ RowInv' /\ SoFar(s)' /\ Knows(s)'
    /\ pc'[s] # "idle" /\ f'[s].call = fr.call /\ f'[s].content = fr.content

\* Local variables fr with which a walk may go on.
Clean(s, fr) == /\ fr \in Frame /\ ~fr.made /\ RowsClean(s) /\ UpsClean(s)
                /\ fr.goal = "parent" => /\ pc[s] \in Holding /\ left' = left
                                         /\ fr.call = f[s].call
                                         /\ fr.content = f[s].content

LEMMA WayTo ==
    ASSUME RefOK, NEW s \in Sess, NEW fr, Clean(s, fr), UNCHANGED <<rowVars, uploadVars>>,
           NEW g \in Frame, g.call = fr.call, g.content = fr.content, ~g.made,
           NEW label, pc' = [pc EXCEPT ![s] = label], f' = [f EXCEPT ![s] = g],
           label \in {"insert", "fin_node", "read", "meta", "commit", "write", "walk"},
           label = "insert" => db[g.cur].st # "free" /\ db[g.cur].dir,
           label = "commit" => g.out = "false",
           label = "write" => /\ db[g.row].st # "free" /\ ~db[g.row].dir
                              /\ g.call.op \in MakeOps => ~g.call.excl /\ g.call.op # "finish_upload"
    PROVE  OnTheWay(s, fr)
<1>1. /\ f'[s] = g /\ pc'[s] = label
      /\ \A t \in Sess \ {s} : f'[t] = f[t] /\ pc'[t] = pc[t]
  BY DEF RefOK, TenantOK, FilesInv, LocalsTyped
<1>2. RowsBy(s) /\ RowInv' /\ RowsClean(s)' /\ UpsBy(s) /\ UpsClean(s)' /\ UNCHANGED rowVars
  BY RowsStill, UpsStill DEF Clean
<1>3. label = "write" => Target(s)'
  BY <1>1, <1>2 DEF Target, Exclusive, Finishing, rowVars
<1>4. label = "commit" => Result(s)'
  BY <1>1, <1>2 DEF Result, Refused
<1>5. SoFar(s)'
  BY <1>1, <1>2, <1>3, <1>4 DEF SoFar, Putting
<1>6. Knows(s)'
  BY <1>1, <1>2 DEF Knows, rowVars
<1> QED
  BY <1>1, <1>2, <1>5, <1>6 DEF OnTheWay, Alone

LEMMA FoundWay ==
    ASSUME RefOK, NEW s \in Sess, NEW fr, Clean(s, fr), UNCHANGED rowVars, NEW n \in Node,
           db[n].st # "free", Found(s, fr, n)
    PROVE  OnTheWay(s, fr)
<1> DEFINE fr1 == [fr EXCEPT !.cur = n, !.rest = << >>]
           fr2 == [fr1 EXCEPT !.row = n]
           fr3 == [fr1 EXCEPT !.out = "false"]
           refused == Seen(s, n).dir \/ (fr.call.op = "write_file_atomic" /\ fr.call.excl)
<1>0. fr \in Frame /\ ~fr.made /\ Seen(s, n) = db[n] /\ fr.goal \in {"node", "parent"}
  BY RowFacts DEF Clean, Frame
<1>1. fr1 \in Frame /\ fr2 \in Frame /\ fr3 \in Frame /\ fr2.row = n /\ fr1.cur = n
      /\ fr3.out = "false"
  BY <1>0, EmptySeq DEF Frame
<1>2. /\ fr1.call = fr.call /\ fr1.content = fr.content /\ ~fr1.made
      /\ fr2.call = fr.call /\ fr2.content = fr.content /\ ~fr2.made
      /\ fr3.call = fr.call /\ fr3.content = fr.content /\ ~fr3.made
  BY <1>0 DEF Frame
<1> HIDE DEF fr1, fr2, fr3
<1>3. CASE fr.goal = "parent" /\ Seen(s, n).dir
  <2>1. Goto(s, "insert") /\ f' = [f EXCEPT ![s] = fr1] /\ UNCHANGED uploadVars
    BY <1>3 DEF Found, fr1
  <2> QED
    BY <1>0, <1>1, <1>2, <1>3, <2>1, WayTo DEF Goto
<1>4. CASE fr.goal = "parent" /\ ~Seen(s, n).dir
  <2>1. Refuse(s) /\ pc[s] \in Holding /\ left' = left /\ RowsClean(s) /\ UpsClean(s)
        /\ fr.call = f[s].call /\ fr.content = f[s].content
    BY <1>4 DEF Found, Clean
  <2>2. Quiet(s)
    BY <2>1, RowsStill, RefuseQuiet
  <2> QED
    BY <2>1, <2>2 DEF OnTheWay, Quiet, Silent
<1>5. CASE fr.goal = "node" /\ fr.call.op = "finish_upload"
  <2>1. Goto(s, "fin_node") /\ f' = [f EXCEPT ![s] = fr1] /\ UNCHANGED uploadVars
    BY <1>5 DEF Found, fr1
  <2> QED
    BY <1>1, <1>2, <2>1, WayTo DEF Goto
<1>6. CASE fr.goal = "node" /\ fr.call.op = "read_file"
  <2>1. Goto(s, "read") /\ f' = [f EXCEPT ![s] = fr1] /\ UNCHANGED uploadVars
    BY <1>6 DEF Found, fr1
  <2> QED
    BY <1>1, <1>2, <2>1, WayTo DEF Goto
<1>7. CASE fr.goal = "node" /\ fr.call.op = "set_metadata"
  <2>1. Goto(s, "meta") /\ f' = [f EXCEPT ![s] = fr2] /\ UNCHANGED uploadVars
    BY <1>7 DEF Found, fr1, fr2
  <2> QED
    BY <1>1, <1>2, <2>1, WayTo DEF Goto
<1>8. CASE /\ fr.goal = "node"
           /\ fr.call.op \notin {"finish_upload", "read_file", "set_metadata"}
  <2>1. CASE refused
    <3>1. Goto(s, "commit") /\ f' = [f EXCEPT ![s] = fr3] /\ UNCHANGED uploadVars
      BY <1>8, <2>1 DEF Found, fr1, fr3
    <3> QED
      BY <1>1, <1>2, <3>1, WayTo DEF Goto
  <2>2. CASE ~refused
    <3>1. Goto(s, "write") /\ f' = [f EXCEPT ![s] = fr2] /\ UNCHANGED uploadVars
      BY <1>8, <2>2 DEF Found, fr1, fr2
    <3>2. db[fr2.row].st # "free" /\ ~db[fr2.row].dir
      BY <1>0, <1>1, <2>2
    <3>3. fr2.call.op \in MakeOps => ~fr2.call.excl /\ fr2.call.op # "finish_upload"
      BY <1>2, <1>8, <2>2 DEF MakeOps
    <3> HIDE DEF refused
    <3> QED
      BY <1>1, <1>2, <3>1, <3>2, <3>3, WayTo DEF Goto
  <2> QED
    BY <2>1, <2>2
<1> QED
  BY <1>0, <1>3, <1>4, <1>5, <1>6, <1>7, <1>8

LEMMA StartWalkWay ==
    ASSUME RefOK, NEW s \in Sess, NEW fr, Clean(s, fr), UNCHANGED rowVars,
           NEW path \in Seq(Name), StartWalk(s, fr, path)
    PROVE  OnTheWay(s, fr)
<1>1. RootOf[s] \in Node /\ db[RootOf[s]].st # "free"
  BY RootMine DEF RefOK, Mine
<1>2. CASE path = << >>
  BY <1>1, <1>2, FoundWay DEF StartWalk
<1>3. CASE path # << >>
  <2>1. PICK g : g = [fr EXCEPT !.cur = RootOf[s], !.rest = path]
    OBVIOUS
  <2>2. fr \in Frame /\ ~fr.made
    BY DEF Clean
  <2>3. g \in Frame /\ g.call = fr.call /\ g.content = fr.content /\ ~g.made
    BY <1>1, <2>1, <2>2 DEF Frame
  <2>4. /\ pc' = [pc EXCEPT ![s] = "walk"] /\ f' = [f EXCEPT ![s] = g]
        /\ UNCHANGED <<rowVars, uploadVars>>
    BY <1>3, <2>1 DEF StartWalk, Goto
  <2> QED
    BY <2>3, <2>4, WayTo
<1> QED
  BY <1>2, <1>3

LEMMA ToParentWay ==
    ASSUME RefOK, NEW s \in Sess, Clean(s, f[s]), pc[s] \in Holding, left' = left,
           UNCHANGED rowVars, Path(s) \in Seq(Name), Path(s) # << >>, ToParent(s, Path(s))
    PROVE  OnTheWay(s, f[s])
<1>1. PICK g : g = [f[s] EXCEPT !.goal = "parent"]
  OBVIOUS
<1>2. g \in Frame /\ g.call = f[s].call /\ g.content = f[s].content /\ ~g.made
  BY <1>1 DEF Clean, Frame
<1>3. Clean(s, g)
  BY <1>2 DEF Clean
<1>4. StartWalk(s, g, Parent(Path(s))) /\ Parent(Path(s)) \in Seq(Name)
  BY <1>1, PathParts DEF ToParent
<1>5. OnTheWay(s, g)
  BY <1>3, <1>4, StartWalkWay
<1> QED
  BY <1>2, <1>5 DEF OnTheWay

-----------------------------------------------------------------------------
(* The statements before the COMMIT *)

LEMMA RefFacts ==
    ASSUME RefOK, NEW s \in Sess
    PROVE  /\ FilesInv /\ TenantOK /\ SoFar(s) /\ Knows(s) /\ left <= MaxCalls /\ RowInv
           /\ f[s].cur \in Node /\ db[f[s].cur].st # "free"
           /\ pc[s] \notin Putting \cup {"fk", "commit"} => RowsClean(s)
           /\ pc[s] \notin {"commit", "cl_delete"} => UpsClean(s)
<1>1. LocalOK(s) /\ FilesInv /\ TenantOK /\ SoFar(s) /\ Knows(s) /\ left <= MaxCalls /\ RowInv
  BY DEF RefOK, TenantOK, TenantInv, RefInv, RowInv
<1> QED
  BY <1>1, CallFacts DEF SoFar, LocalOK, Mine

\* The child that a call without changed rows finds is a committed row.
LEMMA ChildRow ==
    ASSUME RefOK, NEW s \in Sess, RowsClean(s), NEW p, NEW nm, NEW c, c = Child(s, p, nm),
           c # None
    PROVE  c \in Node /\ db[c].st = "live"
<1>1. c \in ChildIds(s, p, nm) /\ c \in Node
  BY DEF Child, ChildIds
<1>2. Seen(s, c) = db[c]
  BY <1>1, RowFacts
<1> QED
  BY <1>1, <1>2 DEF ChildIds, Holds

LEMMA WayQuiet ==
    ASSUME NEW s \in Sess, OnTheWay(s, f[s]), pc[s] # "idle", left' = left
    PROVE  Quiet(s)
BY DEF OnTheWay, Quiet, Silent

LEMMA WalkQuiet ==
    ASSUME RefOK, NEW s \in Sess, Walk(s)
    PROVE  Quiet(s)
<1> DEFINE c == Child(s, f[s].cur, Head(f[s].rest))
<1>1. pc[s] = "walk" /\ pc[s] \in Holding /\ left' = left /\ UNCHANGED rowVars
  BY DEF Walk, At, Stay, Holding
<1>2. RowsClean(s) /\ UpsClean(s) /\ ~f[s].made /\ FilesInv
  BY <1>1, RefFacts DEF Knows, Putting
<1>3. Clean(s, f[s])
  BY <1>1, <1>2, CallFacts DEF Clean
<1>4. c # None => c \in Node /\ db[c].st = "live"
  BY <1>2, ChildRow
<1>5. f[s].rest \in Seq(Name) /\ f[s].rest # << >>
  BY <1>1, <1>2, CallFacts DEF PcLocal
<1>6. CASE c # None /\ Len(f[s].rest) = 1
  <2>1. Found(s, f[s], c)
    BY <1>6 DEF Walk
  <2>2. OnTheWay(s, f[s])
    BY <1>1, <1>3, <1>4, <1>6, <2>1, FoundWay
  <2> QED
    BY <1>1, <2>2, WayQuiet
<1>7. CASE c # None /\ Len(f[s].rest) > 1
  <2>1. f' = [f EXCEPT ![s].cur = c, ![s].rest = Tail(@)] /\ UNCHANGED <<uploadVars, pc>>
    BY <1>7 DEF Walk
  <2>2. PICK g : g = [f[s] EXCEPT !.cur = c, !.rest = Tail(f[s].rest)]
    OBVIOUS
  <2>3. f' = [f EXCEPT ![s] = g]
    BY <1>2, <2>1, <2>2, CallFacts DEF LocalsTyped, Frame
  <2>4. Tail(f[s].rest) \in Seq(Name)
    BY <1>5, PathParts
  <2>5. g \in Frame /\ g.call = f[s].call /\ g.content = f[s].content /\ ~g.made
    BY <1>2, <1>4, <1>7, <2>2, <2>4, CallFacts DEF Frame
  <2>6. pc' = [pc EXCEPT ![s] = "walk"]
    BY <1>1, <1>2, <2>1, CallFacts DEF LocalsTyped
  <2> HIDE DEF c
  <2>7. OnTheWay(s, f[s])
    BY <1>1, <1>3, <2>1, <2>3, <2>5, <2>6, WayTo
  <2> QED
    BY <1>1, <2>7, WayQuiet
<1>8. CASE c = None /\ f[s].goal = "node"
           /\ f[s].call.op \in {"write_file_atomic", "finish_upload"}
  <2>1. ToParent(s, Path(s))
    BY <1>8 DEF Walk
  <2>2. Path(s) \in Seq(Name) /\ Path(s) # << >>
    BY <1>1, <1>2, <1>8, CallFacts, HoldsUpload DEF Path, Finishing, PcLocal
  <2>3. OnTheWay(s, f[s])
    BY <1>1, <1>3, <2>1, <2>2, ToParentWay
  <2> QED
    BY <1>1, <2>3, WayQuiet
<1>9. CASE c = None /\ ~(f[s].goal = "node"
                         /\ f[s].call.op \in {"write_file_atomic", "finish_upload"})
  <2>1. Refuse(s)
    BY <1>9 DEF Walk
  <2>2. RowsBy(s) /\ RowInv' /\ RowsClean(s)'
    BY <1>1, <1>2, RowsStill
  <2> QED
    BY <1>1, <1>2, <2>1, <2>2, RefuseQuiet
<1>10. Len(f[s].rest) = 1 \/ Len(f[s].rest) > 1
  BY <1>5, LastPart
<1> HIDE DEF c
<1> QED
  BY <1>6, <1>7, <1>8, <1>9, <1>10

LEMMA InsertQuiet ==
    ASSUME RefOK, NEW s \in Sess, Insert(s)
    PROVE  Quiet(s)
<1>1. pc[s] = "insert" /\ pc[s] \in Holding /\ pc[s] # "idle" /\ left' = left
  BY DEF Insert, At, Stay, Holding
<1>2. /\ RowsClean(s) /\ UpsClean(s) /\ ~f[s].made /\ FilesInv /\ f[s].cur \in Node
      /\ db[f[s].cur].st # "free" /\ db[f[s].cur].dir
  BY <1>1, RefFacts DEF Knows, Putting
<1>3. PICK nm \in Name : nm = Base(Path(s))
  BY <1>1, <1>2, Making
<1>4. PICK p \in Node : p = f[s].cur
  BY <1>2
<1>5. CASE UniqueConflict(s, p, nm) /\ Exclusive(s)
  <2>1. Refuse(s) /\ UNCHANGED rowVars
    BY <1>3, <1>4, <1>5 DEF Insert
  <2>2. RowsBy(s) /\ RowInv' /\ RowsClean(s)'
    BY <1>2, <2>1, RowsStill
  <2> QED
    BY <1>1, <1>2, <2>1, <2>2, RefuseQuiet
<1>6. CASE UniqueConflict(s, p, nm) /\ ~Exclusive(s)
  <2>1. Goto(s, "again") /\ UNCHANGED <<rowVars, uploadVars, f>>
    BY <1>3, <1>4, <1>6 DEF Insert
  <2>2. pc' = [pc EXCEPT ![s] = "again"] /\ f' = [f EXCEPT ![s] = f[s]]
    BY <1>2, <2>1, CallFacts DEF Goto, LocalsTyped
  <2>3. Alone(s) /\ Silent(s) /\ pc'[s] = "again" /\ f'[s] = f[s]
    BY <1>1, <2>2, GoesOn
  <2>4. RowsBy(s) /\ RowInv' /\ RowsClean(s)' /\ UpsBy(s) /\ UpsClean(s)'
    BY <1>2, <2>1, RowsStill, UpsStill
  <2>5. SoFar(s)'
    BY <2>3, <2>4, ToClean DEF Putting
  <2>6. Exclusive(s)' = Exclusive(s)
    BY <2>1, <2>3 DEF Exclusive, Finishing, Staged, uploadVars
  <2>7. Knows(s)'
    BY <1>2, <1>6, <2>1, <2>3, <2>6 DEF Knows, rowVars
  <2> QED
    BY <2>3, <2>4, <2>5, <2>7 DEF Quiet
<1>7. CASE ~UniqueConflict(s, p, nm)
  <2>1. /\ FreeIds # {} /\ InsertRow(s, FreshId, FileRow(p, nm))
        /\ f' = [f EXCEPT ![s].row = FreshId, ![s].made = TRUE]
        /\ Goto(s, "fk") /\ UNCHANGED <<db, shares, uploadVars>>
        /\ UniqueWaits(s, p, nm) = {}
    BY <1>3, <1>4, <1>7 DEF Insert
  <2>2. PICK n \in Node : n = FreshId /\ owner[n] = None /\ new[n].st = "free"
    BY <2>1, FreshIdFree
  <2>3. db[n].st = "free"
    BY <2>2, RowFacts
  <2>4. PICK fr : fr = [f[s] EXCEPT !.row = n, !.made = TRUE]
    OBVIOUS
  <2>5. f' = [f EXCEPT ![s] = fr]
    BY <1>2, <2>1, <2>2, <2>4, CallFacts DEF LocalsTyped, Frame
  <2>6. /\ fr.call = f[s].call /\ fr.content = f[s].content /\ fr.row = n /\ fr.made
        /\ fr.cur = p
    BY <1>2, <1>4, <2>4, CallFacts DEF Frame
  <2>7. Alone(s) /\ Silent(s) /\ pc'[s] = "fk" /\ f'[s] = fr
    <3>1. pc' = [pc EXCEPT ![s] = "fk"]
      BY <2>1 DEF Goto
    <3> QED
      BY <1>1, <2>5, <2>6, <3>1, GoesOn
  <2>8. \A m \in Node : ~Holds(new[m], p, nm)
    <3>1. \A m \in Node : ~Holds(Seen(s, m), p, nm)
      BY <1>7 DEF UniqueConflict, ChildIds
    <3> QED
      BY <2>1, <3>1, EntryFree
  <2>9. RowsBy(s) /\ RowInv' /\ new'[n] = FileRow(p, nm) /\ OnlyRow(s, n)'
    BY <1>2, <2>1, <2>2, <2>3, <2>8, RowsInserted
  <2>10. UpsBy(s) /\ UpsClean(s)'
    BY <1>2, <2>1, UpsStill
  <2>11. Path(s)' = Path(s)
    BY <2>1, <2>6, <2>7 DEF Path, Finishing, Staged, uploadVars
  <2>12. Inserted(s)'
    BY <1>1, <1>2, <1>3, <2>1, <2>3, <2>6, <2>7, <2>9, <2>11, Making DEF Inserted
  <2>13. SoFar(s)'
    BY <2>7, <2>10, <2>12 DEF SoFar, Putting
  <2>14. Knows(s)'
    BY <1>2, <1>4, <2>1, <2>6, <2>7 DEF Knows
  <2> QED
    BY <2>7, <2>9, <2>10, <2>13, <2>14 DEF Quiet
<1> QED
  BY <1>5, <1>6, <1>7

LEMMA RowsShared ==
    ASSUME RefOK, NEW s \in Sess, NEW p \in Node, Share(s, p), UNCHANGED <<db, new, owner>>
    PROVE  /\ RowsBy(s) /\ RowInv' /\ s \in shares'[p]
           /\ \A r : OnlyRow(s, r) => OnlyRow(s, r)'
<1>1. shares \in [Node -> SUBSET Sess]
  BY DEF RefOK, TenantOK, FilesInv, RowsOK, RowsTyped
<1>2. s \in shares'[p] /\ \A n \in Node : shares[n] \subseteq shares'[n]
  BY <1>1 DEF Share
<1>3. RowsBy(s)
  BY <1>2 DEF RowsBy
<1>4. RowInv'
  BY DEF RefOK, RefInv, RowInv, Fixed, NoTwin
<1> QED
  BY <1>2, <1>3, <1>4 DEF OnlyRow

\* The foreign-key check keeps the directory, or finds that it is gone.
LEMMA FkCheckQuiet ==
    ASSUME RefOK, NEW s \in Sess, FkCheck(s)
    PROVE  Quiet(s) \/ (Raise(s) /\ left' = left)
<1>1. pc[s] = "fk" /\ pc[s] # "idle" /\ left' = left
  BY DEF FkCheck, At, Stay
<1>2. /\ UpsClean(s) /\ FilesInv /\ f[s].cur \in Node /\ f[s].made /\ Inserted(s)
      /\ db[f[s].cur].st # "free" /\ db[f[s].cur].dir
  BY <1>1, RefFacts, CallFacts DEF Knows, SoFar, PcLocal
<1>3. CASE ~Live(s, f[s].cur)
  BY <1>1, <1>3 DEF FkCheck
<1>4. CASE Live(s, f[s].cur)
  <2>1. /\ Share(s, f[s].cur) /\ Goto(s, Publishing(s))
        /\ UNCHANGED <<db, new, owner, uploadVars, f>>
    BY <1>4 DEF FkCheck
  <2>2. PICK label \in Putting : label = Publishing(s)
    BY DEF Publishing, Putting
  <2>3. pc' = [pc EXCEPT ![s] = label] /\ f' = [f EXCEPT ![s] = f[s]] /\ label # "idle"
    BY <1>2, <2>1, <2>2, CallFacts DEF Goto, LocalsTyped, Putting
  <2>4. Alone(s) /\ Silent(s) /\ pc'[s] = label /\ f'[s] = f[s]
    BY <1>1, <2>3, GoesOn
  <2>5. PICK p \in Node : p = f[s].cur
    BY <1>2
  <2>6. RowsBy(s) /\ RowInv' /\ s \in shares'[p] /\ OnlyRow(s, f[s].row)'
    BY <1>2, <2>1, <2>4, <2>5, RowsShared DEF Inserted
  <2>7. db[p].st = "live"
    <3>1. Seen(s, p) = db[p]
      BY <1>2, <2>5 DEF Inserted, OnlyRow, Seen
    <3> QED
      BY <1>4, <2>5, <3>1 DEF Live
  <2>8. Anchor(s, f[s].cur)'
    BY <1>2, <2>1, <2>4, <2>5, <2>6, <2>7 DEF Anchor
  <2>9. Inserted(s)'
    <3>1. Path(s)' = Path(s)
      BY <2>1, <2>4 DEF Path, Finishing, Staged, uploadVars
    <3> QED
      BY <1>2, <2>1, <2>4, <2>6, <3>1 DEF Inserted
  <2>10. UpsBy(s) /\ UpsClean(s)'
    BY <1>2, <2>1, UpsStill
  <2>11. SoFar(s)'
    BY <1>2, <2>2, <2>4, <2>8, <2>9, <2>10 DEF SoFar, Putting
  <2>12. Knows(s)'
    BY <2>2, <2>4 DEF Knows, Putting
  <2> QED
    BY <2>4, <2>6, <2>10, <2>11, <2>12 DEF Quiet
<1> QED
  BY <1>3, <1>4

\* s has found the file n that it will replace or append to, and goes on with it.
LEMMA TargetQuiet ==
    ASSUME RefOK, NEW s \in Sess, pc[s] # "idle", NEW n \in Node, NEW fr, NEW label \in Putting,
           pc' = [pc EXCEPT ![s] = label], f' = [f EXCEPT ![s] = fr], left' = left,
           fr.call = f[s].call, fr.content = f[s].content, fr.row = n, ~fr.made,
           fr.size = new[n].size, RowsBy(s), RowInv', RowsClean(s)', UNCHANGED <<db, new>>,
           UpsClean(s), UNCHANGED uploadVars, db[n].st # "free", ~db[n].dir,
           fr.call.op \in MakeOps => ~Exclusive(s)
    PROVE  Quiet(s)
<1>1. Alone(s) /\ Silent(s) /\ pc'[s] = label /\ f'[s] = fr
  BY GoesOn DEF Putting
<1>2. Exclusive(s)' = Exclusive(s)
  BY <1>1 DEF Exclusive, Finishing, Staged, uploadVars
<1>3. Target(s)'
  BY <1>1, <1>2 DEF Target
<1>4. UpsBy(s) /\ UpsClean(s)'
  BY UpsStill
<1>5. SoFar(s)'
  BY <1>1, <1>3, <1>4 DEF SoFar, Putting
<1>6. Knows(s)'
  BY <1>1 DEF Knows, Putting
<1> QED
  BY <1>1, <1>4, <1>5, <1>6 DEF Quiet

LEMMA AgainQuiet ==
    ASSUME RefOK, NEW s \in Sess, Again(s)
    PROVE  Quiet(s)
<1>1. /\ pc[s] = "again" /\ pc[s] # "idle" /\ pc[s] \in Holding /\ left' = left
      /\ UNCHANGED <<db, new, shares>>
  BY DEF Again, At, Stay, Holding
<1>2. RowsClean(s) /\ UpsClean(s) /\ FilesInv /\ ~f[s].made /\ ~Exclusive(s)
  BY <1>1, RefFacts DEF Knows, Putting
<1>3. PICK c : c = Child(s, f[s].cur, Base(Path(s)))
  OBVIOUS
<1>4. CASE c = None
  <2>1. Refuse(s) /\ UNCHANGED rowVars
    BY <1>1, <1>3, <1>4 DEF Again, rowVars
  <2>2. RowsBy(s) /\ RowInv' /\ RowsClean(s)'
    BY <1>2, <2>1, RowsStill
  <2> QED
    BY <1>1, <1>2, <2>1, <2>2, RefuseQuiet
<1>5. CASE c # None
  <2>1. c \in Node /\ db[c].st = "live" /\ LockWaits(s, c) = {} /\ Lock(s, c)
    BY <1>2, <1>3, <1>5, ChildRow DEF Again
  <2>2. Seen(s, c) = db[c] /\ new[c] = db[c]
    BY <1>2, <2>1, RowFacts
  <2>3. RowsBy(s) /\ RowInv' /\ RowsClean(s)'
    BY <1>1, <1>2, <2>1, RowsLocked
  <2>4. CASE Seen(s, c).dir
    <3>1. Refuse(s)
      BY <1>3, <1>5, <2>4 DEF Again
    <3> QED
      BY <1>1, <1>2, <2>3, <3>1, RefuseQuiet
  <2>5. CASE ~Seen(s, c).dir
    <3>1. /\ f' = [f EXCEPT ![s].row = c, ![s].size = Seen(s, c).size]
          /\ Goto(s, Publishing(s)) /\ UNCHANGED uploadVars
      BY <1>3, <1>5, <2>5 DEF Again
    <3>2. PICK fr : fr = [f[s] EXCEPT !.row = c, !.size = new[c].size]
      OBVIOUS
    <3>3. f' = [f EXCEPT ![s] = fr]
      BY <1>2, <2>2, <3>1, <3>2, CallFacts DEF LocalsTyped, Frame
    <3>4. /\ fr.call = f[s].call /\ fr.content = f[s].content /\ fr.row = c /\ ~fr.made
          /\ fr.size = new[c].size
      BY <1>2, <3>2, CallFacts DEF Frame
    <3>5. PICK label \in Putting : label = Publishing(s)
      BY DEF Publishing, Putting
    <3>6. pc' = [pc EXCEPT ![s] = label] /\ db[c].st # "free" /\ ~db[c].dir
      BY <2>1, <2>2, <2>5, <3>1, <3>5 DEF Goto
    <3> QED
      BY <1>1, <1>2, <2>1, <2>3, <3>1, <3>3, <3>4, <3>6, TargetQuiet
  <2> QED
    BY <2>4, <2>5
<1> QED
  BY <1>4, <1>5

\* The content that Put gives to a row that s has inserted, or found.
LEMMA PutDone ==
    ASSUME RefOK, NEW s \in Sess, NEW n \in Node, n = f[s].row, owner[n] \in {s, None},
           new[n].st = "live", NEW data \in Content, Put(s, n, data), UNCHANGED <<db, shares>>,
           NEW nm, nm = Base(Path(s))
    PROVE  /\ RowsBy(s) /\ RowInv'
           /\ Inserted(s) /\ Anchor(s, f[s].cur) => Made(s, n, nm, data)'
           /\ RowsClean(s) /\ ~db[n].dir => Wrote(s, n, data)'
<1>1. PICK v : v = [new[n] EXCEPT !.size = Len(data), !.sha = data, !.data = data]
  OBVIOUS
<1>2. new[n] \in Row /\ db[n] \in Row
  BY RowFacts
<1>3. v \in Row
  <2>1. Len(data) \in Nat
    BY DEF Content
  <2> QED
    BY <1>1, <1>2, <2>1 DEF Row
<1>4. /\ v.st = "live" /\ v.dir = new[n].dir /\ v.parent = new[n].parent
      /\ v.name = new[n].name /\ v.data = data /\ v.meta = new[n].meta
  BY <1>1, <1>2 DEF Row
<1>5. RowChange(s, n, v)
  BY <1>1 DEF RowChange, Put, Lock
<1>6. /\ RowsBy(s) /\ RowInv' /\ new'[n] = v
      /\ RowsClean(s) \/ OnlyRow(s, n) => OnlyRow(s, n)'
  BY <1>3, <1>4, <1>5, RowsPut
<1>7. ASSUME Inserted(s), Anchor(s, f[s].cur) PROVE Made(s, n, nm, data)'
  <2>1. OnlyRow(s, n)' /\ db'[n].st = "free"
    BY <1>6, <1>7 DEF Inserted
  <2>2. new[n] = FileRow(f[s].cur, nm)
    BY <1>7 DEF Inserted
  <2>3. new'[n] = v /\ v.parent = f[s].cur /\ v.st = "live"
    BY <1>4, <1>6, <2>2 DEF FileRow
  <2>4. Anchor(s, new[n].parent)'
    BY <1>7, <2>3 DEF Anchor
  <2>5. Face(v) = [Face(new[n]) EXCEPT !.data = data]
    BY <1>4 DEF Face
  <2>6. PICK w : w = new[n] /\ w = FileRow(v.parent, nm)
    BY <2>2, <2>3
  <2> QED
    BY <2>1, <2>3, <2>4, <2>5, <2>6 DEF Made
<1>8. ASSUME RowsClean(s), ~db[n].dir PROVE Wrote(s, n, data)'
  <2>1. new[n] = db[n]
    BY <1>8, RowFacts DEF RowsClean
  <2>2. Face(v) = [Face(db[n]) EXCEPT !.data = data]
    BY <1>4, <2>1 DEF Face
  <2> QED
    BY <1>4, <1>6, <1>8, <2>1, <2>2 DEF Wrote
<1> QED
  BY <1>6, <1>7, <1>8

LEMMA WriteQuiet ==
    ASSUME RefOK, NEW s \in Sess, Write(s)
    PROVE  Quiet(s) \/ (Raise(s) /\ left' = left)
<1>1. pc[s] = "write" /\ pc[s] # "idle" /\ left' = left /\ LockWaits(s, f[s].row) = {}
  BY DEF Write, At, Stay
<1>2. /\ UpsClean(s) /\ FilesInv /\ f[s].content \in Content
      /\ f[s].call.op \in {"write_file", "write_file_atomic"}
      /\ IF f[s].made THEN Inserted(s) /\ Anchor(s, f[s].cur) ELSE Target(s)
  BY <1>1, RefFacts, CallFacts DEF SoFar, PcLocal, LabelOK, Putting
<1>3. PICK n \in Node : n = f[s].row
  BY <1>1, <1>2, CallFacts DEF PcLocal
<1>4. PICK c, x, nm : c = f[s].call /\ x = f[s].content /\ nm = Base(Path(s))
  OBVIOUS
<1>5. ~Finishing(s) /\ nm = Base(c.path) /\ Exclusive(s) = c.excl
  BY <1>2, <1>4 DEF Finishing, Path, Exclusive
<1>6. CASE Live(s, n)
  <2>1. Put(s, n, x) /\ Return(s, TRUE) /\ UNCHANGED <<db, shares, uploadVars>>
    BY <1>3, <1>4, <1>6 DEF Write
  <2>2. owner[n] \in {s, None} /\ new[n].st = "live"
    BY <1>1, <1>3, <1>6, RowFacts DEF Live
  <2>3. /\ RowsBy(s) /\ RowInv'
        /\ Inserted(s) /\ Anchor(s, f[s].cur) => Made(s, n, nm, x)'
        /\ RowsClean(s) /\ ~db[n].dir => Wrote(s, n, x)'
    BY <1>2, <1>3, <1>4, <2>1, <2>2, PutDone
  <2>4. UpsBy(s) /\ UpsClean(s)'
    BY <1>2, <2>1, UpsStill
  <2>5. CASE f[s].made
    <3>1. Created(s, nm, x)' /\ f[s].call.op \in MakeOps
      BY <1>2, <2>3, <2>5 DEF Created, Inserted
    <3>2. Succeeded(s, c, x)'
      BY <1>2, <1>4, <1>5, <2>4, <3>1 DEF Succeeded, MakeOps
    <3> QED
      BY <1>1, <1>4, <2>1, <2>3, <2>4, <3>2, SucceedQuiet
  <2>6. CASE ~f[s].made
    <3>1. Overwrote(s, x)' /\ (c.op = "write_file_atomic" => ~c.excl)
      BY <1>2, <1>3, <1>4, <1>5, <2>3, <2>6 DEF Overwrote, Target, MakeOps
    <3>2. Succeeded(s, c, x)'
      BY <1>2, <1>4, <2>4, <3>1 DEF Succeeded
    <3> QED
      BY <1>1, <1>4, <2>1, <2>3, <2>4, <3>2, SucceedQuiet
  <2> QED
    BY <2>5, <2>6
<1>7. CASE ~Live(s, n) /\ x = << >>
  <2>1. Return(s, TRUE) /\ UNCHANGED <<rowVars, uploadVars>>
    BY <1>3, <1>4, <1>7 DEF Write
  <2>2. ~f[s].made
    BY <1>2, <1>3, <1>7 DEF Inserted, OnlyRow, Live, Seen, FileRow
  <2>3. RowsClean(s) /\ (c.op = "write_file_atomic" => ~c.excl)
    BY <1>2, <1>4, <1>5, <2>2 DEF Target, MakeOps
  <2>4. RowsBy(s) /\ RowInv' /\ RowsClean(s)' /\ UpsBy(s) /\ UpsClean(s)'
    BY <1>2, <2>1, <2>3, RowsStill, UpsStill
  <2>5. Succeeded(s, c, x)'
    BY <1>2, <1>4, <1>7, <2>3, <2>4 DEF Succeeded, Overwrote
  <2> QED
    BY <1>1, <1>4, <2>1, <2>4, <2>5, SucceedQuiet
<1>8. CASE ~Live(s, n) /\ x # << >>
  BY <1>1, <1>3, <1>4, <1>8 DEF Write
<1> QED
  BY <1>6, <1>7, <1>8

LEMMA SetMetadataQuiet ==
    ASSUME RefOK, NEW s \in Sess, SetMetadata(s)
    PROVE  Quiet(s)
<1>1. /\ pc[s] = "meta" /\ pc[s] # "idle" /\ left' = left /\ LockWaits(s, f[s].row) = {}
      /\ UNCHANGED <<db, shares, uploadVars>>
  BY DEF SetMetadata, At, Stay
<1>2. /\ RowsClean(s) /\ UpsClean(s) /\ FilesInv /\ f[s].call.op = "set_metadata"
      /\ f[s].call.key \in MetaKey /\ f[s].content \in Content /\ f[s].content # << >>
  BY <1>1, RefFacts, CallFacts DEF PcLocal, LabelOK, ArgsOK, Putting
<1>3. PICK n \in Node : n = f[s].row
  BY <1>1, <1>2, CallFacts DEF PcLocal
<1>4. PICK c, x : c = f[s].call /\ x = f[s].content
  OBVIOUS
<1>5. PICK k, y : k = c.key /\ y = x[1]
  OBVIOUS
<1>6. UpsBy(s) /\ UpsClean(s)'
  BY <1>1, <1>2, UpsStill
<1>7. CASE Live(s, n)
  <2>1. /\ new' = [new EXCEPT ![n].meta[k] = y] /\ Lock(s, n) /\ Return(s, TRUE)
    BY <1>3, <1>4, <1>5, <1>7 DEF SetMetadata
  <2>2. /\ owner[n] \in {s, None} /\ new[n].st = "live" /\ new[n] = db[n]
        /\ new[n] \in Row
    BY <1>1, <1>2, <1>3, <1>7, RowFacts DEF Live
  <2>3. k \in MetaKey /\ y \in Nat
    BY <1>2, <1>4, <1>5, EmptySeq DEF Content
  <2>4. PICK v : v = [new[n] EXCEPT !.meta[k] = y]
    OBVIOUS
  <2>5. v \in Row
    BY <2>2, <2>3, <2>4 DEF Row
  <2>6. /\ v.st = new[n].st /\ v.dir = new[n].dir /\ v.parent = new[n].parent
        /\ v.name = new[n].name /\ Face(v) = [Face(new[n]) EXCEPT !.meta[k] = y]
    BY <2>2, <2>4 DEF Row, Face
  <2>7. RowChange(s, n, v)
    BY <1>1, <2>1, <2>4 DEF RowChange, Lock
  <2>8. RowsBy(s) /\ RowInv' /\ new'[n] = v /\ OnlyRow(s, n)'
    BY <1>2, <2>2, <2>5, <2>6, <2>7, RowsPut
  <2>9. Tagged(s, n, k, y)'
    BY <1>1, <2>2, <2>6, <2>8 DEF Tagged
  <2>10. Succeeded(s, c, x)'
    BY <1>2, <1>4, <1>5, <1>6, <2>9 DEF Succeeded
  <2> QED
    BY <1>1, <1>4, <1>6, <2>1, <2>8, <2>10, SucceedQuiet
<1>8. CASE ~Live(s, n)
  <2>1. Return(s, FALSE) /\ UNCHANGED rowVars
    BY <1>1, <1>3, <1>8 DEF SetMetadata, rowVars
  <2>2. RowsBy(s) /\ RowInv' /\ RowsClean(s)'
    BY <1>2, <2>1, RowsStill
  <2>3. Refused(s, c)'
    BY <1>6, <2>2 DEF Refused
  <2> QED
    BY <1>1, <1>4, <1>6, <2>1, <2>2, <2>3, FailQuiet
<1> QED
  BY <1>7, <1>8

LEMMA StartUploadQuiet ==
    ASSUME RefOK, NEW s \in Sess, StartUpload(s)
    PROVE  Quiet(s)
<1>1. /\ pc[s] = "su_insert" /\ pc[s] # "idle" /\ left' = left /\ U!FreeIds # {}
      /\ Return(s, TRUE) /\ UNCHANGED <<db, new, owner>> /\ Share(s, RootOf[s]) /\ udb' = udb
  BY DEF StartUpload, At, Stay
<1>2. /\ RowsClean(s) /\ UpsClean(s) /\ FilesInv /\ f[s].call.op = "start_upload"
      /\ f[s].call \in Call /\ f[s].now \in Nat
  BY <1>1, RefFacts, CallFacts DEF PcLocal, LabelOK, Putting
<1>3. PICK u \in Upload : u = U!FreshId /\ unew[u].st = "free" /\ uowner[u] = None
  BY <1>1, FreshUploadFree
<1>4. udb[u].st = "free"
  BY <1>2, <1>3, CallFacts DEF UpsOK
<1>5. PICK c, x : c = f[s].call /\ x = f[s].content
  OBVIOUS
<1>6. PICK v : v = [NoUpload EXCEPT !.st = "live", !.root = RootOf[s], !.path = c.path,
                                    !.excl = c.excl, !.app = c.app,
                                    !.created_at = f[s].now]
  OBVIOUS
<1>7. v \in UploadRow
  <2>1. RootOf[s] \in Node /\ << >> \in Content
    BY FilesAssumption, EmptySeq DEF Content
  <2> QED
    BY <1>2, <1>5, <1>6, <2>1 DEF NoUpload, UploadRow, Call
<1>8. v.st = "live" /\ UpFace(v) = [root |-> RootOf[s], name |-> Base(c.path),
                                    excl |-> c.excl, app |-> c.app, data |-> << >>]
  BY <1>6 DEF NoUpload, UpFace, Grown
<1>9. UpChange(s, u, v)
  BY <1>1, <1>3, <1>5, <1>6 DEF UpChange, StartUpload, U!InsertRow
<1>10. UpsBy(s) /\ unew'[u] = v /\ OnlyUp(s, u)'
  BY <1>2, <1>3, <1>7, <1>9, UpsPut
<1>11. RowsBy(s) /\ RowInv' /\ RowsClean(s)'
  BY <1>1, <1>2, FilesAssumption, RowsShared DEF RowsClean
<1>12. Started(s, c)'
  BY <1>1, <1>4, <1>8, <1>10 DEF Started
<1>13. Succeeded(s, c, x)'
  BY <1>2, <1>5, <1>11, <1>12 DEF Succeeded
<1> QED
  BY <1>1, <1>5, <1>10, <1>11, <1>13, SucceedQuiet

LEMMA UploadPartQuiet ==
    ASSUME RefOK, NEW s \in Sess, UploadPart(s)
    PROVE  Quiet(s)
<1>1. /\ pc[s] = "up_lock" /\ pc[s] # "idle" /\ left' = left
      /\ UploadWaits(s, f[s].call.up) = {} /\ UNCHANGED rowVars /\ udb' = udb
  BY DEF UploadPart, At, Stay
<1>2. /\ RowsClean(s) /\ UpsClean(s) /\ FilesInv /\ f[s].call.op = "upload_part"
      /\ f[s].content \in Content
  BY <1>1, RefFacts, CallFacts DEF PcLocal, LabelOK, Putting
<1>3. PICK u \in Upload : u = f[s].call.up
  BY <1>1, <1>2, UploadFacts
<1>4. PICK c, x : c = f[s].call /\ x = f[s].content /\ x \in Content
  BY <1>2
<1>5. RowsBy(s) /\ RowInv' /\ RowsClean(s)'
  BY <1>1, <1>2, RowsStill
<1>6. CASE Own(s, u)
  <2>1. /\ U!Lock(s, u) /\ Return(s, TRUE)
        /\ unew' = [unew EXCEPT ![u].data = @ \o x, ![u].size = @ + Len(x)]
    BY <1>3, <1>4, <1>6 DEF UploadPart
  <2>2. /\ uowner[u] \in {s, None} /\ unew[u] \in UploadRow /\ unew[u] = udb[u]
        /\ OwnUp(s, u)
    BY <1>1, <1>2, <1>3, <1>6, UpFacts DEF UploadWaits
  <2>3. PICK d, k : d = unew[u].data \o x /\ k = unew[u].size + Len(x)
    OBVIOUS
  <2>4. d \in Content /\ k \in Nat
    BY <1>4, <2>2, <2>3, ConcatProperties DEF UploadRow, Content
  <2>5. PICK v : v = [unew[u] EXCEPT !.data = unew[u].data \o x,
                                     !.size = unew[u].size + Len(x)]
    OBVIOUS
  <2>6. v \in UploadRow
    BY <2>2, <2>3, <2>4, <2>5 DEF UploadRow
  <2>7. v.st = "live" /\ UpFace(v) = Grown(udb[u], udb[u].data \o x)
    <3>1. PICK w \in UploadRow : w = udb[u]
      BY <2>2
    <3>2. v = [w EXCEPT !.data = d, !.size = k] /\ d = udb[u].data \o x /\ w.st = "live"
      BY <2>2, <2>3, <2>5, <3>1 DEF OwnUp
    <3>3. w.excl \in BOOLEAN /\ w.app \in BOOLEAN
      BY DEF UploadRow
    <3>4. v.st = w.st /\ v.root = w.root /\ v.path = w.path /\ v.data = d
      BY <3>2 DEF UploadRow
    <3>5. v.excl = w.excl /\ v.app = w.app
      BY <3>2 DEF UploadRow
    <3>6. UpFace(v) = Grown(w, d)
      BY <3>3, <3>4, <3>5 DEF UpFace, Grown
    <3> QED
      BY <3>1, <3>2, <3>4, <3>6
  <2>8. unew' = [unew EXCEPT ![u] = v]
    <3>1. unew \in [Upload -> UploadRow]
      BY <1>2, CallFacts DEF UpsOK, UpsTyped
    <3> QED
      BY <2>1, <2>5, <3>1 DEF UploadRow
  <2>9. UpChange(s, u, v)
    BY <1>1, <2>1, <2>8 DEF UpChange, U!Lock
  <2>10. UpsBy(s) /\ unew'[u] = v /\ OnlyUp(s, u)'
    BY <1>2, <2>2, <2>6, <2>9, UpsPut
  <2>11. Extended(s, u, x)'
    BY <1>1, <2>2, <2>7, <2>10 DEF Extended, OwnUp
  <2>12. Succeeded(s, c, x)'
    BY <1>2, <1>3, <1>4, <1>5, <2>11 DEF Succeeded
  <2> QED
    BY <1>1, <1>4, <1>5, <2>1, <2>10, <2>12, SucceedQuiet
<1>7. CASE ~Own(s, u)
  <2>1. Return(s, FALSE) /\ UNCHANGED uploadVars
    BY <1>1, <1>3, <1>7 DEF UploadPart, uploadVars
  <2>2. UpsBy(s) /\ UpsClean(s)'
    BY <1>2, <2>1, UpsStill
  <2>3. Refused(s, c)'
    BY <1>5, <2>2 DEF Refused
  <2> QED
    BY <1>1, <1>4, <1>5, <2>1, <2>2, <2>3, FailQuiet
<1> QED
  BY <1>6, <1>7

LEMMA FinUploadQuiet ==
    ASSUME RefOK, NEW s \in Sess, FinUpload(s)
    PROVE  Quiet(s)
<1>1. /\ pc[s] = "fin_upload" /\ pc[s] # "idle" /\ left' = left
      /\ UploadWaits(s, f[s].call.up) = {} /\ UNCHANGED rowVars
  BY DEF FinUpload, At, Stay
<1>2. /\ RowsClean(s) /\ UpsClean(s) /\ FilesInv /\ f[s].call.op = "finish_upload"
      /\ ~f[s].made
  BY <1>1, RefFacts, CallFacts DEF PcLocal, LabelOK, Putting, Knows
<1>3. PICK u \in Upload : u = f[s].call.up
  BY <1>1, <1>2, UploadFacts
<1>4. PICK c : c = f[s].call
  OBVIOUS
<1>5. RowsBy(s) /\ RowInv' /\ RowsClean(s)'
  BY <1>1, <1>2, RowsStill
<1>6. CASE ~Own(s, u)
  <2>1. Return(s, FALSE) /\ UNCHANGED uploadVars
    BY <1>3, <1>6 DEF FinUpload
  <2>2. UpsBy(s) /\ UpsClean(s)'
    BY <1>2, <2>1, UpsStill
  <2>3. Refused(s, c)'
    BY <1>5, <2>2 DEF Refused
  <2> QED
    BY <1>1, <1>4, <1>5, <2>1, <2>2, <2>3, FailQuiet
<1>7. CASE Own(s, u) /\ c.size = "differ"
  <2>1. /\ unew' = [unew EXCEPT ![u].st = "dead"] /\ U!Lock(s, u) /\ Return(s, FALSE)
        /\ udb' = udb
    BY <1>3, <1>4, <1>7 DEF FinUpload
  <2>2. uowner[u] \in {s, None} /\ OwnUp(s, u)
    BY <1>1, <1>2, <1>3, <1>7, UpFacts DEF UploadWaits
  <2>3. UpsBy(s) /\ Dropped(s, u)'
    BY <1>2, <2>1, <2>2, UpsDropped DEF U!Lock
  <2>4. Refused(s, c)'
    BY <1>2, <1>3, <1>4, <1>5, <2>3 DEF Refused
  <2> QED
    BY <1>1, <1>4, <1>5, <2>1, <2>3, <2>4, FailQuiet
<1>8. CASE Own(s, u) /\ c.size # "differ"
  <2>1. /\ U!Lock(s, u) /\ Goto(s, "walk") /\ f' = [f EXCEPT ![s].rest = unew[u].path]
        /\ UNCHANGED <<udb, unew>>
    BY <1>3, <1>4, <1>8 DEF FinUpload
  <2>2. PICK g : g = [f[s] EXCEPT !.rest = unew[u].path]
    OBVIOUS
  <2>3. pc' = [pc EXCEPT ![s] = "walk"] /\ f' = [f EXCEPT ![s] = g]
    BY <2>1, <2>2 DEF Goto
  <2>4. g.call = f[s].call /\ g.content = f[s].content /\ ~g.made
    BY <1>2, <2>2, CallFacts DEF Frame
  <2>5. Alone(s) /\ Silent(s) /\ pc'[s] = "walk" /\ f'[s] = g
    BY <1>1, <2>3, <2>4, GoesOn
  <2>6. UpsBy(s) /\ UpsClean(s)'
    <3>1. U!LockWaits(s, u) = {}
      BY <1>1, <1>3, <1>8 DEF UploadWaits
    <3> QED
      BY <1>2, <1>3, <2>1, <3>1, UpsLocked
  <2>7. SoFar(s)'
    BY <1>5, <2>5, <2>6, ToClean DEF Putting
  <2>8. Knows(s)'
    BY <2>4, <2>5 DEF Knows
  <2> QED
    BY <1>5, <2>5, <2>6, <2>7, <2>8 DEF Quiet
<1> QED
  BY <1>6, <1>7, <1>8

LEMMA FinNodeQuiet ==
    ASSUME RefOK, NEW s \in Sess, FinNode(s)
    PROVE  Quiet(s)
<1>1. /\ pc[s] = "fin_node" /\ pc[s] # "idle" /\ pc[s] \in Holding /\ left' = left
      /\ LockWaits(s, f[s].cur) = {} /\ UNCHANGED <<db, new, shares>>
  BY DEF FinNode, At, Stay, Holding
<1>2. RowsClean(s) /\ UpsClean(s) /\ FilesInv /\ ~f[s].made /\ Finishing(s)
  BY <1>1, RefFacts, CallFacts DEF Knows, Putting, PcLocal, LabelOK, Finishing
<1>3. PICK n \in Node : n = f[s].cur /\ db[n].st # "free"
  BY RefFacts
<1>4. Seen(s, n) = db[n] /\ new[n] = db[n]
  BY <1>1, <1>2, <1>3, RowFacts
<1>5. CASE ~Live(s, n)
  <2>1. ToParent(s, Path(s)) /\ UNCHANGED rowVars
    BY <1>1, <1>3, <1>5 DEF FinNode, rowVars
  <2>2. Path(s) \in Seq(Name) /\ Path(s) # << >>
    BY <1>1, <1>2, HoldsUpload
  <2>3. Clean(s, f[s])
    BY <1>1, <1>2, CallFacts DEF Clean
  <2>4. OnTheWay(s, f[s])
    BY <1>1, <2>1, <2>2, <2>3, ToParentWay
  <2> QED
    BY <1>1, <2>4, WayQuiet
<1>6. CASE Live(s, n)
  <2>1. Lock(s, n)
    BY <1>3, <1>6 DEF FinNode
  <2>2. RowsBy(s) /\ RowInv' /\ RowsClean(s)'
    BY <1>1, <1>2, <1>3, <2>1, RowsLocked
  <2>3. CASE Seen(s, n).dir \/ Exclusive(s)
    <3>1. Refuse(s)
      BY <1>3, <1>6, <2>3 DEF FinNode
    <3> QED
      BY <1>1, <1>2, <2>2, <3>1, RefuseQuiet
  <2>4. CASE ~Seen(s, n).dir /\ ~Exclusive(s)
    <3>1. /\ f' = [f EXCEPT ![s].row = n, ![s].size = Seen(s, n).size]
          /\ Goto(s, "publish") /\ UNCHANGED uploadVars
      BY <1>3, <1>6, <2>4 DEF FinNode
    <3>2. PICK fr : fr = [f[s] EXCEPT !.row = n, !.size = new[n].size]
      OBVIOUS
    <3>3. f' = [f EXCEPT ![s] = fr]
      BY <1>2, <1>4, <3>1, <3>2, CallFacts DEF LocalsTyped, Frame
    <3>4. /\ fr.call = f[s].call /\ fr.content = f[s].content /\ fr.row = n /\ ~fr.made
          /\ fr.size = new[n].size
      BY <1>2, <3>2, CallFacts DEF Frame
    <3>5. PICK label \in Putting : label = "publish"
      BY DEF Putting
    <3>6. pc' = [pc EXCEPT ![s] = label] /\ db[n].st # "free" /\ ~db[n].dir
      BY <1>3, <1>4, <2>4, <3>1, <3>5 DEF Goto
    <3> QED
      BY <1>1, <1>2, <2>2, <2>4, <3>1, <3>3, <3>4, <3>6, TargetQuiet
  <2> QED
    BY <2>3, <2>4
<1> QED
  BY <1>5, <1>6

LEMMA WholeSeq ==
    ASSUME NEW d \in Content
    PROVE  SubSeq(d, 1, Len(d)) = d
<1>1. d \in Seq(Nat)
  BY DEF Content
<1> QED
  BY <1>1, SubSeqFull

\* What an append finds of the file that is locked is the whole of it.
LEMMA AppendedWhole ==
    ASSUME RefOK, NEW s \in Sess, pc[s] = "publish", ~f[s].made, NEW n \in Node, n = f[s].row
    PROVE  /\ owner[n] = s /\ new[n].st = "live" /\ new[n] = db[n]
           /\ ~db[n].dir /\ ~Exclusive(s)
           /\ Appended(s) = db[n].data \o Staged(s).data
<1>1. /\ FilesInv /\ Target(s) /\ owner[n] = s /\ new[n].st = "live" /\ RowsOK
      /\ f[s].call.op \in MakeOps
  BY RefFacts, CallFacts DEF SoFar, Putting, PcHolds, PcLocal, LabelOK, MakeOps
<1>2. new[n] = db[n] /\ ~db[n].dir /\ f[s].size = new[n].size /\ ~Exclusive(s)
  BY <1>1 DEF Target, RowsClean
<1>3. PICK d \in Content : d = db[n].data
  BY RowFacts DEF Row
<1>4. f[s].size = Len(d)
  BY <1>1, <1>2, <1>3 DEF RowsOK, Consistent
<1>5. Seen(s, n) = db[n]
  BY <1>1, <1>2 DEF Seen
<1>6. Appended(s) = SubSeq(d, 1, Len(d)) \o Staged(s).data
  BY <1>3, <1>4, <1>5 DEF Appended
<1> QED
  BY <1>1, <1>2, <1>3, <1>6, WholeSeq

LEMMA PublishQuiet ==
    ASSUME RefOK, NEW s \in Sess, Publish(s)
    PROVE  Quiet(s)
<1>1. /\ pc[s] = "publish" /\ pc[s] # "idle" /\ pc[s] \in Holding /\ left' = left
  BY DEF Publish, At, Stay, Holding
<1>2. /\ UpsClean(s) /\ FilesInv /\ Finishing(s) /\ Staged(s).data \in Content
      /\ ~f[s].made => Appended(s) \in Content
      /\ f[s].made => Inserted(s) /\ Anchor(s, f[s].cur)
      /\ ~f[s].made => RowsClean(s)
  BY <1>1, RefFacts, PublishedData DEF SoFar, Putting, Target
<1>3. PICK n \in Node : n = f[s].row /\ owner[n] = s /\ new[n].st = "live"
  BY <1>1, <1>2, CallFacts, PublishedData DEF PcHolds
<1>4. PICK u \in Upload : u = f[s].call.up
  BY <1>1, <1>2, HeldUp
<1>5. PICK c, x, y, nm : /\ c = f[s].call /\ x = f[s].content /\ y = udb[u]
                         /\ nm = Base(y.path) /\ y.data \in Content
  BY <1>1, <1>2, <1>4, HeldUp
<1>6. Staged(s) = y /\ nm = Base(Path(s)) /\ Exclusive(s) = y.excl /\ c.op = "finish_upload"
      /\ c.up = u
  BY <1>1, <1>2, <1>4, <1>5, HeldUp DEF Path, Exclusive, Finishing
<1>7. ASSUME Discard(s) PROVE UpsBy(s) /\ Dropped(s, u)' /\ udb'[u] = y
  BY <1>1, <1>2, <1>4, <1>5, <1>7, DiscardDrops DEF Discard
<1> DEFINE append == Staged(s).app /\ ~f[s].made
<1>8. CASE ~append /\ c.sha = "differ"
  <2>1. Refuse(s) /\ UNCHANGED rowVars
    BY <1>5, <1>8 DEF Publish
  <2>2. CASE f[s].made
    <3>1. Return(s, FALSE) /\ UpsBy(s) /\ Dropped(s, u)' /\ udb'[u] = y
      BY <1>2, <1>7, <2>1 DEF Refuse
    <3>2. /\ OnlyRow(s, n) /\ db[n].st = "free" /\ new[n] = FileRow(f[s].cur, nm)
          /\ Anchor(s, f[s].cur)
      BY <1>2, <1>3, <1>6, <2>2 DEF Inserted
    <3>3. RowsBy(s) /\ RowInv' /\ OnlyRow(s, n)' /\ db' = db /\ new' = new /\ shares' = shares
      BY <2>1, <3>2, RowsStill DEF rowVars
    <3>4. PICK d : d = << >>
      OBVIOUS
    <3>5. Made(s, n, nm, d)'
      <4>1. PICK p, w : p = f[s].cur /\ w = FileRow(p, nm)
        OBVIOUS
      <4>2. w.parent = p /\ w.st = "live" /\ w.data = << >>
        BY <4>1 DEF FileRow
      <4>3. Face(w) = [Face(w) EXCEPT !.data = d]
        BY <3>4, <4>2 DEF Face
      <4>4. new'[n] = w /\ db'[n].st = "free" /\ w = FileRow(w.parent, nm)
        BY <3>2, <3>3, <4>1, <4>2
      <4>5. Anchor(s, new[n].parent)'
        BY <3>2, <3>3, <4>1, <4>2, <4>4 DEF Anchor
      <4> QED
        BY <3>3, <4>2, <4>3, <4>4, <4>5 DEF Made
    <3>6. Created(s, nm, d)'
      BY <3>5 DEF Created
    <3>7. Refused(s, c)'
      BY <1>5, <1>6, <1>8, <3>1, <3>6, <3>4 DEF Refused
    <3> QED
      BY <1>1, <1>5, <3>1, <3>3, <3>7, FailQuiet
  <2>3. CASE ~f[s].made
    <3>1. RowsBy(s) /\ RowInv' /\ RowsClean(s)'
      BY <1>2, <2>1, <2>3, RowsStill
    <3> QED
      BY <1>1, <1>2, <2>1, <3>1, RefuseQuiet
  <2> QED
    BY <2>2, <2>3
<1>9. CASE append \/ c.sha # "differ"
  <2>1. PICK d : d = IF append THEN Appended(s) ELSE Staged(s).data
    OBVIOUS
  <2>2. Put(s, n, d) /\ Return(s, TRUE) /\ Discard(s) /\ UNCHANGED <<db, shares>>
    BY <1>3, <1>5, <1>9, <2>1 DEF Publish
  <2>3. d \in Content
    BY <1>2, <2>1
  <2>4. /\ RowsBy(s) /\ RowInv'
        /\ Inserted(s) /\ Anchor(s, f[s].cur) => Made(s, n, nm, d)'
        /\ RowsClean(s) /\ ~db[n].dir => Wrote(s, n, d)'
    BY <1>3, <1>6, <2>2, <2>3, PutDone
  <2>5. UpsBy(s) /\ Dropped(s, u)' /\ udb'[u] = y
    BY <1>7, <2>2
  <2>6. Published(s, u)'
    <3>1. CASE f[s].made
      <4>1. Made(s, n, nm, d)' /\ d = y.data
        BY <1>2, <1>6, <2>1, <2>4, <3>1
      <4>2. Created(s, nm, d)'
        BY <4>1 DEF Created
      <4> QED
        BY <1>5, <2>5, <4>1, <4>2 DEF Published
    <3>2. CASE ~f[s].made
      <4>1. ~db[n].dir /\ ~y.excl /\ (append => d = db[n].data \o y.data)
        BY <1>1, <1>3, <1>6, <2>1, <3>2, AppendedWhole
      <4>2. d = Merged(db[n], y)
        BY <1>6, <2>1, <3>2, <4>1 DEF Merged
      <4>3. Wrote(s, n, d)' /\ db'[n] = db[n]
        BY <1>2, <2>2, <2>4, <3>2, <4>1
      <4>4. Wrote(s, n, Merged(db[n], udb[u]))'
        BY <2>5, <4>2, <4>3 DEF Merged
      <4> QED
        BY <2>5, <4>1, <4>4 DEF Published
    <3> QED
      BY <3>1, <3>2
  <2>7. Succeeded(s, c, x)'
    BY <1>6, <2>5, <2>6 DEF Succeeded
  <2> QED
    BY <1>1, <1>5, <2>2, <2>4, <2>5, <2>7, SucceedQuiet
<1> QED
  BY <1>8, <1>9

LEMMA AbortUploadQuiet ==
    ASSUME RefOK, NEW s \in Sess, AbortUpload(s)
    PROVE  Quiet(s)
<1>1. /\ pc[s] = "ab_delete" /\ pc[s] # "idle" /\ left' = left
      /\ UploadWaits(s, f[s].call.up) = {} /\ UNCHANGED rowVars /\ udb' = udb
  BY DEF AbortUpload, At, Stay
<1>2. /\ RowsClean(s) /\ UpsClean(s) /\ FilesInv
      /\ f[s].out = "error" => f[s].call.op \in {"upload_part", "finish_upload"}
      /\ f[s].out # "error" => f[s].call.op = "abort_upload"
  BY <1>1, RefFacts DEF Knows, Putting
<1>3. PICK u \in Upload : u = f[s].call.up
  BY <1>1, <1>2, UploadFacts
<1>4. PICK c, x : c = f[s].call /\ x = f[s].content
  OBVIOUS
<1>5. RowsBy(s) /\ RowInv' /\ RowsClean(s)'
  BY <1>1, <1>2, RowsStill
<1>6. UpsBy(s) /\ (Own(s, u) => Dropped(s, u)') /\ (~Own(s, u) => UpsClean(s)')
  <2>1. CASE Own(s, u)
    <3>1. unew' = [unew EXCEPT ![u].st = "dead"] /\ U!Lock(s, u)
      BY <1>3, <2>1 DEF AbortUpload
    <3>2. uowner[u] \in {s, None} /\ OwnUp(s, u)
      BY <1>1, <1>2, <1>3, <2>1, UpFacts DEF UploadWaits
    <3> QED
      BY <1>1, <1>2, <2>1, <3>1, <3>2, UpsDropped DEF U!Lock
  <2>2. CASE ~Own(s, u)
    <3>1. UNCHANGED uploadVars
      BY <1>1, <1>3, <2>2 DEF AbortUpload, uploadVars
    <3> QED
      BY <1>2, <2>2, <3>1, UpsStill
  <2> QED
    BY <2>1, <2>2
<1>7. CASE f[s].out = "error"
  <2>1. Goto(s, "commit") /\ UNCHANGED f
    BY <1>7 DEF AbortUpload
  <2>2. pc' = [pc EXCEPT ![s] = "commit"] /\ f' = [f EXCEPT ![s] = f[s]]
    BY <1>2, <2>1, CallFacts DEF Goto, LocalsTyped
  <2>3. Alone(s) /\ Silent(s) /\ pc'[s] = "commit" /\ f'[s] = f[s]
    BY <1>1, <2>2, GoesOn
  <2>4. Raised(s, c)'
    BY <1>2, <1>3, <1>4, <1>5, <1>6, <1>7 DEF Raised
  <2>5. Result(s)'
    BY <1>4, <1>7, <2>3, <2>4 DEF Result
  <2> QED
    BY <1>5, <1>6, <2>3, <2>5, ToCommit DEF Quiet
<1>8. CASE f[s].out # "error" /\ Own(s, u)
  <2>1. Return(s, TRUE)
    BY <1>3, <1>8 DEF AbortUpload, Return
  <2>2. Succeeded(s, c, x)'
    BY <1>2, <1>3, <1>4, <1>5, <1>6, <1>8 DEF Succeeded
  <2> QED
    BY <1>1, <1>4, <1>5, <1>6, <2>1, <2>2, SucceedQuiet
<1>9. CASE f[s].out # "error" /\ ~Own(s, u)
  <2>1. Return(s, FALSE)
    BY <1>3, <1>9 DEF AbortUpload, Return
  <2>2. Refused(s, c)'
    BY <1>5, <1>6, <1>9 DEF Refused
  <2> QED
    BY <1>1, <1>4, <1>5, <1>6, <2>1, <2>2, FailQuiet
<1> QED
  BY <1>7, <1>8, <1>9

\* cleanup goes on to its next expired upload.
LEMMA SweepOn ==
    ASSUME RefOK, NEW s \in Sess, pc[s] # "idle", left' = left, NEW todo,
           f' = [f EXCEPT ![s].todo = todo], pc' = [pc EXCEPT ![s] = "cl_delete"],
           UNCHANGED rowVars, RowsClean(s), UpsBy(s), Swept(s)'
    PROVE  Quiet(s)
<1>1. PICK g : g = [f[s] EXCEPT !.todo = todo]
  OBVIOUS
<1>2. g.call = f[s].call /\ g.content = f[s].content
  BY <1>1, RefFacts, CallFacts DEF Frame
<1>3. Alone(s) /\ Silent(s) /\ pc'[s] = "cl_delete" /\ f'[s] = g
  <2>1. f' = [f EXCEPT ![s] = g]
    BY <1>1
  <2> QED
    BY <1>2, <2>1, GoesOn
<1>4. RowsBy(s) /\ RowInv' /\ RowsClean(s)'
  BY RowsStill
<1>5. SoFar(s)' /\ Knows(s)'
  BY <1>3, <1>4 DEF SoFar, Knows, Putting
<1> QED
  BY <1>3, <1>4, <1>5 DEF Quiet

LEMMA CleanupScanQuiet ==
    ASSUME RefOK, NEW s \in Sess, CleanupScan(s)
    PROVE  Quiet(s)
<1>1. /\ pc[s] = "cl_scan" /\ pc[s] # "idle" /\ left' = left
      /\ UNCHANGED rowVars /\ UNCHANGED uploadVars
      /\ f' = [f EXCEPT ![s].todo = {u \in Upload : Expired(s, u)}]
      /\ pc' = [pc EXCEPT ![s] = "cl_delete"]
  BY DEF CleanupScan, At, Stay, Goto
<1>2. RowsClean(s) /\ UpsClean(s)
  BY <1>1, RefFacts DEF Putting
<1>3. Swept(s)
  BY <1>2 DEF UpsClean, Swept
<1>4. UpsBy(s) /\ Swept(s)'
  BY <1>1, <1>3, UpsStill
<1> QED
  BY <1>1, <1>2, <1>4, SweepOn

LEMMA CleanupDeleteQuiet ==
    ASSUME RefOK, NEW s \in Sess, CleanupDelete(s)
    PROVE  Quiet(s)
<1>1. pc[s] = "cl_delete" /\ pc[s] # "idle" /\ left' = left /\ UNCHANGED rowVars
  BY DEF CleanupDelete, At, Stay
<1>2. /\ RowsClean(s) /\ Swept(s) /\ FilesInv /\ f[s].call.op = "cleanup" /\ LocalOK(s)
      /\ f[s].todo \subseteq Upload
  BY <1>1, RefFacts, CallFacts DEF SoFar, Putting, PcLocal, LabelOK, TenantOK, TenantInv
<1>3. CASE f[s].todo = {}
  <2>1. Return(s, TRUE) /\ UNCHANGED uploadVars
    BY <1>3 DEF CleanupDelete
  <2>2. PICK c, x : c = f[s].call /\ x = f[s].content
    OBVIOUS
  <2>3. RowsBy(s) /\ RowInv' /\ RowsClean(s)' /\ UpsBy(s) /\ Swept(s)'
    BY <1>1, <1>2, <2>1, RowsStill, UpsStill
  <2>4. Succeeded(s, c, x)'
    BY <1>2, <2>2, <2>3 DEF Succeeded
  <2> QED
    BY <1>1, <2>1, <2>2, <2>3, <2>4, SucceedQuiet
<1>4. CASE f[s].todo # {}
  <2>1. PICK u \in f[s].todo :
          /\ U!LockWaits(s, u) = {}
          /\ f' = [f EXCEPT ![s].todo = @ \ {u}]
          /\ IF U!Live(s, u) THEN unew' = [unew EXCEPT ![u].st = "dead"] /\ U!Lock(s, u)
             ELSE UNCHANGED <<unew, uowner>>
          /\ UNCHANGED <<udb, pc>>
    BY <1>4 DEF CleanupDelete
  <2>2. PICK todo : todo = f[s].todo \ {u}
    OBVIOUS
  <2>3. f' = [f EXCEPT ![s].todo = todo] /\ pc' = [pc EXCEPT ![s] = "cl_delete"]
    BY <1>1, <1>2, <2>1, <2>2, CallFacts DEF LocalsTyped
  <2>4. /\ u \in Upload /\ uowner[u] \in {s, None} /\ unew[u] \in UploadRow
        /\ U!Seen(s, u) = unew[u]
    BY <1>2, <2>1, UpFacts
  <2>5. CASE U!Live(s, u)
    <3>1. unew[u].st = "live" /\ unew' = [unew EXCEPT ![u].st = "dead"]
          /\ uowner' = [uowner EXCEPT ![u] = s] /\ udb' = udb
      BY <2>1, <2>4, <2>5 DEF U!Live, U!Lock
    <3>2. unew[u] = udb[u] /\ (uowner[u] = s \/ UpMine(s, u))
      BY <1>1, <1>2, <2>4, <3>1, RefFacts, CallFacts DEF Swept, LocalOK, UpsOK
    <3>3. OwnUp(s, u)
      BY <2>4, <3>1, <3>2 DEF OwnUp, UpMine, RefOK, TenantOK, TenantInv, UpOwnedOK
    <3>4. PICK v : v = [unew[u] EXCEPT !.st = "dead"]
      OBVIOUS
    <3>5. v \in UploadRow /\ v.st = "dead" /\ UpChange(s, u, v)
      BY <2>4, <3>1, <3>4 DEF UploadRow, UpChange
    <3>6. /\ UpsBy(s) /\ unew'[u] = v
          /\ \A w \in Upload \ {u} : unew'[w] = unew[w] /\ uowner'[w] = uowner[w]
      BY <2>4, <3>5, UpsPut
    <3>7. Swept(s)'
      BY <1>2, <3>1, <3>3, <3>5, <3>6 DEF Swept, OwnUp
    <3> QED
      BY <1>1, <1>2, <2>3, <3>6, <3>7, SweepOn
  <2>6. CASE ~U!Live(s, u)
    <3>1. UNCHANGED uploadVars
      BY <2>1, <2>6 DEF uploadVars
    <3>2. UpsBy(s) /\ Swept(s)'
      BY <1>2, <3>1, UpsStill
    <3> QED
      BY <1>1, <1>2, <2>3, <3>2, SweepOn
  <2> QED
    BY <2>5, <2>6
<1> QED
  BY <1>3, <1>4

-----------------------------------------------------------------------------
(* The end of a call: a rollback, the SELECT of read_file, the COMMIT *)

\* The call returns, and has changed no row.
Ended(s) == /\ RowsBy(s) /\ UpsBy(s) /\ Alone(s) /\ RowInv' /\ SoFar(s)' /\ Knows(s)'
            /\ pc[s] # "idle" /\ pc'[s] = "idle" /\ left' = left

LEMMA EndedRef ==
    ASSUME RefOK, NEW s \in Sess, Ended(s)
    PROVE  RefInv'
BY RefStep DEF Ended, RefOK, RefInv

LEMMA ToIdle ==
    ASSUME NEW s \in Sess, pc'[s] = "idle", RowsClean(s)', UpsClean(s)'
    PROVE  SoFar(s)' /\ Knows(s)'
BY DEF SoFar, Knows, Putting

LEMMA RollbackRef ==
    ASSUME RefOK, NEW s \in Sess, Rollback(s)
    PROVE  RowsBy(s) /\ RowInv' /\ RowsClean(s)' /\ UpsBy(s) /\ UpsClean(s)'
<1>1. /\ db' = db /\ s # None
      /\ \A n \in Node : /\ new'[n] = IF owner[n] = s THEN db[n] ELSE new[n]
                         /\ owner'[n] = IF owner[n] = s THEN None ELSE owner[n]
                         /\ shares'[n] = shares[n] \ {s}
  BY PgAssumption DEF Rollback, RollbackRows, ReleaseRows
<1>2. /\ udb' = udb
      /\ \A u \in Upload : /\ unew'[u] = IF uowner[u] = s THEN udb[u] ELSE unew[u]
                           /\ uowner'[u] = IF uowner[u] = s THEN None ELSE uowner[u]
  BY DEF Rollback, U!RollbackRows, U!ReleaseRows
<1>3. RowsBy(s)
  BY <1>1 DEF RowsBy
<1>4. RowsClean(s)'
  BY <1>1 DEF RowsClean
<1>5. UpsBy(s)
  BY <1>2 DEF UpsBy
<1>6. UpsClean(s)'
  BY <1>1, <1>2 DEF UpsClean
<1>7. ASSUME NEW n \in Node PROVE Fixed(n)'
  BY <1>1, RowFacts DEF Fixed
<1>8. ASSUME NEW n \in Node PROVE NoTwin(n)'
  <2> SUFFICES ASSUME db'[n].st = "free", new'[n].st = "live", NEW m \in Node \ {n},
                      new'[m].st = "live"
               PROVE  ~(new'[m].parent = new'[n].parent /\ new'[m].name = new'[n].name)
    BY DEF NoTwin
  <2>1. new'[n] = new[n] /\ db[n].st = "free"
    BY <1>1
  <2>2. /\ new[m].st = "live" /\ new'[m].parent = new[m].parent
        /\ new'[m].name = new[m].name
    BY <1>1, RowFacts DEF Fixed
  <2>3. NoTwin(n)
    BY RowFacts
  <2> QED
    BY <2>1, <2>2, <2>3 DEF NoTwin
<1> QED
  BY <1>3, <1>4, <1>5, <1>6, <1>7, <1>8 DEF RowInv

LEMMA RolledBack ==
    ASSUME RefOK, NEW s \in Sess, Rollback(s), pc[s] # "idle", left' = left, Goto(s, "idle"),
           f' = [f EXCEPT ![s] = Fresh(s, NoCall, << >>, "error")]
    PROVE  Ended(s) /\ f'[s].out = "error" /\ f'[s].got = << >>
<1>1. RowsBy(s) /\ RowInv' /\ RowsClean(s)' /\ UpsBy(s) /\ UpsClean(s)'
  BY RollbackRef
<1>2. PICK g : g = Fresh(s, NoCall, << >>, "error")
  OBVIOUS
<1>3. g.out = "error" /\ g.got = << >>
  BY <1>2 DEF Fresh
<1>4. /\ pc'[s] = "idle" /\ f'[s] = g
      /\ \A t \in Sess \ {s} : f'[t] = f[t] /\ pc'[t] = pc[t]
  BY <1>2 DEF Goto, RefOK, TenantOK, FilesInv, LocalsTyped
<1> QED
  BY <1>1, <1>3, <1>4, ToIdle DEF Ended, Alone

\* After an exception the call returns, or tries to abort its upload.
LEMMA RaiseRef ==
    ASSUME RefOK, NEW s \in Sess, Raise(s), pc[s] # "idle", left' = left
    PROVE  Quiet(s) \/ (Ended(s) /\ f'[s].out = "error" /\ f'[s].got = << >>)
<1>1. CASE f[s].call.op \in {"upload_part", "finish_upload"} /\ f[s].out # "error"
  <2>1. Rollback(s) /\ Goto(s, "ab_delete") /\ f' = [f EXCEPT ![s].out = "error"]
    BY <1>1 DEF Raise
  <2>2. PICK g : g = [f[s] EXCEPT !.out = "error"]
    OBVIOUS
  <2>3. f' = [f EXCEPT ![s] = g] /\ pc' = [pc EXCEPT ![s] = "ab_delete"]
    BY <2>1, <2>2 DEF Goto
  <2>4. g.call = f[s].call /\ g.content = f[s].content /\ g.out = "error"
    BY <2>2, RefFacts, CallFacts DEF Frame
  <2>5. Alone(s) /\ Silent(s) /\ pc'[s] = "ab_delete" /\ f'[s] = g
    BY <2>3, <2>4, GoesOn
  <2>6. RowsBy(s) /\ RowInv' /\ RowsClean(s)' /\ UpsBy(s) /\ UpsClean(s)'
    BY <2>1, RollbackRef
  <2>7. SoFar(s)' /\ Knows(s)'
    BY <1>1, <2>4, <2>5, <2>6 DEF SoFar, Knows, Putting
  <2> QED
    BY <2>5, <2>6, <2>7 DEF Quiet
<1>2. CASE ~(f[s].call.op \in {"upload_part", "finish_upload"} /\ f[s].out # "error")
  <2>1. /\ Rollback(s) /\ Goto(s, "idle")
        /\ f' = [f EXCEPT ![s] = Fresh(s, NoCall, << >>, "error")]
    BY <1>2 DEF Raise
  <2> QED
    BY <2>1, RolledBack
<1> QED
  BY <1>1, <1>2

\* read_file returns what a file holds, or that there is none.
ReadResult(s) == \/ f'[s].out = "false" /\ f'[s].got = << >>
                 \/ /\ f[s].call.op = "read_file" /\ f'[s].out = "true"
                    /\ \E n \in Node : /\ db[n].st = "live" /\ ~db[n].dir
                                       /\ f'[s].got = db[n].data

LEMMA ReadEnds ==
    ASSUME RefOK, NEW s \in Sess, Read(s)
    PROVE  Ended(s) /\ ReadResult(s) /\ UNCHANGED <<rowVars, uploadVars>>
<1>1. /\ pc[s] = "read" /\ pc[s] # "idle" /\ left' = left
      /\ UNCHANGED rowVars /\ UNCHANGED uploadVars
  BY DEF Read, At, Stay
<1>2. RowsClean(s) /\ UpsClean(s) /\ FilesInv /\ f[s].call.op = "read_file"
  BY <1>1, RefFacts, CallFacts DEF PcLocal, LabelOK, Putting
<1>3. PICK n \in Node : n = f[s].cur /\ Seen(s, n) = db[n] /\ db[n] \in Row
  BY <1>2, CallFacts, RowFacts
<1>4. PICK d \in Content : d = db[n].data
  BY <1>3 DEF Row
<1>5. db[n].st = "live" => SubSeq(d, 1, db[n].size) = d
  <2>1. db[n].st = "live" => db[n].size = Len(d)
    BY <1>2, <1>4, CallFacts DEF RowsOK, Consistent
  <2> QED
    BY <2>1, WholeSeq
<1>6. PICK gone, here : /\ gone = Fresh(s, NoCall, << >>, "false")
                        /\ here = [Fresh(s, NoCall, << >>, "true") EXCEPT
                                       !.got = SubSeq(d, 1, db[n].size)]
  OBVIOUS
<1>7. /\ gone.out = "false" /\ gone.got = << >>
      /\ here.out = "true" /\ here.got = SubSeq(d, 1, db[n].size)
  BY <1>6 DEF Fresh
<1>8. PICK g : /\ g = IF db[n].st # "live" \/ db[n].dir THEN gone ELSE here
               /\ f' = [f EXCEPT ![s] = g]
  BY <1>3, <1>4, <1>6 DEF Read
<1>9. /\ pc'[s] = "idle" /\ f'[s] = g
      /\ \A t \in Sess \ {s} : f'[t] = f[t] /\ pc'[t] = pc[t]
  BY <1>2, <1>8, CallFacts DEF Read, Goto, LocalsTyped
<1>10. RowsBy(s) /\ RowInv' /\ RowsClean(s)' /\ UpsBy(s) /\ UpsClean(s)'
  BY <1>1, <1>2, RowsStill, UpsStill
<1>11. Ended(s)
  BY <1>1, <1>9, <1>10, ToIdle DEF Ended, Alone
<1>12. ReadResult(s)
  <2>1. CASE db[n].st # "live" \/ db[n].dir
    BY <1>7, <1>8, <1>9, <2>1 DEF ReadResult
  <2>2. CASE db[n].st = "live" /\ ~db[n].dir
    <3>1. f'[s] = here /\ here.got = db[n].data
      BY <1>4, <1>5, <1>7, <1>8, <1>9, <2>2
    <3> QED
      BY <1>2, <1>7, <2>2, <3>1 DEF ReadResult
  <2> QED
    BY <2>1, <2>2
<1> QED
  BY <1>1, <1>11, <1>12

LEMMA CommitRef ==
    ASSUME RefOK, NEW s \in Sess, Commit(s)
    PROVE  RefInv'
<1>1. /\ \A n \in Node : db'[n] = IF owner[n] = s THEN new[n] ELSE db[n]
      /\ \A u \in Upload : udb'[u] = IF uowner[u] = s THEN unew[u] ELSE udb[u]
  BY CommitFacts DEF RefOK
<1>2. /\ new' = new /\ unew' = unew /\ left' = left /\ s # None
      /\ \A n \in Node : /\ owner'[n] = IF owner[n] = s THEN None ELSE owner[n]
                         /\ shares'[n] = shares[n] \ {s}
      /\ \A u \in Upload : uowner'[u] = IF uowner[u] = s THEN None ELSE uowner[u]
  BY PgAssumption
     DEF Commit, CommitRows, ReleaseRows, U!CommitRows, U!ReleaseRows, Stay
<1>3. pc'[s] = "idle" /\ \A t \in Sess \ {s} : f'[t] = f[t] /\ pc'[t] = pc[t]
  BY DEF Commit, Goto, RefOK, TenantOK, FilesInv, LocalsTyped
<1>4. SoFar(s)' /\ Knows(s)'
  <2>1. RowsClean(s)' /\ UpsClean(s)'
    BY <1>2 DEF RowsClean, UpsClean
  <2> QED
    BY <1>3, <2>1, ToIdle
<1>5. ASSUME NEW t \in Sess \ {s} PROVE SoFar(t)' /\ Knows(t)'
  <2>1. t # None /\ t # s
    BY PgAssumption
  <2>2. \A n \in Node : Fixed(n)
    BY DEF RefOK, RefInv
  <2>3. ASSUME NEW n \in Node
        PROVE  /\ owner'[n] = t <=> owner[n] = t
               /\ owner[n] = t => new'[n] = new[n] /\ db'[n] = db[n]
               /\ t \in shares[n] => t \in shares'[n]
               /\ t \in shares[n] /\ db[n].st = "live" => db'[n].st = "live"
               /\ db[n].st # "free" => db'[n].st # "free" /\ db'[n].dir = db[n].dir
    BY <1>1, <1>2, <2>1, <2>2 DEF Fixed
  <2>4. ASSUME NEW u \in Upload
        PROVE  /\ uowner'[u] = t <=> uowner[u] = t
               /\ uowner[u] = t => unew'[u] = unew[u] /\ udb'[u] = udb[u]
    BY <1>1, <1>2, <2>1
  <2>5. Spared(t)
    BY <1>3, <2>3, <2>4 DEF Spared
  <2> QED
    BY <2>5, RefFacts, SparedSoFar, SparedKnows
<1>6. ASSUME NEW n \in Node PROVE Fixed(n)' /\ NoTwin(n)'
  <2>1. Fixed(n) /\ NoTwin(n)
    BY RowFacts
  <2>2. CASE owner[n] = s
    BY <1>1, <1>2, <2>2 DEF Fixed, NoTwin
  <2>3. CASE owner[n] # s
    BY <1>1, <1>2, <2>1, <2>3 DEF Fixed, NoTwin
  <2> QED
    BY <2>2, <2>3
<1> QED
  BY <1>2, <1>4, <1>5, <1>6, RefFacts DEF RefInv

-----------------------------------------------------------------------------
(* The beginning of a call *)

\* The call c has begun, or its arguments are no call at all.
Begun(s, c) ==
    \/ /\ pc'[s] # "idle" /\ f'[s].call = c
       /\ f'[s].content = << >> \/ f'[s].content = <<left>>
    \/ pc'[s] = "idle" /\ f'[s].out = "error" /\ f'[s].got = << >>

Begins(s, c) == /\ RowsBy(s) /\ UpsBy(s) /\ Alone(s) /\ RowInv' /\ SoFar(s)' /\ Knows(s)'
                /\ Begun(s, c)

\* A call that begins with a statement of its own.
LEMMA BeginsAt ==
    ASSUME RefOK, NEW s \in Sess, At(s, "idle"), UNCHANGED <<rowVars, uploadVars>>, NEW g,
           NEW label \in {"su_insert", "ab_delete", "fin_upload", "up_lock", "cl_scan"},
           Goto(s, label), f' = [f EXCEPT ![s] = g], ~g.made,
           g.content = << >> \/ g.content = <<left>>,
           label = "ab_delete" => IF g.out = "error"
                                  THEN g.call.op \in {"upload_part", "finish_upload"}
                                  ELSE g.call.op = "abort_upload"
    PROVE  Begins(s, g.call)
<1>1. RowsClean(s) /\ UpsClean(s)
  BY RefFacts DEF At, Putting
<1>2. RowsBy(s) /\ RowInv' /\ RowsClean(s)' /\ UpsBy(s) /\ UpsClean(s)'
  BY <1>1, RowsStill, UpsStill
<1>3. /\ pc'[s] = label /\ f'[s] = g
      /\ \A t \in Sess \ {s} : f'[t] = f[t] /\ pc'[t] = pc[t]
  BY DEF Goto, RefOK, TenantOK, FilesInv, LocalsTyped
<1>4. SoFar(s)'
  BY <1>2, <1>3, ToClean DEF Putting
<1>5. Knows(s)'
  BY <1>3 DEF Knows
<1> QED
  BY <1>2, <1>3, <1>4, <1>5 DEF Begins, Begun, Alone

LEMMA BeginBegins ==
    ASSUME RefOK, NEW s \in Sess, NEW c \in Calls, Begin(s, c)
    PROVE  Begins(s, c)
<1> DEFINE x == IF c.empty THEN << >> ELSE <<left>>
           fr == Fresh(s, c, x, "none")
<1>1. /\ At(s, "idle") /\ UNCHANGED rowVars /\ c \in Call /\ c.op \in Ops
      /\ c.path \in Seq(Name)
  BY FilesAssumption DEF Begin, Call
<1>2. /\ RowsClean(s) /\ UpsClean(s) /\ FilesInv
  BY <1>1, RefFacts DEF At, Putting
<1>3. x = << >> \/ x = <<left>>
  OBVIOUS
<1>5. fr \in Frame /\ fr.call = c /\ fr.content = x /\ fr.goal = "node" /\ ~fr.made
      /\ fr.out = "none"
  <2>1. x \in Content /\ CountsOK
    BY <1>2, CallFacts, EmptySeq DEF Content, CountsOK
  <2>2. fr \in Frame /\ fr.call = c /\ fr.content = x /\ fr.goal = "node"
    BY <1>1, <2>1, FreshFrame
  <2> QED
    BY <2>2 DEF Fresh
<1> HIDE DEF fr, x
<1>6. CASE c.op \in {"write_file", "write_file_atomic", "read_file", "set_metadata"}
  <2>1. StartWalk(s, fr, c.path)
    BY <1>6 DEF Begin, fr, x
  <2>2. Clean(s, fr)
    BY <1>2, <1>5 DEF Clean
  <2>3. OnTheWay(s, fr)
    BY <1>1, <2>1, <2>2, StartWalkWay
  <2> QED
    BY <1>3, <1>5, <2>3 DEF OnTheWay, Begins, Begun
<1>7. CASE c.op = "start_upload" /\ Malformed(c)
  <2>1. /\ f' = [f EXCEPT ![s] = Fresh(s, NoCall, << >>, "error")]
        /\ UNCHANGED <<pc, uploadVars>>
    BY <1>7 DEF Begin
  <2>2. PICK g : g = Fresh(s, NoCall, << >>, "error")
    OBVIOUS
  <2>6. g.out = "error" /\ g.got = << >>
    BY <2>2 DEF Fresh
  <2>3. /\ pc'[s] = "idle" /\ f'[s] = g
        /\ \A t \in Sess \ {s} : f'[t] = f[t] /\ pc'[t] = pc[t]
    BY <1>1, <1>2, <2>1, <2>2, CallFacts DEF At, LocalsTyped
  <2>4. RowsBy(s) /\ RowInv' /\ RowsClean(s)' /\ UpsBy(s) /\ UpsClean(s)'
    BY <1>1, <1>2, <2>1, RowsStill, UpsStill
  <2> QED
    BY <2>6, <2>3, <2>4, ToIdle DEF Begins, Begun, Alone
<1>8. CASE /\ c.op \in {"start_upload", "finish_upload", "upload_part", "abort_upload",
                        "cleanup"}
           /\ ~(c.op = "start_upload" /\ Malformed(c))
  <2>1. PICK label \in {"su_insert", "ab_delete", "fin_upload", "up_lock", "cl_scan"},
             out \in {"none", "error"} :
            /\ Goto(s, label) /\ f' = [f EXCEPT ![s] = [fr EXCEPT !.out = out]]
            /\ UNCHANGED uploadVars
            /\ label = "ab_delete" => IF out = "error" THEN c.op = "finish_upload"
                                      ELSE c.op = "abort_upload"
    BY <1>1, <1>8 DEF Begin, Ops, fr, x
  <2>2. PICK g : g = [fr EXCEPT !.out = out]
    OBVIOUS
  <2>3. g.call = c /\ g.content = x /\ ~g.made /\ g.out = out
    BY <1>5, <2>2 DEF Frame
  <2>4. f' = [f EXCEPT ![s] = g]
    BY <2>1, <2>2
  <2>5. Begins(s, g.call)
    BY <1>1, <1>3, <2>1, <2>3, <2>4, BeginsAt
  <2> QED
    BY <2>3, <2>5
<1> QED
  BY <1>1, <1>6, <1>7, <1>8 DEF Ops

LEMMA BeginRef ==
    ASSUME RefOK, NEW s \in Sess, NEW c \in Calls, Begin(s, c)
    PROVE  RefInv'
<1>1. Begins(s, c)
  BY BeginBegins
<1>2. left' <= MaxCalls
  <2>1. left' = left - 1 /\ left <= MaxCalls /\ left \in Nat /\ MaxCalls \in Nat
    BY RefFacts, CallFacts, FilesAssumption DEF Begin, CountsOK
  <2> QED
    BY <2>1
<1> QED
  BY <1>1, <1>2, RefStep DEF Begins

-----------------------------------------------------------------------------
(* The single-step calls *)

\* A committed call makes row n, which nobody has locked, v.
OtherRow(n, v) == /\ db' = [db EXCEPT ![n] = v] /\ new' = [new EXCEPT ![n] = v]
                  /\ UNCHANGED <<owner, shares, uploadVars, pc, f, left>>

LEMMA OtherRef ==
    ASSUME RefOK, NEW n \in Node, NEW v, OtherRow(n, v), owner[n] = None,
           v.st = "live" \/ shares[n] = {},
           db[n].st # "free" => v.st # "free" /\ v.dir = db[n].dir,
           v.st = "live" => \A m \in Node \ {n} : ~Holds(new[m], v.parent, v.name)
    PROVE  RefInv'
<1>1. \A m \in Node : /\ db'[m] = IF m = n THEN v ELSE db[m]
                      /\ new'[m] = IF m = n THEN v ELSE new[m]
                      /\ owner'[m] = owner[m] /\ shares'[m] = shares[m]
  BY DEF OtherRow, RefOK, TenantOK, FilesInv, RowsOK, RowsTyped
<1>2. UNCHANGED uploadVars /\ f' = f /\ pc' = pc /\ left' = left
  BY DEF OtherRow
<1>3. ASSUME NEW t \in Sess PROVE SoFar(t)' /\ Knows(t)'
  <2>1. t # None /\ udb' = udb /\ unew' = unew /\ uowner' = uowner
    BY <1>2, PgAssumption DEF uploadVars
  <2>2. Spared(t)
    BY <1>1, <1>2, <2>1 DEF Spared
  <2> QED
    BY <2>2, RefFacts, SparedSoFar, SparedKnows
<1>4. ASSUME NEW k \in Node PROVE Fixed(k)' /\ NoTwin(k)'
  <2>1. Fixed(k) /\ NoTwin(k)
    BY DEF RefOK, RefInv
  <2>2. CASE k = n
    BY <1>1, <2>2 DEF Fixed, NoTwin
  <2>3. CASE k # n
    BY <1>1, <2>1, <2>3 DEF Fixed, NoTwin, Holds
  <2> QED
    BY <2>2, <2>3
<1> QED
  BY <1>2, <1>3, <1>4 DEF RefOK, RefInv

\* What a statement outside the transactions sees of the rows nobody has locked.
LEMMA Unheld ==
    ASSUME RefOK, NEW n \in Node
    PROVE  /\ db[n] \in Row
           /\ LockWaits(None, n) = {} => owner[n] = None /\ new[n] = db[n] /\ shares[n] = {}
           /\ Seen(None, n) = db[n]
<1>1. /\ db[n] \in Row /\ owner[n] \in Sess \cup {None} /\ shares[n] \subseteq Sess
      /\ owner[n] = None => new[n] = db[n]
  BY DEF RefOK, TenantOK, FilesInv, RowsOK, RowsTyped
<1>2. LockWaits(None, n) = {} => owner[n] = None /\ shares[n] = {}
  BY <1>1, PgAssumption DEF LockWaits
<1> QED
  BY <1>1, <1>2 DEF Seen

LEMMA DeleteNodeRef ==
    ASSUME RefOK, NEW n \in Node, DeleteNode(n)
    PROVE  RefInv'
<1>1. /\ LockWaits(None, n) = {} /\ db' = [db EXCEPT ![n].st = "dead"]
      /\ new' = [new EXCEPT ![n].st = "dead"]
      /\ UNCHANGED <<owner, shares, uploadVars, pc, f, left>>
  BY DEF DeleteNode
<1>2. db[n] \in Row /\ owner[n] = None /\ new[n] = db[n] /\ shares[n] = {}
  BY <1>1, Unheld
<1>3. PICK v : v = [db[n] EXCEPT !.st = "dead"]
  OBVIOUS
<1>4. v.st = "dead" /\ v.dir = db[n].dir
  BY <1>2, <1>3 DEF Row
<1>5. OtherRow(n, v)
  BY <1>1, <1>2, <1>3 DEF OtherRow
<1> QED
  BY <1>2, <1>4, <1>5, OtherRef

LEMMA MoveNodeRef ==
    ASSUME RefOK, NEW n \in Node, NEW p \in Node, NEW nm \in Name, MoveNode(n, p, nm)
    PROVE  RefInv'
<1>1. /\ LockWaits(None, n) = {} /\ db[n].st = "live"
      /\ UniqueWaits(None, p, nm) = {} /\ \A m \in Node : ~Holds(db[m], p, nm)
      /\ db' = [db EXCEPT ![n].parent = p, ![n].name = nm]
      /\ new' = [new EXCEPT ![n].parent = p, ![n].name = nm]
      /\ UNCHANGED <<owner, shares, uploadVars, pc, f, left>>
  BY DEF MoveNode
<1>2. db[n] \in Row /\ owner[n] = None /\ new[n] = db[n]
  BY <1>1, Unheld
<1>3. PICK v : v = [db[n] EXCEPT !.parent = p, !.name = nm]
  OBVIOUS
<1>4. v.st = "live" /\ v.dir = db[n].dir /\ v.parent = p /\ v.name = nm
  BY <1>1, <1>2, <1>3 DEF Row
<1>5. OtherRow(n, v)
  BY <1>1, <1>2, <1>3 DEF OtherRow
<1>6. \A m \in Node : ~Holds(new[m], p, nm)
  BY <1>1, Unheld, EntryFree
<1> QED
  BY <1>2, <1>4, <1>5, <1>6, OtherRef

LEMMA MakeDirRef ==
    ASSUME RefOK, NEW p \in Node, NEW nm \in Name, MakeDir(p, nm)
    PROVE  RefInv'
<1>1. /\ UniqueWaits(None, p, nm) = {} /\ \A m \in Node : ~Holds(db[m], p, nm)
      /\ FreeIds # {}
      /\ db' = [db EXCEPT ![FreshId] = DirRow(p, nm)]
      /\ new' = [new EXCEPT ![FreshId] = DirRow(p, nm)]
      /\ UNCHANGED <<owner, shares, uploadVars, pc, f, left>>
  BY DEF MakeDir
<1>2. PICK n \in Node : n = FreshId /\ owner[n] = None /\ new[n].st = "free"
  BY <1>1, FreshIdFree
<1>3. db[n].st = "free"
  BY <1>2 DEF RefOK, TenantOK, FilesInv, RowsOK
<1>4. PICK v : v = DirRow(p, nm)
  OBVIOUS
<1>5. v.st = "live" /\ v.parent = p /\ v.name = nm
  BY <1>4 DEF DirRow, FileRow
<1>6. OtherRow(n, v)
  BY <1>1, <1>2, <1>4 DEF OtherRow
<1>7. \A m \in Node : ~Holds(new[m], p, nm)
  BY <1>1, Unheld, EntryFree
<1> QED
  BY <1>2, <1>3, <1>5, <1>6, <1>7, OtherRef

LEMMA StillRef ==
    ASSUME RefOK, UNCHANGED <<rowVars, uploadVars, pc, f, left>>
    PROVE  RefInv'
<1>1. /\ db' = db /\ new' = new /\ owner' = owner /\ shares' = shares
      /\ udb' = udb /\ unew' = unew /\ uowner' = uowner /\ pc' = pc /\ f' = f /\ left' = left
  BY DEF rowVars, uploadVars
<1>2. ASSUME NEW t \in Sess PROVE SoFar(t)' /\ Knows(t)'
  <2>1. Spared(t)
    BY <1>1 DEF Spared
  <2> QED
    BY <2>1, RefFacts, SparedSoFar, SparedKnows
<1>3. \A n \in Node : Fixed(n)' /\ NoTwin(n)'
  BY <1>1 DEF RefOK, RefInv, Fixed, NoTwin
<1> QED
  BY <1>1, <1>2, <1>3 DEF RefOK, RefInv

LEMMA EnvironmentRef ==
    ASSUME RefOK, Environment
    PROVE  RefInv'
<1>1. CASE Tick
  BY <1>1, StillRef DEF Tick
<1> QED
  BY <1>1, DeleteNodeRef, MoveNodeRef, MakeDirRef DEF Environment

-----------------------------------------------------------------------------
(* The invariant *)

\* A call that ends with an exception has changed nothing.
Errs(s) == Ended(s) /\ f'[s].out = "error" /\ f'[s].got = << >>

LEMMA StepEnds ==
    ASSUME RefOK, NEW s \in Sess, Step(s)
    PROVE  Quiet(s) \/ Errs(s) \/ Commit(s) \/ Read(s)
<1>1. CASE Raise(s) /\ left' = left /\ pc[s] # "idle"
  BY <1>1, RaiseRef DEF Errs
<1>2. FkCheck(s) \/ Write(s) => pc[s] # "idle"
  BY DEF FkCheck, Write, At
<1> QED
  BY <1>1, <1>2, WalkQuiet, InsertQuiet, FkCheckQuiet, AgainQuiet, WriteQuiet, SetMetadataQuiet,
     StartUploadQuiet, UploadPartQuiet, FinUploadQuiet, FinNodeQuiet, PublishQuiet,
     AbortUploadQuiet, CleanupScanQuiet, CleanupDeleteQuiet DEF Step

LEMMA FaultEnds ==
    ASSUME RefOK, NEW s \in Sess, Fail(s) \/ Cancel(s) \/ DeadlockVictim(s)
    PROVE  Quiet(s) \/ Errs(s)
<1>1. CASE Fail(s)
  BY <1>1, RaiseRef DEF Fail, Fault, At, Errs
<1>2. CASE Cancel(s)
  BY <1>2, RolledBack DEF Cancel, Fault, At, Errs
<1>3. CASE DeadlockVictim(s)
  <2>1. PICK C \in SUBSET Sess : s \in C /\ WaitCycle(C)
    BY <1>3 DEF DeadlockVictim
  <2>2. pc[s] = "idle" => WaitsFor(s) = {}
    BY DEF WaitsFor
  <2>3. pc[s] # "idle"
    BY <2>1, <2>2 DEF WaitCycle
  <2> QED
    BY <1>3, <2>3, RaiseRef DEF DeadlockVictim, Stay, Errs
<1> QED
  BY <1>1, <1>2, <1>3

LEMMA RefInit == Init => RefInv
<1> SUFFICES ASSUME Init PROVE RefInv
  OBVIOUS
<1>1. /\ db = Files0 /\ new = db /\ udb = Uploads0 /\ unew = udb /\ left = MaxCalls
      /\ MaxCalls \in Nat /\ \A s \in Sess : pc[s] = "idle"
  BY FilesAssumption DEF Init
<1>2. \A n \in Node : Fixed(n) /\ NoTwin(n)
  BY <1>1 DEF Fixed, NoTwin
<1>3. \A s \in Sess : SoFar(s) /\ Knows(s)
  BY <1>1 DEF SoFar, Knows, RowsClean, UpsClean, Putting
<1> QED
  BY <1>1, <1>2, <1>3 DEF RefInv

LEMMA RefNext == RefOK /\ [Next]_vars => RefOK'
<1> SUFFICES ASSUME RefOK, [Next]_vars PROVE RefInv'
  BY TenantNext DEF RefOK
<1>1. ASSUME NEW s \in Sess, Step(s) PROVE RefInv'
  BY <1>1, StepEnds, QuietRef, EndedRef, CommitRef, ReadEnds DEF Errs
<1>2. ASSUME NEW s \in Sess, NEW c \in Calls, Begin(s, c) PROVE RefInv'
  BY <1>2, BeginRef
<1>3. ASSUME NEW s \in Sess, Fail(s) \/ Cancel(s) \/ DeadlockVictim(s) PROVE RefInv'
  BY <1>3, FaultEnds, QuietRef, EndedRef DEF Errs
<1>4. CASE UNCHANGED vars
  BY <1>4, StillRef DEF vars, rowVars, uploadVars
<1> QED
  BY <1>1, <1>2, <1>3, <1>4, EnvironmentRef DEF Next, Finished

LEMMA RefAlways == Spec => []RefOK
<1>1. Init => RefOK
  BY FilesInit, TenantInit, RefInit DEF RefOK, TenantOK
<1> QED
  BY <1>1, RefNext, PTL DEF Spec

-----------------------------------------------------------------------------
(* The variables of AbstractFiles *)

LEMMA FileShown ==
    ASSUME RefOK, NEW n \in Node
    PROVE  /\ FilesNow[n] = IF db[n].st = "live" THEN Face(db[n]) ELSE None
           /\ n \in AbsFiles!Present <=> db[n].st = "live"
           /\ n \in AbsFiles!Files <=> db[n].st = "live" /\ ~db[n].dir
           /\ n \in AbsFiles!Dirs <=> db[n].st = "live" /\ db[n].dir
<1>1. db[n] \in Row /\ FilesNow[n] = IF db[n].st = "live" THEN Face(db[n]) ELSE None
  BY DEF RefOK, TenantOK, FilesInv, RowsOK, RowsTyped, FilesNow, Face
<1>2. Face(db[n]) # None
  BY <1>1, NoneAssumption DEF Row, Face
<1>3. n \in AbsFiles!Present <=> db[n].st = "live"
  BY <1>1, <1>2 DEF AbsFiles!Present
<1>4. db[n].st = "live" => FilesNow[n].dir = db[n].dir
  BY <1>1 DEF Face
<1> QED
  BY <1>1, <1>3, <1>4 DEF AbsFiles!Files, AbsFiles!Dirs

LEMMA NameShown ==
    ASSUME RefOK, NEW p, NEW nm, \A m \in Node : ~Holds(db[m], p, nm)
    PROVE  AbsFiles!NameFree(p, nm)
<1> SUFFICES ASSUME NEW m \in AbsFiles!Present
             PROVE  ~(FilesNow[m].parent = p /\ FilesNow[m].name = nm)
  BY DEF AbsFiles!NameFree
<1>1. m \in Node
  BY DEF AbsFiles!Present
<1>2. FilesNow[m] = Face(db[m]) /\ db[m].st = "live"
  BY <1>1, FileShown
<1>3. FilesNow[m].parent = db[m].parent /\ FilesNow[m].name = db[m].name
  BY <1>2 DEF Face
<1> QED
  BY <1>1, <1>2, <1>3 DEF Holds

LEMMA UpShown ==
    ASSUME RefOK, NEW u \in Upload
    PROVE  /\ StagedNow[u] = IF udb[u].st = "live" THEN UpFace(udb[u]) ELSE None
           /\ UpFace(udb[u]) = None => udb[u].st # "live"
<1>1. /\ udb[u] \in UploadRow /\ (udb[u].st = "live" => udb[u].path # << >>)
      /\ StagedNow[u] = IF udb[u].st = "live" THEN UpFace(udb[u]) ELSE None
  BY DEF RefOK, TenantOK, FilesInv, UpsOK, UpsTyped, UpRowOK, StagedNow, UpFace, Grown
<1>2. ASSUME udb[u].st = "live" PROVE UpFace(udb[u]) # None
  <2>1. Base(udb[u].path) \in Name
    BY <1>1, <1>2, PathParts DEF UploadRow
  <2>2. PICK nm \in Name : nm = Base(udb[u].path)
    BY <2>1
  <2>3. [root |-> udb[u].root, name |-> nm, excl |-> udb[u].excl, app |-> udb[u].app,
         data |-> udb[u].data] # None
    BY <1>1, NoneAssumption DEF UploadRow
  <2> QED
    BY <2>2, <2>3 DEF UpFace, Grown
<1> QED
  BY <1>1, <1>2

LEMMA CallShown ==
    ASSUME RefOK, NEW s \in Sess
    PROVE  /\ pc[s] = "idle" => CallNow[s] = None
           /\ pc[s] # "idle" => /\ CallNow[s] # None /\ CallNow[s].c = f[s].call
                                /\ CallNow[s].content = f[s].content
<1>1. f[s].call \in Call /\ f[s].content \in Content
  BY DEF RefOK, TenantOK, FilesInv, LocalsTyped, Frame
<1> QED
  BY <1>1, NoneAssumption DEF CallNow, At

\* The committed rows of other ids are as they were.
Only(n) == \A m \in Node \ {n} : db'[m] = db[m]

\* Of the files that callers see, n becomes v.
LEMMA FilesBecome ==
    ASSUME NEW n \in Node, Only(n), NEW v,
           v = IF db'[n].st = "live" THEN Face(db'[n]) ELSE None
    PROVE  FilesNow' = [FilesNow EXCEPT ![n] = v]
<1>1. \A m \in Node : FilesNow'[m] = IF m = n THEN v ELSE FilesNow[m]
  BY DEF FilesNow, Face, Only
<1>2. FilesNow' = [m \in Node |-> FilesNow'[m]] /\ FilesNow = [m \in Node |-> FilesNow[m]]
  BY DEF FilesNow
<1> QED
  BY <1>1, <1>2

LEMMA AbsAdd ==
    ASSUME RefOK, NEW n \in Node, Only(n), db[n].st # "live", db'[n].st = "live",
           NEW p \in Node, db[p].st = "live", db[p].dir, NEW nm, NEW dir, NEW d,
           \A m \in Node : ~Holds(db[m], p, nm),
           Face(db'[n]) = [parent |-> p, name |-> nm, dir |-> dir, data |-> d,
                           meta |-> [k \in MetaKey |-> 0]]
    PROVE  AbsFiles!Add(nm, dir, d)
<1>1. n \in Node \ AbsFiles!Present /\ p \in AbsFiles!Dirs /\ AbsFiles!NameFree(p, nm)
  BY FileShown, NameShown
<1>2. FilesNow' = [FilesNow EXCEPT ![n] = AbsFiles!Entry(p, nm, dir, d)]
  BY FilesBecome DEF AbsFiles!Entry
<1> QED
  BY <1>1, <1>2 DEF AbsFiles!Add

LEMMA AbsReplace ==
    ASSUME RefOK, NEW n \in Node, Only(n), db[n].st = "live", ~db[n].dir, NEW d,
           db'[n].st = "live", Face(db'[n]) = [Face(db[n]) EXCEPT !.data = d]
    PROVE  /\ AbsFiles!Replace(d)
           /\ \A x : d = db[n].data \o x => AbsFiles!Append_(x)
<1>1. n \in AbsFiles!Files /\ FilesNow[n] = Face(db[n]) /\ FilesNow[n].data = db[n].data
  BY FileShown DEF Face
<1>2. FilesNow' = [FilesNow EXCEPT ![n] = Face(db'[n])]
  BY FilesBecome
<1>3. FilesNow' = [FilesNow EXCEPT ![n].data = d]
  BY <1>1, <1>2
<1>4. ASSUME NEW x, d = db[n].data \o x PROVE FilesNow' = [FilesNow EXCEPT ![n].data = @ \o x]
  BY <1>1, <1>3, <1>4
<1> QED
  BY <1>1, <1>3, <1>4 DEF AbsFiles!Replace, AbsFiles!Append_

\* Of the uploads, u becomes v.
OnlyStaged(u) == \A w \in Upload \ {u} : udb'[w] = udb[w]

SpentNow == {u \in Upload : udb[u].st = "dead"}

LEMMA StagedBecome ==
    ASSUME NEW u \in Upload, OnlyStaged(u), NEW v,
           v = IF udb'[u].st = "live" THEN UpFace(udb'[u]) ELSE None
    PROVE  StagedNow' = [StagedNow EXCEPT ![u] = v]
<1>1. \A w \in Upload : StagedNow'[w] = IF w = u THEN v ELSE StagedNow[w]
  BY DEF StagedNow, UpFace, Grown, OnlyStaged
<1>2. StagedNow' = [w \in Upload |-> StagedNow'[w]] /\ StagedNow = [w \in Upload |-> StagedNow[w]]
  BY DEF StagedNow
<1> QED
  BY <1>1, <1>2

LEMMA AbsDrop ==
    ASSUME RefOK, NEW s \in Sess, NEW u \in Upload, OnlyStaged(u), OwnUp(s, u),
           udb'[u].st = "dead"
    PROVE  /\ AbsFiles!Mine(s, u) /\ AbsFiles!Drop(u)
           /\ StagedNow[u] = UpFace(udb[u])
<1>1. AbsFiles!Mine(s, u) /\ StagedNow[u] = UpFace(udb[u])
  BY UpShown DEF AbsFiles!Mine, OwnUp, UpFace, Grown
<1>2. StagedNow' = [StagedNow EXCEPT ![u] = None]
  BY StagedBecome
<1>3. SpentNow' = SpentNow \cup {u}
  BY DEF SpentNow, OnlyStaged
<1> QED
  BY <1>1, <1>2, <1>3 DEF AbsFiles!Drop, SpentNow

LEMMA AbsKeep ==
    /\ (\A n \in Node : db'[n] = db[n]) => FilesNow' = FilesNow
    /\ (\A u \in Upload : udb'[u] = udb[u]) => AbsFiles!KeepUploads
<1>1. (\A n \in Node : db'[n] = db[n]) => FilesNow' = FilesNow
  BY DEF FilesNow
<1>2. (\A u \in Upload : udb'[u] = udb[u]) => StagedNow' = StagedNow
  BY DEF StagedNow
<1>3. (\A u \in Upload : udb'[u] = udb[u]) => SpentNow' = SpentNow
  BY DEF SpentNow
<1> QED
  BY <1>1, <1>2, <1>3 DEF AbsFiles!KeepUploads, SpentNow

-----------------------------------------------------------------------------
(* What callers see of the calls *)

LEMMA AbsEnd ==
    ASSUME RefOK, NEW s \in Sess, Alone(s), pc[s] # "idle", pc'[s] = "idle",
           NEW out, NEW got, f'[s].out = out, f'[s].got = got
    PROVE  AbsFiles!End(s, <<out, got>>)
<1>1. CallNow[s] # None
  BY CallShown
<1>2. CallNow' = [CallNow EXCEPT ![s] = None]
  BY DEF CallNow, Alone, At
<1>3. RetNow' = [RetNow EXCEPT ![s] = <<out, got>>]
  BY DEF RetNow, Alone, At
<1> QED
  BY <1>1, <1>2, <1>3 DEF AbsFiles!End

LEMMA AbsSilent ==
    ASSUME NEW s \in Sess, Quiet(s)
    PROVE  UNCHANGED AbsFiles!avars
<1>1. /\ db' = db /\ udb' = udb /\ Alone(s) /\ pc[s] # "idle" /\ pc'[s] # "idle"
      /\ f'[s].call = f[s].call /\ f'[s].content = f[s].content
  BY DEF Quiet, Silent, RowsBy, UpsBy
<1>2. FilesNow' = FilesNow /\ StagedNow' = StagedNow /\ SpentNow' = SpentNow
  BY <1>1 DEF FilesNow, StagedNow, SpentNow
<1>3. CallNow' = CallNow /\ RetNow' = RetNow
  BY <1>1 DEF CallNow, RetNow, Alone, At
<1> QED
  BY <1>2, <1>3 DEF AbsFiles!avars, SpentNow

LEMMA AbsBegin ==
    ASSUME RefOK, NEW s \in Sess, NEW c \in Calls, Begin(s, c)
    PROVE  AbsFiles!Begin(s) \/ AbsFiles!Reject(s)
<1>1. /\ db' = db /\ udb' = udb /\ Alone(s) /\ Begun(s, c) /\ pc[s] = "idle"
  BY BeginBegins DEF Begins, RowsBy, UpsBy, Begin, At
<1>2. left \in 1 .. MaxCalls
  <2>1. left \in Nat /\ left > 0 /\ left <= MaxCalls /\ MaxCalls \in Nat
    BY RefFacts, CallFacts, FilesAssumption DEF Begin, CountsOK
  <2> QED
    BY <2>1
<1>3. FilesNow' = FilesNow /\ AbsFiles!KeepUploads /\ CallNow[s] = None
  BY <1>1, AbsKeep, CallShown
<1>4. CASE /\ pc'[s] # "idle" /\ f'[s].call = c
           /\ f'[s].content = << >> \/ f'[s].content = <<left>>
  <2>1. PICK x : x = f'[s].content
    OBVIOUS
  <2>2. x \in AbsFiles!Contents
    BY <1>2, <1>4, <2>1 DEF AbsFiles!Contents
  <2>3. CallNow' = [CallNow EXCEPT ![s] = [c |-> c, content |-> x]]
    BY <1>1, <1>4, <2>1 DEF CallNow, Alone, At
  <2>4. RetNow' = [RetNow EXCEPT ![s] = AbsFiles!Pending]
    BY <1>1, <1>4 DEF RetNow, Alone, At, AbsFiles!Pending
  <2> QED
    BY <1>3, <2>2, <2>3, <2>4 DEF AbsFiles!Begin
<1>5. CASE pc'[s] = "idle" /\ f'[s].out = "error" /\ f'[s].got = << >>
  <2>1. CallNow' = CallNow
    BY <1>1, <1>5 DEF CallNow, Alone, At
  <2>2. RetNow' = [RetNow EXCEPT ![s] = <<"error", << >> >>]
    BY <1>1, <1>5 DEF RetNow, Alone, At
  <2> QED
    BY <1>3, <2>1, <2>2 DEF AbsFiles!Reject, AbsFiles!KeepUploads
<1> QED
  BY <1>1, <1>4, <1>5 DEF Begun

LEMMA AbsErrs ==
    ASSUME RefOK, NEW s \in Sess, Errs(s)
    PROVE  CallNow[s] # None /\ AbsFiles!Return(s)
<1>1. /\ db' = db /\ udb' = udb /\ Alone(s) /\ pc[s] # "idle" /\ pc'[s] = "idle"
      /\ f'[s].out = "error" /\ f'[s].got = << >>
  BY DEF Errs, Ended, RowsBy, UpsBy
<1>2. AbsFiles!End(s, <<"error", << >> >>) /\ CallNow[s] # None
  BY <1>1, AbsEnd, CallShown
<1>3. FilesNow' = FilesNow /\ AbsFiles!KeepUploads
  BY <1>1, AbsKeep
<1> QED
  BY <1>2, <1>3 DEF AbsFiles!Return, AbsFiles!Raise

LEMMA AbsRead ==
    ASSUME RefOK, NEW s \in Sess, Read(s)
    PROVE  (CallNow[s] # None /\ AbsFiles!Return(s)) \/ AbsFiles!ReadOne(s)
<1>1. Ended(s) /\ ReadResult(s)
  BY ReadEnds
<1>2. /\ db' = db /\ udb' = udb /\ Alone(s) /\ pc[s] # "idle" /\ pc'[s] = "idle"
  BY <1>1 DEF Ended, RowsBy, UpsBy
<1>3. /\ FilesNow' = FilesNow /\ AbsFiles!KeepUploads /\ CallNow[s] # None
      /\ CallNow[s].c = f[s].call
  BY <1>2, AbsKeep, CallShown
<1>4. CASE f'[s].out = "false" /\ f'[s].got = << >>
  <2>1. AbsFiles!End(s, <<"false", << >> >>)
    BY <1>2, <1>4, AbsEnd
  <2> QED
    BY <1>3, <2>1 DEF AbsFiles!Return, AbsFiles!Refuse
<1>5. CASE /\ f[s].call.op = "read_file" /\ f'[s].out = "true"
           /\ \E n \in Node : db[n].st = "live" /\ ~db[n].dir /\ f'[s].got = db[n].data
  <2>1. PICK n \in Node : db[n].st = "live" /\ ~db[n].dir /\ f'[s].got = db[n].data
    BY <1>5
  <2>2. n \in AbsFiles!Files /\ FilesNow[n].data = db[n].data
    <3>1. n \in AbsFiles!Files /\ FilesNow[n] = Face(db[n])
      BY <2>1, FileShown
    <3> QED
      BY <3>1 DEF Face
  <2>3. PICK got : got = FilesNow[n].data
    OBVIOUS
  <2>4. AbsFiles!End(s, <<"true", got>>)
    BY <1>2, <1>5, <2>1, <2>2, <2>3, AbsEnd
  <2>5. /\ CallNow' = [CallNow EXCEPT ![s] = None]
        /\ RetNow' = [RetNow EXCEPT ![s] = <<"true", FilesNow[n].data>>]
    BY <2>3, <2>4 DEF AbsFiles!End
  <2>6. \E m \in AbsFiles!Files : AbsFiles!End(s, <<"true", FilesNow[m].data>>)
    BY <1>3, <2>2, <2>5 DEF AbsFiles!End
  <2> QED
    BY <1>3, <1>5, <2>6 DEF AbsFiles!ReadOne
<1> QED
  BY <1>1, <1>4, <1>5 DEF ReadResult

-----------------------------------------------------------------------------
(* The COMMIT *)

\* A COMMIT of s publishes the rows and uploads it has locked.
Commits(s) == /\ \A n \in Node : db'[n] = IF owner[n] = s THEN new[n] ELSE db[n]
              /\ \A u \in Upload : udb'[u] = IF uowner[u] = s THEN unew[u] ELSE udb[u]

LEMMA CommitsClean ==
    ASSUME NEW s \in Sess, Commits(s)
    PROVE  /\ RowsClean(s) => FilesNow' = FilesNow
           /\ UpsClean(s) => AbsFiles!KeepUploads
           /\ \A r : OnlyRow(s, r) => Only(r) /\ db'[r] = new[r]
           /\ \A u : OnlyUp(s, u) => OnlyStaged(u) /\ udb'[u] = unew[u]
<1>1. RowsClean(s) => \A n \in Node : db'[n] = db[n]
  BY DEF Commits, RowsClean
<1>2. UpsClean(s) => \A u \in Upload : udb'[u] = udb[u]
  BY DEF Commits, UpsClean
<1>3. \A r : OnlyRow(s, r) => Only(r) /\ db'[r] = new[r]
  BY DEF Commits, OnlyRow, Only
<1>4. \A u : OnlyUp(s, u) => OnlyStaged(u) /\ udb'[u] = unew[u]
  BY DEF Commits, OnlyUp, OnlyStaged
<1> QED
  BY <1>1, <1>2, <1>3, <1>4, AbsKeep

LEMMA CommitsCreated ==
    ASSUME RefOK, NEW s \in Sess, Commits(s), NEW nm, NEW d, Created(s, nm, d)
    PROVE  AbsFiles!Add(nm, FALSE, d)
<1>1. PICK r \in Node : Made(s, r, nm, d)
  BY DEF Created
<1>2. PICK p \in Node : p = new[r].parent /\ Anchor(s, p)
  BY <1>1 DEF Made, Anchor
<1>3. /\ Only(r) /\ db'[r] = new[r] /\ db[r].st = "free" /\ new[r].st = "live"
      /\ db[p].st = "live" /\ db[p].dir
  BY <1>1, <1>2, CommitsClean DEF Made, Anchor
<1>4. Face(new[r]) = [parent |-> p, name |-> nm, dir |-> FALSE, data |-> d,
                      meta |-> [k \in MetaKey |-> 0]]
  BY <1>1, <1>2 DEF Made, Face, FileRow
<1>5. new[r].parent = p /\ new[r].name = nm
  BY <1>4 DEF Face
<1>6. ASSUME NEW m \in Node, Holds(db[m], p, nm) PROVE FALSE
  <2>1. m # r /\ new[m].st = "live" /\ new[m].parent = p /\ new[m].name = nm
    BY <1>3, <1>6, RowFacts DEF Holds, Fixed
  <2> QED
    BY <1>3, <1>5, <2>1, RowFacts DEF NoTwin
<1> QED
  BY <1>3, <1>4, <1>6, AbsAdd

LEMMA CommitsWrote ==
    ASSUME RefOK, NEW s \in Sess, Commits(s), NEW r \in Node, NEW d, Wrote(s, r, d)
    PROVE  AbsFiles!Replace(d) /\ \A x : d = db[r].data \o x => AbsFiles!Append_(x)
<1>1. /\ Only(r) /\ db'[r] = new[r] /\ db[r].st = "live" /\ ~db[r].dir /\ new[r].st = "live"
      /\ Face(new[r]) = [Face(db[r]) EXCEPT !.data = d]
  BY CommitsClean DEF Wrote
<1> QED
  BY <1>1, AbsReplace

LEMMA CommitsOverwrote ==
    ASSUME RefOK, NEW s \in Sess, Commits(s), NEW d, Overwrote(s, d)
    PROVE  AbsFiles!Replace(d) \/ AbsFiles!Overtaken(d)
<1>1. CASE RowsClean(s) /\ d = << >>
  BY <1>1, CommitsClean DEF AbsFiles!Overtaken
<1> QED
  BY <1>1, CommitsWrote DEF Overwrote

LEMMA CommitsPublished ==
    ASSUME RefOK, NEW s \in Sess, Commits(s), NEW u \in Upload, OwnUp(s, u), Published(s, u)
    PROVE  AbsFiles!Publish(u)
<1>1. PICK x : x = udb[u]
  OBVIOUS
<1>2. StagedNow[u] = Grown(x, x.data)
  BY <1>1, UpShown DEF OwnUp, UpFace
<1>3. PICK y : y = StagedNow[u]
  OBVIOUS
<1>4. y.name = Base(x.path) /\ y.data = x.data /\ y.excl = x.excl /\ y.app = x.app
  BY <1>2, <1>3 DEF Grown
<1>5. \/ AbsFiles!Add(y.name, FALSE, y.data)
      \/ ~y.excl /\ IF y.app THEN AbsFiles!Append_(y.data) ELSE AbsFiles!Replace(y.data)
  <2>1. CASE Created(s, Base(x.path), x.data)
    <3>1. PICK nm, d : nm = y.name /\ d = y.data /\ nm = Base(x.path) /\ d = x.data
      BY <1>4
    <3>2. AbsFiles!Add(nm, FALSE, d)
      BY <2>1, <3>1, CommitsCreated
    <3> QED
      BY <3>1, <3>2
  <2>2. CASE ~x.excl /\ \E r \in Node : Wrote(s, r, Merged(db[r], x))
    <3>1. PICK r \in Node : Wrote(s, r, Merged(db[r], x))
      BY <2>2
    <3>2. PICK d : d = Merged(db[r], x) /\ Wrote(s, r, d)
      BY <3>1
    <3>3. AbsFiles!Replace(d) /\ \A z : d = db[r].data \o z => AbsFiles!Append_(z)
      BY <3>2, CommitsWrote
    <3>4. IF x.app THEN d = db[r].data \o x.data ELSE d = x.data
      BY <3>2 DEF Merged
    <3> QED
      BY <1>4, <2>2, <3>3, <3>4
  <2> QED
    BY <1>1, <2>1, <2>2 DEF Published
<1> QED
  BY <1>3, <1>5 DEF AbsFiles!Publish

LEMMA CommitsStarted ==
    ASSUME RefOK, NEW s \in Sess, Commits(s), NEW c, Started(s, c)
    PROVE  AbsFiles!Start(s, c)
<1>1. PICK v : v = [root |-> RootOf[s], name |-> Base(c.path), excl |-> c.excl,
                    app |-> c.app, data |-> << >>]
  OBVIOUS
<1>2. PICK u \in Upload : /\ OnlyUp(s, u) /\ udb[u].st = "free" /\ unew[u].st = "live"
                          /\ UpFace(unew[u]) = v
  BY <1>1 DEF Started
<1>3. OnlyStaged(u) /\ udb'[u] = unew[u]
  BY <1>2, CommitsClean
<1>4. StagedNow[u] = None /\ u \notin SpentNow
  BY <1>2, UpShown DEF SpentNow
<1>5. StagedNow' = [StagedNow EXCEPT ![u] = v]
  BY <1>2, <1>3, StagedBecome
<1>6. SpentNow' = SpentNow
  BY <1>2, <1>3 DEF SpentNow, OnlyStaged
<1>7. AbsFiles!Last(c.path) = Base(c.path)
  BY DEF AbsFiles!Last, Base
<1> QED
  BY <1>1, <1>4, <1>5, <1>6, <1>7 DEF AbsFiles!Start, SpentNow

LEMMA CommitsExtended ==
    ASSUME RefOK, NEW s \in Sess, Commits(s), NEW u, NEW x, Extended(s, u, x)
    PROVE  AbsFiles!Stage(s, u, x)
<1>1. /\ u \in Upload /\ OnlyStaged(u) /\ udb'[u] = unew[u] /\ OwnUp(s, u)
      /\ unew[u].st = "live" /\ UpFace(unew[u]) = Grown(udb[u], udb[u].data \o x)
  BY CommitsClean DEF Extended, OnlyUp
<1>2. PICK v, d : v = UpFace(udb[u]) /\ d = udb[u].data \o x
  OBVIOUS
<1>3. StagedNow[u] = v /\ v # None
  BY <1>1, <1>2, UpShown DEF OwnUp
<1>4. v.root = RootOf[s] /\ v.data = udb[u].data /\ Grown(udb[u], d) = [v EXCEPT !.data = d]
  <2>1. v.root = RootOf[s] /\ v.data = udb[u].data
    BY <1>1, <1>2 DEF UpFace, Grown, OwnUp
  <2>2. ASSUME NEW w PROVE Grown(w, d) = [Grown(w, w.data) EXCEPT !.data = d]
    BY DEF Grown
  <2> QED
    BY <1>2, <2>1, <2>2 DEF UpFace
<1>5. AbsFiles!Mine(s, u)
  BY <1>3, <1>4 DEF AbsFiles!Mine
<1>6. SpentNow' = SpentNow
  BY <1>1 DEF SpentNow, OnlyStaged, OwnUp
<1>7. StagedNow' = [StagedNow EXCEPT ![u] = [v EXCEPT !.data = d]]
  BY <1>1, <1>2, <1>4, StagedBecome
<1>8. StagedNow' = [StagedNow EXCEPT ![u].data = d] /\ d = StagedNow[u].data \o x
  <2>1. StagedNow' = [StagedNow EXCEPT ![u] = [StagedNow[u] EXCEPT !.data = d]]
    BY <1>3, <1>7
  <2>2. d = StagedNow[u].data \o x
    BY <1>2, <1>3, <1>4
  <2> QED
    BY <2>1, <2>2
<1>9. StagedNow' = [StagedNow EXCEPT ![u].data = @ \o x]
  BY <1>1, <1>8
<1> QED
  BY <1>5, <1>6, <1>9 DEF AbsFiles!Stage, SpentNow

LEMMA CommitsDropped ==
    ASSUME RefOK, NEW s \in Sess, Commits(s), NEW u, Dropped(s, u)
    PROVE  u \in Upload /\ OwnUp(s, u) /\ AbsFiles!Mine(s, u) /\ AbsFiles!Drop(u)
<1>1. u \in Upload /\ OnlyStaged(u) /\ OwnUp(s, u) /\ udb'[u].st = "dead"
  BY CommitsClean DEF Dropped, OnlyUp
<1> QED
  BY <1>1, AbsDrop

LEMMA CommitsSwept ==
    ASSUME RefOK, NEW s \in Sess, Commits(s), Swept(s)
    PROVE  AbsFiles!Sweep(s)
<1>1. PICK W : W = {u \in Upload : OwnUp(s, u) /\ udb'[u].st = "dead"}
  OBVIOUS
<1>2. \A u \in Upload : IF u \in W THEN udb'[u].st = "dead" ELSE udb'[u] = udb[u]
  BY <1>1 DEF Commits, Swept
<1>3. ASSUME NEW u \in W PROVE AbsFiles!Mine(s, u) /\ u \in Upload
  <2>1. u \in Upload /\ OwnUp(s, u)
    BY <1>1
  <2>2. StagedNow[u] = UpFace(udb[u]) /\ UpFace(udb[u]) # None
    BY <2>1, UpShown DEF OwnUp
  <2>3. UpFace(udb[u]).root = RootOf[s]
    BY <2>1 DEF OwnUp, UpFace, Grown
  <2> QED
    BY <2>1, <2>2, <2>3 DEF AbsFiles!Mine
<1>4. \A u \in Upload : StagedNow'[u] = IF u \in W THEN None ELSE StagedNow[u]
  BY <1>2 DEF StagedNow
<1>5. StagedNow' = [u \in Upload |-> StagedNow'[u]]
  BY DEF StagedNow
<1>6. StagedNow' = [u \in Upload |-> IF u \in W THEN None ELSE StagedNow[u]]
  BY <1>4, <1>5
<1>7. SpentNow' = SpentNow \cup W
  BY <1>1, <1>2 DEF SpentNow
<1> QED
  BY <1>3, <1>6, <1>7 DEF AbsFiles!Sweep, SpentNow

LEMMA CommitsSucceed ==
    ASSUME RefOK, NEW s \in Sess, Commits(s), NEW c, NEW x, Succeeded(s, c, x)
    PROVE  AbsFiles!Succeed(s, c, x)
<1>1. CASE c.op = "write_file" /\ UpsClean(s) /\ Overwrote(s, x)
  BY <1>1, CommitsClean, CommitsOverwrote DEF AbsFiles!Succeed
<1>2. CASE /\ c.op = "write_file_atomic" /\ UpsClean(s)
           /\ Created(s, Base(c.path), x) \/ (~c.excl /\ Overwrote(s, x))
  <2>1. Created(s, Base(c.path), x) => AbsFiles!Add(AbsFiles!Last(c.path), FALSE, x)
    BY CommitsCreated DEF Base, AbsFiles!Last
  <2> QED
    BY <1>2, <2>1, CommitsClean, CommitsOverwrote DEF AbsFiles!Succeed
<1>3. CASE c.op = "set_metadata" /\ UpsClean(s) /\ \E r \in Node : Tagged(s, r, c.key, x[1])
  <2>1. PICK r \in Node : Tagged(s, r, c.key, x[1])
    BY <1>3
  <2>2. /\ Only(r) /\ db'[r] = new[r] /\ db[r].st = "live" /\ new[r].st = "live"
        /\ Face(new[r]) = [Face(db[r]) EXCEPT !.meta[c.key] = x[1]]
    BY <2>1, CommitsClean DEF Tagged
  <2>3. r \in AbsFiles!Present /\ FilesNow[r] = Face(db[r])
    BY <2>2, FileShown
  <2>4. FilesNow' = [FilesNow EXCEPT ![r] = Face(db'[r])]
    BY <2>2, FilesBecome
  <2>5. FilesNow' = [FilesNow EXCEPT ![r].meta[c.key] = x[1]]
    BY <2>2, <2>3, <2>4
  <2>6. AbsFiles!Tag(c.key, x[1])
    BY <2>3, <2>5 DEF AbsFiles!Tag
  <2> QED
    BY <1>3, <2>6, CommitsClean DEF AbsFiles!Succeed
<1>4. CASE c.op = "start_upload" /\ RowsClean(s) /\ Started(s, c)
  BY <1>4, CommitsClean, CommitsStarted DEF AbsFiles!Succeed
<1>5. CASE c.op = "upload_part" /\ RowsClean(s) /\ Extended(s, c.up, x)
  BY <1>5, CommitsClean, CommitsExtended DEF AbsFiles!Succeed
<1>6. CASE c.op = "finish_upload" /\ Dropped(s, c.up) /\ Published(s, c.up)
  BY <1>6, CommitsDropped, CommitsPublished DEF AbsFiles!Succeed
<1>7. CASE c.op = "abort_upload" /\ Dropped(s, c.up) /\ RowsClean(s)
  BY <1>7, CommitsDropped, CommitsClean DEF AbsFiles!Succeed
<1>8. CASE c.op = "cleanup" /\ Swept(s) /\ RowsClean(s)
  BY <1>8, CommitsSwept, CommitsClean DEF AbsFiles!Succeed
<1> QED
  BY <1>1, <1>2, <1>3, <1>4, <1>5, <1>6, <1>7, <1>8 DEF Succeeded

LEMMA CommitsRefuse ==
    ASSUME RefOK, NEW s \in Sess, Commits(s), NEW c, Refused(s, c)
    PROVE  AbsFiles!Refuse(s, c)
<1>1. CASE RowsClean(s) /\ UpsClean(s)
  BY <1>1, CommitsClean DEF AbsFiles!Refuse
<1>2. CASE /\ c.op = "finish_upload" /\ Dropped(s, c.up)
           /\ RowsClean(s) \/ (c.sha = "differ" /\ Created(s, Base(udb[c.up].path), << >>))
  <2>1. /\ c.up \in Upload /\ OwnUp(s, c.up)
        /\ AbsFiles!Mine(s, c.up) /\ AbsFiles!Drop(c.up)
    BY <1>2, CommitsDropped
  <2>2. StagedNow[c.up] = UpFace(udb[c.up])
    BY <2>1, UpShown DEF OwnUp
  <2>3. PICK nm : nm = Base(udb[c.up].path)
    OBVIOUS
  <2>4. StagedNow[c.up].name = nm
    BY <2>2, <2>3 DEF UpFace, Grown
  <2>5. Created(s, Base(udb[c.up].path), << >>) => AbsFiles!Add(nm, FALSE, << >>)
    <3>1. Created(s, Base(udb[c.up].path), << >>) => Created(s, nm, << >>)
      BY <2>3
    <3>2. Created(s, nm, << >>) => AbsFiles!Add(nm, FALSE, << >>)
      BY CommitsCreated
    <3> QED
      BY <3>1, <3>2
  <2>6. \/ FilesNow' = FilesNow
        \/ c.sha = "differ" /\ AbsFiles!Add(StagedNow[c.up].name, FALSE, << >>)
    BY <1>2, <2>4, <2>5, CommitsClean DEF AbsFiles!Add
  <2> QED
    BY <1>2, <2>1, <2>6 DEF AbsFiles!Refuse
<1> QED
  BY <1>1, <1>2 DEF Refused

LEMMA CommitsRaise ==
    ASSUME RefOK, NEW s \in Sess, Commits(s), NEW c, Raised(s, c)
    PROVE  AbsFiles!Raise(s, c)
BY CommitsClean, CommitsDropped DEF Raised, AbsFiles!Raise

LEMMA AbsCommit ==
    ASSUME RefOK, NEW s \in Sess, Commit(s)
    PROVE  CallNow[s] # None /\ AbsFiles!Return(s)
<1>1. Commits(s)
  BY CommitFacts DEF RefOK, Commits
<1>2. pc[s] = "commit" /\ pc[s] # "idle" /\ Result(s)
  BY RefFacts DEF Commit, At, SoFar
<1>3. PICK c, x, out : c = f[s].call /\ x = f[s].content /\ out = f[s].out
  OBVIOUS
<1>4. PICK g : g = Fresh(s, NoCall, << >>, out)
  OBVIOUS
<1>5. g.out = out /\ g.got = << >>
  BY <1>4 DEF Fresh
<1>6. f' = [f EXCEPT ![s] = g] /\ pc' = [pc EXCEPT ![s] = "idle"]
  BY <1>3, <1>4 DEF Commit, Goto
<1>7. /\ pc'[s] = "idle" /\ f'[s] = g
      /\ \A t \in Sess \ {s} : f'[t] = f[t] /\ pc'[t] = pc[t]
  BY <1>6 DEF RefOK, TenantOK, FilesInv, LocalsTyped
<1>8. AbsFiles!End(s, <<out, << >> >>)
  BY <1>2, <1>5, <1>7, AbsEnd DEF Alone
<1>9. CallNow[s] # None /\ c \in {CallNow[s].c} /\ x \in {CallNow[s].content}
  BY <1>2, <1>3, CallShown
<1>10. \/ out = "true" /\ AbsFiles!Succeed(s, c, x)
       \/ out = "false" /\ AbsFiles!Refuse(s, c)
       \/ out = "error" /\ AbsFiles!Raise(s, c)
  <2>1. \/ out = "true" /\ Succeeded(s, c, x)
        \/ out = "false" /\ Refused(s, c)
        \/ out = "error" /\ Raised(s, c)
    BY <1>2, <1>3 DEF Result
  <2> QED
    BY <1>1, <2>1, CommitsSucceed, CommitsRefuse, CommitsRaise
<1> QED
  BY <1>8, <1>9, <1>10 DEF AbsFiles!Return

-----------------------------------------------------------------------------
(* The refinement *)

LEMMA AbsOthers ==
    ASSUME udb' = udb, pc' = pc, f' = f
    PROVE  /\ StagedNow' = StagedNow /\ SpentNow' = SpentNow
           /\ CallNow' = CallNow /\ RetNow' = RetNow
BY DEF StagedNow, SpentNow, CallNow, RetNow, At

LEMMA MovedFace ==
    ASSUME NEW v, NEW p, NEW nm
    PROVE  [Face(v) EXCEPT !.parent = p, !.name = nm]
               = [parent |-> p, name |-> nm, dir |-> v.dir, data |-> v.data, meta |-> v.meta]
<1>1. PICK w : w = Face(v)
  OBVIOUS
<1>2. PICK w1 : w1 = [w EXCEPT !.parent = p]
  OBVIOUS
<1>3. w1 = [parent |-> p, name |-> v.name, dir |-> v.dir, data |-> v.data, meta |-> v.meta]
  BY <1>1, <1>2 DEF Face
<1>4. PICK w2 : w2 = [w1 EXCEPT !.name = nm]
  OBVIOUS
<1>5. w2 = [parent |-> p, name |-> nm, dir |-> v.dir, data |-> v.data, meta |-> v.meta]
  BY <1>3, <1>4
<1>6. w2 = [w EXCEPT !.parent = p, !.name = nm]
  BY <1>2, <1>4
<1> QED
  BY <1>1, <1>5, <1>6

LEMMA AbsEnvironment ==
    ASSUME RefOK, Environment
    PROVE  AbsFiles!Environment \/ UNCHANGED AbsFiles!avars
<1>1. udb' = udb /\ pc' = pc /\ f' = f
  <2>1. ASSUME UNCHANGED <<uploadVars, pc, f>> PROVE udb' = udb /\ pc' = pc /\ f' = f
    BY <2>1 DEF uploadVars
  <2>2. CASE Tick
    BY <2>1, <2>2 DEF Tick
  <2>3. CASE \E n \in Node : DeleteNode(n)
    BY <2>1, <2>3 DEF DeleteNode
  <2>4. CASE \E n, p \in Node, nm \in Name : MoveNode(n, p, nm)
    BY <2>1, <2>4 DEF MoveNode
  <2>5. CASE \E p \in Node, nm \in Name : MakeDir(p, nm)
    BY <2>1, <2>5 DEF MakeDir
  <2> QED
    BY <2>2, <2>3, <2>4, <2>5 DEF Environment
<1>2. UNCHANGED <<StagedNow, SpentNow, CallNow, RetNow>>
  BY <1>1, AbsOthers
<1>3. CASE Tick
  <2>1. FilesNow' = FilesNow
    BY <1>3 DEF Tick, rowVars, FilesNow
  <2> QED
    BY <1>2, <2>1 DEF AbsFiles!avars, SpentNow
<1>4. ASSUME NEW n \in Node, DeleteNode(n) PROVE AbsFiles!Environment
  <2>1. db[n].st = "live" /\ db[n] \in Row /\ db' = [db EXCEPT ![n].st = "dead"]
    BY <1>4, Unheld DEF DeleteNode
  <2>2. Only(n) /\ db'[n].st = "dead"
    BY <2>1 DEF Only, RefOK, TenantOK, FilesInv, RowsOK, RowsTyped, Row
  <2>3. n \in AbsFiles!Present /\ FilesNow' = [FilesNow EXCEPT ![n] = None]
    BY <2>1, <2>2, FileShown, FilesBecome
  <2> QED
    BY <1>2, <2>3 DEF AbsFiles!Environment, SpentNow
<1>5. ASSUME NEW n \in Node, NEW p \in Node, NEW nm \in Name, MoveNode(n, p, nm)
      PROVE  AbsFiles!Environment
  <2>1. /\ db[n].st = "live" /\ db[n].parent # None /\ db[p].st = "live" /\ db[p].dir
        /\ \A m \in Node : ~Holds(db[m], p, nm)
        /\ db' = [db EXCEPT ![n].parent = p, ![n].name = nm]
    BY <1>5 DEF MoveNode
  <2>2. PICK v : v = [db[n] EXCEPT !.parent = p, !.name = nm]
    OBVIOUS
  <2>3. db[n] \in Row /\ db = [m \in Node |-> db[m]] /\ db' = [db EXCEPT ![n] = v]
    BY <2>1, <2>2 DEF RefOK, TenantOK, FilesInv, RowsOK, RowsTyped
  <2>4. Only(n) /\ db'[n] = v
    BY <2>3 DEF Only
  <2>5. v.st = "live" /\ Face(v) = [Face(db[n]) EXCEPT !.parent = p, !.name = nm]
    <3>1. /\ v.st = "live" /\ v.parent = p /\ v.name = nm /\ v.dir = db[n].dir
          /\ v.data = db[n].data /\ v.meta = db[n].meta
      BY <2>1, <2>2, <2>3 DEF Row
    <3>2. PICK w : w = [parent |-> p, name |-> nm, dir |-> db[n].dir, data |-> db[n].data,
                        meta |-> db[n].meta]
      OBVIOUS
    <3>3. Face(v) = w
      BY <3>1, <3>2 DEF Face
    <3>4. [Face(db[n]) EXCEPT !.parent = p, !.name = nm] = w
      BY <3>2, MovedFace
    <3> QED
      BY <3>1, <3>3, <3>4
  <2>6. /\ n \in AbsFiles!Present /\ p \in AbsFiles!Dirs /\ AbsFiles!NameFree(p, nm)
        /\ FilesNow[n] = Face(db[n]) /\ FilesNow[n].parent # None
    <3>1. n \in AbsFiles!Present /\ p \in AbsFiles!Dirs /\ FilesNow[n] = Face(db[n])
      BY <2>1, FileShown
    <3>2. AbsFiles!NameFree(p, nm)
      BY <2>1, NameShown
    <3>3. Face(db[n]).parent # None
      BY <2>1 DEF Face
    <3> QED
      BY <3>1, <3>2, <3>3
  <2>7. FilesNow' = [FilesNow EXCEPT ![n] = Face(v)]
    BY <2>4, <2>5, FilesBecome
  <2>8. FilesNow' = [FilesNow EXCEPT ![n].parent = p, ![n].name = nm]
    <3>1. n \in Node /\ FilesNow = [m \in Node |-> FilesNow[m]]
      BY DEF FilesNow
    <3> QED
      BY <2>5, <2>6, <2>7, <3>1
  <2> QED
    BY <1>2, <2>6, <2>8 DEF AbsFiles!Environment, SpentNow
<1>6. ASSUME NEW p \in Node, NEW nm \in Name, MakeDir(p, nm) PROVE AbsFiles!Environment
  <2>1. /\ db[p].st = "live" /\ db[p].dir /\ \A m \in Node : ~Holds(db[m], p, nm)
        /\ FreeIds # {} /\ db' = [db EXCEPT ![FreshId] = DirRow(p, nm)]
    BY <1>6 DEF MakeDir
  <2>2. PICK n \in Node : n = FreshId /\ owner[n] = None /\ new[n].st = "free"
    BY <2>1, FreshIdFree
  <2>3. db[n].st = "free"
    BY <2>2 DEF RefOK, TenantOK, FilesInv, RowsOK
  <2>4. PICK v : v = DirRow(p, nm)
    OBVIOUS
  <2>5. /\ v.st = "live"
        /\ Face(v) = [parent |-> p, name |-> nm, dir |-> TRUE, data |-> << >>,
                      meta |-> [k \in MetaKey |-> 0]]
    BY <2>4 DEF DirRow, FileRow, Face
  <2>6. Only(n) /\ db'[n] = v
    BY <2>1, <2>2, <2>4 DEF Only, RefOK, TenantOK, FilesInv, RowsOK, RowsTyped
  <2>7. AbsFiles!Add(nm, TRUE, << >>)
    BY <2>1, <2>3, <2>5, <2>6, AbsAdd
  <2> QED
    BY <1>2, <2>7 DEF AbsFiles!Environment, SpentNow
<1> QED
  BY <1>3, <1>4, <1>5, <1>6 DEF Environment

LEMMA AbsInit == Init => AbsFiles!Init
<1> SUFFICES ASSUME Init PROVE AbsFiles!Init
  OBVIOUS
<1>1. /\ db = Files0 /\ udb = Uploads0 /\ pc = [s \in Sess |-> "idle"]
      /\ f = [s \in Sess |-> Fresh(s, NoCall, << >>, "none")]
  BY DEF Init
<1>2. FilesNow = [n \in Node |-> IF Files0[n].st = "live"
                                 THEN [AbsFiles!Entry(Files0[n].parent, Files0[n].name,
                                                      Files0[n].dir, Files0[n].data)
                                           EXCEPT !.meta = Files0[n].meta]
                                 ELSE None]
  BY <1>1 DEF FilesNow, AbsFiles!Entry
<1>3. StagedNow = [u \in Upload |-> IF Uploads0[u].st = "live"
                                    THEN [root |-> Uploads0[u].root,
                                          name |-> AbsFiles!Last(Uploads0[u].path),
                                          excl |-> Uploads0[u].excl,
                                          app |-> Uploads0[u].app,
                                          data |-> Uploads0[u].data]
                                    ELSE None]
  BY <1>1 DEF StagedNow, AbsFiles!Last, Base
<1>4. SpentNow = {u \in Upload : Uploads0[u].st = "dead"}
  BY <1>1 DEF SpentNow
<1>5. CallNow = [s \in Sess |-> None]
  BY <1>1 DEF CallNow, At
<1>6. RetNow = [s \in Sess |-> AbsFiles!Pending]
  BY <1>1 DEF RetNow, At, Fresh, AbsFiles!Pending
<1> QED
  BY <1>2, <1>3, <1>4, <1>5, <1>6 DEF AbsFiles!Init, SpentNow

LEMMA AbsNext == RefOK /\ [Next]_vars => [AbsFiles!Next]_(AbsFiles!avars)
<1> SUFFICES ASSUME RefOK, [Next]_vars
             PROVE  AbsFiles!Next \/ UNCHANGED AbsFiles!avars
  OBVIOUS
<1>1. CASE UNCHANGED vars
  <2>1. db' = db /\ udb' = udb /\ pc' = pc /\ f' = f
    BY <1>1 DEF vars
  <2>2. FilesNow' = FilesNow
    BY <2>1 DEF FilesNow
  <2> QED
    BY <2>1, <2>2, AbsOthers DEF AbsFiles!avars, SpentNow
<1>2. ASSUME NEW s \in Sess, Step(s) PROVE AbsFiles!Next \/ UNCHANGED AbsFiles!avars
  BY <1>2, StepEnds, AbsSilent, AbsErrs, AbsCommit, AbsRead DEF AbsFiles!Next
<1>3. ASSUME NEW s \in Sess, NEW c \in Calls, Begin(s, c) PROVE AbsFiles!Next
  BY <1>3, AbsBegin DEF AbsFiles!Next
<1>4. ASSUME NEW s \in Sess, Fail(s) \/ Cancel(s) \/ DeadlockVictim(s)
      PROVE  AbsFiles!Next \/ UNCHANGED AbsFiles!avars
  BY <1>4, FaultEnds, AbsSilent, AbsErrs DEF AbsFiles!Next
<1>5. CASE Environment
  BY <1>5, AbsEnvironment DEF AbsFiles!Next
<1> QED
  BY <1>1, <1>2, <1>3, <1>4, <1>5 DEF Next, Finished

\* However the calls interleave, fail and are cancelled, each one takes effect in one
\* step, by the change that its result reports: what callers see of VfsFiles is
\* AbstractFiles.
THEOREM FileCallsAreAtomic == Spec => AtomicFiles
BY AbsInit, AbsNext, RefAlways, PTL DEF Spec, AtomicFiles, AbsFiles!Spec
=============================================================================

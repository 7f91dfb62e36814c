---------------------------- MODULE FilesProofs ----------------------------
(***************************************************************************)
(* Proofs about VfsFiles, for any sets of nodes, uploads, names, sessions  *)
(* and calls: every variable keeps its type, the size and sha256 of a      *)
(* committed file are always those of its committed chunks, the contents   *)
(* of one call are in one place only, and providers of different           *)
(* filesystems leave each other's files and uploads alone.                 *)
(*                                                                         *)
(* The second needs what the two-phase calls rely on between statements: a *)
(* finish_upload holds the lock of a live upload row from its first        *)
(* statement to its last, and of a live node row when it publishes, so     *)
(* that the size it read with the lock is still that of the chunks.        *)
(***************************************************************************)
EXTENDS VfsFiles, SequenceTheorems, TLAPS

UpOps == {"upload_part", "finish_upload", "abort_upload"}
MakeOps == {"write_file_atomic", "finish_upload"}
WalkOps == MakeOps \cup {"write_file", "read_file", "set_metadata"}

\* The statements a finish_upload executes with its upload locked.
Holding == {"walk", "insert", "fk", "again", "fin_node", "publish"}

\* What each statement label says of the call.
LabelOK(label, op) ==
    /\ label = "walk" => op \in WalkOps
    /\ label = "write" => op \in {"write_file", "write_file_atomic"}
    /\ label \in {"insert", "fk", "again"} => op \in MakeOps
    /\ label = "read" => op = "read_file"
    /\ label = "meta" => op = "set_metadata"
    /\ label = "su_insert" => op = "start_upload"
    /\ label = "up_lock" => op = "upload_part"
    /\ label \in {"fin_upload", "fin_node", "publish"} => op = "finish_upload"
    /\ label = "ab_delete" => op \in UpOps
    /\ label \in {"cl_scan", "cl_delete"} => op = "cleanup"

\* The call has its arguments.
ArgsOK(call, content) ==
    /\ call.op \in UpOps => call.up \in Upload
    /\ call.op = "set_metadata" => call.key \in MetaKey /\ content # << >>

\* The local variables of a call at each statement.
PcLocal(s) ==
    /\ LabelOK(pc[s], f[s].call.op)
    /\ ArgsOK(f[s].call, f[s].content)
    /\ pc[s] = "su_insert" => f[s].call.path # << >>
    /\ pc[s] = "walk" => f[s].rest # << >>
    /\ f[s].goal = "parent" => f[s].call.op \in MakeOps
    /\ pc[s] \in {"write", "meta", "publish", "fk"} => f[s].row \in Node
    /\ /\ f[s].call.op = "write_file_atomic"
       /\ pc[s] \in {"walk", "insert", "fk", "again"}
       => f[s].call.path # << >>
    /\ pc[s] = "fk" => f[s].made

\* The locks a call holds at each statement.
PcHolds(s) ==
    /\ f[s].call.op = "finish_upload" /\ pc[s] \in Holding
           => uowner[f[s].call.up] = s /\ unew[f[s].call.up].st = "live"
    /\ pc[s] \in {"fk", "publish"} => owner[f[s].row] = s /\ new[f[s].row].st = "live"
    /\ pc[s] = "publish" /\ ~f[s].made => f[s].size <= Len(new[f[s].row].data)

RowsTyped == /\ db \in [Node -> Row] /\ new \in [Node -> Row]
             /\ owner \in [Node -> Sess \cup {None}] /\ shares \in [Node -> SUBSET Sess]

\* A row nobody holds has one version, and every live version is consistent.
RowsOK == /\ RowsTyped
          /\ \A n \in Node : owner[n] = None => new[n] = db[n]
          /\ \A n \in Node : /\ db[n].st = "live" => Consistent(db[n])
                             /\ new[n].st = "live" => Consistent(new[n])

UpRowOK(v) == /\ v.size = Len(v.data)
              /\ v.st # "free" => v.path # << >>

UpsTyped == /\ udb \in [Upload -> UploadRow] /\ unew \in [Upload -> UploadRow]
            /\ uowner \in [Upload -> Sess \cup {None}]

UpsOK == /\ UpsTyped
         /\ \A u \in Upload : uowner[u] = None => unew[u] = udb[u]
         /\ \A u \in Upload : UpRowOK(udb[u]) /\ UpRowOK(unew[u])

CountsOK == clock \in Nat /\ left \in Nat /\ others \in Nat /\ faults \in Nat

LocalsTyped == pc \in [Sess -> Labels] /\ f \in [Sess -> Frame]

\* The inductive invariant.
FilesInv == /\ RowsOK /\ UpsOK /\ CountsOK /\ LocalsTyped
            /\ \A s \in Sess : PcLocal(s) /\ PcHolds(s)

-----------------------------------------------------------------------------
(* Lemmas about the helpers *)

LEMMA PathParts ==
    ASSUME NEW path \in Seq(Name), path # << >>
    PROVE  /\ Parent(path) \in Seq(Name)
           /\ Base(path) \in Name
           /\ Head(path) \in Name
           /\ Tail(path) \in Seq(Name)
           /\ Len(path) \in Nat \ {0}
<1>1. Len(path) \in Nat \ {0}
  BY EmptySeq
<1>2. Parent(path) \in Seq(Name)
  BY <1>1, SubSeqProperties DEF Parent
<1> QED
  BY <1>1, <1>2, HeadTailProperties DEF Base

LEMMA LastPart ==
    ASSUME NEW path \in Seq(Name), path # << >>
    PROVE  Len(path) = 1 \/ (Len(path) > 1 /\ Tail(path) # << >>)
<1>1. PICK k \in Nat : k = Len(path) /\ k # 0
  BY EmptySeq
<1>2. k = 1 \/ k > 1
  BY <1>1
<1>3. k > 1 => Len(Tail(path)) # 0
  <2>1. Len(Tail(path)) = k - 1
    BY <1>1, HeadTailProperties
  <2> QED
    BY <2>1
<1> QED
  BY <1>1, <1>2, <1>3, EmptySeq

LEMMA ChildType ==
    ASSUME NEW s, NEW p, NEW nm
    PROVE  Child(s, p, nm) # None => Child(s, p, nm) \in Node
BY DEF Child, ChildIds

LEMMA FreshIdFree ==
    FreeIds # {} => /\ FreshId \in Node
                    /\ new[FreshId].st = "free"
                    /\ owner[FreshId] = None
BY DEF FreeIds, FreshId

LEMMA FreshUploadFree ==
    U!FreeIds # {} => /\ U!FreshId \in Upload
                      /\ unew[U!FreshId].st = "free"
                      /\ uowner[U!FreshId] = None
BY DEF U!FreeIds, U!FreshId

\* A call, its arguments and its local variables have their types.
LEMMA CallFacts ==
    ASSUME FilesInv, NEW s \in Sess
    PROVE  /\ f[s] \in Frame /\ f[s].call \in Call /\ f[s].call.op \in Ops
           /\ f[s].call.path \in Seq(Name) /\ f[s].content \in Content
           /\ f[s].cur \in Node /\ f[s].rest \in Seq(Name)
           /\ f[s].row \in Node \cup {None} /\ f[s].size \in Nat /\ f[s].made \in BOOLEAN
           /\ f[s].now \in Nat /\ f[s].todo \subseteq Upload
           /\ f[s].out \in {"none", "true", "false", "error"}
           /\ f[s].goal \in {"node", "parent"}
           /\ PcLocal(s) /\ PcHolds(s)
           /\ RowsOK /\ UpsOK /\ CountsOK /\ LocalsTyped
BY DEF FilesInv, LocalsTyped, Frame, Call

LEMMA FreshFrame ==
    ASSUME NEW s \in Sess, CountsOK, NEW c \in Call, NEW content \in Content,
           NEW out \in {"none", "true", "false", "error"}
    PROVE  /\ Fresh(s, c, content, out) \in Frame
           /\ Fresh(s, c, content, out).call = c
           /\ Fresh(s, c, content, out).content = content
           /\ Fresh(s, c, content, out).goal = "node"
<1>1. RootOf[s] \in Node /\ << >> \in Seq(Name) /\ << >> \in Content
  BY FilesAssumption, EmptySeq DEF Content
<1> QED
  BY <1>1 DEF Fresh, Frame, CountsOK

LEMMA NoCallOK == NoCall \in Call /\ NoCall.op = "read_file" /\ << >> \in Content
BY EmptySeq DEF NoCall, Call, Ops, Content

-----------------------------------------------------------------------------
(* Locks: a step of s keeps what the others hold *)

RowsKept(s) == \A n \in Node : owner[n] \notin {s, None}
                   => owner'[n] = owner[n] /\ new'[n] = new[n]

UpsKept(s) == \A u \in Upload : uowner[u] \notin {s, None}
                  => uowner'[u] = uowner[u] /\ unew'[u] = unew[u]

\* A step of s that leaves the other calls alone.
StepOf(s) == /\ f' \in [Sess -> Frame]
             /\ pc' \in [Sess -> Labels]
             /\ \A t \in Sess \ {s} : f'[t] = f[t] /\ pc'[t] = pc[t]

\* The calls of the other sessions keep their locks and their local variables.
LEMMA FilesStep ==
    ASSUME FilesInv, NEW s \in Sess, StepOf(s), PcLocal(s)', PcHolds(s)',
           RowsOK', UpsOK', CountsOK', RowsKept(s), UpsKept(s)
    PROVE  FilesInv'
<1>1. ASSUME NEW t \in Sess, t # s
      PROVE  PcLocal(t)' /\ PcHolds(t)'
  <2>1. f'[t] = f[t] /\ pc'[t] = pc[t]
    BY <1>1 DEF StepOf
  <2>2. PcLocal(t) /\ PcHolds(t) /\ t # None
    BY CallFacts, PgAssumption
  <2>3. PcLocal(t)'
    BY <2>1, <2>2 DEF PcLocal
  <2>4. /\ f[t].call.op = "finish_upload" /\ pc[t] \in Holding => f[t].call.up \in Upload
        /\ pc[t] \in {"fk", "publish"} => f[t].row \in Node
    BY <2>2 DEF PcLocal, ArgsOK, UpOps
  <2>5. PcHolds(t)'
    BY <1>1, <2>1, <2>2, <2>4 DEF PcHolds, RowsKept, UpsKept
  <2> QED
    BY <2>3, <2>5
<1> QED
  BY <1>1 DEF FilesInv, StepOf, LocalsTyped

-----------------------------------------------------------------------------
(* vfs_uploads *)

LEMMA UpSame ==
    ASSUME UpsOK, NEW s, UNCHANGED uploadVars
    PROVE  UpsOK' /\ UpsKept(s)
BY DEF UpsOK, UpsTyped, UpsKept, uploadVars, UpRowOK

\* Locking an upload row and changing it to v.
LEMMA UpWrite ==
    ASSUME UpsOK, NEW s \in Sess, NEW u \in Upload, uowner[u] \in {s, None},
           NEW v \in UploadRow, UpRowOK(v),
           unew' = [unew EXCEPT ![u] = v], uowner' = [uowner EXCEPT ![u] = s], udb' = udb
    PROVE  UpsOK' /\ UpsKept(s) /\ uowner'[u] = s /\ unew'[u] = v
<1>1. UpsTyped'
  BY DEF UpsOK, UpsTyped
<1>2. \A w \in Upload : /\ uowner'[w] = IF w = u THEN s ELSE uowner[w]
                        /\ unew'[w] = IF w = u THEN v ELSE unew[w]
  BY DEF UpsOK, UpsTyped
<1>3. s # None
  BY PgAssumption
<1>4. \A w \in Upload : UpRowOK(udb'[w]) /\ UpRowOK(unew'[w])
  BY <1>2 DEF UpsOK
<1>5. \A w \in Upload : uowner'[w] = None => unew'[w] = udb'[w]
  BY <1>2, <1>3 DEF UpsOK
<1>6. UpsOK'
  BY <1>1, <1>4, <1>5 DEF UpsOK, UpRowOK
<1> QED
  BY <1>2, <1>6 DEF UpsKept

LEMMA UpLockOnly ==
    ASSUME UpsOK, NEW s \in Sess, NEW u \in Upload, uowner[u] \in {s, None},
           U!Lock(s, u), UNCHANGED <<udb, unew>>
    PROVE  UpsOK' /\ UpsKept(s) /\ uowner'[u] = s /\ unew'[u] = unew[u]
<1>1. unew' = [unew EXCEPT ![u] = unew[u]] /\ unew[u] \in UploadRow /\ UpRowOK(unew[u])
  BY DEF UpsOK, UpsTyped
<1> QED
  BY <1>1, UpWrite DEF U!Lock

LEMMA UpKill ==
    ASSUME UpsOK, NEW s \in Sess, NEW u \in Upload, uowner[u] \in {s, None},
           unew[u].st = "live", udb' = udb,
           unew' = [unew EXCEPT ![u].st = "dead"], uowner' = [uowner EXCEPT ![u] = s]
    PROVE  UpsOK' /\ UpsKept(s)
<1> DEFINE v == [unew[u] EXCEPT !.st = "dead"]
<1>1. unew[u] \in UploadRow /\ UpRowOK(unew[u])
  BY DEF UpsOK, UpsTyped
<1>2. v \in UploadRow /\ UpRowOK(v)
  BY <1>1 DEF UploadRow, UpRowOK
<1>3. unew' = [unew EXCEPT ![u] = v]
  OBVIOUS
<1> HIDE DEF v
<1> QED
  BY <1>2, <1>3, UpWrite

LEMMA UpSeen ==
    ASSUME UpsOK, NEW s \in Sess, NEW u \in Upload, U!LockWaits(s, u) = {}
    PROVE  uowner[u] \in {s, None} /\ U!Seen(s, u) = unew[u] /\ unew[u] \in UploadRow
BY DEF UpsOK, UpsTyped, U!LockWaits, U!Seen

LEMMA UpsEnd ==
    ASSUME UpsOK, NEW s \in Sess
    PROVE  /\ U!CommitRows(s) => UpsOK' /\ UpsKept(s)
           /\ U!RollbackRows(s) => UpsOK' /\ UpsKept(s)
<1>0. s # None
  BY PgAssumption
<1>1. ASSUME U!CommitRows(s) PROVE UpsOK' /\ UpsKept(s)
  <2>1. /\ udb' = [u \in Upload |-> IF uowner[u] = s THEN unew[u] ELSE udb[u]]
        /\ unew' = unew
        /\ uowner' = [u \in Upload |-> IF uowner[u] = s THEN None ELSE uowner[u]]
    BY <1>1 DEF U!CommitRows, U!ReleaseRows, U!Seen
  <2> QED
    BY <1>0, <2>1 DEF UpsOK, UpsTyped, UpsKept, UpRowOK
<1>2. ASSUME U!RollbackRows(s) PROVE UpsOK' /\ UpsKept(s)
  <2>1. /\ udb' = udb
        /\ unew' = [u \in Upload |-> IF uowner[u] = s THEN udb[u] ELSE unew[u]]
        /\ uowner' = [u \in Upload |-> IF uowner[u] = s THEN None ELSE uowner[u]]
    BY <1>2 DEF U!RollbackRows, U!ReleaseRows
  <2> QED
    BY <1>0, <2>1 DEF UpsOK, UpsTyped, UpsKept, UpRowOK
<1> QED
  BY <1>1, <1>2

-----------------------------------------------------------------------------
(* vfs_nodes *)

LEMMA RowSame ==
    ASSUME RowsOK, NEW s, UNCHANGED rowVars
    PROVE  RowsOK' /\ RowsKept(s)
BY DEF RowsOK, RowsTyped, RowsKept, rowVars, Consistent

\* Locking a node row and changing it to v.
LEMMA RowWrite ==
    ASSUME RowsOK, NEW s \in Sess, NEW n \in Node, owner[n] \in {s, None},
           NEW v \in Row, v.st = "live" => Consistent(v),
           new' = [new EXCEPT ![n] = v], owner' = [owner EXCEPT ![n] = s],
           UNCHANGED <<db, shares>>
    PROVE  RowsOK' /\ RowsKept(s) /\ owner'[n] = s /\ new'[n] = v
<1>1. RowsTyped'
  BY DEF RowsOK, RowsTyped
<1>2. \A m \in Node : /\ owner'[m] = IF m = n THEN s ELSE owner[m]
                      /\ new'[m] = IF m = n THEN v ELSE new[m]
  BY DEF RowsOK, RowsTyped
<1>3. s # None
  BY PgAssumption
<1>4. \A m \in Node : /\ db'[m].st = "live" => Consistent(db'[m])
                      /\ new'[m].st = "live" => Consistent(new'[m])
  BY <1>2 DEF RowsOK
<1>5. \A m \in Node : owner'[m] = None => new'[m] = db'[m]
  BY <1>2, <1>3 DEF RowsOK
<1>6. RowsOK'
  BY <1>1, <1>4, <1>5 DEF RowsOK, Consistent
<1> QED
  BY <1>2, <1>6 DEF RowsKept

LEMMA RowLockOnly ==
    ASSUME RowsOK, NEW s \in Sess, NEW n \in Node, owner[n] \in {s, None},
           Lock(s, n), UNCHANGED <<db, new, shares>>
    PROVE  RowsOK' /\ RowsKept(s) /\ owner'[n] = s /\ new'[n] = new[n]
<1>1. /\ new' = [new EXCEPT ![n] = new[n]] /\ new[n] \in Row
      /\ new[n].st = "live" => Consistent(new[n])
  BY DEF RowsOK, RowsTyped
<1> QED
  BY <1>1, RowWrite DEF Lock

\* New contents with their size and sha256.
LEMMA RowPut ==
    ASSUME RowsOK, NEW s \in Sess, NEW n \in Node, owner[n] \in {s, None},
           NEW data \in Content, Put(s, n, data), UNCHANGED <<db, shares>>
    PROVE  RowsOK' /\ RowsKept(s)
<1> DEFINE v == [new[n] EXCEPT !.size = Len(data), !.sha = data, !.data = data]
<1>1. new[n] \in Row /\ Len(data) \in Nat /\ None \notin Content
  BY FilesAssumption DEF RowsOK, RowsTyped, Content
<1>2. v \in Row
  BY <1>1 DEF Row
<1>3. v.size = Len(data) /\ v.sha = data /\ v.data = data
  BY <1>1 DEF Row
<1>4. Consistent(v)
  BY <1>1, <1>3 DEF Consistent
<1>5. new' = [new EXCEPT ![n] = v] /\ owner' = [owner EXCEPT ![n] = s]
  BY DEF Put, Lock
<1> HIDE DEF v
<1> QED
  BY <1>2, <1>4, <1>5, RowWrite

LEMMA RowShare ==
    ASSUME RowsOK, NEW s \in Sess, NEW n \in Node, Share(s, n), UNCHANGED <<db, new, owner>>
    PROVE  RowsOK' /\ RowsKept(s)
BY DEF RowsOK, RowsTyped, RowsKept, Share, Consistent

LEMMA RowSeen ==
    ASSUME RowsOK, NEW s \in Sess, NEW n \in Node
    PROVE  /\ Seen(s, n) \in Row
           /\ Live(s, n) => Consistent(Seen(s, n))
           /\ LockWaits(s, n) = {} => owner[n] \in {s, None} /\ Seen(s, n) = new[n]
BY DEF RowsOK, RowsTyped, LockWaits, Seen, Live

LEMMA RowsEnd ==
    ASSUME RowsOK, NEW s \in Sess
    PROVE  /\ CommitRows(s) => RowsOK' /\ RowsKept(s)
           /\ RollbackRows(s) => RowsOK' /\ RowsKept(s)
<1>0. s # None
  BY PgAssumption
<1>1. ASSUME CommitRows(s) PROVE RowsOK' /\ RowsKept(s)
  <2>1. /\ db' = [n \in Node |-> IF owner[n] = s THEN new[n] ELSE db[n]]
        /\ new' = new
        /\ owner' = [n \in Node |-> IF owner[n] = s THEN None ELSE owner[n]]
        /\ shares' = [n \in Node |-> shares[n] \ {s}]
    BY <1>1 DEF CommitRows, ReleaseRows, Seen
  <2> QED
    BY <1>0, <2>1 DEF RowsOK, RowsTyped, RowsKept, Consistent
<1>2. ASSUME RollbackRows(s) PROVE RowsOK' /\ RowsKept(s)
  <2>1. /\ db' = db
        /\ new' = [n \in Node |-> IF owner[n] = s THEN db[n] ELSE new[n]]
        /\ owner' = [n \in Node |-> IF owner[n] = s THEN None ELSE owner[n]]
        /\ shares' = [n \in Node |-> shares[n] \ {s}]
    BY <1>2 DEF RollbackRows, ReleaseRows
  <2> QED
    BY <1>0, <2>1 DEF RowsOK, RowsTyped, RowsKept, Consistent
<1> QED
  BY <1>1, <1>2

-----------------------------------------------------------------------------
(* The ends of a call: return, refusal, exception *)

\* A statement that leaves the call for its COMMIT.
LEMMA ReturnLocal ==
    ASSUME FilesInv, NEW s \in Sess, pc[s] # "idle", NEW ok, Return(s, ok)
    PROVE  StepOf(s) /\ PcLocal(s)' /\ PcHolds(s)'
<1>1. f[s] \in Frame /\ f'[s] = [f[s] EXCEPT !.out = IF ok THEN "true" ELSE "false"]
  BY DEF FilesInv, LocalsTyped, Return
<1>2. /\ f'[s] \in Frame /\ f'[s].call = f[s].call /\ f'[s].goal = f[s].goal
      /\ f'[s].content = f[s].content
  BY <1>1 DEF Frame
<1>3. pc'[s] = "commit"
  BY DEF FilesInv, LocalsTyped, Return, Goto
<1>4. StepOf(s)
  BY <1>2 DEF StepOf, FilesInv, LocalsTyped, Return, Goto, Labels
<1>5. PcLocal(s)'
  BY <1>2, <1>3, CallFacts DEF PcLocal, LabelOK
<1>6. PcHolds(s)'
  BY <1>2, <1>3 DEF PcHolds, Holding
<1> QED
  BY <1>4, <1>5, <1>6

\* A finish_upload in its second half has its upload locked.
LEMMA HoldsUpload ==
    ASSUME FilesInv, NEW s \in Sess, Finishing(s), pc[s] \in Holding
    PROVE  /\ f[s].call.up \in Upload /\ uowner[f[s].call.up] = s
           /\ unew[f[s].call.up].st = "live" /\ unew[f[s].call.up] \in UploadRow
           /\ Path(s) \in Seq(Name) /\ Path(s) # << >>
<1>1. /\ f[s].call.up \in Upload /\ uowner[f[s].call.up] = s
      /\ unew[f[s].call.up].st = "live"
  BY CallFacts DEF PcLocal, PcHolds, ArgsOK, UpOps, Finishing
<1>2. unew[f[s].call.up] \in UploadRow /\ UpRowOK(unew[f[s].call.up])
  BY <1>1, CallFacts DEF UpsOK, UpsTyped
<1> QED
  BY <1>1, <1>2 DEF UpRowOK, UploadRow, Path, Staged, Finishing

LEMMA DiscardUps ==
    ASSUME FilesInv, NEW s \in Sess, Finishing(s), pc[s] \in Holding, Discard(s)
    PROVE  UpsOK' /\ UpsKept(s)
<1>1. uowner' = [uowner EXCEPT ![f[s].call.up] = s]
  BY HoldsUpload, CallFacts DEF Discard, UpsOK, UpsTyped
<1> QED
  BY <1>1, HoldsUpload, CallFacts, UpKill DEF Discard

LEMMA RefuseLocal ==
    ASSUME FilesInv, NEW s \in Sess, pc[s] # "idle", Finishing(s) => pc[s] \in Holding,
           Refuse(s)
    PROVE  StepOf(s) /\ PcLocal(s)' /\ PcHolds(s)' /\ UpsOK' /\ UpsKept(s)
<1>1. StepOf(s) /\ PcLocal(s)' /\ PcHolds(s)'
  BY ReturnLocal DEF Refuse
<1>2. CASE Finishing(s)
  BY <1>1, <1>2, DiscardUps DEF Refuse
<1>3. CASE ~Finishing(s)
  BY <1>1, <1>3, CallFacts, UpSame DEF Refuse
<1> QED
  BY <1>1, <1>2, <1>3

\* The call has returned to its caller.
LEMMA IdleLocal ==
    ASSUME FilesInv, NEW s \in Sess, NEW fr \in Frame, fr.call = NoCall, fr.goal = "node",
           f' = [f EXCEPT ![s] = fr], Goto(s, "idle")
    PROVE  StepOf(s) /\ PcLocal(s)' /\ PcHolds(s)'
<1>1. StepOf(s)
  BY DEF StepOf, FilesInv, LocalsTyped, Goto, Labels
<1>2. f'[s] = fr /\ pc'[s] = "idle"
  BY DEF FilesInv, LocalsTyped, Goto
<1>3. NoCall.op = "read_file"
  BY NoCallOK
<1>4. PcLocal(s)'
  BY <1>2, <1>3 DEF PcLocal, LabelOK, ArgsOK, UpOps
<1>5. PcHolds(s)'
  BY <1>2, <1>3 DEF PcHolds, Holding
<1> QED
  BY <1>1, <1>4, <1>5

LEMMA FreshLocal ==
    ASSUME FilesInv, NEW s \in Sess, NEW out \in {"none", "true", "false", "error"},
           f' = [f EXCEPT ![s] = Fresh(s, NoCall, << >>, out)], Goto(s, "idle")
    PROVE  StepOf(s) /\ PcLocal(s)' /\ PcHolds(s)'
<1>1. /\ Fresh(s, NoCall, << >>, out) \in Frame
      /\ Fresh(s, NoCall, << >>, out).call = NoCall
      /\ Fresh(s, NoCall, << >>, out).goal = "node"
  BY NoCallOK, FreshFrame, CallFacts
<1> QED
  BY <1>1, IdleLocal

LEMMA RollbackOK ==
    ASSUME FilesInv, NEW s \in Sess, Rollback(s)
    PROVE  RowsOK' /\ RowsKept(s) /\ UpsOK' /\ UpsKept(s)
BY CallFacts, RowsEnd, UpsEnd DEF Rollback

LEMMA RaiseStep ==
    ASSUME FilesInv, NEW s \in Sess, Raise(s), CountsOK'
    PROVE  FilesInv'
<1>1. RowsOK' /\ RowsKept(s) /\ UpsOK' /\ UpsKept(s)
  BY RollbackOK DEF Raise
<1>2. CASE f[s].call.op \in {"upload_part", "finish_upload"} /\ f[s].out # "error"
  <2>1. Goto(s, "ab_delete") /\ f' = [f EXCEPT ![s].out = "error"]
    BY <1>2 DEF Raise
  <2>2. f[s] \in Frame /\ f'[s] = [f[s] EXCEPT !.out = "error"] /\ pc'[s] = "ab_delete"
    BY <2>1 DEF FilesInv, LocalsTyped, Goto
  <2>3. /\ f'[s] \in Frame /\ f'[s].call = f[s].call /\ f'[s].goal = f[s].goal
        /\ f'[s].content = f[s].content
    BY <2>2 DEF Frame
  <2>4. StepOf(s)
    BY <2>1, <2>3 DEF StepOf, FilesInv, LocalsTyped, Goto, Labels
  <2>5. PcLocal(s)'
    BY <1>2, <2>2, <2>3, CallFacts DEF PcLocal, LabelOK, UpOps
  <2>6. PcHolds(s)'
    BY <2>2, <2>3 DEF PcHolds, Holding
  <2> QED
    BY <1>1, <2>4, <2>5, <2>6, FilesStep
<1>3. CASE ~(f[s].call.op \in {"upload_part", "finish_upload"} /\ f[s].out # "error")
  <2>1. Goto(s, "idle") /\ f' = [f EXCEPT ![s] = Fresh(s, NoCall, << >>, "error")]
    BY <1>3 DEF Raise
  <2> QED
    BY <1>1, <2>1, FreshLocal, FilesStep
<1> QED
  BY <1>2, <1>3

-----------------------------------------------------------------------------
(* The path walk *)

\* Local variables fr with which the path walk of s may go on: those of a call
\* that begins, or those of the call that is under way.
Walking(s, fr) ==
    /\ fr \in Frame
    /\ fr.call.op \in WalkOps
    /\ ArgsOK(fr.call, fr.content)
    /\ fr.call.op = "finish_upload" => /\ uowner[fr.call.up] = s
                                       /\ unew[fr.call.up].st = "live"
    /\ fr.goal = "parent" => /\ fr.call = f[s].call /\ pc[s] \in Holding
                             /\ fr.call.op \in MakeOps
                             /\ fr.call.op = "write_file_atomic" => fr.call.path # << >>

\* The next statement is `label`, the upload keeps its lock.
LEMMA WalkTo ==
    ASSUME FilesInv, NEW s \in Sess, NEW fr \in Frame, Walking(s, fr),
           NEW label \in {"insert", "fin_node", "read", "meta", "write", "commit", "walk"},
           Goto(s, label), f' = [f EXCEPT ![s] = fr], UNCHANGED uploadVars,
           LabelOK(label, fr.call.op),
           label \in {"meta", "write"} => fr.row \in Node,
           label = "walk" => /\ fr.rest # << >>
                             /\ fr.call.op = "write_file_atomic" => fr.call.path # << >>,
           label = "insert" => fr.goal = "parent"
    PROVE  StepOf(s) /\ PcLocal(s)' /\ PcHolds(s)' /\ UpsOK' /\ UpsKept(s)
<1>1. StepOf(s)
  BY DEF StepOf, FilesInv, LocalsTyped, Goto, Labels
<1>2. f'[s] = fr /\ pc'[s] = label
  BY DEF FilesInv, LocalsTyped, Goto
<1>3. PcLocal(s)'
  BY <1>2 DEF PcLocal, Walking, LabelOK
<1>4. PcHolds(s)'
  BY <1>2 DEF PcHolds, Walking, uploadVars
<1>5. UpsOK' /\ UpsKept(s)
  BY CallFacts, UpSame
<1> QED
  BY <1>1, <1>3, <1>4, <1>5

LEMMA FoundLocal ==
    ASSUME FilesInv, NEW s \in Sess, NEW fr \in Frame, Walking(s, fr), NEW n \in Node,
           Found(s, fr, n)
    PROVE  StepOf(s) /\ PcLocal(s)' /\ PcHolds(s)' /\ UpsOK' /\ UpsKept(s)
<1> DEFINE fr1 == [fr EXCEPT !.cur = n, !.rest = << >>]
           fr2 == [fr1 EXCEPT !.row = n]
           fr3 == [fr1 EXCEPT !.out = "false"]
           refused == Seen(s, n).dir \/ (fr.call.op = "write_file_atomic" /\ fr.call.excl)
<1>1. fr1 \in Frame /\ fr2 \in Frame /\ fr3 \in Frame /\ fr2.row = n
  BY EmptySeq DEF Frame
<1>2. /\ fr1.call = fr.call /\ fr1.goal = fr.goal /\ fr1.content = fr.content
      /\ fr2.call = fr.call /\ fr2.goal = fr.goal /\ fr2.content = fr.content
      /\ fr3.call = fr.call /\ fr3.goal = fr.goal /\ fr3.content = fr.content
  BY DEF Frame
<1> HIDE DEF fr1, fr2, fr3
<1>3. Walking(s, fr1) /\ Walking(s, fr2) /\ Walking(s, fr3)
  BY <1>1, <1>2 DEF Walking
<1>4. fr.goal \in {"node", "parent"} /\ fr.call.op \in WalkOps
  BY DEF Frame, Walking
<1>5. CASE fr.goal = "parent"
  <2>1. /\ fr.call = f[s].call /\ pc[s] \in Holding /\ fr.call.op \in MakeOps
    BY <1>5 DEF Walking
  <2>2. CASE Seen(s, n).dir
    <3>1. Goto(s, "insert") /\ f' = [f EXCEPT ![s] = fr1] /\ UNCHANGED uploadVars
      BY <1>5, <2>2 DEF Found, fr1
    <3>2. LabelOK("insert", fr1.call.op)
      BY <1>2, <2>1 DEF LabelOK
    <3> QED
      BY <1>1, <1>2, <1>3, <1>5, <3>1, <3>2, WalkTo
  <2>3. CASE ~Seen(s, n).dir
    <3>1. Refuse(s)
      BY <1>5, <2>3 DEF Found
    <3> QED
      BY <2>1, <3>1, RefuseLocal DEF Holding
  <2> QED
    BY <2>2, <2>3
<1>6. CASE fr.goal = "node" /\ fr.call.op = "finish_upload"
  <2>1. Goto(s, "fin_node") /\ f' = [f EXCEPT ![s] = fr1] /\ UNCHANGED uploadVars
    BY <1>6 DEF Found, fr1
  <2>2. LabelOK("fin_node", fr1.call.op)
    BY <1>2, <1>6 DEF LabelOK
  <2> QED
    BY <1>1, <1>3, <2>1, <2>2, WalkTo
<1>7. CASE fr.goal = "node" /\ fr.call.op = "read_file"
  <2>1. Goto(s, "read") /\ f' = [f EXCEPT ![s] = fr1] /\ UNCHANGED uploadVars
    BY <1>7 DEF Found, fr1
  <2>2. LabelOK("read", fr1.call.op)
    BY <1>2, <1>7 DEF LabelOK
  <2> QED
    BY <1>1, <1>3, <2>1, <2>2, WalkTo
<1>8. CASE fr.goal = "node" /\ fr.call.op = "set_metadata"
  <2>1. Goto(s, "meta") /\ f' = [f EXCEPT ![s] = fr2] /\ UNCHANGED uploadVars
    BY <1>8 DEF Found, fr1, fr2
  <2>2. LabelOK("meta", fr2.call.op)
    BY <1>2, <1>8 DEF LabelOK
  <2> QED
    BY <1>1, <1>3, <2>1, <2>2, WalkTo
<1>9. CASE fr.goal = "node" /\ fr.call.op \in {"write_file", "write_file_atomic"}
  <2>1. CASE refused
    <3>1. Goto(s, "commit") /\ f' = [f EXCEPT ![s] = fr3] /\ UNCHANGED uploadVars
      BY <1>9, <2>1 DEF Found, fr1, fr3
    <3>2. LabelOK("commit", fr3.call.op)
      BY DEF LabelOK
    <3> QED
      BY <1>1, <1>3, <3>1, <3>2, WalkTo
  <2>2. CASE ~refused
    <3>1. Goto(s, "write") /\ f' = [f EXCEPT ![s] = fr2] /\ UNCHANGED uploadVars
      BY <1>9, <2>2 DEF Found, fr1, fr2
    <3>2. LabelOK("write", fr2.call.op)
      BY <1>2, <1>9 DEF LabelOK
    <3> QED
      BY <1>1, <1>3, <3>1, <3>2, WalkTo
  <2> QED
    BY <2>1, <2>2
<1> QED
  BY <1>4, <1>5, <1>6, <1>7, <1>8, <1>9 DEF WalkOps, MakeOps

LEMMA StartWalkLocal ==
    ASSUME FilesInv, NEW s \in Sess, NEW fr \in Frame, Walking(s, fr), NEW path \in Seq(Name),
           path # << >> /\ fr.call.op = "write_file_atomic" => fr.call.path # << >>,
           StartWalk(s, fr, path)
    PROVE  StepOf(s) /\ PcLocal(s)' /\ PcHolds(s)' /\ UpsOK' /\ UpsKept(s)
<1>0. RootOf[s] \in Node
  BY FilesAssumption
<1>1. CASE path = << >>
  BY <1>0, <1>1, FoundLocal DEF StartWalk
<1>2. CASE path # << >>
  <2> DEFINE g == [fr EXCEPT !.cur = RootOf[s], !.rest = path]
  <2>1. g \in Frame
    BY <1>0 DEF Frame
  <2>2. g.call = fr.call /\ g.goal = fr.goal /\ g.content = fr.content /\ g.rest = path
    BY DEF Frame
  <2>3. Goto(s, "walk") /\ f' = [f EXCEPT ![s] = g] /\ UNCHANGED uploadVars
    BY <1>2 DEF StartWalk
  <2> HIDE DEF g
  <2>4. Walking(s, g) /\ LabelOK("walk", g.call.op)
    BY <2>1, <2>2 DEF Walking, LabelOK
  <2> QED
    BY <1>2, <2>1, <2>2, <2>3, <2>4, WalkTo
<1> QED
  BY <1>1, <1>2

LEMMA ToParentLocal ==
    ASSUME FilesInv, NEW s \in Sess, f[s].call.op \in MakeOps, pc[s] \in {"walk", "fin_node"},
           ToParent(s, Path(s))
    PROVE  StepOf(s) /\ PcLocal(s)' /\ PcHolds(s)' /\ UpsOK' /\ UpsKept(s)
<1> DEFINE fr == [f[s] EXCEPT !.goal = "parent"]
<1>1. fr \in Frame
  BY CallFacts DEF Frame
<1>2. fr.call = f[s].call /\ fr.goal = "parent" /\ fr.content = f[s].content
  BY CallFacts DEF Frame
<1>3. StartWalk(s, fr, Parent(Path(s)))
  BY DEF ToParent
<1> HIDE DEF fr
<1>4. f[s].call.op = "write_file_atomic" => f[s].call.path # << >>
  BY CallFacts DEF PcLocal, LabelOK
<1>5. Path(s) \in Seq(Name) /\ Path(s) # << >>
  <2>1. CASE Finishing(s)
    BY <2>1, HoldsUpload DEF Holding
  <2>2. CASE ~Finishing(s)
    BY <1>4, <2>2, CallFacts DEF Path, Finishing, MakeOps
  <2> QED
    BY <2>1, <2>2
<1>6. Walking(s, fr)
  BY <1>1, <1>2, <1>4, CallFacts DEF Walking, WalkOps, PcLocal, PcHolds, Holding
<1>7. Parent(Path(s)) \in Seq(Name)
  BY <1>5, PathParts
<1> QED
  BY <1>1, <1>2, <1>3, <1>4, <1>6, <1>7, StartWalkLocal

-----------------------------------------------------------------------------
(* One lemma per action *)

LEMMA WalkStep ==
    ASSUME FilesInv, NEW s \in Sess, Walk(s)
    PROVE  FilesInv'
<1> DEFINE c == Child(s, f[s].cur, Head(f[s].rest))
<1>1. /\ pc[s] = "walk" /\ f[s].rest # << >> /\ CountsOK'
      /\ f[s].call.op \in WalkOps /\ UNCHANGED rowVars
  BY CallFacts DEF Walk, At, PcLocal, LabelOK, Stay, CountsOK
<1>2. RowsOK' /\ RowsKept(s)
  BY <1>1, CallFacts, RowSame
<1>3. c # None => c \in Node
  BY ChildType
<1>4. Walking(s, f[s])
  BY <1>1, CallFacts DEF Walking, PcLocal, PcHolds, Holding
<1>5. Len(f[s].rest) \in Nat \ {0} /\ Tail(f[s].rest) \in Seq(Name)
  BY <1>1, CallFacts, PathParts
<1>6. StepOf(s) /\ PcLocal(s)' /\ PcHolds(s)' /\ UpsOK' /\ UpsKept(s)
  <2>1. CASE c # None /\ Len(f[s].rest) = 1
    <3>1. Found(s, f[s], c)
      BY <2>1 DEF Walk
    <3> QED
      BY <1>3, <1>4, <2>1, <3>1, CallFacts, FoundLocal
  <2>2. CASE c # None /\ Len(f[s].rest) > 1
    <3> DEFINE g == [f[s] EXCEPT !.cur = c, !.rest = Tail(f[s].rest)]
    <3>0. f' = [f EXCEPT ![s].cur = c, ![s].rest = Tail(@)] /\ UNCHANGED <<uploadVars, pc>>
      BY <2>2 DEF Walk
    <3>1. f' = [f EXCEPT ![s] = g] /\ UNCHANGED uploadVars /\ UNCHANGED pc
      BY <3>0, CallFacts DEF LocalsTyped, Frame
    <3>2. g \in Frame
      BY <1>3, <1>5, <2>2, CallFacts DEF Frame
    <3>3. /\ g.call = f[s].call /\ g.goal = f[s].goal /\ g.content = f[s].content
          /\ g.rest = Tail(f[s].rest)
      BY CallFacts DEF Frame
    <3> HIDE DEF g, c
    <3>4. Tail(f[s].rest) # << >>
      BY <1>1, <2>2, CallFacts, LastPart
    <3>5. Walking(s, g)
      BY <1>4, <3>2, <3>3 DEF Walking
    <3>6. Goto(s, "walk")
      BY <1>1, <3>1, CallFacts DEF Goto, LocalsTyped
    <3>7. /\ LabelOK("walk", g.call.op)
          /\ g.call.op = "write_file_atomic" => g.call.path # << >>
      BY <1>1, <3>3, CallFacts DEF LabelOK, PcLocal
    <3> QED
      BY <3>1, <3>2, <3>3, <3>4, <3>5, <3>6, <3>7, WalkTo
  <2>3. CASE c = None /\ f[s].goal = "node"
             /\ f[s].call.op \in {"write_file_atomic", "finish_upload"}
    <3>1. ToParent(s, Path(s))
      BY <2>3 DEF Walk
    <3> QED
      BY <1>1, <2>3, <3>1, ToParentLocal DEF MakeOps
  <2>4. CASE c = None /\ ~(f[s].goal = "node"
             /\ f[s].call.op \in {"write_file_atomic", "finish_upload"})
    <3>1. Refuse(s)
      BY <2>4 DEF Walk
    <3> QED
      BY <1>1, <3>1, RefuseLocal DEF Holding
  <2>5. Len(f[s].rest) = 1 \/ Len(f[s].rest) > 1
    BY <1>1, CallFacts, LastPart
  <2> HIDE DEF c
  <2> QED
    BY <2>1, <2>2, <2>3, <2>4, <2>5
<1> QED
  BY <1>1, <1>2, <1>6, FilesStep

LEMMA BeginStep ==
    ASSUME FilesInv, NEW s \in Sess, NEW c \in Calls, Begin(s, c)
    PROVE  FilesInv'
<1>1. /\ pc[s] = "idle" /\ left \in Nat /\ left > 0 /\ left' = left - 1
      /\ UNCHANGED <<rowVars, clock, others, faults>>
  BY CallFacts DEF Begin, At, CountsOK
<1>2. CountsOK' /\ RowsOK' /\ RowsKept(s)
  BY <1>1, CallFacts, RowSame DEF CountsOK
<1> DEFINE content == IF c.empty THEN << >> ELSE <<left>>
           fr == Fresh(s, c, content, "none")
<1>3. /\ c \in Call /\ WellFormed(c) /\ c.op \in Ops /\ c.path \in Seq(Name)
      /\ c.up \in Upload \cup {None} /\ c.key \in MetaKey \cup {None} /\ c.empty \in BOOLEAN
  BY FilesAssumption DEF Call
<1>4. content \in Content
  BY <1>1, <1>3, EmptySeq DEF Content
<1>5. ArgsOK(c, content)
  <2>1. c.op \in UpOps => c.up \in Upload
    BY <1>3 DEF WellFormed, UpOps
  <2>2. c.op = "set_metadata" => c.key \in MetaKey /\ content # << >>
    BY <1>3 DEF WellFormed
  <2> QED
    BY <2>1, <2>2 DEF ArgsOK
<1> HIDE DEF content
<1>6. fr \in Frame /\ fr.call = c /\ fr.content = content /\ fr.goal = "node"
  BY <1>3, <1>4, CallFacts, FreshFrame
<1> HIDE DEF fr
<1>7. CASE c.op \in {"write_file", "write_file_atomic", "read_file", "set_metadata"}
  <2>1. StartWalk(s, fr, c.path)
    BY <1>7 DEF Begin, fr, content
  <2>2. Walking(s, fr)
    BY <1>5, <1>6, <1>7 DEF Walking, WalkOps, MakeOps
  <2> QED
    BY <1>2, <1>3, <1>6, <2>1, <2>2, StartWalkLocal, FilesStep
<1>8. ASSUME NEW label \in {"su_insert", "ab_delete", "fin_upload", "up_lock", "cl_scan"},
             NEW out \in {"none", "error"},
             Goto(s, label), f' = [f EXCEPT ![s] = [fr EXCEPT !.out = out]],
             UNCHANGED uploadVars, LabelOK(label, c.op),
             label = "su_insert" => c.path # << >>
      PROVE  FilesInv'
  <2> DEFINE g == [fr EXCEPT !.out = out]
  <2>1. g \in Frame /\ g.call = c /\ g.content = content /\ g.goal = "node"
    BY <1>6 DEF Frame
  <2>2. f' = [f EXCEPT ![s] = g]
    BY <1>8
  <2> HIDE DEF g
  <2>3. StepOf(s)
    BY <1>8, <2>1, <2>2, CallFacts DEF StepOf, LocalsTyped, Goto, Labels
  <2>4. f'[s] = g /\ pc'[s] = label
    BY <1>8, <2>2, CallFacts DEF LocalsTyped, Goto
  <2>5. PcLocal(s)'
    BY <1>5, <1>8, <2>1, <2>4 DEF PcLocal
  <2>6. PcHolds(s)'
    BY <2>4, <1>8 DEF PcHolds, Holding
  <2>7. UpsOK' /\ UpsKept(s)
    BY <1>8, CallFacts, UpSame
  <2> QED
    BY <1>2, <2>3, <2>5, <2>6, <2>7, FilesStep
<1>9. CASE c.op = "start_upload" /\ Malformed(c)
  <2>1. f' = [f EXCEPT ![s] = Fresh(s, NoCall, << >>, "error")] /\ UNCHANGED <<pc, uploadVars>>
    BY <1>9 DEF Begin
  <2>2. Goto(s, "idle")
    BY <1>1, <2>1, CallFacts DEF Goto, LocalsTyped
  <2>3. UpsOK' /\ UpsKept(s)
    BY <2>1, CallFacts, UpSame
  <2> QED
    BY <1>2, <2>1, <2>2, <2>3, FreshLocal, FilesStep
<1>10. CASE c.op = "start_upload" /\ ~Malformed(c)
  <2>1. /\ Goto(s, "su_insert") /\ f' = [f EXCEPT ![s] = [fr EXCEPT !.out = "none"]]
        /\ UNCHANGED uploadVars
    BY <1>10 DEF Begin, fr, content
  <2>2. LabelOK("su_insert", c.op) /\ c.path # << >>
    BY <1>10 DEF LabelOK, Malformed
  <2> QED
    BY <1>8, <2>1, <2>2
<1>11. CASE c.op = "finish_upload" /\ Malformed(c)
  <2>1. /\ Goto(s, "ab_delete") /\ f' = [f EXCEPT ![s] = [fr EXCEPT !.out = "error"]]
        /\ UNCHANGED uploadVars
    BY <1>11 DEF Begin, fr, content
  <2>2. LabelOK("ab_delete", c.op)
    BY <1>11 DEF LabelOK, UpOps
  <2> QED
    BY <1>8, <2>1, <2>2
<1>12. CASE c.op = "finish_upload" /\ ~Malformed(c)
  <2>1. /\ Goto(s, "fin_upload") /\ f' = [f EXCEPT ![s] = [fr EXCEPT !.out = "none"]]
        /\ UNCHANGED uploadVars
    BY <1>12 DEF Begin, fr, content
  <2>2. LabelOK("fin_upload", c.op)
    BY <1>12 DEF LabelOK
  <2> QED
    BY <1>8, <2>1, <2>2
<1>13. CASE c.op = "upload_part"
  <2>1. /\ Goto(s, "up_lock") /\ f' = [f EXCEPT ![s] = [fr EXCEPT !.out = "none"]]
        /\ UNCHANGED uploadVars
    BY <1>13 DEF Begin, fr, content
  <2>2. LabelOK("up_lock", c.op)
    BY <1>13 DEF LabelOK
  <2> QED
    BY <1>8, <2>1, <2>2
<1>14. CASE c.op = "abort_upload"
  <2>1. /\ Goto(s, "ab_delete") /\ f' = [f EXCEPT ![s] = [fr EXCEPT !.out = "none"]]
        /\ UNCHANGED uploadVars
    BY <1>14 DEF Begin, fr, content
  <2>2. LabelOK("ab_delete", c.op)
    BY <1>14 DEF LabelOK, UpOps
  <2> QED
    BY <1>8, <2>1, <2>2
<1>15. CASE c.op = "cleanup"
  <2>1. /\ Goto(s, "cl_scan") /\ f' = [f EXCEPT ![s] = [fr EXCEPT !.out = "none"]]
        /\ UNCHANGED uploadVars
    BY <1>15 DEF Begin, fr, content
  <2>2. LabelOK("cl_scan", c.op)
    BY <1>15 DEF LabelOK
  <2> QED
    BY <1>8, <2>1, <2>2
<1> QED
  BY <1>3, <1>7, <1>9, <1>10, <1>11, <1>12, <1>13, <1>14, <1>15 DEF Ops

LEMMA CommitStep ==
    ASSUME FilesInv, NEW s \in Sess, Commit(s)
    PROVE  FilesInv'
<1>1. StepOf(s) /\ PcLocal(s)' /\ PcHolds(s)'
  BY CallFacts, FreshLocal DEF Commit
<1>2. RowsOK' /\ RowsKept(s) /\ UpsOK' /\ UpsKept(s)
  BY CallFacts, RowsEnd, UpsEnd DEF Commit
<1>3. CountsOK'
  BY CallFacts DEF Commit, Stay, CountsOK
<1> QED
  BY <1>1, <1>2, <1>3, FilesStep

\* The next statement with new local variables of the same call.
LEMMA GotoLocal ==
    ASSUME FilesInv, NEW s \in Sess, pc[s] \notin {"idle", "commit"},
           NEW label \in Labels, Goto(s, label), label \notin {"walk", "su_insert"},
           LabelOK(label, f[s].call.op),
           NEW fr \in Frame, f' = [f EXCEPT ![s] = fr],
           fr.call = f[s].call, fr.content = f[s].content, fr.goal = f[s].goal,
           label \in {"write", "meta", "publish", "fk"} => fr.row \in Node,
           f[s].call.op = "write_file_atomic" => f[s].call.path # << >>,
           label = "fk" => fr.made
    PROVE  StepOf(s) /\ PcLocal(s)' /\ f'[s] = fr /\ pc'[s] = label
<1>1. StepOf(s)
  BY DEF StepOf, FilesInv, LocalsTyped, Goto
<1>2. pc'[s] = label /\ f'[s] = fr
  BY DEF FilesInv, LocalsTyped, Goto
<1>3. PcLocal(s)'
  BY <1>2, CallFacts DEF PcLocal, LabelOK
<1> QED
  BY <1>1, <1>2, <1>3

\* What insert, fk and again know of the entry they create.
LEMMA Making ==
    ASSUME FilesInv, NEW s \in Sess, pc[s] \in {"insert", "fk", "again"}
    PROVE  /\ f[s].call.op \in MakeOps /\ Path(s) \in Seq(Name) /\ Base(Path(s)) \in Name
           /\ f[s].call.op = "write_file_atomic" => f[s].call.path # << >>
           /\ Finishing(s) => /\ f[s].call.up \in Upload /\ uowner[f[s].call.up] = s
                              /\ unew[f[s].call.up].st = "live"
<1>1. /\ f[s].call.op \in MakeOps
      /\ f[s].call.op = "write_file_atomic" => f[s].call.path # << >>
  BY CallFacts DEF PcLocal, LabelOK
<1>2. CASE Finishing(s)
  <2>1. /\ f[s].call.up \in Upload /\ uowner[f[s].call.up] = s
        /\ unew[f[s].call.up].st = "live" /\ Path(s) \in Seq(Name) /\ Path(s) # << >>
    BY <1>2, HoldsUpload DEF Holding
  <2> QED
    BY <1>1, <2>1, PathParts
<1>3. CASE ~Finishing(s)
  <2>1. Path(s) = f[s].call.path /\ f[s].call.path # << >>
    BY <1>1, <1>3 DEF Path, Finishing, MakeOps
  <2> QED
    BY <1>1, <1>3, <2>1, CallFacts, PathParts
<1> QED
  BY <1>2, <1>3

LEMMA FileRowOK ==
    ASSUME NEW p \in Node, NEW nm \in Name
    PROVE  FileRow(p, nm) \in Row /\ Consistent(FileRow(p, nm)) /\ FileRow(p, nm).st = "live"
<1>1. << >> \in Content /\ Len(<< >>) = 0
  BY EmptySeq DEF Content
<1> QED
  BY <1>1 DEF FileRow, Row, Consistent

LEMMA InsertStep ==
    ASSUME FilesInv, NEW s \in Sess, Insert(s)
    PROVE  FilesInv'
<1> DEFINE p == f[s].cur
           nm == Base(Path(s))
<1>1. pc[s] = "insert" /\ CountsOK'
  BY CallFacts DEF Insert, At, Stay, CountsOK
<1>2. CASE UniqueConflict(s, p, nm) /\ Exclusive(s)
  <2>1. Refuse(s) /\ UNCHANGED rowVars
    BY <1>2 DEF Insert
  <2> QED
    BY <1>1, <2>1, CallFacts, RowSame, RefuseLocal, FilesStep DEF Holding
<1>3. CASE UniqueConflict(s, p, nm) /\ ~Exclusive(s)
  <2>1. Goto(s, "again") /\ UNCHANGED <<rowVars, uploadVars, f>>
    BY <1>3 DEF Insert
  <2>2. f[s] \in Frame /\ f' = [f EXCEPT ![s] = f[s]] /\ LabelOK("again", f[s].call.op)
    BY <1>1, <2>1, CallFacts, Making DEF LocalsTyped, LabelOK
  <2>3. StepOf(s) /\ PcLocal(s)' /\ f'[s] = f[s] /\ pc'[s] = "again"
    BY <1>1, <2>1, <2>2, Making, GotoLocal DEF Labels
  <2>4. PcHolds(s)'
    BY <1>1, <2>1, <2>3, CallFacts DEF PcHolds, Holding, uploadVars, rowVars
  <2> QED
    BY <1>1, <2>1, <2>3, <2>4, CallFacts, RowSame, UpSame, FilesStep
<1>4. CASE ~UniqueConflict(s, p, nm)
  <2>1. /\ FreeIds # {} /\ InsertRow(s, FreshId, FileRow(p, nm))
        /\ f' = [f EXCEPT ![s].row = FreshId, ![s].made = TRUE]
        /\ Goto(s, "fk") /\ UNCHANGED <<db, shares, uploadVars>>
    BY <1>4 DEF Insert
  <2>2. PICK n \in Node : n = FreshId /\ owner[n] = None
    BY <2>1, FreshIdFree
  <2> DEFINE fr == [f[s] EXCEPT !.row = n, !.made = TRUE]
  <2>3. f' = [f EXCEPT ![s] = fr]
    BY <2>1, <2>2, CallFacts DEF LocalsTyped, Frame
  <2>4. /\ fr \in Frame /\ fr.call = f[s].call /\ fr.content = f[s].content
        /\ fr.goal = f[s].goal /\ fr.row = n /\ fr.made
    BY CallFacts DEF Frame
  <2> HIDE DEF fr
  <2>5. LabelOK("fk", f[s].call.op)
    BY <1>1, Making DEF LabelOK
  <2>6. StepOf(s) /\ PcLocal(s)' /\ f'[s] = fr /\ pc'[s] = "fk"
    <3>1. f[s].call.op = "write_file_atomic" => f[s].call.path # << >>
      BY <1>1, Making
    <3>2. pc[s] \notin {"idle", "commit"} /\ fr.row \in Node /\ "fk" \in Labels /\ Goto(s, "fk")
      BY <1>1, <2>1, <2>4 DEF Labels
    <3> QED
      BY <2>3, <2>4, <2>5, <3>1, <3>2, GotoLocal
  <2>7. PICK v \in Row : v = FileRow(p, nm) /\ Consistent(v) /\ v.st = "live"
    BY <1>1, CallFacts, Making, FileRowOK
  <2>8. new' = [new EXCEPT ![n] = v] /\ owner' = [owner EXCEPT ![n] = s]
    BY <2>1, <2>2, <2>7 DEF InsertRow
  <2>9. RowsOK' /\ RowsKept(s) /\ owner'[n] = s /\ new'[n] = v
    <3>1. RowsOK /\ owner[n] \in {s, None} /\ UNCHANGED <<db, shares>>
      BY <2>1, <2>2, CallFacts
    <3> QED
      BY <2>7, <2>8, <3>1, RowWrite
  <2>10. PcHolds(s)'
    <3>1. uowner' = uowner /\ unew' = unew
      BY <2>1 DEF uploadVars
    <3>2. f'[s].call.op = "finish_upload" => /\ uowner'[f'[s].call.up] = s
                                             /\ unew'[f'[s].call.up].st = "live"
      BY <1>1, <2>4, <2>6, <3>1, Making DEF Finishing
    <3>3. owner'[f'[s].row] = s /\ new'[f'[s].row].st = "live"
      BY <2>4, <2>6, <2>7, <2>9
    <3> QED
      BY <2>6, <3>2, <3>3 DEF PcHolds
  <2> QED
    BY <1>1, <2>1, <2>6, <2>9, <2>10, CallFacts, UpSame, FilesStep
<1> QED
  BY <1>2, <1>3, <1>4

LEMMA FkCheckStep ==
    ASSUME FilesInv, NEW s \in Sess, FkCheck(s)
    PROVE  FilesInv'
<1>1. /\ pc[s] = "fk" /\ CountsOK' /\ f[s].made /\ f[s].row \in Node
      /\ owner[f[s].row] = s /\ new[f[s].row].st = "live"
  BY CallFacts DEF FkCheck, At, Stay, CountsOK, PcLocal, PcHolds
<1>2. CASE ~Live(s, f[s].cur)
  BY <1>1, <1>2, RaiseStep DEF FkCheck
<1>3. CASE Live(s, f[s].cur)
  <2>1. /\ Share(s, f[s].cur) /\ Goto(s, Publishing(s))
        /\ UNCHANGED <<db, new, owner, uploadVars, f>>
    BY <1>3 DEF FkCheck
  <2>2. f[s] \in Frame /\ f' = [f EXCEPT ![s] = f[s]]
    BY <2>1, CallFacts DEF LocalsTyped
  <2>3. PICK label \in Labels : /\ label = Publishing(s) /\ label \in {"write", "publish"}
                             /\ LabelOK(label, f[s].call.op)
    BY <1>1, Making DEF Publishing, Finishing, LabelOK, MakeOps, Labels
  <2>4. StepOf(s) /\ PcLocal(s)' /\ f'[s] = f[s] /\ pc'[s] = label
    <3>1. Goto(s, label) /\ label \in Labels
      BY <2>1, <2>3 DEF Goto, Labels
    <3>2. /\ pc[s] \notin {"idle", "commit"} /\ label \notin {"walk", "su_insert", "fk"}
          /\ f[s].row \in Node
          /\ f[s].call.op = "write_file_atomic" => f[s].call.path # << >>
      BY <1>1, <2>3, Making
    <3> QED
      BY <2>2, <2>3, <3>1, <3>2, GotoLocal
  <2>5. PcHolds(s)'
    <3>1. uowner' = uowner /\ unew' = unew
      BY <2>1 DEF uploadVars
    <3> QED
      BY <1>1, <2>1, <2>3, <2>4, <3>1, Making DEF PcHolds, Finishing
  <2>6. RowsOK' /\ RowsKept(s)
    BY <2>1, CallFacts, RowShare
  <2> QED
    BY <1>1, <2>1, <2>4, <2>5, <2>6, CallFacts, UpSame, FilesStep
<1> QED
  BY <1>2, <1>3

LEMMA AgainStep ==
    ASSUME FilesInv, NEW s \in Sess, Again(s)
    PROVE  FilesInv'
<1>1. pc[s] = "again" /\ CountsOK' /\ UNCHANGED <<db, new, shares>>
  BY CallFacts DEF Again, At, Stay, CountsOK
<1> DEFINE c == Child(s, f[s].cur, Base(Path(s)))
<1>2. CASE c = None
  <2>1. Refuse(s) /\ UNCHANGED owner
    BY <1>2 DEF Again
  <2> QED
    BY <1>1, <2>1, CallFacts, RowSame, RefuseLocal, FilesStep DEF Holding, rowVars
<1>3. CASE c # None
  <2>1. PICK n \in Node : n = c
    BY <1>3, ChildType
  <2>2. LockWaits(s, n) = {} /\ Lock(s, n)
    BY <1>3, <2>1 DEF Again
  <2>3. /\ owner[n] \in {s, None} /\ Seen(s, n) = new[n] /\ Seen(s, n) \in Row
        /\ Live(s, n) => Consistent(Seen(s, n))
    BY <2>2, CallFacts, RowSeen
  <2>4. RowsOK' /\ RowsKept(s) /\ owner'[n] = s /\ new'[n] = new[n]
    BY <1>1, <2>2, <2>3, CallFacts, RowLockOnly
  <2>5. Live(s, n)
    BY <1>3, <2>1 DEF Child, ChildIds, Holds, Live
  <2>6. CASE Seen(s, n).dir
    <3>1. Refuse(s)
      BY <1>3, <2>1, <2>6 DEF Again
    <3> QED
      BY <1>1, <2>4, <3>1, RefuseLocal, FilesStep DEF Holding
  <2>7. CASE ~Seen(s, n).dir
    <3>1. /\ f' = [f EXCEPT ![s].row = n, ![s].size = Seen(s, n).size]
          /\ Goto(s, Publishing(s)) /\ UNCHANGED uploadVars
      BY <1>3, <2>1, <2>7 DEF Again
    <3> DEFINE fr == [f[s] EXCEPT !.row = n, !.size = new[n].size]
    <3>2. f' = [f EXCEPT ![s] = fr]
      BY <2>3, <3>1, CallFacts DEF LocalsTyped, Frame
    <3>3. new[n].size \in Nat
      BY <2>3 DEF Row
    <3>4. /\ fr \in Frame /\ fr.call = f[s].call /\ fr.content = f[s].content
          /\ fr.goal = f[s].goal /\ fr.row = n /\ fr.size = new[n].size
      BY <3>3, CallFacts DEF Frame
    <3> HIDE DEF fr
    <3>5. PICK label \in Labels : /\ label = Publishing(s) /\ label \in {"write", "publish"}
                               /\ LabelOK(label, f[s].call.op)
      BY <1>1, Making DEF Publishing, Finishing, LabelOK, MakeOps, Labels
    <3>6. StepOf(s) /\ PcLocal(s)' /\ f'[s] = fr /\ pc'[s] = label
      <4>1. Goto(s, label)
        BY <3>1, <3>5 DEF Goto
      <4>2. /\ pc[s] \notin {"idle", "commit"} /\ label \notin {"walk", "su_insert", "fk"}
            /\ fr.row \in Node
            /\ f[s].call.op = "write_file_atomic" => f[s].call.path # << >>
        BY <1>1, <3>4, <3>5, Making
      <4>3. label \in Labels
        BY <3>5
      <4>4. /\ fr.goal = f[s].goal /\ fr \in Frame /\ fr.call = f[s].call
            /\ fr.content = f[s].content /\ LabelOK(label, f[s].call.op)
        BY <3>4, <3>5
      <4> QED
        BY ONLY FilesInv, <3>2, <4>1, <4>2, <4>3, <4>4, GotoLocal
    <3>7. PcHolds(s)'
      <4>1. uowner' = uowner /\ unew' = unew
        BY <3>1 DEF uploadVars
      <4>2. f'[s].call.op = "finish_upload" => /\ uowner'[f'[s].call.up] = s
                                               /\ unew'[f'[s].call.up].st = "live"
        BY <1>1, <3>4, <3>6, <4>1, Making DEF Finishing
      <4>3. owner'[f'[s].row] = s /\ new'[f'[s].row].st = "live"
        BY <2>3, <2>4, <2>5, <3>4, <3>6 DEF Live
      <4>4. f'[s].size <= Len(new'[f'[s].row].data)
        BY <2>3, <2>4, <2>5, <3>3, <3>4, <3>6 DEF Consistent
      <4> QED
        BY <3>5, <3>6, <4>2, <4>3, <4>4 DEF PcHolds
    <3> QED
      BY <1>1, <2>4, <3>1, <3>6, <3>7, CallFacts, UpSame, FilesStep
  <2> QED
    BY <2>6, <2>7
<1> QED
  BY <1>2, <1>3

LEMMA WriteStep ==
    ASSUME FilesInv, NEW s \in Sess, Write(s)
    PROVE  FilesInv'
<1>1. /\ pc[s] = "write" /\ CountsOK' /\ f[s].row \in Node /\ LockWaits(s, f[s].row) = {}
  BY CallFacts DEF Write, At, Stay, CountsOK, PcLocal
<1>2. owner[f[s].row] \in {s, None}
  BY <1>1, CallFacts, RowSeen
<1>3. CASE Live(s, f[s].row)
  <2>1. /\ Put(s, f[s].row, f[s].content) /\ Return(s, TRUE)
        /\ UNCHANGED <<db, shares, uploadVars>>
    BY <1>3 DEF Write
  <2>2. RowsOK' /\ RowsKept(s)
    BY <1>1, <1>2, <2>1, CallFacts, RowPut
  <2> QED
    BY <1>1, <2>1, <2>2, CallFacts, ReturnLocal, UpSame, FilesStep
<1>4. CASE ~Live(s, f[s].row) /\ f[s].content = << >>
  <2>1. Return(s, TRUE) /\ UNCHANGED <<rowVars, uploadVars>>
    BY <1>4 DEF Write
  <2> QED
    BY <1>1, <2>1, CallFacts, ReturnLocal, RowSame, UpSame, FilesStep
<1>5. CASE ~Live(s, f[s].row) /\ f[s].content # << >>
  <2>1. Raise(s)
    BY <1>5 DEF Write
  <2> QED
    BY <1>1, <2>1, RaiseStep
<1> QED
  BY <1>3, <1>4, <1>5

LEMMA ReadStep ==
    ASSUME FilesInv, NEW s \in Sess, Read(s)
    PROVE  FilesInv'
<1>1. pc[s] = "read" /\ CountsOK' /\ UNCHANGED <<rowVars, uploadVars>> /\ Goto(s, "idle")
  BY CallFacts DEF Read, At, Stay, CountsOK
<1> DEFINE v == Seen(s, f[s].cur)
<1>2. v \in Row /\ v.data \in Content /\ v.size \in Nat /\ (v.st = "live" => Consistent(v))
  BY CallFacts, RowSeen DEF Live, Row
<1>3. RowsOK' /\ RowsKept(s) /\ UpsOK' /\ UpsKept(s)
  BY <1>1, CallFacts, RowSame, UpSame
<1>4. CASE v.st # "live" \/ v.dir
  <2>1. f' = [f EXCEPT ![s] = Fresh(s, NoCall, << >>, "false")]
    BY <1>4 DEF Read
  <2> QED
    BY <1>1, <1>3, <2>1, FreshLocal, FilesStep
<1>5. CASE ~(v.st # "live" \/ v.dir)
  <2> DEFINE fr0 == Fresh(s, NoCall, << >>, "true")
             fr == [fr0 EXCEPT !.got = SubSeq(v.data, 1, v.size)]
  <2>1. f' = [f EXCEPT ![s] = fr]
    BY <1>5 DEF Read
  <2>2. SubSeq(v.data, 1, v.size) \in Content
    <3>1. v.size <= Len(v.data)
      BY <1>2, <1>5 DEF Consistent
    <3> QED
      BY <1>2, <3>1, SubSeqProperties DEF Content
  <2>3. fr0 \in Frame /\ fr0.call = NoCall /\ fr0.goal = "node"
    BY NoCallOK, FreshFrame, CallFacts
  <2> HIDE DEF fr0, v
  <2>4. fr \in Frame /\ fr.call = NoCall /\ fr.goal = "node"
    BY <2>2, <2>3 DEF Frame
  <2> HIDE DEF fr
  <2> QED
    BY <1>1, <1>3, <2>1, <2>4, IdleLocal, FilesStep
<1> QED
  BY <1>4, <1>5

LEMMA SetMetadataStep ==
    ASSUME FilesInv, NEW s \in Sess, SetMetadata(s)
    PROVE  FilesInv'
<1>1. /\ pc[s] = "meta" /\ CountsOK' /\ f[s].row \in Node /\ LockWaits(s, f[s].row) = {}
      /\ f[s].call.op = "set_metadata" /\ UNCHANGED <<db, shares, uploadVars>>
  BY CallFacts DEF SetMetadata, At, Stay, CountsOK, PcLocal, LabelOK
<1>2. f[s].call.key \in MetaKey /\ f[s].content[1] \in Nat
  <2>1. f[s].call.key \in MetaKey /\ f[s].content # << >>
    BY <1>1, CallFacts DEF PcLocal, ArgsOK
  <2>2. Head(f[s].content) \in Nat
    BY <2>1, CallFacts, HeadTailProperties DEF Content
  <2> QED
    BY <2>1, <2>2
<1>3. UpsOK' /\ UpsKept(s)
  BY <1>1, CallFacts, UpSame
<1>4. CASE Live(s, f[s].row)
  <2> DEFINE n == f[s].row
             v == [new[n] EXCEPT !.meta[f[s].call.key] = f[s].content[1]]
  <2>1. /\ new' = [new EXCEPT ![n].meta[f[s].call.key] = f[s].content[1]]
        /\ Lock(s, n) /\ Return(s, TRUE)
    BY <1>4 DEF SetMetadata
  <2>2. /\ new[n] \in Row /\ owner[n] \in {s, None}
        /\ new[n].st = "live" => Consistent(new[n])
    BY <1>1, CallFacts, RowSeen DEF RowsOK, RowsTyped
  <2>3. /\ v \in Row /\ v.st = new[n].st /\ v.size = new[n].size /\ v.sha = new[n].sha
        /\ v.data = new[n].data
    BY <1>2, <2>2 DEF Row
  <2>4. new' = [new EXCEPT ![n] = v] /\ owner' = [owner EXCEPT ![n] = s]
    BY <2>1 DEF Lock
  <2>5. v.st = "live" => Consistent(v)
    BY <2>2, <2>3 DEF Consistent
  <2> HIDE DEF v
  <2>6. RowsOK' /\ RowsKept(s)
    BY <1>1, <2>2, <2>3, <2>4, <2>5, CallFacts, RowWrite
  <2> QED
    BY <1>1, <1>3, <2>1, <2>6, ReturnLocal, FilesStep
<1>5. CASE ~Live(s, f[s].row)
  <2>1. Return(s, FALSE) /\ UNCHANGED <<new, owner>>
    BY <1>5 DEF SetMetadata
  <2> QED
    BY <1>1, <1>3, <2>1, CallFacts, ReturnLocal, RowSame, FilesStep DEF rowVars
<1> QED
  BY <1>4, <1>5

LEMMA StartUploadStep ==
    ASSUME FilesInv, NEW s \in Sess, StartUpload(s)
    PROVE  FilesInv'
<1>1. /\ pc[s] = "su_insert" /\ CountsOK' /\ UNCHANGED <<db, new, owner, udb>>
      /\ f[s].call.path # << >> /\ U!FreeIds # {} /\ Return(s, TRUE)
      /\ Share(s, RootOf[s])
  BY CallFacts DEF StartUpload, At, Stay, CountsOK, PcLocal
<1>2. PICK u \in Upload : u = U!FreshId /\ uowner[u] = None
  BY <1>1, FreshUploadFree
<1> DEFINE v == [NoUpload EXCEPT !.st = "live", !.root = RootOf[s], !.path = f[s].call.path,
                                 !.excl = f[s].call.excl, !.app = f[s].call.app,
                                 !.created_at = f[s].now]
<1>3. /\ RootOf[s] \in Node /\ f[s].call.excl \in BOOLEAN /\ f[s].call.app \in BOOLEAN
      /\ f[s].call.path \in Seq(Name) /\ f[s].now \in Nat
  BY FilesAssumption, CallFacts DEF Call
<1>4. << >> \in Content /\ << >> \in Seq(Name) /\ Len(<< >>) = 0
  BY EmptySeq DEF Content
<1>5. v \in UploadRow /\ v.size = 0 /\ v.data = << >> /\ v.path = f[s].call.path
  BY <1>3, <1>4 DEF NoUpload, UploadRow
<1>6. UpRowOK(v)
  BY <1>1, <1>4, <1>5 DEF UpRowOK
<1>7. unew' = [unew EXCEPT ![u] = v] /\ uowner' = [uowner EXCEPT ![u] = s] /\ udb' = udb
  BY <1>1, <1>2 DEF StartUpload, U!InsertRow
<1> HIDE DEF v
<1>8. UpsOK' /\ UpsKept(s)
  BY <1>2, <1>5, <1>6, <1>7, CallFacts, UpWrite
<1>9. RowsOK' /\ RowsKept(s)
  BY <1>1, <1>3, CallFacts, RowShare
<1> QED
  BY <1>1, <1>8, <1>9, ReturnLocal, FilesStep

\* The upload calls name an upload, and see its latest version once it is free.
LEMMA UploadFacts ==
    ASSUME FilesInv, NEW s \in Sess, pc[s] \in {"up_lock", "fin_upload", "ab_delete"},
           UploadWaits(s, f[s].call.up) = {}
    PROVE  /\ f[s].call.up \in Upload
           /\ unew[f[s].call.up] \in UploadRow /\ UpRowOK(unew[f[s].call.up])
           /\ Own(s, f[s].call.up) => /\ uowner[f[s].call.up] \in {s, None}
                                      /\ unew[f[s].call.up].st = "live"
<1>1. f[s].call.op \in UpOps
  BY CallFacts DEF PcLocal, LabelOK, UpOps
<1>2. f[s].call.up \in Upload
  BY <1>1, CallFacts DEF PcLocal, ArgsOK
<1>3. unew[f[s].call.up] \in UploadRow /\ UpRowOK(unew[f[s].call.up])
  BY <1>2, CallFacts DEF UpsOK, UpsTyped
<1>4. ASSUME Own(s, f[s].call.up)
      PROVE  uowner[f[s].call.up] \in {s, None} /\ unew[f[s].call.up].st = "live"
  <2>1. U!LockWaits(s, f[s].call.up) = {}
    BY <1>4 DEF UploadWaits
  <2> QED
    BY <1>2, <1>4, <2>1, CallFacts, UpSeen DEF Own, U!Live
<1> QED
  BY <1>2, <1>3, <1>4

LEMMA UploadPartStep ==
    ASSUME FilesInv, NEW s \in Sess, UploadPart(s)
    PROVE  FilesInv'
<1> DEFINE u == f[s].call.up
<1>1. /\ pc[s] = "up_lock" /\ CountsOK' /\ UNCHANGED <<rowVars, udb>>
      /\ UploadWaits(s, u) = {}
  BY CallFacts DEF UploadPart, At, Stay, CountsOK
<1>2. /\ u \in Upload /\ unew[u] \in UploadRow /\ UpRowOK(unew[u])
      /\ Own(s, u) => uowner[u] \in {s, None} /\ unew[u].st = "live"
  BY <1>1, UploadFacts
<1>3. CASE Own(s, u)
  <2>1. /\ U!Lock(s, u) /\ Return(s, TRUE)
        /\ unew' = [unew EXCEPT ![u].data = @ \o f[s].content,
                                ![u].size = @ + Len(f[s].content)]
    BY <1>3 DEF UploadPart
  <2> DEFINE v == [unew[u] EXCEPT !.data = unew[u].data \o f[s].content,
                                  !.size = unew[u].size + Len(f[s].content)]
  <2>2. unew' = [unew EXCEPT ![u] = v] /\ uowner' = [uowner EXCEPT ![u] = s]
    BY <1>2, <2>1, CallFacts DEF U!Lock, UpsOK, UpsTyped, UploadRow
  <2>3. /\ unew[u].data \in Seq(Nat) /\ f[s].content \in Seq(Nat) /\ unew[u].size \in Nat
        /\ unew[u].size = Len(unew[u].data)
    BY <1>2, CallFacts DEF UploadRow, Content, UpRowOK
  <2>4. /\ unew[u].data \o f[s].content \in Seq(Nat)
        /\ Len(unew[u].data \o f[s].content) = Len(unew[u].data) + Len(f[s].content)
        /\ Len(f[s].content) \in Nat
    BY <2>3, ConcatProperties, LenProperties
  <2>5. /\ v \in UploadRow /\ v.size = unew[u].size + Len(f[s].content)
        /\ v.data = unew[u].data \o f[s].content /\ v.st = unew[u].st /\ v.path = unew[u].path
    <3>1. PICK data \in Content, size \in Nat :
                 /\ data = unew[u].data \o f[s].content
                 /\ size = unew[u].size + Len(f[s].content)
      <4>1. unew[u].data \o f[s].content \in Content
        BY <2>4 DEF Content
      <4>2. unew[u].size + Len(f[s].content) \in Nat
        <5>1. PICK k \in Nat : k = Len(f[s].content)
          BY <2>4, Zenon
        <5>2. PICK m \in Nat : m = unew[u].size
          BY <2>3, Zenon
        <5> QED
          BY <5>1, <5>2
      <4> QED
        BY <4>1, <4>2, Zenon
    <3>2. v = [unew[u] EXCEPT !.data = data, !.size = size]
      BY <3>1
    <3> HIDE DEF v
    <3> QED
      BY <1>2, <3>1, <3>2 DEF UploadRow
  <2>6. UpRowOK(v)
    BY <1>2, <2>3, <2>4, <2>5 DEF UpRowOK
  <2> HIDE DEF v
  <2>7. UpsOK' /\ UpsKept(s)
    BY <1>1, <1>2, <1>3, <2>2, <2>5, <2>6, CallFacts, UpWrite
  <2> QED
    BY <1>1, <2>1, <2>7, CallFacts, ReturnLocal, RowSame, FilesStep
<1>4. CASE ~Own(s, u)
  <2>1. Return(s, FALSE) /\ UNCHANGED <<unew, uowner>>
    BY <1>4 DEF UploadPart
  <2> QED
    BY <1>1, <2>1, CallFacts, ReturnLocal, RowSame, UpSame, FilesStep DEF uploadVars
<1> QED
  BY <1>3, <1>4

LEMMA FinUploadStep ==
    ASSUME FilesInv, NEW s \in Sess, FinUpload(s)
    PROVE  FilesInv'
<1> DEFINE u == f[s].call.up
<1>1. /\ pc[s] = "fin_upload" /\ CountsOK' /\ UNCHANGED rowVars
      /\ UploadWaits(s, u) = {} /\ f[s].call.op = "finish_upload"
  BY CallFacts DEF FinUpload, At, Stay, CountsOK, PcLocal, LabelOK
<1>2. /\ u \in Upload /\ unew[u] \in UploadRow /\ UpRowOK(unew[u])
      /\ Own(s, u) => uowner[u] \in {s, None} /\ unew[u].st = "live"
  BY <1>1, UploadFacts
<1>3. RowsOK' /\ RowsKept(s)
  BY <1>1, CallFacts, RowSame
<1>4. CASE ~Own(s, u)
  <2>1. Return(s, FALSE) /\ UNCHANGED uploadVars
    BY <1>4 DEF FinUpload
  <2> QED
    BY <1>1, <1>3, <2>1, CallFacts, ReturnLocal, UpSame, FilesStep
<1>5. CASE Own(s, u) /\ f[s].call.size = "differ"
  <2>1. /\ unew' = [unew EXCEPT ![u].st = "dead"]
        /\ U!Lock(s, u) /\ Return(s, FALSE) /\ UNCHANGED udb
    BY <1>5 DEF FinUpload
  <2>2. UpsOK' /\ UpsKept(s)
    BY <1>2, <1>5, <2>1, CallFacts, UpKill DEF U!Lock
  <2> QED
    BY <1>1, <1>3, <2>1, <2>2, ReturnLocal, FilesStep
<1>6. CASE Own(s, u) /\ f[s].call.size # "differ"
  <2>1. /\ U!Lock(s, u) /\ Goto(s, "walk") /\ f' = [f EXCEPT ![s].rest = unew[u].path]
        /\ UNCHANGED <<udb, unew>>
    BY <1>6 DEF FinUpload
  <2> DEFINE fr == [f[s] EXCEPT !.rest = unew[u].path]
  <2>2. unew[u].path \in Seq(Name) /\ unew[u].path # << >> /\ unew[u].st = "live"
    BY <1>2, <1>6 DEF UploadRow, UpRowOK
  <2>3. /\ fr \in Frame /\ fr.call = f[s].call /\ fr.content = f[s].content
        /\ fr.goal = f[s].goal /\ fr.rest = unew[u].path
    BY <2>2, CallFacts DEF Frame
  <2>4. f' = [f EXCEPT ![s] = fr]
    BY <2>1
  <2> HIDE DEF fr
  <2>5. StepOf(s)
    BY <2>1, <2>3, <2>4, CallFacts DEF StepOf, LocalsTyped, Goto, Labels
  <2>6. f'[s] = fr /\ pc'[s] = "walk"
    BY <2>1, <2>4, CallFacts DEF LocalsTyped, Goto
  <2>7. PcLocal(s)'
    BY <1>1, <2>2, <2>3, <2>6, CallFacts DEF PcLocal, LabelOK, WalkOps, MakeOps
  <2>8. UpsOK' /\ UpsKept(s) /\ uowner'[u] = s /\ unew'[u] = unew[u]
    BY <1>2, <1>6, <2>1, CallFacts, UpLockOnly
  <2>9. PcHolds(s)'
    BY <1>1, <2>2, <2>3, <2>6, <2>8 DEF PcHolds
  <2> QED
    BY <1>1, <1>3, <2>5, <2>7, <2>8, <2>9, FilesStep
<1> QED
  BY <1>4, <1>5, <1>6

LEMMA FinNodeStep ==
    ASSUME FilesInv, NEW s \in Sess, FinNode(s)
    PROVE  FilesInv'
<1>1. /\ pc[s] = "fin_node" /\ CountsOK' /\ UNCHANGED <<db, new, shares>>
      /\ LockWaits(s, f[s].cur) = {} /\ f[s].call.op = "finish_upload"
  BY CallFacts DEF FinNode, At, Stay, CountsOK, PcLocal, LabelOK
<1>2. PICK n \in Node : n = f[s].cur
  BY CallFacts
<1>3. /\ owner[n] \in {s, None} /\ Seen(s, n) = new[n] /\ new[n] \in Row
      /\ Live(s, n) => new[n].st = "live" /\ Consistent(new[n])
  BY <1>1, <1>2, CallFacts, RowSeen DEF Live
<1>4. CASE ~Live(s, n)
  <2>1. ToParent(s, Path(s)) /\ UNCHANGED owner
    BY <1>2, <1>4 DEF FinNode
  <2> QED
    BY <1>1, <2>1, CallFacts, RowSame, ToParentLocal, FilesStep DEF rowVars, MakeOps
<1>5. CASE Live(s, n)
  <2>1. Lock(s, n)
    BY <1>2, <1>5 DEF FinNode
  <2>2. RowsOK' /\ RowsKept(s) /\ owner'[n] = s /\ new'[n] = new[n]
    BY <1>1, <1>3, <2>1, CallFacts, RowLockOnly
  <2>3. CASE Seen(s, n).dir \/ Exclusive(s)
    <3>1. Refuse(s)
      BY <1>2, <1>5, <2>3 DEF FinNode
    <3> QED
      BY <1>1, <2>2, <3>1, RefuseLocal, FilesStep DEF Holding
  <2>4. CASE ~(Seen(s, n).dir \/ Exclusive(s))
    <3>1. /\ f' = [f EXCEPT ![s].row = n, ![s].size = Seen(s, n).size]
          /\ Goto(s, "publish") /\ UNCHANGED uploadVars
      BY <1>2, <1>5, <2>4 DEF FinNode
    <3> DEFINE fr == [f[s] EXCEPT !.row = n, !.size = new[n].size]
    <3>2. f' = [f EXCEPT ![s] = fr]
      BY <1>3, <3>1, CallFacts DEF LocalsTyped, Frame
    <3>3. new[n].size \in Nat
      BY <1>3 DEF Row
    <3>4. /\ fr \in Frame /\ fr.call = f[s].call /\ fr.content = f[s].content
          /\ fr.goal = f[s].goal /\ fr.row = n /\ fr.size = new[n].size
      BY <3>3, CallFacts DEF Frame
    <3> HIDE DEF fr
    <3>5. LabelOK("publish", f[s].call.op) /\ "publish" \in Labels
      BY <1>1 DEF LabelOK, Labels
    <3>6. StepOf(s) /\ PcLocal(s)' /\ f'[s] = fr /\ pc'[s] = "publish"
      <4>1. /\ pc[s] \notin {"idle", "commit"} /\ Goto(s, "publish")
            /\ f[s].call.op = "write_file_atomic" => f[s].call.path # << >>
        BY <1>1, <3>1
      <4> QED
        BY <3>2, <3>4, <3>5, <4>1, GotoLocal
    <3>7. PcHolds(s)'
      <4>1. uowner' = uowner /\ unew' = unew
        BY <3>1 DEF uploadVars
      <4>2. /\ uowner'[f'[s].call.up] = s /\ unew'[f'[s].call.up].st = "live"
        BY <1>1, <3>4, <3>6, <4>1, CallFacts DEF PcHolds, Holding
      <4>3. /\ owner'[f'[s].row] = s /\ new'[f'[s].row].st = "live"
            /\ f'[s].size <= Len(new'[f'[s].row].data)
        BY <1>3, <1>5, <2>2, <3>3, <3>4, <3>6 DEF Consistent
      <4> QED
        BY <3>6, <4>2, <4>3 DEF PcHolds
    <3> QED
      BY <1>1, <2>2, <3>1, <3>6, <3>7, CallFacts, UpSame, FilesStep
  <2> QED
    BY <2>3, <2>4
<1> QED
  BY <1>4, <1>5

\* What a finish_upload stores: the staged contents, or the old ones and them.
LEMMA PrefixSeq ==
    ASSUME NEW S, NEW d \in Seq(S), NEW k \in Nat, k <= Len(d)
    PROVE  SubSeq(d, 1, k) \in Seq(S)
<1>1. \A i \in 1 .. k : d[i] \in S
  BY ElementOfSeq
<1> QED
  BY <1>1, SubSeqProperties

LEMMA PublishedData ==
    ASSUME FilesInv, NEW s \in Sess, pc[s] = "publish"
    PROVE  /\ f[s].row \in Node /\ owner[f[s].row] = s /\ Finishing(s)
           /\ Staged(s).data \in Content
           /\ ~f[s].made => Appended(s) \in Content
<1>1. /\ f[s].row \in Node /\ owner[f[s].row] = s /\ Finishing(s)
      /\ ~f[s].made => f[s].size <= Len(new[f[s].row].data)
  BY CallFacts DEF PcLocal, PcHolds, LabelOK, Finishing
<1>2. Staged(s).data \in Content
  BY <1>1, HoldsUpload DEF Holding, Staged, UploadRow
<1>3. new[f[s].row] \in Row /\ new[f[s].row].data \in Content
  BY <1>1, CallFacts DEF RowsOK, RowsTyped, Row
<1>4. Seen(s, f[s].row) = new[f[s].row]
  BY <1>1 DEF Seen
<1>5. ASSUME ~f[s].made PROVE Appended(s) \in Content
  <2>1. SubSeq(new[f[s].row].data, 1, f[s].size) \in Seq(Nat)
    <3>1. PICK d \in Seq(Nat), k \in Nat :
              d = new[f[s].row].data /\ k = f[s].size /\ k <= Len(d)
      BY <1>1, <1>3, <1>5, CallFacts DEF Content
    <3>2. SubSeq(d, 1, k) \in Seq(Nat)
      BY <3>1, PrefixSeq
    <3> QED
      BY <3>1, <3>2
  <2> QED
    BY <1>2, <1>4, <2>1, ConcatProperties DEF Appended, Content
<1> QED
  BY <1>1, <1>2, <1>5

LEMMA PublishStep ==
    ASSUME FilesInv, NEW s \in Sess, Publish(s)
    PROVE  FilesInv'
<1>1. pc[s] = "publish" /\ CountsOK'
  BY CallFacts DEF Publish, At, Stay, CountsOK
<1> DEFINE append == Staged(s).app /\ ~f[s].made
           data == IF append THEN Appended(s) ELSE Staged(s).data
<1>2. CASE ~append /\ f[s].call.sha = "differ"
  <2>1. Refuse(s) /\ UNCHANGED rowVars
    BY <1>2 DEF Publish
  <2> QED
    BY <1>1, <2>1, CallFacts, RowSame, RefuseLocal, FilesStep DEF Holding
<1>3. CASE ~(~append /\ f[s].call.sha = "differ")
  <2>1. Put(s, f[s].row, data) /\ Return(s, TRUE) /\ Discard(s) /\ UNCHANGED <<db, shares>>
    BY <1>3 DEF Publish
  <2>2. data \in Content
    BY <1>1, PublishedData
  <2>3. f[s].row \in Node /\ owner[f[s].row] = s /\ Finishing(s)
    BY <1>1, PublishedData
  <2> HIDE DEF data
  <2>4. RowsOK' /\ RowsKept(s)
    BY <2>1, <2>2, <2>3, CallFacts, RowPut
  <2>5. UpsOK' /\ UpsKept(s)
    BY <1>1, <2>1, <2>3, DiscardUps DEF Holding
  <2> QED
    BY <1>1, <2>1, <2>4, <2>5, ReturnLocal, FilesStep
<1> QED
  BY <1>2, <1>3

LEMMA AbortUploadStep ==
    ASSUME FilesInv, NEW s \in Sess, AbortUpload(s)
    PROVE  FilesInv'
<1> DEFINE u == f[s].call.up
<1>1. /\ pc[s] = "ab_delete" /\ CountsOK' /\ UNCHANGED <<rowVars, udb>>
      /\ UploadWaits(s, u) = {}
  BY CallFacts DEF AbortUpload, At, Stay, CountsOK
<1>2. u \in Upload /\ (Own(s, u) => uowner[u] \in {s, None} /\ unew[u].st = "live")
  BY <1>1, UploadFacts
<1>3. RowsOK' /\ RowsKept(s)
  BY <1>1, CallFacts, RowSame
<1>4. UpsOK' /\ UpsKept(s)
  <2>1. CASE Own(s, u)
    <3>1. unew' = [unew EXCEPT ![u].st = "dead"] /\ U!Lock(s, u)
      BY <2>1 DEF AbortUpload
    <3> QED
      BY <1>1, <1>2, <2>1, <3>1, CallFacts, UpKill DEF U!Lock
  <2>2. CASE ~Own(s, u)
    <3>1. UNCHANGED <<unew, uowner>>
      BY <2>2 DEF AbortUpload
    <3> QED
      BY <1>1, <3>1, CallFacts, UpSame DEF uploadVars
  <2> QED
    BY <2>1, <2>2
<1>5. StepOf(s) /\ PcLocal(s)' /\ PcHolds(s)'
  <2>1. CASE f[s].out = "error"
    <3>1. Goto(s, "commit") /\ UNCHANGED f
      BY <2>1 DEF AbortUpload
    <3>2. StepOf(s) /\ f'[s] = f[s] /\ pc'[s] = "commit"
      BY <3>1, CallFacts DEF StepOf, LocalsTyped, Goto, Labels
    <3> QED
      BY <3>2, CallFacts DEF PcLocal, LabelOK, PcHolds, Holding
  <2>2. CASE f[s].out # "error"
    <3>1. Return(s, Own(s, u))
      BY <2>2 DEF AbortUpload
    <3>2. CASE Own(s, u)
      <4>1. Return(s, TRUE)
        BY <3>1, <3>2 DEF Return
      <4> QED
        BY <1>1, <4>1, ReturnLocal
    <3>3. CASE ~Own(s, u)
      <4>1. Return(s, FALSE)
        BY <3>1, <3>3 DEF Return
      <4> QED
        BY <1>1, <4>1, ReturnLocal
    <3> QED
      BY <3>2, <3>3
  <2> QED
    BY <2>1, <2>2
<1> QED
  BY <1>1, <1>3, <1>4, <1>5, FilesStep

\* Cleanup's two statements change no local variable but its list of rows.
LEMMA TodoLocal ==
    ASSUME FilesInv, NEW s \in Sess, pc[s] \in {"cl_scan", "cl_delete"},
           NEW todo \in SUBSET Upload, f' = [f EXCEPT ![s].todo = todo], Goto(s, "cl_delete")
    PROVE  StepOf(s) /\ PcLocal(s)' /\ PcHolds(s)'
<1> DEFINE fr == [f[s] EXCEPT !.todo = todo]
<1>1. fr \in Frame /\ fr.call = f[s].call /\ fr.content = f[s].content /\ fr.goal = f[s].goal
  BY CallFacts DEF Frame
<1>2. f' = [f EXCEPT ![s] = fr]
  OBVIOUS
<1> HIDE DEF fr
<1>3. StepOf(s) /\ f'[s] = fr /\ pc'[s] = "cl_delete"
  BY <1>1, <1>2, CallFacts DEF StepOf, LocalsTyped, Goto, Labels
<1> QED
  BY <1>1, <1>3, CallFacts DEF PcLocal, LabelOK, PcHolds, Holding

LEMMA CleanupScanStep ==
    ASSUME FilesInv, NEW s \in Sess, CleanupScan(s)
    PROVE  FilesInv'
<1>1. /\ pc[s] = "cl_scan" /\ CountsOK' /\ UNCHANGED <<rowVars, uploadVars>>
      /\ Goto(s, "cl_delete")
  BY CallFacts DEF CleanupScan, At, Stay, CountsOK
<1>2. PICK todo \in SUBSET Upload : f' = [f EXCEPT ![s].todo = todo]
  BY DEF CleanupScan
<1> QED
  BY <1>1, <1>2, CallFacts, TodoLocal, RowSame, UpSame, FilesStep

LEMMA CleanupDeleteStep ==
    ASSUME FilesInv, NEW s \in Sess, CleanupDelete(s)
    PROVE  FilesInv'
<1>1. pc[s] = "cl_delete" /\ CountsOK' /\ UNCHANGED rowVars
  BY CallFacts DEF CleanupDelete, At, Stay, CountsOK
<1>2. RowsOK' /\ RowsKept(s)
  BY <1>1, CallFacts, RowSame
<1>3. CASE f[s].todo = {}
  <2>1. Return(s, TRUE) /\ UNCHANGED uploadVars
    BY <1>3 DEF CleanupDelete
  <2> QED
    BY <1>1, <1>2, <2>1, CallFacts, ReturnLocal, UpSame, FilesStep
<1>4. CASE f[s].todo # {}
  <2>1. PICK u \in f[s].todo :
               /\ U!LockWaits(s, u) = {}
               /\ f' = [f EXCEPT ![s].todo = @ \ {u}]
               /\ IF U!Live(s, u) THEN unew' = [unew EXCEPT ![u].st = "dead"] /\ U!Lock(s, u)
                  ELSE UNCHANGED <<unew, uowner>>
               /\ UNCHANGED <<udb, pc>>
    BY <1>4 DEF CleanupDelete
  <2>2. u \in Upload
    BY <2>1, CallFacts
  <2>3. uowner[u] \in {s, None} /\ U!Seen(s, u) = unew[u]
    BY <2>1, <2>2, CallFacts, UpSeen
  <2>4. UpsOK' /\ UpsKept(s)
    <3>1. CASE U!Live(s, u)
      BY <2>1, <2>2, <2>3, <3>1, CallFacts, UpKill DEF U!Live, U!Lock
    <3>2. CASE ~U!Live(s, u)
      BY <2>1, <3>2, CallFacts, UpSame DEF uploadVars
    <3> QED
      BY <3>1, <3>2
  <2>5. PICK todo \in SUBSET Upload : f' = [f EXCEPT ![s].todo = todo]
    <3>1. f' = [f EXCEPT ![s].todo = f[s].todo \ {u}] /\ f[s].todo \ {u} \in SUBSET Upload
      BY <2>1, CallFacts
    <3> QED
      BY <3>1
  <2>6. Goto(s, "cl_delete")
    BY <1>1, <2>1, CallFacts DEF Goto, LocalsTyped
  <2>7. StepOf(s) /\ PcLocal(s)' /\ PcHolds(s)'
    BY <1>1, <2>5, <2>6, TodoLocal
  <2> QED
    BY <1>1, <1>2, <2>4, <2>7, FilesStep
<1> QED
  BY <1>3, <1>4

LEMMA FailStep ==
    ASSUME FilesInv, NEW s \in Sess, Fail(s) \/ Cancel(s) \/ DeadlockVictim(s)
    PROVE  FilesInv'
<1>1. ASSUME Fault(s) PROVE CountsOK'
  BY <1>1, CallFacts DEF Fault, CountsOK
<1>2. CASE Fail(s)
  BY <1>1, <1>2, RaiseStep DEF Fail
<1>3. CASE Cancel(s)
  <2>1. Rollback(s) /\ Goto(s, "idle") /\ f' = [f EXCEPT ![s] = Fresh(s, NoCall, << >>, "error")]
    BY <1>3 DEF Cancel
  <2>2. CountsOK'
    BY <1>1, <1>3 DEF Cancel
  <2> QED
    BY <2>1, <2>2, RollbackOK, FreshLocal, FilesStep
<1>4. CASE DeadlockVictim(s)
  BY <1>4, CallFacts, RaiseStep DEF DeadlockVictim, Stay, CountsOK
<1> QED
  BY <1>2, <1>3, <1>4

\* The single-step calls touch rows that nobody holds.
LEMMA OtherStep ==
    ASSUME FilesInv, UNCHANGED <<owner, shares, uploadVars, pc, f>>, CountsOK',
           NEW n \in Node, owner[n] = None, NEW v \in Row, v.st = "live" => Consistent(v),
           db' = [db EXCEPT ![n] = v], new' = [new EXCEPT ![n] = v]
    PROVE  FilesInv'
<1>0. RowsOK /\ UpsOK /\ LocalsTyped
  BY DEF FilesInv
<1>1. \A m \in Node : /\ db'[m] = IF m = n THEN v ELSE db[m]
                      /\ new'[m] = IF m = n THEN v ELSE new[m]
  BY <1>0 DEF RowsOK, RowsTyped
<1>2. RowsTyped'
  BY <1>0 DEF RowsOK, RowsTyped
<1>3. \A m \in Node : /\ db'[m].st = "live" => Consistent(db'[m])
                      /\ new'[m].st = "live" => Consistent(new'[m])
  BY <1>0, <1>1 DEF RowsOK
<1>4. \A m \in Node : owner'[m] = None => new'[m] = db'[m]
  BY <1>0, <1>1 DEF RowsOK
<1>5. RowsOK'
  BY <1>2, <1>3, <1>4 DEF RowsOK, Consistent
<1>6. UpsOK'
  BY <1>0, UpSame
<1>7. ASSUME NEW s \in Sess PROVE PcLocal(s)' /\ PcHolds(s)'
  <2>1. PcLocal(s) /\ PcHolds(s) /\ s # None
    BY PgAssumption DEF FilesInv
  <2>2. PcLocal(s)'
    BY <2>1 DEF PcLocal
  <2>3. pc[s] \in {"fk", "publish"} => f[s].row \in Node /\ f[s].row # n
    BY <2>1 DEF PcLocal, PcHolds
  <2>4. PcHolds(s)'
    BY <1>1, <2>1, <2>3 DEF PcHolds, uploadVars
  <2> QED
    BY <2>2, <2>4
<1> QED
  BY <1>0, <1>5, <1>6, <1>7 DEF FilesInv, LocalsTyped

LEMMA EnvironmentStep ==
    ASSUME FilesInv, Environment
    PROVE  FilesInv'
<1>0. RowsOK /\ CountsOK
  BY DEF FilesInv
<1>1. CASE Tick
  <2>1. /\ UNCHANGED <<rowVars, uploadVars, pc, f>> /\ CountsOK'
    BY <1>0, <1>1 DEF Tick, CountsOK
  <2>2. RowsOK' /\ UpsOK' /\ LocalsTyped'
    BY <2>1, RowSame, UpSame DEF FilesInv, LocalsTyped
  <2>3. \A s \in Sess : PcLocal(s)' /\ PcHolds(s)'
    BY <2>1 DEF FilesInv, PcLocal, PcHolds, rowVars, uploadVars
  <2> QED
    BY <2>1, <2>2, <2>3 DEF FilesInv
<1>2. ASSUME NEW n \in Node, DeleteNode(n)
      PROVE  FilesInv'
  <2>1. /\ UNCHANGED <<owner, shares, uploadVars, pc, f>> /\ CountsOK'
    BY <1>0, <1>2 DEF DeleteNode, CountsOK
  <2>2. owner[n] = None /\ new[n] = db[n] /\ db[n] \in Row
    BY <1>0, <1>2 DEF DeleteNode, LockWaits, RowsOK, RowsTyped
  <2> DEFINE v == [db[n] EXCEPT !.st = "dead"]
  <2>3. v \in Row /\ v.st = "dead"
    BY <2>2 DEF Row
  <2>4. db' = [db EXCEPT ![n] = v] /\ new' = [new EXCEPT ![n] = v]
    BY <1>2, <2>2 DEF DeleteNode
  <2> HIDE DEF v
  <2> QED
    BY <2>1, <2>2, <2>3, <2>4, OtherStep
<1>3. ASSUME NEW n \in Node, NEW p \in Node, NEW nm \in Name, MoveNode(n, p, nm)
      PROVE  FilesInv'
  <2>1. /\ UNCHANGED <<owner, shares, uploadVars, pc, f>> /\ CountsOK'
    BY <1>0, <1>3 DEF MoveNode, CountsOK
  <2>2. /\ owner[n] = None /\ new[n] = db[n] /\ db[n] \in Row
        /\ db[n].st = "live" /\ Consistent(db[n])
    BY <1>0, <1>3 DEF MoveNode, LockWaits, RowsOK, RowsTyped
  <2> DEFINE v == [db[n] EXCEPT !.parent = p, !.name = nm]
  <2>3. /\ v \in Row /\ v.size = db[n].size /\ v.sha = db[n].sha /\ v.data = db[n].data
    BY <2>2 DEF Row
  <2>4. Consistent(v)
    BY <2>2, <2>3 DEF Consistent
  <2>5. db' = [db EXCEPT ![n] = v] /\ new' = [new EXCEPT ![n] = v]
    BY <1>3, <2>2 DEF MoveNode
  <2> HIDE DEF v
  <2> QED
    BY <2>1, <2>2, <2>3, <2>4, <2>5, OtherStep
<1>4. ASSUME NEW p \in Node, NEW nm \in Name, MakeDir(p, nm)
      PROVE  FilesInv'
  <2>1. /\ UNCHANGED <<owner, shares, uploadVars, pc, f>> /\ CountsOK'
    BY <1>0, <1>4 DEF MakeDir, CountsOK
  <2>2. PICK n \in Node : n = FreshId /\ owner[n] = None
    BY <1>4, FreshIdFree DEF MakeDir
  <2>3. PICK w \in Row : w = FileRow(p, nm) /\ Consistent(w)
    BY FileRowOK
  <2> DEFINE v == [w EXCEPT !.dir = TRUE]
  <2>4. v \in Row /\ v.size = w.size /\ v.sha = w.sha /\ v.data = w.data
    BY <2>3 DEF Row
  <2>5. Consistent(v)
    BY <2>3, <2>4 DEF Consistent
  <2>6. db' = [db EXCEPT ![n] = v] /\ new' = [new EXCEPT ![n] = v]
    BY <1>4, <2>2, <2>3 DEF MakeDir, DirRow
  <2> HIDE DEF v
  <2> QED
    BY <2>1, <2>2, <2>4, <2>5, <2>6, OtherStep
<1> QED
  BY <1>1, <1>2, <1>3, <1>4 DEF Environment

-----------------------------------------------------------------------------
(* The theorems *)

LEMMA FilesInit == Init => FilesInv
<1> SUFFICES ASSUME Init PROVE FilesInv
  OBVIOUS
<1>1. RowsOK
  BY FilesAssumption DEF Init, RowsOK, RowsTyped
<1>2. UpsOK
  BY FilesAssumption DEF Init, UpsOK, UpsTyped, UpRowOK
<1>3. CountsOK
  BY FilesAssumption DEF Init, CountsOK
<1>4. \A s \in Sess : /\ Fresh(s, NoCall, << >>, "none") \in Frame
                      /\ Fresh(s, NoCall, << >>, "none").call = NoCall
                      /\ Fresh(s, NoCall, << >>, "none").goal = "node"
  BY <1>3, NoCallOK, FreshFrame
<1>5. LocalsTyped
  BY <1>4 DEF Init, LocalsTyped, Labels
<1>6. ASSUME NEW s \in Sess PROVE PcLocal(s) /\ PcHolds(s)
  <2>1. /\ pc[s] = "idle" /\ f[s].call = NoCall /\ f[s].goal = "node"
        /\ NoCall.op = "read_file"
    BY <1>4, NoCallOK DEF Init
  <2> QED
    BY <2>1 DEF PcLocal, PcHolds, LabelOK, ArgsOK, UpOps, Holding
<1> QED
  BY <1>1, <1>2, <1>3, <1>5, <1>6 DEF FilesInv

LEMMA FilesNext == FilesInv /\ [Next]_vars => FilesInv'
<1> SUFFICES ASSUME FilesInv, [Next]_vars PROVE FilesInv'
  OBVIOUS
<1>1. ASSUME NEW s \in Sess, Step(s) PROVE FilesInv'
  BY <1>1, WalkStep, CommitStep, InsertStep, FkCheckStep, AgainStep, WriteStep, ReadStep,
     SetMetadataStep, StartUploadStep, UploadPartStep, FinUploadStep, FinNodeStep,
     PublishStep, AbortUploadStep, CleanupScanStep, CleanupDeleteStep DEF Step
<1>2. ASSUME NEW s \in Sess, \E c \in Calls : Begin(s, c) PROVE FilesInv'
  BY <1>2, BeginStep
<1>3. CASE UNCHANGED vars
  <2>1. RowsOK' /\ UpsOK' /\ LocalsTyped' /\ CountsOK'
    BY <1>3, RowSame, UpSame
    DEF FilesInv, vars, rowVars, uploadVars, LocalsTyped, CountsOK
  <2>2. \A s \in Sess : PcLocal(s)' /\ PcHolds(s)'
    BY <1>3 DEF FilesInv, PcLocal, PcHolds, vars
  <2> QED
    BY <2>1, <2>2 DEF FilesInv
<1> QED
  BY <1>1, <1>2, <1>3, FailStep, EnvironmentStep DEF Next, Finished

\* FilesInv is an invariant of the calls on file contents and uploads.
THEOREM FilesStaySafe == Spec => []FilesInv
BY FilesInit, FilesNext, PTL DEF Spec

\* Every variable keeps its type: no statement reads a row that is not there, a
\* path that is too short or an upload that was not named.
THEOREM FilesTypeCorrect == Spec => []TypeOK
<1>1. FilesInv => TypeOK
  BY DEF FilesInv, RowsOK, RowsTyped, UpsOK, UpsTyped, CountsOK, LocalsTyped, TypeOK
<1> QED
  BY <1>1, FilesStaySafe, PTL

\* Size, sha256 and chunks of a committed file agree, and so do the size and the
\* parts of an upload, whatever calls overlap, fail, are cancelled or deadlock.
THEOREM FilesConsistent == Spec => []PublishedConsistent
<1>1. FilesInv => PublishedConsistent
  BY DEF FilesInv, RowsOK, UpsOK, UpRowOK, PublishedConsistent
<1> QED
  BY <1>1, FilesStaySafe, PTL

-----------------------------------------------------------------------------
(* The contents of one call are in one place only.  While a transaction is  *)
(* open its rows have two versions, and moving a part from an upload to a    *)
(* file makes the same tokens stand in both tables.  The invariant follows   *)
(* where the tokens of an uncommitted row come from: its transaction took    *)
(* them from its own call, which nothing committed contains, or from a       *)
(* committed row that it has locked.                                         *)

Toks(d) == {d[i] : i \in DOMAIN d}

Distinct(d) == \A i, j \in DOMAIN d : d[i] = d[j] => i = j

Bytes(v) == IF v.st = "live" THEN v.data ELSE << >>

Old(p) == IF p[1] = "file" THEN Bytes(db[p[2]]) ELSE Bytes(udb[p[2]])
Latest(p) == IF p[1] = "file" THEN Bytes(new[p[2]]) ELSE Bytes(unew[p[2]])
Holder(p) == IF p[1] = "file" THEN owner[p[2]] ELSE uowner[p[2]]
Carried(s) == Toks(f[s].content)

\* Token k is the call's own, or was in a committed row the call has locked.
Source(s, k) == \/ k \in Carried(s)
                \/ \E q \in Places : Holder(q) = s /\ k \in Toks(Old(q))

OldOnce == \A p \in Places : /\ Distinct(Old(p))
                             /\ \A k \in Toks(Old(p)) : k \notin 1 .. left
                             /\ \A q \in Places \ {p} : Toks(Old(p)) \cap Toks(Old(q)) = {}

LatestOnce == \A p \in Places :
                  /\ Distinct(Latest(p))
                  /\ \A q \in Places \ {p} : Holder(p) = Holder(q) /\ Holder(p) # None
                         => Toks(Latest(p)) \cap Toks(Latest(q)) = {}

Sourced == \A s \in Sess, p \in Places :
               Holder(p) = s => \A k \in Toks(Latest(p)) : Source(s, k)

\* What a call carries is nowhere else, and in its own rows only when it returns.
CarriedOnce ==
    \A s \in Sess :
        /\ pc[s] = "idle" => f[s].content = << >>
        /\ Distinct(f[s].content)
        /\ \A k \in Carried(s) : k \notin 1 .. left
        /\ \A p \in Places : /\ Carried(s) \cap Toks(Old(p)) = {}
                             /\ Holder(p) = s /\ pc[s] # "commit"
                                    => Carried(s) \cap Toks(Latest(p)) = {}
        /\ \A t \in Sess \ {s} : Carried(s) \cap Carried(t) = {}

\* The inductive invariant.
OnceInv == OldOnce /\ LatestOnce /\ Sourced /\ CarriedOnce

FilesOnce == FilesInv /\ OnceInv

-----------------------------------------------------------------------------
(* Lemmas about rows and places *)

LEMMA PlaceCases ==
    /\ \A n \in Node : <<"file", n>> \in Places
    /\ \A u \in Upload : <<"upload", u>> \in Places
    /\ \A p \in Places : \/ p[1] = "file" /\ p[2] \in Node /\ p = <<"file", p[2]>>
                         \/ p[1] = "upload" /\ p[2] \in Upload /\ p = <<"upload", p[2]>>
BY DEF Places

LEMMA EmptyBytes == Toks(<< >>) = {} /\ Distinct(<< >>)
BY DEF Toks, Distinct

\* A row that nobody holds has one version, and a holder is a session.
LEMMA OneVersion ==
    ASSUME FilesInv, NEW p \in Places
    PROVE  /\ Holder(p) = None => Latest(p) = Old(p)
           /\ Holder(p) \in Sess \cup {None}
BY PlaceCases DEF FilesInv, RowsOK, UpsOK, RowsTyped, UpsTyped, Holder, Latest, Old

\* Row version v becomes w, with less of the same contents.
Shrinks(v, w) == Toks(Bytes(w)) \subseteq Toks(Bytes(v)) /\ Distinct(Bytes(w))

RowTame(s) ==
    /\ db' = db
    /\ \A n \in Node : \/ owner'[n] = owner[n] /\ new'[n] = new[n]
                       \/ /\ owner[n] \in {s, None} /\ owner'[n] = s
                          /\ Shrinks(new[n], new'[n])

UpTame(s) ==
    /\ udb' = udb
    /\ \A u \in Upload : \/ uowner'[u] = uowner[u] /\ unew'[u] = unew[u]
                         \/ /\ uowner[u] \in {s, None} /\ uowner'[u] = s
                            /\ Shrinks(unew[u], unew'[u])

\* A step of s that commits nothing and only takes rows or empties them.
Tame(s) ==
    \A p \in Places :
        /\ Old(p)' = Old(p)
        /\ \/ Holder(p)' = Holder(p) /\ Latest(p)' = Latest(p)
           \/ /\ Holder(p) \in {s, None} /\ Holder(p)' = s
              /\ Toks(Latest(p)') \subseteq Toks(Latest(p)) /\ Distinct(Latest(p)')

LEMMA TamePlaces ==
    ASSUME NEW s, RowTame(s), UpTame(s)
    PROVE  Tame(s)
<1>1. ASSUME NEW p \in Places
      PROVE  /\ Old(p)' = Old(p)
             /\ \/ Holder(p)' = Holder(p) /\ Latest(p)' = Latest(p)
                \/ /\ Holder(p) \in {s, None} /\ Holder(p)' = s
                   /\ Toks(Latest(p)') \subseteq Toks(Latest(p)) /\ Distinct(Latest(p)')
  <2>1. CASE p[1] = "file" /\ p[2] \in Node /\ p = <<"file", p[2]>>
    BY <2>1 DEF RowTame, Old, Latest, Holder, Shrinks, Bytes
  <2>2. CASE p[1] = "upload" /\ p[2] \in Upload /\ p = <<"upload", p[2]>>
    BY <2>2 DEF UpTame, Old, Latest, Holder, Shrinks, Bytes
  <2> QED
    BY <2>1, <2>2, PlaceCases
<1> QED
  BY <1>1 DEF Tame

-----------------------------------------------------------------------------
(* Steps that write no contents *)

\* The rows a session has or may lock have nothing in common.
LEMMA TakenDisjoint ==
    ASSUME FilesOnce, NEW s \in Sess, NEW p \in Places, NEW q \in Places, p # q,
           Holder(p) \in {s, None}, Holder(q) \in {s, None}
    PROVE  Toks(Latest(p)) \cap Toks(Latest(q)) = {}
<1>0. s # None
  BY PgAssumption
<1>1. ASSUME NEW a \in Places, NEW b \in Places, a # b, Holder(a) = None, Holder(b) = s,
             NEW k \in Toks(Latest(a)), k \in Toks(Latest(b))
      PROVE  FALSE
  <2>1. k \in Toks(Old(a))
    BY <1>1, OneVersion DEF FilesOnce
  <2>2. Source(s, k)
    BY <1>1 DEF FilesOnce, OnceInv, Sourced
  <2>3. k \notin Carried(s)
    BY <2>1 DEF FilesOnce, OnceInv, CarriedOnce
  <2>4. PICK c \in Places : Holder(c) = s /\ k \in Toks(Old(c))
    BY <2>2, <2>3 DEF Source
  <2>5. c # a
    BY <1>0, <1>1, <2>4
  <2> QED
    BY <2>1, <2>4, <2>5 DEF FilesOnce, OnceInv, OldOnce
<1>2. CASE Holder(p) = None /\ Holder(q) = None
  BY <1>2, OneVersion DEF FilesOnce, OnceInv, OldOnce
<1>3. CASE Holder(p) = s /\ Holder(q) = s
  BY <1>0, <1>3 DEF FilesOnce, OnceInv, LatestOnce
<1> QED
  BY <1>1, <1>2, <1>3

\* What a row that s has or may lock contains has a source, and is not carried
\* by s before it returns.
LEMMA TakenSource ==
    ASSUME FilesOnce, NEW s \in Sess, NEW p \in Places, Holder(p) \in {s, None}
    PROVE  /\ \A k \in Toks(Latest(p)) : \/ k \in Carried(s)
                                         \/ k \in Toks(Old(p))
                                         \/ \E q \in Places : Holder(q) = s /\ k \in Toks(Old(q))
           /\ pc[s] # "commit" => Carried(s) \cap Toks(Latest(p)) = {}
<1>1. CASE Holder(p) = None
  <2>1. Latest(p) = Old(p)
    BY <1>1, OneVersion DEF FilesOnce
  <2> QED
    BY <2>1 DEF FilesOnce, OnceInv, CarriedOnce
<1>2. CASE Holder(p) = s
  BY <1>2 DEF FilesOnce, OnceInv, CarriedOnce, Sourced, Source
<1> QED
  BY <1>1, <1>2

\* The other calls, and what s carries.
Others(s) == /\ left' = left
             /\ \A t \in Sess \ {s} : f'[t] = f[t] /\ pc'[t] = pc[t]

Keeps(s) == /\ Others(s)
            /\ \/ f'[s].content = f[s].content
               \/ f'[s].content = << >> /\ pc[s] # "commit"
            /\ pc'[s] = "idle" => f'[s].content = << >>
            /\ pc'[s] = "commit" \/ pc[s] # "commit"

LEMMA TameStep ==
    ASSUME FilesOnce, NEW s \in Sess, Tame(s), Keeps(s)
    PROVE  OnceInv'
<1>0. s # None /\ left' = left
  BY PgAssumption DEF Keeps, Others
<1>1. OldOnce'
  BY <1>0 DEF Tame, FilesOnce, OnceInv, OldOnce
<1>2. \A p \in Places, t \in Sess \ {s} :
          /\ Holder(p)' = t <=> Holder(p) = t
          /\ Holder(p) = t => Latest(p)' = Latest(p)
  BY <1>0, PgAssumption DEF Tame
<1>3. \A p \in Places : Holder(p)' = s =>
          /\ Holder(p) \in {s, None} /\ Toks(Latest(p)') \subseteq Toks(Latest(p))
  BY DEF Tame
<1>4. \A p \in Places : Holder(p) = s => Holder(p)' = s
  BY DEF Tame
<1>5. \A p \in Places : Holder(p)' \in Sess \cup {None} /\ Distinct(Latest(p)')
  BY OneVersion DEF Tame, FilesOnce, OnceInv, LatestOnce
<1>6. LatestOnce'
  <2>1. ASSUME NEW p \in Places, NEW q \in Places \ {p}, Holder(p)' = Holder(q)', Holder(p)' # None
        PROVE  Toks(Latest(p)') \cap Toks(Latest(q)') = {}
    <3>1. CASE Holder(p)' = s
      BY <1>3, <2>1, <3>1, TakenDisjoint
    <3>2. CASE Holder(p)' # s
      <4>1. PICK t \in Sess \ {s} : Holder(p)' = t /\ Holder(q)' = t
        BY <1>5, <2>1, <3>2
      <4>2. /\ Holder(p) = t /\ Holder(q) = t /\ t # None
            /\ Latest(p)' = Latest(p) /\ Latest(q)' = Latest(q)
        BY <1>2, <4>1, PgAssumption
      <4> QED
        BY <2>1, <4>2 DEF FilesOnce, OnceInv, LatestOnce
    <3> QED
      BY <3>1, <3>2
  <2> QED
    BY <1>5, <2>1 DEF LatestOnce
<1>7. \A p \in Places : Old(p)' = Old(p)
  BY DEF Tame
<1>8. Carried(s)' = Carried(s) \/ (Carried(s)' = {} /\ pc[s] # "commit")
  BY EmptyBytes DEF Keeps, Carried
<1>9. \A t \in Sess \ {s} : Carried(t)' = Carried(t) /\ pc'[t] = pc[t] /\ f'[t] = f[t]
  BY DEF Keeps, Others, Carried
<1>10. Sourced'
  <2>1. ASSUME NEW t \in Sess, NEW p \in Places, Holder(p)' = t, NEW k \in Toks(Latest(p)')
        PROVE  Source(t, k)'
    <3>1. CASE t # s
      <4>1. Holder(p) = t /\ k \in Toks(Latest(p))
        BY <1>2, <2>1, <3>1
      <4>2. Source(t, k)
        BY <4>1 DEF FilesOnce, OnceInv, Sourced
      <4> QED
        BY <1>2, <1>7, <1>9, <3>1, <4>2 DEF Source
    <3>2. CASE t = s
      <4>1. k \in Toks(Latest(p)) /\ Holder(p) \in {s, None}
        BY <1>3, <2>1, <3>2
      <4>2. CASE k \in Carried(s)
        <5>1. pc[s] = "commit"
          BY <4>1, <4>2, TakenSource
        <5> QED
          BY <1>8, <3>2, <4>2, <5>1 DEF Source
      <4>3. CASE k \in Toks(Old(p))
        BY <1>7, <2>1, <3>2, <4>3 DEF Source
      <4>4. CASE \E q \in Places : Holder(q) = s /\ k \in Toks(Old(q))
        BY <1>4, <1>7, <3>2, <4>4 DEF Source
      <4> QED
        BY <4>1, <4>2, <4>3, <4>4, TakenSource
    <3> QED
      BY <3>1, <3>2
  <2> QED
    BY <2>1 DEF Sourced
<1>11. CarriedOnce'
  <2>1. ASSUME NEW t \in Sess
        PROVE  /\ pc'[t] = "idle" => f'[t].content = << >>
               /\ Distinct(f'[t].content)
               /\ Carried(t)' \subseteq Carried(t)
    <3>1. CASE t = s
      BY <1>8, <3>1, EmptyBytes DEF Keeps, FilesOnce, OnceInv, CarriedOnce
    <3>2. CASE t # s
      BY <1>9, <3>2 DEF FilesOnce, OnceInv, CarriedOnce
    <3> QED
      BY <3>1, <3>2
  <2>2. ASSUME NEW t \in Sess, NEW p \in Places, Holder(p)' = t, pc'[t] # "commit"
        PROVE  Carried(t)' \cap Toks(Latest(p)') = {}
    <3>1. CASE t = s
      <4>1. pc[s] # "commit"
        BY <2>2, <3>1 DEF Keeps
      <4> QED
        BY <1>3, <2>1, <2>2, <3>1, <4>1, TakenSource
    <3>2. CASE t # s
      BY <1>2, <1>9, <2>2, <3>2 DEF FilesOnce, OnceInv, CarriedOnce
    <3> QED
      BY <3>1, <3>2
  <2>3. \A t \in Sess : \A k \in Carried(t)' : k \notin 1 .. left'
    BY <1>0, <2>1 DEF FilesOnce, OnceInv, CarriedOnce
  <2>4. \A t \in Sess, p \in Places : Carried(t)' \cap Toks(Old(p)') = {}
    BY <1>7, <2>1 DEF FilesOnce, OnceInv, CarriedOnce
  <2>5. \A t \in Sess : \A r \in Sess \ {t} : Carried(t)' \cap Carried(r)' = {}
    BY <2>1 DEF FilesOnce, OnceInv, CarriedOnce
  <2> QED
    BY <2>1, <2>2, <2>3, <2>4, <2>5 DEF CarriedOnce
<1> QED
  BY <1>1, <1>6, <1>10, <1>11 DEF OnceInv

-----------------------------------------------------------------------------
(* Steps that write contents: the call returns with them *)

Fills(s) ==
    /\ \A p \in Places :
           /\ Old(p)' = Old(p)
           /\ \/ Holder(p)' = Holder(p) /\ Latest(p)' = Latest(p)
              \/ Holder(p) \in {s, None} /\ Holder(p)' = s
    /\ \A p \in Places : Holder(p)' = s =>
           /\ Distinct(Latest(p)')
           /\ \A k \in Toks(Latest(p)') :
                  \/ k \in Carried(s)
                  \/ \E q \in Places : /\ Holder(q) \in {s, None} /\ Holder(q)' = s
                                       /\ k \in Toks(Latest(q))
    /\ \A p, q \in Places : p # q /\ Holder(p)' = s /\ Holder(q)' = s
           => Toks(Latest(p)') \cap Toks(Latest(q)') = {}

Answers(s) == /\ Others(s)
              /\ f'[s].content = f[s].content /\ pc'[s] = "commit"

LEMMA FillStep ==
    ASSUME FilesOnce, NEW s \in Sess, Fills(s), Answers(s)
    PROVE  OnceInv'
<1>0. s # None /\ left' = left
  BY PgAssumption DEF Answers, Others
<1>1. \A p \in Places : Old(p)' = Old(p)
  BY DEF Fills
<1>2. OldOnce'
  BY <1>0, <1>1 DEF FilesOnce, OnceInv, OldOnce
<1>3. \A p \in Places, t \in Sess \ {s} :
          /\ Holder(p)' = t <=> Holder(p) = t
          /\ Holder(p) = t => Latest(p)' = Latest(p)
  BY <1>0, PgAssumption DEF Fills
<1>4. \A p \in Places : Holder(p) = s => Holder(p)' = s
  BY DEF Fills
<1>5. \A p \in Places : /\ Holder(p)' \in Sess \cup {None}
                        /\ Distinct(Latest(p)')
  BY OneVersion DEF Fills, FilesOnce, OnceInv, LatestOnce
<1>6. LatestOnce'
  <2>1. ASSUME NEW p \in Places, NEW q \in Places \ {p}, Holder(p)' = Holder(q)', Holder(p)' # None
        PROVE  Toks(Latest(p)') \cap Toks(Latest(q)') = {}
    <3>1. CASE Holder(p)' = s
      BY <2>1, <3>1 DEF Fills
    <3>2. CASE Holder(p)' # s
      <4>1. PICK t \in Sess \ {s} : Holder(p)' = t /\ Holder(q)' = t
        BY <1>5, <2>1, <3>2
      <4>2. /\ Holder(p) = t /\ Holder(q) = t /\ t # None
            /\ Latest(p)' = Latest(p) /\ Latest(q)' = Latest(q)
        BY <1>3, <4>1, PgAssumption
      <4> QED
        BY <2>1, <4>2 DEF FilesOnce, OnceInv, LatestOnce
    <3> QED
      BY <3>1, <3>2
  <2> QED
    BY <1>5, <2>1 DEF LatestOnce
<1>7. Carried(s)' = Carried(s) /\ f'[s].content = f[s].content
  BY DEF Answers, Carried
<1>8. \A t \in Sess \ {s} : Carried(t)' = Carried(t) /\ pc'[t] = pc[t] /\ f'[t] = f[t]
  BY DEF Answers, Others, Carried
<1>9. Sourced'
  <2>1. ASSUME NEW t \in Sess, NEW p \in Places, Holder(p)' = t, NEW k \in Toks(Latest(p)')
        PROVE  Source(t, k)'
    <3>1. CASE t # s
      <4>1. Holder(p) = t /\ k \in Toks(Latest(p))
        BY <1>3, <2>1, <3>1
      <4>2. Source(t, k)
        BY <4>1 DEF FilesOnce, OnceInv, Sourced
      <4> QED
        BY <1>1, <1>3, <1>8, <3>1, <4>2 DEF Source
    <3>2. CASE t = s
      <4>1. CASE k \in Carried(s)
        BY <1>7, <3>2, <4>1 DEF Source
      <4>2. CASE k \notin Carried(s)
        <5>1. PICK q \in Places : /\ Holder(q) \in {s, None} /\ Holder(q)' = s
                                  /\ k \in Toks(Latest(q))
          BY <2>1, <3>2, <4>2 DEF Fills
        <5>2. CASE k \in Toks(Old(q))
          BY <1>1, <3>2, <5>1, <5>2 DEF Source
        <5>3. CASE \E r \in Places : Holder(r) = s /\ k \in Toks(Old(r))
          BY <1>1, <1>4, <3>2, <5>3 DEF Source
        <5> QED
          BY <4>2, <5>1, <5>2, <5>3, TakenSource
      <4> QED
        BY <4>1, <4>2
    <3> QED
      BY <3>1, <3>2
  <2> QED
    BY <2>1 DEF Sourced
<1>10. CarriedOnce'
  <2>1. \A t \in Sess : Carried(t)' = Carried(t) /\ f'[t].content = f[t].content
    BY <1>7, <1>8
  <2>2. ASSUME NEW t \in Sess, NEW p \in Places, Holder(p)' = t, pc'[t] # "commit"
        PROVE  Carried(t)' \cap Toks(Latest(p)') = {}
    <3>1. t # s
      BY <2>2 DEF Answers
    <3> QED
      BY <1>3, <1>8, <2>2, <3>1 DEF FilesOnce, OnceInv, CarriedOnce
  <2>3. \A t \in Sess : pc'[t] = "idle" => f'[t].content = << >>
    BY <1>8 DEF Answers, FilesOnce, OnceInv, CarriedOnce
  <2> QED
    BY <1>0, <1>1, <2>1, <2>2, <2>3 DEF FilesOnce, OnceInv, CarriedOnce
<1> QED
  BY <1>2, <1>6, <1>9, <1>10 DEF OnceInv

\* A place that takes what the call carries.
LEMMA FillOne ==
    ASSUME FilesOnce, NEW s \in Sess, pc[s] # "commit", NEW p \in Places,
           Holder(p) \in {s, None}, Holder(p)' = s,
           \A q \in Places : Old(q)' = Old(q),
           \A q \in Places \ {p} : Holder(q)' = Holder(q) /\ Latest(q)' = Latest(q),
           Toks(Latest(p)') \subseteq Toks(Latest(p)) \cup Carried(s), Distinct(Latest(p)')
    PROVE  Fills(s)
<1>1. \A q \in Places : Holder(q) \in {s, None} => Carried(s) \cap Toks(Latest(q)) = {}
  BY TakenSource
<1>2. ASSUME NEW q \in Places \ {p}, Holder(q)' = s
      PROVE  Toks(Latest(p)') \cap Toks(Latest(q)') = {}
  <2>1. Holder(q) = s /\ Latest(q)' = Latest(q)
    BY <1>2
  <2>2. Toks(Latest(p)) \cap Toks(Latest(q)) = {}
    BY <2>1, TakenDisjoint
  <2> QED
    BY <1>1, <2>1, <2>2
<1>3. ASSUME NEW q \in Places, NEW r \in Places, q # r, Holder(q)' = s, Holder(r)' = s
      PROVE  Toks(Latest(q)') \cap Toks(Latest(r)') = {}
  <2>1. CASE q = p
    BY <1>2, <1>3, <2>1
  <2>2. CASE r = p
    BY <1>2, <1>3, <2>2
  <2>3. CASE q # p /\ r # p
    BY <1>3, <2>3, TakenDisjoint
  <2> QED
    BY <2>1, <2>2, <2>3
<1>4. ASSUME NEW q \in Places, Holder(q)' = s
      PROVE  /\ Distinct(Latest(q)')
             /\ \A k \in Toks(Latest(q)') :
                    \/ k \in Carried(s)
                    \/ \E r \in Places : /\ Holder(r) \in {s, None} /\ Holder(r)' = s
                                         /\ k \in Toks(Latest(r))
  <2>1. CASE q = p
    BY <2>1
  <2>2. CASE q # p
    BY <1>4, <2>2 DEF FilesOnce, OnceInv, LatestOnce
  <2> QED
    BY <2>1, <2>2
<1> QED
  BY <1>3, <1>4 DEF Fills

\* A place that takes what another of the session's places had.
LEMMA FillTwo ==
    ASSUME FilesOnce, NEW s \in Sess, NEW p \in Places, NEW u \in Places, p # u,
           Holder(p) = s, Holder(u) = s, Holder(p)' = s, Holder(u)' = s,
           \A q \in Places : Old(q)' = Old(q),
           \A q \in Places \ {p, u} : Holder(q)' = Holder(q) /\ Latest(q)' = Latest(q),
           Toks(Latest(p)') \subseteq Toks(Latest(p)) \cup Toks(Latest(u)), Distinct(Latest(p)'),
           Toks(Latest(u)') = {}, Distinct(Latest(u)')
    PROVE  Fills(s)
<1>1. ASSUME NEW q \in Places \ {p, u}, Holder(q)' = s
      PROVE  Toks(Latest(p)') \cap Toks(Latest(q)') = {}
  <2>1. Holder(q) = s /\ Latest(q)' = Latest(q)
    BY <1>1
  <2>2. /\ Toks(Latest(p)) \cap Toks(Latest(q)) = {}
        /\ Toks(Latest(u)) \cap Toks(Latest(q)) = {}
    BY <2>1, TakenDisjoint
  <2> QED
    BY <2>1, <2>2
<1>2. ASSUME NEW q \in Places, NEW r \in Places, q # r, Holder(q)' = s, Holder(r)' = s
      PROVE  Toks(Latest(q)') \cap Toks(Latest(r)') = {}
  <2>1. CASE q = u \/ r = u
    BY <2>1
  <2>2. CASE q = p /\ r # u
    BY <1>1, <1>2, <2>2
  <2>3. CASE r = p /\ q # u
    BY <1>1, <1>2, <2>3
  <2>4. CASE q \notin {p, u} /\ r \notin {p, u}
    BY <1>2, <2>4, TakenDisjoint
  <2> QED
    BY <1>2, <2>1, <2>2, <2>3, <2>4
<1>3. ASSUME NEW q \in Places, Holder(q)' = s
      PROVE  /\ Distinct(Latest(q)')
             /\ \A k \in Toks(Latest(q)') :
                    \E r \in Places : /\ Holder(r) \in {s, None} /\ Holder(r)' = s
                                      /\ k \in Toks(Latest(r))
  <2>1. CASE q = p
    BY <2>1
  <2>2. CASE q = u
    BY <2>2
  <2>3. CASE q \notin {p, u}
    BY <1>3, <2>3 DEF FilesOnce, OnceInv, LatestOnce
  <2> QED
    BY <2>1, <2>2, <2>3
<1>4. \A q \in Places : /\ Old(q)' = Old(q)
                        /\ \/ Holder(q)' = Holder(q) /\ Latest(q)' = Latest(q)
                           \/ Holder(q) \in {s, None} /\ Holder(q)' = s
  OBVIOUS
<1> QED
  BY <1>2, <1>3, <1>4 DEF Fills

-----------------------------------------------------------------------------
(* The end of a transaction *)

\* The session's rows are released, those of the others untouched.
Releases(s) == \A p \in Places :
                   /\ Holder(p) = s => Holder(p)' = None
                   /\ Holder(p) # s => /\ Holder(p)' = Holder(p)
                                       /\ Latest(p)' = Latest(p) /\ Old(p)' = Old(p)

Installs(s) == \A p \in Places : Holder(p) = s => Old(p)' = Latest(p) /\ Latest(p)' = Latest(p)
Reverts(s) == \A p \in Places : Holder(p) = s => Old(p)' = Old(p) /\ Latest(p)' = Old(p)

\* The parts of OnceInv that both ends preserve alike.
LEMMA EndStep ==
    ASSUME FilesOnce, NEW s \in Sess, Releases(s), Installs(s) \/ Reverts(s), Others(s),
           f'[s].content \in {f[s].content, << >>},
           pc'[s] = "idle" => f'[s].content = << >>,
           OldOnce',
           \A t \in Sess, p \in Places : Carried(t)' \cap Toks(Old(p)') = {},
           \A t \in Sess \ {s}, p \in Places : Holder(p) = t => Old(p)' = Old(p)
    PROVE  OnceInv'
<1>0. s # None /\ left' = left /\ \A t \in Sess : t # None
  BY PgAssumption DEF Others
<1>1. \A p \in Places : /\ Holder(p)' \in Sess \cup {None} /\ Holder(p)' # s
                        /\ Distinct(Latest(p)')
  BY <1>0, OneVersion DEF Releases, Installs, Reverts, FilesOnce, OnceInv, OldOnce, LatestOnce
<1>2. \A p \in Places, t \in Sess :
          Holder(p)' = t => /\ t # s /\ Holder(p) = t /\ Latest(p)' = Latest(p)
                            /\ Old(p)' = Old(p)
  BY <1>0 DEF Releases
<1>3. \A t \in Sess \ {s} : Carried(t)' = Carried(t) /\ pc'[t] = pc[t] /\ f'[t] = f[t]
  BY DEF Others, Carried
<1>4. LatestOnce'
  <2>1. ASSUME NEW p \in Places, NEW q \in Places \ {p}, Holder(p)' = Holder(q)', Holder(p)' # None
        PROVE  Toks(Latest(p)') \cap Toks(Latest(q)') = {}
    <3>1. PICK t \in Sess : Holder(p)' = t /\ Holder(q)' = t
      BY <1>1, <2>1
    <3>2. /\ Holder(p) = t /\ Holder(q) = t /\ t # None
          /\ Latest(p)' = Latest(p) /\ Latest(q)' = Latest(q)
      BY <1>0, <1>2, <3>1
    <3> QED
      BY <2>1, <3>2 DEF FilesOnce, OnceInv, LatestOnce
  <2> QED
    BY <1>1, <2>1 DEF LatestOnce
<1>5. Sourced'
  <2>1. ASSUME NEW t \in Sess, NEW p \in Places, Holder(p)' = t, NEW k \in Toks(Latest(p)')
        PROVE  Source(t, k)'
    <3>1. t # s /\ Holder(p) = t /\ k \in Toks(Latest(p))
      BY <1>2, <2>1
    <3>2. Source(t, k)
      BY <3>1 DEF FilesOnce, OnceInv, Sourced
    <3>3. \A q \in Places : Holder(q) = t => Holder(q)' = t /\ Old(q)' = Old(q)
      BY <3>1 DEF Releases
    <3> QED
      BY <1>3, <3>1, <3>2, <3>3 DEF Source
  <2> QED
    BY <2>1 DEF Sourced
<1>6. CarriedOnce'
  <2>1. ASSUME NEW t \in Sess
        PROVE  /\ pc'[t] = "idle" => f'[t].content = << >>
               /\ Distinct(f'[t].content)
               /\ Carried(t)' \subseteq Carried(t)
    <3>1. CASE t = s
      BY <3>1, EmptyBytes DEF Carried, FilesOnce, OnceInv, CarriedOnce
    <3>2. CASE t # s
      BY <1>3, <3>2 DEF FilesOnce, OnceInv, CarriedOnce
    <3> QED
      BY <3>1, <3>2
  <2>2. ASSUME NEW t \in Sess, NEW p \in Places, Holder(p)' = t, pc'[t] # "commit"
        PROVE  Carried(t)' \cap Toks(Latest(p)') = {}
    BY <1>2, <1>3, <2>2 DEF FilesOnce, OnceInv, CarriedOnce
  <2>3. \A t \in Sess : \A k \in Carried(t)' : k \notin 1 .. left'
    BY <1>0, <2>1 DEF FilesOnce, OnceInv, CarriedOnce
  <2>4. \A t \in Sess : \A r \in Sess \ {t} : Carried(t)' \cap Carried(r)' = {}
    BY <2>1 DEF FilesOnce, OnceInv, CarriedOnce
  <2> QED
    BY <2>1, <2>2, <2>3, <2>4 DEF CarriedOnce
<1> QED
  BY <1>4, <1>5, <1>6 DEF OnceInv

LEMMA RevertStep ==
    ASSUME FilesOnce, NEW s \in Sess, Releases(s), Reverts(s), Others(s),
           f'[s].content \in {f[s].content, << >>},
           pc'[s] = "idle" => f'[s].content = << >>
    PROVE  OnceInv'
<1>1. \A p \in Places : Old(p)' = Old(p)
  BY DEF Releases, Reverts
<1>2. OldOnce'
  BY <1>1 DEF Others, FilesOnce, OnceInv, OldOnce
<1>3. \A t \in Sess : Carried(t)' \subseteq Carried(t)
  BY EmptyBytes DEF Others, Carried
<1>4. \A t \in Sess, p \in Places : Carried(t)' \cap Toks(Old(p)') = {}
  BY <1>1, <1>3 DEF FilesOnce, OnceInv, CarriedOnce
<1> QED
  BY <1>1, <1>2, <1>4, EndStep

LEMMA CommitOnce ==
    ASSUME FilesOnce, NEW s \in Sess, Releases(s), Installs(s), Others(s), f'[s].content = << >>
    PROVE  OnceInv'
<1>0. s # None /\ left' = left
  BY PgAssumption DEF Others
<1>1. \A p \in Places : Old(p)' = IF Holder(p) = s THEN Latest(p) ELSE Old(p)
  BY DEF Releases, Installs
<1>2. \A p \in Places : Holder(p) = s => \A k \in Toks(Latest(p)) : Source(s, k)
  BY DEF FilesOnce, OnceInv, Sourced
<1>3. ASSUME NEW p \in Places, NEW q \in Places, p # q, Holder(p) = s, Holder(q) # s,
             NEW k \in Toks(Latest(p)), k \in Toks(Old(q))
      PROVE  FALSE
  <2>1. k \notin Carried(s)
    BY <1>3 DEF FilesOnce, OnceInv, CarriedOnce
  <2>2. PICK r \in Places : Holder(r) = s /\ k \in Toks(Old(r))
    BY <1>2, <1>3, <2>1 DEF Source
  <2>3. r # q
    BY <1>3, <2>2
  <2> QED
    BY <1>3, <2>2, <2>3 DEF FilesOnce, OnceInv, OldOnce
<1>4. OldOnce'
  <2>1. ASSUME NEW p \in Places
        PROVE  /\ Distinct(Old(p)')
               /\ \A k \in Toks(Old(p)') : k \notin 1 .. left'
    <3>1. CASE Holder(p) = s
      <4>1. Old(p)' = Latest(p) /\ Distinct(Latest(p))
        BY <1>1, <3>1 DEF FilesOnce, OnceInv, LatestOnce
      <4>2. ASSUME NEW k \in Toks(Latest(p)) PROVE k \notin 1 .. left
        <5>1. CASE k \in Carried(s)
          BY <5>1 DEF FilesOnce, OnceInv, CarriedOnce
        <5>2. CASE \E q \in Places : Holder(q) = s /\ k \in Toks(Old(q))
          BY <5>2 DEF FilesOnce, OnceInv, OldOnce
        <5> QED
          BY <1>2, <3>1, <5>1, <5>2 DEF Source
      <4> QED
        BY <1>0, <4>1, <4>2
    <3>2. CASE Holder(p) # s
      BY <1>0, <1>1, <3>2 DEF FilesOnce, OnceInv, OldOnce
    <3> QED
      BY <3>1, <3>2
  <2>2. ASSUME NEW p \in Places, NEW q \in Places \ {p}
        PROVE  Toks(Old(p)') \cap Toks(Old(q)') = {}
    <3>1. CASE Holder(p) = s /\ Holder(q) = s
      BY <1>0, <1>1, <3>1 DEF FilesOnce, OnceInv, LatestOnce
    <3>2. CASE Holder(p) = s /\ Holder(q) # s
      BY <1>1, <1>3, <3>2
    <3>3. CASE Holder(p) # s /\ Holder(q) = s
      BY <1>1, <1>3, <3>3
    <3>4. CASE Holder(p) # s /\ Holder(q) # s
      BY <1>1, <3>4 DEF FilesOnce, OnceInv, OldOnce
    <3> QED
      BY <3>1, <3>2, <3>3, <3>4
  <2> QED
    BY <2>1, <2>2 DEF OldOnce
<1>5. ASSUME NEW t \in Sess, NEW p \in Places
      PROVE  Carried(t)' \cap Toks(Old(p)') = {}
  <2>1. CASE t = s
    BY <2>1, EmptyBytes DEF Carried
  <2>2. CASE t # s
    <3>1. Carried(t)' = Carried(t)
      BY <2>2 DEF Others, Carried
    <3>2. CASE Holder(p) # s
      BY <1>1, <3>1, <3>2 DEF FilesOnce, OnceInv, CarriedOnce
    <3>3. CASE Holder(p) = s
      <4>1. ASSUME NEW k \in Toks(Latest(p)) PROVE k \notin Carried(t)
        <5>1. CASE k \in Carried(s)
          BY <2>2, <5>1 DEF FilesOnce, OnceInv, CarriedOnce
        <5>2. CASE \E q \in Places : Holder(q) = s /\ k \in Toks(Old(q))
          BY <5>2 DEF FilesOnce, OnceInv, CarriedOnce
        <5> QED
          BY <1>2, <3>3, <5>1, <5>2 DEF Source
      <4> QED
        BY <1>1, <3>1, <3>3, <4>1
    <3> QED
      BY <3>2, <3>3
  <2> QED
    BY <2>1, <2>2
<1>6. \A t \in Sess \ {s}, p \in Places : Holder(p) = t => Old(p)' = Old(p)
  BY <1>1
<1> QED
  BY <1>4, <1>5, <1>6, EndStep

\* Rows and uploads at the end of a transaction.
LEMMA CommitPlaces ==
    ASSUME NEW s \in Sess, CommitRows(s), U!CommitRows(s)
    PROVE  Releases(s) /\ Installs(s)
<1>0. s # None
  BY PgAssumption
<1>1. /\ db' = [n \in Node |-> IF owner[n] = s THEN new[n] ELSE db[n]]
      /\ new' = new
      /\ owner' = [n \in Node |-> IF owner[n] = s THEN None ELSE owner[n]]
  BY DEF CommitRows, ReleaseRows, Seen
<1>2. /\ udb' = [u \in Upload |-> IF uowner[u] = s THEN unew[u] ELSE udb[u]]
      /\ unew' = unew
      /\ uowner' = [u \in Upload |-> IF uowner[u] = s THEN None ELSE uowner[u]]
  BY DEF U!CommitRows, U!ReleaseRows, U!Seen
<1>3. ASSUME NEW p \in Places
      PROVE  /\ Holder(p) = s => /\ Holder(p)' = None
                                 /\ Old(p)' = Latest(p) /\ Latest(p)' = Latest(p)
             /\ Holder(p) # s => /\ Holder(p)' = Holder(p)
                                 /\ Latest(p)' = Latest(p) /\ Old(p)' = Old(p)
  <2>1. CASE p[1] = "file" /\ p[2] \in Node
    BY <1>0, <1>1, <2>1 DEF Holder, Old, Latest, Bytes
  <2>2. CASE p[1] = "upload" /\ p[2] \in Upload
    BY <1>0, <1>2, <2>2 DEF Holder, Old, Latest, Bytes
  <2> QED
    BY <2>1, <2>2, PlaceCases
<1> QED
  BY <1>3 DEF Releases, Installs

LEMMA RevertPlaces ==
    ASSUME NEW s \in Sess, Rollback(s)
    PROVE  Releases(s) /\ Reverts(s)
<1>0. s # None
  BY PgAssumption
<1>1. /\ db' = db
      /\ new' = [n \in Node |-> IF owner[n] = s THEN db[n] ELSE new[n]]
      /\ owner' = [n \in Node |-> IF owner[n] = s THEN None ELSE owner[n]]
  BY DEF Rollback, RollbackRows, ReleaseRows
<1>2. /\ udb' = udb
      /\ unew' = [u \in Upload |-> IF uowner[u] = s THEN udb[u] ELSE unew[u]]
      /\ uowner' = [u \in Upload |-> IF uowner[u] = s THEN None ELSE uowner[u]]
  BY DEF Rollback, U!RollbackRows, U!ReleaseRows
<1>3. ASSUME NEW p \in Places
      PROVE  /\ Holder(p) = s => /\ Holder(p)' = None
                                 /\ Old(p)' = Old(p) /\ Latest(p)' = Old(p)
             /\ Holder(p) # s => /\ Holder(p)' = Holder(p)
                                 /\ Latest(p)' = Latest(p) /\ Old(p)' = Old(p)
  <2>1. CASE p[1] = "file" /\ p[2] \in Node
    BY <1>0, <1>1, <2>1 DEF Holder, Old, Latest, Bytes
  <2>2. CASE p[1] = "upload" /\ p[2] \in Upload
    BY <1>0, <1>2, <2>2 DEF Holder, Old, Latest, Bytes
  <2> QED
    BY <2>1, <2>2, PlaceCases
<1> QED
  BY <1>3 DEF Releases, Reverts

-----------------------------------------------------------------------------
(* The rows and local variables of each kind of step *)

LEMMA RowTameSame == ASSUME NEW s, UNCHANGED rowVars PROVE RowTame(s)
BY DEF RowTame, rowVars

LEMMA UpTameSame == ASSUME NEW s, UNCHANGED uploadVars PROVE UpTame(s)
BY DEF UpTame, uploadVars

LEMMA RowTameOne ==
    ASSUME FilesInv, NEW s \in Sess, NEW n \in Node, owner[n] \in {s, None},
           NEW v, Shrinks(new[n], v),
           new' = [new EXCEPT ![n] = v], owner' = [owner EXCEPT ![n] = s], db' = db
    PROVE  RowTame(s)
BY DEF RowTame, FilesInv, RowsOK, RowsTyped

LEMMA UpTameOne ==
    ASSUME FilesInv, NEW s \in Sess, NEW u \in Upload, uowner[u] \in {s, None},
           NEW v, Shrinks(unew[u], v),
           unew' = [unew EXCEPT ![u] = v], uowner' = [uowner EXCEPT ![u] = s], udb' = udb
    PROVE  UpTame(s)
BY DEF UpTame, FilesInv, UpsOK, UpsTyped

LEMMA RowDistinct ==
    ASSUME FilesOnce
    PROVE  /\ \A n \in Node : Shrinks(new[n], new[n])
           /\ \A u \in Upload : Shrinks(unew[u], unew[u])
<1>1. ASSUME NEW n \in Node PROVE Distinct(Bytes(new[n]))
  <2>1. <<"file", n>> \in Places /\ Latest(<<"file", n>>) = Bytes(new[n])
    BY PlaceCases DEF Latest
  <2> QED
    BY <2>1 DEF FilesOnce, OnceInv, LatestOnce
<1>2. ASSUME NEW u \in Upload PROVE Distinct(Bytes(unew[u]))
  <2>1. <<"upload", u>> \in Places /\ Latest(<<"upload", u>>) = Bytes(unew[u])
    BY PlaceCases DEF Latest
  <2> QED
    BY <2>1 DEF FilesOnce, OnceInv, LatestOnce
<1> QED
  BY <1>1, <1>2 DEF Shrinks

\* A deleted row, and one without contents, have shrunk.
LEMMA EmptyShrinks ==
    ASSUME NEW v, NEW w, w.st # "live" \/ w.data = << >>
    PROVE  Shrinks(v, w)
BY EmptyBytes DEF Shrinks, Bytes

LEMMA LockTame ==
    ASSUME FilesOnce, NEW s \in Sess, NEW n \in Node, LockWaits(s, n) = {}, Lock(s, n),
           UNCHANGED <<db, new>>
    PROVE  RowTame(s)
<1>1. /\ owner[n] \in {s, None} /\ new' = [new EXCEPT ![n] = new[n]]
      /\ owner' = [owner EXCEPT ![n] = s]
  BY RowSeen DEF FilesOnce, FilesInv, RowsOK, RowsTyped, Lock
<1> QED
  BY <1>1, RowDistinct, RowTameOne DEF FilesOnce

LEMMA KillTame ==
    ASSUME FilesInv, NEW s \in Sess, NEW u \in Upload, uowner[u] \in {s, None},
           unew' = [unew EXCEPT ![u].st = "dead"], udb' = udb,
           uowner' = [uowner EXCEPT ![u] = s]
    PROVE  UpTame(s)
<1> DEFINE v == [unew[u] EXCEPT !.st = "dead"]
<1>1. unew[u] \in UploadRow
  BY DEF FilesInv, UpsOK, UpsTyped
<1>2. v.st = "dead"
  BY <1>1 DEF UploadRow
<1>3. unew' = [unew EXCEPT ![u] = v]
  OBVIOUS
<1> HIDE DEF v
<1>4. Shrinks(unew[u], v)
  BY <1>2, EmptyShrinks
<1> QED
  BY <1>3, <1>4, UpTameOne

LEMMA ReturnKeeps ==
    ASSUME FilesInv, NEW s \in Sess, pc[s] \notin {"idle"}, NEW ok, Return(s, ok), left' = left
    PROVE  Keeps(s) /\ Answers(s)
<1>1. f[s] \in Frame /\ f'[s] = [f[s] EXCEPT !.out = IF ok THEN "true" ELSE "false"]
  BY DEF FilesInv, LocalsTyped, Return
<1>2. f'[s].content = f[s].content
  BY <1>1 DEF Frame
<1>3. pc'[s] = "commit" /\ \A t \in Sess \ {s} : f'[t] = f[t] /\ pc'[t] = pc[t]
  BY DEF FilesInv, LocalsTyped, Return, Goto
<1> QED
  BY <1>2, <1>3 DEF Keeps, Answers, Others

LEMMA RefuseOnce ==
    ASSUME FilesOnce, NEW s \in Sess, pc[s] \in Holding, Refuse(s), left' = left
    PROVE  UpTame(s) /\ Keeps(s)
<1>1. Keeps(s)
  BY ReturnKeeps DEF Refuse, FilesOnce, Holding
<1>2. CASE Finishing(s)
  <2>1. /\ f[s].call.up \in Upload /\ uowner[f[s].call.up] = s
        /\ uowner' = [uowner EXCEPT ![f[s].call.up] = s]
    BY <1>2, HoldsUpload DEF Refuse, Discard, FilesOnce, FilesInv, UpsOK, UpsTyped
  <2>2. UpTame(s)
    BY <1>2, <2>1, KillTame DEF Refuse, Discard, FilesOnce
  <2> QED
    BY <1>1, <2>2
<1>3. CASE ~Finishing(s)
  BY <1>1, <1>3, UpTameSame DEF Refuse
<1> QED
  BY <1>2, <1>3

\* The walk goes on with the content of fr.
Lands(s, fr) == /\ \A t \in Sess \ {s} : f'[t] = f[t] /\ pc'[t] = pc[t]
                /\ pc'[s] # "idle" /\ f'[s].content = fr.content
                /\ UNCHANGED uploadVars

LEMMA FoundLands ==
    ASSUME FilesInv, NEW s \in Sess, NEW fr \in Frame, NEW n \in Node, Found(s, fr, n)
    PROVE  Lands(s, fr) \/ (fr.goal = "parent" /\ Refuse(s))
<1> DEFINE fr1 == [fr EXCEPT !.cur = n, !.rest = << >>]
<1>1. SUFFICES ASSUME ~(fr.goal = "parent" /\ Refuse(s)) PROVE Lands(s, fr)
  OBVIOUS
<1>2. PICK label \in Labels \ {"idle"},
           g \in {fr1, [fr1 EXCEPT !.row = n], [fr1 EXCEPT !.out = "false"]} :
           Goto(s, label) /\ f' = [f EXCEPT ![s] = g] /\ UNCHANGED uploadVars
  <2>1. /\ {"insert", "fin_node", "read", "meta", "commit", "write"} \subseteq Labels \ {"idle"}
    BY DEF Labels
  <2>2. CASE fr.goal = "parent"
    BY <1>1, <2>1, <2>2 DEF Found
  <2>3. CASE fr.goal = "node"
    BY <2>1, <2>3 DEF Found
  <2> QED
    BY <2>2, <2>3 DEF Frame
<1>3. g.content = fr.content
  BY <1>2 DEF Frame
<1> HIDE DEF fr1
<1> QED
  BY <1>2, <1>3 DEF Lands, Goto, FilesInv, LocalsTyped

LEMMA StartWalkLands ==
    ASSUME FilesInv, NEW s \in Sess, NEW fr \in Frame, NEW path, StartWalk(s, fr, path)
    PROVE  Lands(s, fr) \/ (fr.goal = "parent" /\ Refuse(s))
<1>1. CASE path = << >>
  <2>1. RootOf[s] \in Node
    BY FilesAssumption
  <2> QED
    BY <1>1, <2>1, FoundLands DEF StartWalk
<1>2. CASE path # << >>
  <2> DEFINE g == [fr EXCEPT !.cur = RootOf[s], !.rest = path]
  <2>1. Goto(s, "walk") /\ f' = [f EXCEPT ![s] = g] /\ UNCHANGED uploadVars
    BY <1>2 DEF StartWalk
  <2>2. g.content = fr.content
    BY DEF Frame
  <2> HIDE DEF g
  <2> QED
    BY <2>1, <2>2 DEF Lands, Goto, FilesInv, LocalsTyped
<1> QED
  BY <1>1, <1>2

\* A walk under way.
LEMMA LandsOnce ==
    ASSUME FilesOnce, NEW s \in Sess, pc[s] \in Holding, NEW fr, fr.content = f[s].content,
           Lands(s, fr) \/ Refuse(s), left' = left
    PROVE  UpTame(s) /\ Keeps(s)
<1>1. CASE Lands(s, fr)
  BY <1>1, UpTameSame DEF Lands, Keeps, Others, Holding
<1> QED
  BY <1>1, RefuseOnce

LEMMA ToParentOnce ==
    ASSUME FilesOnce, NEW s \in Sess, pc[s] \in Holding, ToParent(s, Path(s)), left' = left
    PROVE  UpTame(s) /\ Keeps(s)
<1> DEFINE fr == [f[s] EXCEPT !.goal = "parent"]
<1>1. fr \in Frame /\ fr.content = f[s].content
  BY CallFacts DEF FilesOnce, Frame
<1>2. StartWalk(s, fr, Parent(Path(s)))
  BY DEF ToParent
<1> HIDE DEF fr
<1>3. Lands(s, fr) \/ Refuse(s)
  BY <1>1, <1>2, StartWalkLands DEF FilesOnce
<1> QED
  BY <1>1, <1>3, LandsOnce

-----------------------------------------------------------------------------
(* One lemma per action *)

LEMMA WalkOnce ==
    ASSUME FilesOnce, NEW s \in Sess, Walk(s)
    PROVE  OnceInv'
<1> DEFINE c == Child(s, f[s].cur, Head(f[s].rest))
<1>1. pc[s] = "walk" /\ left' = left /\ UNCHANGED rowVars /\ pc[s] \in Holding
  BY DEF Walk, At, Stay, Holding
<1>2. f[s] \in Frame /\ LocalsTyped /\ (c # None => c \in Node)
  BY CallFacts, ChildType DEF FilesOnce
<1>3. UpTame(s) /\ Keeps(s)
  <2>1. CASE c # None /\ Len(f[s].rest) = 1
    <3>1. Found(s, f[s], c)
      BY <2>1 DEF Walk
    <3>2. Lands(s, f[s]) \/ Refuse(s)
      BY <1>2, <2>1, <3>1, FoundLands DEF FilesOnce
    <3> QED
      BY <1>1, <3>2, LandsOnce
  <2>2. CASE c # None /\ Len(f[s].rest) # 1 /\ Len(f[s].rest) > 1
    <3>1. f' = [f EXCEPT ![s].cur = c, ![s].rest = Tail(@)] /\ UNCHANGED <<uploadVars, pc>>
      BY <2>2 DEF Walk
    <3>2. f'[s].content = f[s].content /\ \A t \in Sess \ {s} : f'[t] = f[t]
      BY <1>2, <3>1 DEF LocalsTyped, Frame
    <3> QED
      BY <1>1, <3>1, <3>2, UpTameSame DEF Keeps, Others
  <2>3. CASE c = None /\ f[s].goal = "node"
             /\ f[s].call.op \in {"write_file_atomic", "finish_upload"}
    <3>1. ToParent(s, Path(s))
      BY <2>3 DEF Walk
    <3> QED
      BY <1>1, <3>1, ToParentOnce
  <2>4. CASE c = None /\ ~(f[s].goal = "node"
             /\ f[s].call.op \in {"write_file_atomic", "finish_upload"})
    <3>1. Refuse(s)
      BY <2>4 DEF Walk
    <3> QED
      BY <1>1, <3>1, RefuseOnce
  <2>5. Len(f[s].rest) = 1 \/ Len(f[s].rest) > 1
    BY <1>1, CallFacts, LastPart DEF FilesOnce, PcLocal
  <2> HIDE DEF c
  <2> QED
    BY <2>1, <2>2, <2>3, <2>4, <2>5
<1> QED
  BY <1>1, <1>3, RowTameSame, TamePlaces, TameStep

LEMMA CommitStepOnce ==
    ASSUME FilesOnce, NEW s \in Sess, Commit(s)
    PROVE  OnceInv'
<1>1. Releases(s) /\ Installs(s) /\ left' = left
  BY CommitPlaces DEF Commit, Stay
<1>2. Others(s) /\ f'[s].content = << >>
  BY <1>1 DEF Commit, Goto, FilesOnce, FilesInv, LocalsTyped, Others, Fresh
<1> QED
  BY <1>1, <1>2, CommitOnce

LEMMA RaiseOnce ==
    ASSUME FilesOnce, NEW s \in Sess, Raise(s), left' = left
    PROVE  OnceInv'
<1>1. Releases(s) /\ Reverts(s)
  BY RevertPlaces DEF Raise
<1>2. /\ Others(s) /\ f'[s].content \in {f[s].content, << >>}
      /\ pc'[s] = "idle" => f'[s].content = << >>
  BY CallFacts DEF Raise, Goto, FilesOnce, LocalsTyped, Frame, Others, Fresh
<1> QED
  BY <1>1, <1>2, RevertStep

LEMMA InsertOnce ==
    ASSUME FilesOnce, NEW s \in Sess, Insert(s)
    PROVE  OnceInv'
<1> DEFINE p == f[s].cur
           nm == Base(Path(s))
<1>1. pc[s] = "insert" /\ left' = left /\ pc[s] \in Holding
  BY DEF Insert, At, Stay, Holding
<1>2. CASE UniqueConflict(s, p, nm) /\ Exclusive(s)
  <2>1. Refuse(s) /\ UNCHANGED rowVars
    BY <1>2 DEF Insert
  <2> QED
    BY <1>1, <2>1, RefuseOnce, RowTameSame, TamePlaces, TameStep
<1>3. CASE UniqueConflict(s, p, nm) /\ ~Exclusive(s)
  <2>1. Goto(s, "again") /\ UNCHANGED <<rowVars, uploadVars, f>>
    BY <1>3 DEF Insert
  <2>2. Keeps(s)
    BY <1>1, <2>1 DEF Goto, FilesOnce, FilesInv, LocalsTyped, Keeps, Others
  <2> QED
    BY <2>1, <2>2, UpTameSame, RowTameSame, TamePlaces, TameStep
<1>4. CASE ~UniqueConflict(s, p, nm)
  <2>1. /\ FreeIds # {} /\ InsertRow(s, FreshId, FileRow(p, nm))
        /\ f' = [f EXCEPT ![s].row = FreshId, ![s].made = TRUE]
        /\ Goto(s, "fk") /\ UNCHANGED <<db, shares, uploadVars>>
    BY <1>4 DEF Insert
  <2>2. PICK n \in Node : n = FreshId /\ owner[n] = None
    BY <2>1, FreshIdFree
  <2>3. Keeps(s)
    BY <1>1, <2>1, CallFacts DEF Goto, FilesOnce, LocalsTyped, Frame, Keeps, Others
  <2>4. Shrinks(new[n], FileRow(p, nm))
    BY EmptyShrinks DEF FileRow
  <2>5. new' = [new EXCEPT ![n] = FileRow(p, nm)] /\ owner' = [owner EXCEPT ![n] = s] /\ db' = db
    BY <2>1, <2>2 DEF InsertRow
  <2>6. RowTame(s)
    BY <2>2, <2>4, <2>5, RowTameOne DEF FilesOnce
  <2> QED
    BY <2>1, <2>3, <2>6, UpTameSame, TamePlaces, TameStep
<1> QED
  BY <1>2, <1>3, <1>4

LEMMA FkCheckOnce ==
    ASSUME FilesOnce, NEW s \in Sess, FkCheck(s)
    PROVE  OnceInv'
<1>1. pc[s] = "fk" /\ left' = left
  BY DEF FkCheck, At, Stay
<1>2. CASE ~Live(s, f[s].cur)
  BY <1>1, <1>2, RaiseOnce DEF FkCheck
<1>3. CASE Live(s, f[s].cur)
  <2>1. Goto(s, Publishing(s)) /\ UNCHANGED <<db, new, owner, uploadVars, f>>
    BY <1>3 DEF FkCheck
  <2>2. Keeps(s)
    BY <1>1, <2>1 DEF Goto, Publishing, FilesOnce, FilesInv, LocalsTyped, Keeps, Others
  <2>3. RowTame(s)
    BY <2>1 DEF RowTame
  <2> QED
    BY <2>1, <2>2, <2>3, UpTameSame, TamePlaces, TameStep
<1> QED
  BY <1>2, <1>3

LEMMA AgainOnce ==
    ASSUME FilesOnce, NEW s \in Sess, Again(s)
    PROVE  OnceInv'
<1> DEFINE c == Child(s, f[s].cur, Base(Path(s)))
<1>1. /\ pc[s] = "again" /\ left' = left /\ UNCHANGED <<db, new, shares>>
      /\ pc[s] \in Holding
  BY DEF Again, At, Stay, Holding
<1>2. CASE c = None
  <2>1. Refuse(s) /\ UNCHANGED owner
    BY <1>2 DEF Again
  <2> QED
    BY <1>1, <2>1, RefuseOnce, RowTameSame, TamePlaces, TameStep DEF rowVars
<1>3. CASE c # None
  <2>1. PICK n \in Node : n = c
    BY <1>3, ChildType
  <2>2. LockWaits(s, n) = {} /\ Lock(s, n)
    BY <1>3, <2>1 DEF Again
  <2>3. RowTame(s)
    BY <1>1, <2>2, LockTame
  <2>4. CASE Seen(s, n).dir
    <3>1. Refuse(s)
      BY <1>3, <2>1, <2>4 DEF Again
    <3> QED
      BY <1>1, <2>3, <3>1, RefuseOnce, TamePlaces, TameStep
  <2>5. CASE ~Seen(s, n).dir
    <3>1. /\ f' = [f EXCEPT ![s].row = n, ![s].size = Seen(s, n).size]
          /\ Goto(s, Publishing(s)) /\ UNCHANGED uploadVars
      BY <1>3, <2>1, <2>5 DEF Again
    <3>2. f'[s].content = f[s].content /\ \A t \in Sess \ {s} : f'[t] = f[t] /\ pc'[t] = pc[t]
      BY <3>1, CallFacts DEF FilesOnce, LocalsTyped, Frame, Goto
    <3>3. pc'[s] # "idle"
      BY <3>1 DEF FilesOnce, FilesInv, LocalsTyped, Goto, Publishing
    <3>4. Keeps(s)
      BY <1>1, <3>2, <3>3 DEF Keeps, Others
    <3> QED
      BY <2>3, <3>1, <3>4, UpTameSame, TamePlaces, TameStep
  <2> QED
    BY <2>4, <2>5
<1> QED
  BY <1>2, <1>3

\* New contents of one file.
LEMMA PutPlaces ==
    ASSUME FilesInv, NEW s \in Sess, NEW n \in Node, new[n].st = "live", NEW data,
           Put(s, n, data), db' = db, udb' = udb
    PROVE  LET p == <<"file", n>> IN
           /\ p \in Places /\ Holder(p) = owner[n] /\ Holder(p)' = s
           /\ Latest(p) = new[n].data /\ Latest(p)' = data
           /\ \A m \in Node : m # n => owner'[m] = owner[m] /\ new'[m] = new[m]
           /\ \A q \in Places : Old(q)' = Old(q)
<1>1. new \in [Node -> Row] /\ owner \in [Node -> Sess \cup {None}] /\ new[n] \in Row
  BY DEF FilesInv, RowsOK, RowsTyped
<1>2. /\ new'[n].data = data /\ new'[n].st = "live" /\ owner'[n] = s
      /\ \A m \in Node : m # n => owner'[m] = owner[m] /\ new'[m] = new[m]
  BY <1>1 DEF Put, Lock, Row
<1> QED
  BY <1>2, PlaceCases DEF Holder, Latest, Old, Bytes

LEMMA WriteOnce ==
    ASSUME FilesOnce, NEW s \in Sess, Write(s)
    PROVE  OnceInv'
<1>1. /\ pc[s] = "write" /\ left' = left /\ f[s].row \in Node /\ LockWaits(s, f[s].row) = {}
  BY CallFacts DEF FilesOnce, Write, At, Stay, PcLocal
<1>2. PICK n \in Node : n = f[s].row
  BY <1>1
<1>3. owner[n] \in {s, None} /\ Seen(s, n) = new[n]
  BY <1>1, <1>2, RowSeen DEF FilesOnce, FilesInv
<1>4. CASE Live(s, n)
  <2>1. /\ Put(s, n, f[s].content) /\ Return(s, TRUE)
        /\ UNCHANGED <<db, shares, uploadVars>>
    BY <1>2, <1>4 DEF Write, Put, Lock
  <2>2. PICK p \in Places : p = <<"file", n>>
    BY PlaceCases
  <2>3. /\ Holder(p) \in {s, None} /\ Holder(p)' = s /\ Latest(p)' = f[s].content
        /\ \A m \in Node : m # n => owner'[m] = owner[m] /\ new'[m] = new[m]
        /\ \A q \in Places : Old(q)' = Old(q)
    BY <1>3, <1>4, <2>1, <2>2, PutPlaces DEF FilesOnce, Live, uploadVars
  <2>4. \A q \in Places \ {p} : Holder(q)' = Holder(q) /\ Latest(q)' = Latest(q)
    BY <2>1, <2>2, <2>3, PlaceCases DEF Holder, Latest, uploadVars
  <2>5. Toks(Latest(p)') \subseteq Carried(s) /\ Distinct(Latest(p)')
    BY <2>3 DEF Carried, FilesOnce, OnceInv, CarriedOnce
  <2>6. Fills(s)
    BY <1>1, <2>3, <2>4, <2>5, FillOne
  <2>7. Answers(s)
    BY <1>1, <2>1, ReturnKeeps DEF FilesOnce
  <2> QED
    BY <2>6, <2>7, FillStep
<1>5. CASE ~Live(s, n) /\ f[s].content = << >>
  <2>1. Return(s, TRUE) /\ UNCHANGED <<rowVars, uploadVars>>
    BY <1>2, <1>5 DEF Write
  <2>2. Keeps(s)
    BY <1>1, <2>1, ReturnKeeps DEF FilesOnce
  <2> QED
    BY <2>1, <2>2, RowTameSame, UpTameSame, TamePlaces, TameStep
<1>6. CASE ~Live(s, n) /\ f[s].content # << >>
  <2>1. Raise(s)
    BY <1>2, <1>6 DEF Write
  <2> QED
    BY <1>1, <2>1, RaiseOnce
<1> QED
  BY <1>4, <1>5, <1>6

LEMMA ReadOnce ==
    ASSUME FilesOnce, NEW s \in Sess, Read(s)
    PROVE  OnceInv'
<1>1. /\ pc[s] = "read" /\ left' = left /\ UNCHANGED <<rowVars, uploadVars>>
      /\ Goto(s, "idle")
  BY DEF Read, At, Stay
<1>2. f'[s].content = << >> /\ \A t \in Sess \ {s} : f'[t] = f[t]
  BY DEF Read, Fresh, FilesOnce, FilesInv, LocalsTyped
<1>3. Keeps(s)
  BY <1>1, <1>2 DEF Keeps, Others, Goto, FilesOnce, FilesInv, LocalsTyped
<1> QED
  BY <1>1, <1>3, RowTameSame, UpTameSame, TamePlaces, TameStep

LEMMA SetMetadataOnce ==
    ASSUME FilesOnce, NEW s \in Sess, SetMetadata(s)
    PROVE  OnceInv'
<1>1. /\ pc[s] = "meta" /\ left' = left /\ f[s].row \in Node /\ LockWaits(s, f[s].row) = {}
      /\ UNCHANGED <<db, shares, uploadVars>>
  BY CallFacts DEF FilesOnce, SetMetadata, At, Stay, PcLocal
<1>2. CASE Live(s, f[s].row)
  <2> DEFINE n == f[s].row
             v == [new[n] EXCEPT !.meta[f[s].call.key] = f[s].content[1]]
  <2>1. new' = [new EXCEPT ![n] = v] /\ owner' = [owner EXCEPT ![n] = s] /\ Return(s, TRUE)
    BY <1>2 DEF SetMetadata, Lock
  <2>2. new[n] \in Row /\ owner[n] \in {s, None}
    BY <1>1, RowSeen DEF FilesOnce, FilesInv, RowsOK, RowsTyped
  <2>3. v.st = new[n].st /\ v.data = new[n].data
    BY <2>2 DEF Row
  <2> HIDE DEF v
  <2>4. Shrinks(new[n], v)
    BY <1>1, <2>3, RowDistinct DEF Shrinks, Bytes
  <2>5. RowTame(s)
    BY <1>1, <2>1, <2>2, <2>4, RowTameOne DEF FilesOnce
  <2>6. Keeps(s)
    BY <1>1, <2>1, ReturnKeeps DEF FilesOnce
  <2> QED
    BY <1>1, <2>5, <2>6, UpTameSame, TamePlaces, TameStep
<1>3. CASE ~Live(s, f[s].row)
  <2>1. Return(s, FALSE) /\ UNCHANGED <<new, owner>>
    BY <1>3 DEF SetMetadata
  <2>2. Keeps(s)
    BY <1>1, <2>1, ReturnKeeps DEF FilesOnce
  <2> QED
    BY <1>1, <2>1, <2>2, RowTameSame, UpTameSame, TamePlaces, TameStep DEF rowVars
<1> QED
  BY <1>2, <1>3

LEMMA StartUploadOnce ==
    ASSUME FilesOnce, NEW s \in Sess, StartUpload(s)
    PROVE  OnceInv'
<1>1. /\ pc[s] = "su_insert" /\ left' = left /\ UNCHANGED <<db, new, owner, udb>>
      /\ U!FreeIds # {} /\ Return(s, TRUE)
  BY DEF StartUpload, At, Stay
<1>2. PICK u \in Upload : u = U!FreshId /\ uowner[u] = None
  BY <1>1, FreshUploadFree
<1> DEFINE v == [NoUpload EXCEPT !.st = "live", !.root = RootOf[s], !.path = f[s].call.path,
                                 !.excl = f[s].call.excl, !.app = f[s].call.app,
                                 !.created_at = f[s].now]
<1>3. v.data = << >>
  BY DEF NoUpload
<1>4. unew' = [unew EXCEPT ![u] = v] /\ uowner' = [uowner EXCEPT ![u] = s] /\ udb' = udb
  BY <1>1, <1>2 DEF StartUpload, U!InsertRow
<1> HIDE DEF v
<1>5. UpTame(s)
  BY <1>2, <1>3, <1>4, EmptyShrinks, UpTameOne DEF FilesOnce
<1>6. Keeps(s)
  BY <1>1, ReturnKeeps DEF FilesOnce
<1>7. RowTame(s)
  BY <1>1 DEF RowTame
<1> QED
  BY <1>1, <1>5, <1>6, <1>7, TamePlaces, TameStep

LEMMA Appending ==
    ASSUME NEW a \in Seq(Nat), NEW b \in Seq(Nat)
    PROVE  /\ Toks(a \o b) \subseteq Toks(a) \cup Toks(b)
           /\ Distinct(a) /\ Distinct(b) /\ Toks(a) \cap Toks(b) = {} => Distinct(a \o b)
<1>1. PICK k \in Nat, m \in Nat : k = Len(a) /\ m = Len(b)
  BY LenProperties
<1>2. /\ a \o b \in Seq(Nat) /\ Len(a \o b) = k + m
      /\ \A i \in 1 .. k + m : (a \o b)[i] = IF i <= k THEN a[i] ELSE b[i - k]
  BY <1>1, ConcatProperties
<1>3. DOMAIN a = 1 .. k /\ DOMAIN b = 1 .. m /\ DOMAIN (a \o b) = 1 .. k + m
  BY <1>1, <1>2, LenProperties
<1>4. \A i \in 1 .. k + m : i <= k => i \in 1 .. k
  OBVIOUS
<1>5. \A i \in 1 .. k + m : ~(i <= k) => i - k \in 1 .. m
  OBVIOUS
<1>6. Toks(a \o b) \subseteq Toks(a) \cup Toks(b)
  BY <1>2, <1>3, <1>4, <1>5 DEF Toks
<1>7. ASSUME Distinct(a), Distinct(b), Toks(a) \cap Toks(b) = {},
             NEW i \in 1 .. k + m, NEW j \in 1 .. k + m, (a \o b)[i] = (a \o b)[j]
      PROVE  i = j
  <2>1. CASE i <= k /\ j <= k
    BY <1>2, <1>3, <1>4, <1>7, <2>1 DEF Distinct
  <2>2. CASE ~(i <= k) /\ ~(j <= k)
    <3>1. i - k \in 1 .. m /\ j - k \in 1 .. m /\ b[i - k] = b[j - k]
      BY <1>2, <1>5, <1>7, <2>2
    <3>2. i - k = j - k
      BY <1>3, <1>7, <3>1 DEF Distinct
    <3> QED
      BY <3>2
  <2>3. CASE i <= k /\ ~(j <= k)
    <3>1. a[i] \in Toks(a) /\ b[j - k] \in Toks(b) /\ a[i] = b[j - k]
      BY <1>2, <1>3, <1>4, <1>5, <1>7, <2>3 DEF Toks
    <3> QED
      BY <1>7, <3>1
  <2>4. CASE ~(i <= k) /\ j <= k
    <3>1. a[j] \in Toks(a) /\ b[i - k] \in Toks(b) /\ a[j] = b[i - k]
      BY <1>2, <1>3, <1>4, <1>5, <1>7, <2>4 DEF Toks
    <3> QED
      BY <1>7, <3>1
  <2> QED
    BY <2>1, <2>2, <2>3, <2>4
<1>8. Distinct(a) /\ Distinct(b) /\ Toks(a) \cap Toks(b) = {} => Distinct(a \o b)
  BY <1>3, <1>7 DEF Distinct
<1> QED
  BY <1>6, <1>8

LEMMA Prefix ==
    ASSUME NEW a \in Seq(Nat), NEW n \in Nat, n <= Len(a)
    PROVE  /\ SubSeq(a, 1, n) \in Seq(Nat)
           /\ Toks(SubSeq(a, 1, n)) \subseteq Toks(a)
           /\ Distinct(a) => Distinct(SubSeq(a, 1, n))
<1>1. PICK k \in Nat : k = Len(a) /\ DOMAIN a = 1 .. k
  BY LenProperties
<1>2. SubSeq(a, 1, n) = [i \in 1 .. n |-> a[i]]
  BY DEF SubSeq
<1>3. SubSeq(a, 1, n) \in Seq(Nat)
  BY PrefixSeq
<1>4. 1 .. n \subseteq 1 .. k
  BY <1>1
<1> QED
  BY <1>1, <1>2, <1>3, <1>4 DEF Toks, Distinct

LEMMA UploadPartOnce ==
    ASSUME FilesOnce, NEW s \in Sess, UploadPart(s)
    PROVE  OnceInv'
<1> DEFINE u == f[s].call.up
<1>1. /\ pc[s] = "up_lock" /\ left' = left /\ UNCHANGED <<rowVars, udb>>
      /\ UploadWaits(s, u) = {}
  BY DEF UploadPart, At, Stay
<1>2. /\ u \in Upload /\ unew[u] \in UploadRow
      /\ Own(s, u) => uowner[u] \in {s, None} /\ unew[u].st = "live"
  BY <1>1, UploadFacts DEF FilesOnce
<1>3. CASE Own(s, u)
  <2>1. /\ U!Lock(s, u) /\ Return(s, TRUE)
        /\ unew' = [unew EXCEPT ![u].data = @ \o f[s].content,
                                ![u].size = @ + Len(f[s].content)]
    BY <1>3 DEF UploadPart
  <2>2. PICK w \in Upload : w = u
    BY <1>2
  <2>3. /\ unew[w].data \in Seq(Nat) /\ f[s].content \in Seq(Nat) /\ unew[w].st = "live"
    BY <1>2, <1>3, <2>2, CallFacts DEF FilesOnce, UploadRow, Content
  <2>4. /\ unew'[w].data = unew[w].data \o f[s].content /\ unew'[w].st = unew[w].st
        /\ uowner'[w] = s
        /\ \A x \in Upload : x # w => uowner'[x] = uowner[x] /\ unew'[x] = unew[x]
    BY <1>2, <2>1, <2>2 DEF U!Lock, FilesOnce, FilesInv, UpsOK, UpsTyped, UploadRow
  <2>5. PICK p \in Places : p = <<"upload", w>>
    BY PlaceCases
  <2>6. /\ Holder(p) \in {s, None} /\ Holder(p)' = s
        /\ Latest(p) = unew[w].data /\ Latest(p)' = unew[w].data \o f[s].content
        /\ \A q \in Places : Old(q)' = Old(q)
        /\ \A q \in Places \ {p} : Holder(q)' = Holder(q) /\ Latest(q)' = Latest(q)
    <3>1. /\ Holder(p) \in {s, None} /\ Holder(p)' = s
          /\ Latest(p) = unew[w].data /\ Latest(p)' = unew[w].data \o f[s].content
      BY <1>2, <1>3, <2>2, <2>3, <2>4, <2>5 DEF Holder, Latest, Bytes
    <3>2. \A q \in Places : Old(q)' = Old(q)
      BY <1>1 DEF Old, rowVars
    <3>3. \A q \in Places \ {p} : Holder(q)' = Holder(q) /\ Latest(q)' = Latest(q)
      BY <1>1, <2>4, <2>5, PlaceCases DEF Holder, Latest, rowVars
    <3> QED
      BY <3>1, <3>2, <3>3
  <2>7. /\ Distinct(Latest(p)) /\ Distinct(f[s].content)
        /\ Carried(s) \cap Toks(Latest(p)) = {}
    BY <1>1, <2>6, TakenSource DEF FilesOnce, OnceInv, LatestOnce, CarriedOnce
  <2>8. Toks(Latest(p)') \subseteq Toks(Latest(p)) \cup Carried(s) /\ Distinct(Latest(p)')
    BY <2>3, <2>6, <2>7, Appending DEF Carried
  <2>9. Fills(s)
    BY <1>1, <2>6, <2>8, FillOne
  <2>10. Answers(s)
    BY <1>1, <2>1, ReturnKeeps DEF FilesOnce
  <2> QED
    BY <2>9, <2>10, FillStep
<1>4. CASE ~Own(s, u)
  <2>1. Return(s, FALSE) /\ UNCHANGED <<unew, uowner>>
    BY <1>4 DEF UploadPart
  <2>2. Keeps(s)
    BY <1>1, <2>1, ReturnKeeps DEF FilesOnce
  <2> QED
    BY <1>1, <2>1, <2>2, RowTameSame, UpTameSame, TamePlaces, TameStep DEF uploadVars
<1> QED
  BY <1>3, <1>4

LEMMA FinUploadOnce ==
    ASSUME FilesOnce, NEW s \in Sess, FinUpload(s)
    PROVE  OnceInv'
<1> DEFINE u == f[s].call.up
<1>1. /\ pc[s] = "fin_upload" /\ left' = left /\ UNCHANGED rowVars /\ UploadWaits(s, u) = {}
  BY DEF FinUpload, At, Stay
<1>2. u \in Upload /\ (Own(s, u) => uowner[u] \in {s, None})
  BY <1>1, UploadFacts DEF FilesOnce
<1>3. CASE ~Own(s, u)
  <2>1. Return(s, FALSE) /\ UNCHANGED uploadVars
    BY <1>3 DEF FinUpload
  <2>2. Keeps(s)
    BY <1>1, <2>1, ReturnKeeps DEF FilesOnce
  <2> QED
    BY <1>1, <2>1, <2>2, RowTameSame, UpTameSame, TamePlaces, TameStep
<1>4. CASE Own(s, u) /\ f[s].call.size = "differ"
  <2>1. /\ unew' = [unew EXCEPT ![u].st = "dead"]
        /\ U!Lock(s, u) /\ Return(s, FALSE) /\ UNCHANGED udb
    BY <1>4 DEF FinUpload
  <2>2. UpTame(s)
    BY <1>2, <1>4, <2>1, KillTame DEF U!Lock, FilesOnce
  <2>3. Keeps(s)
    BY <1>1, <2>1, ReturnKeeps DEF FilesOnce
  <2> QED
    BY <1>1, <2>2, <2>3, RowTameSame, TamePlaces, TameStep
<1>5. CASE Own(s, u) /\ f[s].call.size # "differ"
  <2>1. /\ U!Lock(s, u) /\ Goto(s, "walk") /\ f' = [f EXCEPT ![s].rest = unew[u].path]
        /\ UNCHANGED <<udb, unew>>
    BY <1>5 DEF FinUpload
  <2>2. /\ f'[s].content = f[s].content
        /\ \A t \in Sess \ {s} : f'[t] = f[t] /\ pc'[t] = pc[t]
        /\ pc'[s] = "walk"
    BY <2>1, CallFacts DEF FilesOnce, LocalsTyped, Frame, Goto
  <2>3. Keeps(s)
    BY <1>1, <2>2 DEF Keeps, Others
  <2>4. unew' = [unew EXCEPT ![u] = unew[u]] /\ uowner' = [uowner EXCEPT ![u] = s] /\ udb' = udb
    BY <2>1 DEF U!Lock, FilesOnce, FilesInv, UpsOK, UpsTyped
  <2>5. UpTame(s)
    BY <1>2, <1>5, <2>4, RowDistinct, UpTameOne DEF FilesOnce
  <2> QED
    BY <1>1, <2>3, <2>5, RowTameSame, TamePlaces, TameStep
<1> QED
  BY <1>3, <1>4, <1>5

LEMMA FinNodeOnce ==
    ASSUME FilesOnce, NEW s \in Sess, FinNode(s)
    PROVE  OnceInv'
<1>1. /\ pc[s] = "fin_node" /\ left' = left /\ UNCHANGED <<db, new, shares>>
      /\ LockWaits(s, f[s].cur) = {} /\ pc[s] \in Holding
  BY DEF FinNode, At, Stay, Holding
<1>2. PICK n \in Node : n = f[s].cur
  BY CallFacts DEF FilesOnce
<1>3. CASE ~Live(s, n)
  <2>1. ToParent(s, Path(s)) /\ UNCHANGED owner
    BY <1>2, <1>3 DEF FinNode
  <2> QED
    BY <1>1, <2>1, ToParentOnce, RowTameSame, TamePlaces, TameStep DEF rowVars
<1>4. CASE Live(s, n)
  <2>1. Lock(s, n)
    BY <1>2, <1>4 DEF FinNode
  <2>2. RowTame(s)
    BY <1>1, <1>2, <2>1, LockTame
  <2>3. CASE Seen(s, n).dir \/ Exclusive(s)
    <3>1. Refuse(s)
      BY <1>2, <1>4, <2>3 DEF FinNode
    <3> QED
      BY <1>1, <2>2, <3>1, RefuseOnce, TamePlaces, TameStep
  <2>4. CASE ~(Seen(s, n).dir \/ Exclusive(s))
    <3>1. /\ f' = [f EXCEPT ![s].row = n, ![s].size = Seen(s, n).size]
          /\ Goto(s, "publish") /\ UNCHANGED uploadVars
      BY <1>2, <1>4, <2>4 DEF FinNode
    <3>2. /\ f'[s].content = f[s].content
          /\ \A t \in Sess \ {s} : f'[t] = f[t] /\ pc'[t] = pc[t]
          /\ pc'[s] = "publish"
      BY <3>1, CallFacts DEF FilesOnce, LocalsTyped, Frame, Goto
    <3>3. Keeps(s)
      BY <1>1, <3>2 DEF Keeps, Others
    <3> QED
      BY <2>2, <3>1, <3>3, UpTameSame, TamePlaces, TameStep
  <2> QED
    BY <2>3, <2>4
<1> QED
  BY <1>3, <1>4

LEMMA PublishOnce ==
    ASSUME FilesOnce, NEW s \in Sess, Publish(s)
    PROVE  OnceInv'
<1>1. /\ pc[s] = "publish" /\ left' = left /\ pc[s] \in Holding
  BY DEF Publish, At, Stay, Holding
<1> DEFINE append == Staged(s).app /\ ~f[s].made
           data == IF append THEN Appended(s) ELSE Staged(s).data
<1>2. CASE ~append /\ f[s].call.sha = "differ"
  <2>1. Refuse(s) /\ UNCHANGED rowVars
    BY <1>2 DEF Publish
  <2> QED
    BY <1>1, <2>1, RefuseOnce, RowTameSame, TamePlaces, TameStep
<1>3. CASE ~(~append /\ f[s].call.sha = "differ")
  <2>1. Put(s, f[s].row, data) /\ Return(s, TRUE) /\ Discard(s) /\ UNCHANGED <<db, shares>>
    BY <1>3 DEF Publish
  <2>2. /\ f[s].row \in Node /\ owner[f[s].row] = s /\ new[f[s].row].st = "live"
        /\ Finishing(s) /\ (~f[s].made => f[s].size <= Len(new[f[s].row].data))
    BY <1>1, CallFacts DEF FilesOnce, PcLocal, PcHolds, LabelOK, Finishing
  <2>3. /\ f[s].call.up \in Upload /\ uowner[f[s].call.up] = s
        /\ unew[f[s].call.up].st = "live" /\ unew[f[s].call.up] \in UploadRow
    BY <1>1, <2>2, HoldsUpload DEF FilesOnce
  <2>4. PICK n \in Node, w \in Upload : n = f[s].row /\ w = f[s].call.up
    BY <2>2, <2>3
  <2>5. PICK p \in Places, u \in Places : p = <<"file", n>> /\ u = <<"upload", w>> /\ p # u
    BY PlaceCases
  <2>6. PICK d \in Seq(Nat), e \in Seq(Nat) :
            /\ d = new[n].data /\ e = unew[w].data
            /\ data = IF append THEN SubSeq(d, 1, f[s].size) \o e ELSE e
    <3>1. new[n].data \in Seq(Nat) /\ unew[w].data \in Seq(Nat)
      BY <2>3, <2>4, CallFacts DEF FilesOnce, RowsOK, RowsTyped, Row, UploadRow, Content
    <3>2. Seen(s, f[s].row) = new[n] /\ Staged(s) = unew[w]
      BY <2>2, <2>4 DEF Seen, Staged
    <3> QED
      BY <3>1, <3>2 DEF Appended
  <2>7. PICK v : v = data
    OBVIOUS
  <2>8. Put(s, n, v)
    BY <2>1, <2>4, <2>7 DEF Put, Lock
  <2> HIDE DEF data
  <2>9. /\ Holder(p) = s /\ Holder(p)' = s /\ Latest(p) = d /\ Latest(p)' = v
        /\ \A m \in Node : m # n => owner'[m] = owner[m] /\ new'[m] = new[m]
        /\ \A q \in Places : Old(q)' = Old(q)
    <3>1. FilesInv /\ new[n].st = "live" /\ db' = db /\ udb' = udb
      BY <2>1, <2>2, <2>4 DEF FilesOnce, Discard
    <3>2. owner[n] = s /\ new[n].data = d /\ p = <<"file", n>>
      BY <2>2, <2>4, <2>5, <2>6
    <3> HIDE DEF FilesOnce
    <3> QED
      BY <2>8, <3>1, <3>2, PutPlaces
  <2>10. /\ unew'[w].st = "dead" /\ uowner' = uowner
         /\ \A x \in Upload : x # w => unew'[x] = unew[x]
    BY <2>1, <2>3, <2>4 DEF Discard, FilesOnce, FilesInv, UpsOK, UpsTyped, UploadRow
  <2>11. /\ Holder(u) = s /\ Holder(u)' = s /\ Latest(u) = e /\ Latest(u)' = << >>
    BY <2>3, <2>4, <2>5, <2>6, <2>10 DEF Holder, Latest, Bytes
  <2>12. \A q \in Places \ {p, u} : Holder(q)' = Holder(q) /\ Latest(q)' = Latest(q)
    BY <2>5, <2>9, <2>10, PlaceCases DEF Holder, Latest
  <2>13. Distinct(d) /\ Distinct(e) /\ Toks(d) \cap Toks(e) = {}
    <3>1. s # None
      BY PgAssumption
    <3> QED
      BY <2>5, <2>9, <2>11, <3>1 DEF FilesOnce, OnceInv, LatestOnce
  <2>14. Toks(v) \subseteq Toks(d) \cup Toks(e) /\ Distinct(v)
    <3>1. CASE append
      <4>1. PICK b \in Seq(Nat) : /\ b = SubSeq(d, 1, f[s].size)
                                  /\ Toks(b) \subseteq Toks(d) /\ Distinct(b)
        <5>1. f[s].size \in Nat /\ f[s].size <= Len(d)
          BY <2>2, <2>4, <2>6, <3>1, CallFacts DEF FilesOnce
        <5> QED
          BY <2>13, <5>1, Prefix
      <4>2. v = b \o e
        BY <2>6, <2>7, <3>1, <4>1
      <4>3. /\ Toks(b \o e) \subseteq Toks(b) \cup Toks(e)
            /\ Distinct(b) /\ Distinct(e) /\ Toks(b) \cap Toks(e) = {} => Distinct(b \o e)
        BY Appending
      <4>4. Toks(b) \cap Toks(e) = {}
        BY <2>13, <4>1
      <4> QED
        BY <2>13, <4>1, <4>2, <4>3, <4>4
    <3>2. CASE ~append
      BY <2>6, <2>7, <2>13, <3>2
    <3> QED
      BY <3>1, <3>2
  <2>15. Fills(s)
    BY <2>5, <2>9, <2>11, <2>12, <2>14, EmptyBytes, FillTwo
  <2>16. Answers(s)
    BY <1>1, <2>1, ReturnKeeps DEF FilesOnce
  <2> QED
    BY <2>15, <2>16, FillStep
<1> QED
  BY <1>2, <1>3

LEMMA AbortUploadOnce ==
    ASSUME FilesOnce, NEW s \in Sess, AbortUpload(s)
    PROVE  OnceInv'
<1> DEFINE u == f[s].call.up
<1>1. /\ pc[s] = "ab_delete" /\ left' = left /\ UNCHANGED <<rowVars, udb>>
      /\ UploadWaits(s, u) = {}
  BY DEF AbortUpload, At, Stay
<1>2. u \in Upload /\ (Own(s, u) => uowner[u] \in {s, None})
  BY <1>1, UploadFacts DEF FilesOnce
<1>3. UpTame(s)
  <2>1. CASE Own(s, u)
    <3>1. unew' = [unew EXCEPT ![u].st = "dead"] /\ U!Lock(s, u)
      BY <2>1 DEF AbortUpload
    <3> QED
      BY <1>1, <1>2, <2>1, <3>1, KillTame DEF U!Lock, FilesOnce
  <2>2. CASE ~Own(s, u)
    <3>1. UNCHANGED <<unew, uowner>>
      BY <2>2 DEF AbortUpload
    <3> QED
      BY <1>1, <3>1, UpTameSame DEF uploadVars
  <2> QED
    BY <2>1, <2>2
<1>4. Keeps(s)
  <2>1. CASE f[s].out = "error"
    <3>1. Goto(s, "commit") /\ UNCHANGED f
      BY <2>1 DEF AbortUpload
    <3> QED
      BY <1>1, <3>1 DEF Keeps, Others, Goto, FilesOnce, FilesInv, LocalsTyped
  <2>2. CASE f[s].out # "error"
    <3>1. /\ Goto(s, "commit")
          /\ f' = [f EXCEPT ![s].out = IF Own(s, u) THEN "true" ELSE "false"]
      BY <2>2 DEF AbortUpload, Return
    <3>2. /\ f'[s].content = f[s].content /\ pc'[s] = "commit"
          /\ \A t \in Sess \ {s} : f'[t] = f[t] /\ pc'[t] = pc[t]
      BY <3>1, CallFacts DEF FilesOnce, LocalsTyped, Frame, Goto
    <3> QED
      BY <1>1, <3>2 DEF Keeps, Others
  <2> QED
    BY <2>1, <2>2
<1> QED
  BY <1>1, <1>3, <1>4, RowTameSame, TamePlaces, TameStep

LEMMA CleanupOnce ==
    ASSUME FilesOnce, NEW s \in Sess, CleanupScan(s) \/ CleanupDelete(s)
    PROVE  OnceInv'
<1>1. /\ pc[s] \in {"cl_scan", "cl_delete"} /\ left' = left /\ UNCHANGED rowVars
  BY DEF CleanupScan, CleanupDelete, At, Stay
<1>2. ASSUME NEW todo, f' = [f EXCEPT ![s].todo = todo],
             pc' \in {pc, [pc EXCEPT ![s] = "cl_delete"]}
      PROVE  Keeps(s)
  <2>1. /\ f'[s].content = f[s].content /\ pc'[s] \in {pc[s], "cl_delete"}
        /\ \A t \in Sess \ {s} : f'[t] = f[t] /\ pc'[t] = pc[t]
    BY <1>2, CallFacts DEF FilesOnce, LocalsTyped, Frame
  <2> QED
    BY <1>1, <2>1 DEF Keeps, Others
<1>3. CASE CleanupScan(s)
  <2>1. UNCHANGED uploadVars /\ Keeps(s)
    BY <1>2, <1>3 DEF CleanupScan, Goto
  <2> QED
    BY <1>1, <2>1, RowTameSame, UpTameSame, TamePlaces, TameStep
<1>4. CASE CleanupDelete(s) /\ f[s].todo = {}
  <2>1. Return(s, TRUE) /\ UNCHANGED uploadVars
    BY <1>4 DEF CleanupDelete
  <2>2. Keeps(s)
    BY <1>1, <2>1, ReturnKeeps DEF FilesOnce
  <2> QED
    BY <1>1, <2>1, <2>2, RowTameSame, UpTameSame, TamePlaces, TameStep
<1>5. CASE CleanupDelete(s) /\ f[s].todo # {}
  <2>1. PICK u \in f[s].todo :
               /\ U!LockWaits(s, u) = {}
               /\ f' = [f EXCEPT ![s].todo = @ \ {u}]
               /\ IF U!Live(s, u) THEN unew' = [unew EXCEPT ![u].st = "dead"] /\ U!Lock(s, u)
                  ELSE UNCHANGED <<unew, uowner>>
               /\ UNCHANGED <<udb, pc>>
    BY <1>5 DEF CleanupDelete
  <2>2. u \in Upload
    BY <2>1, CallFacts DEF FilesOnce
  <2>3. uowner[u] \in {s, None}
    BY <2>1, <2>2, CallFacts, UpSeen DEF FilesOnce
  <2>4. UpTame(s)
    <3>1. CASE U!Live(s, u)
      BY <2>1, <2>2, <2>3, <3>1, KillTame DEF U!Lock, FilesOnce
    <3>2. CASE ~U!Live(s, u)
      BY <2>1, <3>2, UpTameSame DEF uploadVars
    <3> QED
      BY <3>1, <3>2
  <2>5. f' = [f EXCEPT ![s].todo = f[s].todo \ {u}]
    BY <2>1
  <2>6. Keeps(s)
    BY <1>2, <2>1, <2>5
  <2> QED
    BY <1>1, <2>4, <2>6, RowTameSame, TamePlaces, TameStep
<1> QED
  BY <1>3, <1>4, <1>5

LEMMA FailOnce ==
    ASSUME FilesOnce, NEW s \in Sess, Fail(s) \/ Cancel(s) \/ DeadlockVictim(s)
    PROVE  OnceInv'
<1>1. CASE Fail(s)
  BY <1>1, RaiseOnce DEF Fail, Fault
<1>2. CASE Cancel(s)
  <2>1. Releases(s) /\ Reverts(s)
    BY <1>2, RevertPlaces DEF Cancel
  <2>2. Others(s) /\ f'[s].content = << >>
    BY <1>2 DEF Cancel, Fault, Goto, FilesOnce, FilesInv, LocalsTyped, Others, Fresh
  <2> QED
    BY <2>1, <2>2, RevertStep
<1>3. CASE DeadlockVictim(s)
  BY <1>3, RaiseOnce DEF DeadlockVictim, Stay
<1> QED
  BY <1>1, <1>2, <1>3

\* A call begins, with a token that no row and no other call has.
Starts(s) ==
    /\ UNCHANGED <<rowVars, uploadVars>>
    /\ left \in Nat /\ left > 0 /\ left' = left - 1 /\ pc[s] = "idle"
    /\ \A t \in Sess \ {s} : f'[t] = f[t] /\ pc'[t] = pc[t]
    /\ f'[s].content \in {<< >>, <<left>>}
    /\ pc'[s] = "idle" => f'[s].content = << >>

LEMMA StartsOnce ==
    ASSUME FilesOnce, NEW s \in Sess, Starts(s)
    PROVE  OnceInv'
<1>0. \A k : k \notin 1 .. left => k \notin 1 .. left' /\ k # left
  BY DEF Starts
<1>1. \A p \in Places : Old(p)' = Old(p) /\ Latest(p)' = Latest(p) /\ Holder(p)' = Holder(p)
  BY DEF Starts, rowVars, uploadVars, Old, Latest, Holder
<1>2. Carried(s) = {}
  BY EmptyBytes DEF Starts, FilesOnce, OnceInv, CarriedOnce, Carried
<1>3. /\ Carried(s)' \subseteq {left} /\ left \notin 1 .. left' /\ Distinct(f'[s].content)
  <2>1. Toks(<<left>>) = {left} /\ Distinct(<<left>>)
    BY DEF Toks, Distinct
  <2> QED
    BY <2>1, EmptyBytes DEF Starts, Carried
<1>4. \A t \in Sess \ {s} : Carried(t)' = Carried(t) /\ f'[t] = f[t] /\ pc'[t] = pc[t]
  BY DEF Starts, Carried
<1>5. OldOnce'
  BY <1>0, <1>1 DEF FilesOnce, OnceInv, OldOnce
<1>6. LatestOnce'
  BY <1>1 DEF FilesOnce, OnceInv, LatestOnce
<1>7. Sourced'
  <2>1. ASSUME NEW t \in Sess, NEW p \in Places, Holder(p) = t, NEW k \in Toks(Latest(p))
        PROVE  Source(t, k)'
    <3>1. Source(t, k)
      BY <2>1 DEF FilesOnce, OnceInv, Sourced
    <3>2. k \in Carried(t) => k \in Carried(t)'
      BY <1>2, <1>4
    <3> QED
      BY <1>1, <3>1, <3>2 DEF Source
  <2> QED
    BY <1>1, <2>1 DEF Sourced
<1>8. \A p \in Places : left \notin Toks(Old(p)) /\ (Holder(p) = s => left \notin Toks(Latest(p)))
  <2>1. \A p \in Places : left \notin Toks(Old(p))
    BY <1>0 DEF FilesOnce, OnceInv, OldOnce
  <2>2. ASSUME NEW p \in Places, Holder(p) = s, left \in Toks(Latest(p))
        PROVE  FALSE
    <3>1. Source(s, left)
      BY <2>2 DEF FilesOnce, OnceInv, Sourced
    <3> QED
      BY <1>2, <2>1, <3>1 DEF Source
  <2> QED
    BY <2>1, <2>2
<1>9. CarriedOnce'
  <2>1. ASSUME NEW t \in Sess
        PROVE  /\ pc'[t] = "idle" => f'[t].content = << >>
               /\ Distinct(f'[t].content)
               /\ \A k \in Carried(t)' : k \notin 1 .. left'
    BY <1>0, <1>3, <1>4 DEF Starts, FilesOnce, OnceInv, CarriedOnce
  <2>2. ASSUME NEW t \in Sess, NEW p \in Places
        PROVE  /\ Carried(t)' \cap Toks(Old(p)) = {}
               /\ Holder(p) = t /\ pc'[t] # "commit" => Carried(t)' \cap Toks(Latest(p)) = {}
    BY <1>3, <1>4, <1>8 DEF FilesOnce, OnceInv, CarriedOnce
  <2>3. ASSUME NEW t \in Sess, NEW r \in Sess \ {t}
        PROVE  Carried(t)' \cap Carried(r)' = {}
    <3>1. \A z \in Sess : left \notin Carried(z)
      BY <1>0 DEF FilesOnce, OnceInv, CarriedOnce
    <3> QED
      BY <1>3, <1>4, <3>1 DEF FilesOnce, OnceInv, CarriedOnce
  <2> QED
    BY <1>1, <2>1, <2>2, <2>3 DEF CarriedOnce
<1> QED
  BY <1>5, <1>6, <1>7, <1>9 DEF OnceInv

LEMMA BeginOnce ==
    ASSUME FilesOnce, NEW s \in Sess, NEW c \in Calls, Begin(s, c)
    PROVE  OnceInv'
<1>1. /\ pc[s] = "idle" /\ left \in Nat /\ left > 0 /\ left' = left - 1
      /\ UNCHANGED rowVars
  BY CallFacts DEF FilesOnce, Begin, At, CountsOK
<1> DEFINE content == IF c.empty THEN << >> ELSE <<left>>
           fr == Fresh(s, c, content, "none")
<1>2. c \in Call /\ c.op \in Ops /\ c.empty \in BOOLEAN
  BY FilesAssumption DEF Call
<1>3. content \in Content /\ content \in {<< >>, <<left>>}
  BY <1>1, <1>2, EmptySeq DEF Content
<1> HIDE DEF content
<1>4. fr \in Frame /\ fr.content = content /\ fr.goal = "node"
  BY <1>2, <1>3, CallFacts, FreshFrame DEF FilesOnce
<1> HIDE DEF fr
<1>5. CASE c.op \in {"write_file", "write_file_atomic", "read_file", "set_metadata"}
  <2>1. StartWalk(s, fr, c.path)
    BY <1>5 DEF Begin, fr, content
  <2>2. Lands(s, fr)
    BY <1>4, <2>1, StartWalkLands DEF FilesOnce
  <2> QED
    BY <1>1, <1>3, <1>4, <2>2, StartsOnce DEF Lands, Starts
<1>6. ASSUME NEW label \in {"su_insert", "ab_delete", "fin_upload", "up_lock", "cl_scan"},
             NEW out, Goto(s, label), f' = [f EXCEPT ![s] = [fr EXCEPT !.out = out]],
             UNCHANGED uploadVars
      PROVE  OnceInv'
  <2> DEFINE h == [fr EXCEPT !.out = out]
  <2>0. f' = [f EXCEPT ![s] = h] /\ h.content = content
    BY <1>4, <1>6 DEF Frame
  <2> HIDE DEF h
  <2>1. f'[s].content = content /\ \A t \in Sess \ {s} : f'[t] = f[t]
    BY <2>0, CallFacts DEF FilesOnce, LocalsTyped
  <2>2. pc'[s] # "idle" /\ \A t \in Sess \ {s} : pc'[t] = pc[t]
    BY <1>6, CallFacts DEF FilesOnce, LocalsTyped, Goto
  <2>3. Starts(s)
    BY <1>1, <1>3, <1>6, <2>1, <2>2 DEF Starts
  <2> QED
    BY <2>3, StartsOnce
<1>7. CASE c.op = "start_upload" /\ Malformed(c)
  <2>1. f' = [f EXCEPT ![s] = Fresh(s, NoCall, << >>, "error")] /\ UNCHANGED <<pc, uploadVars>>
    BY <1>7 DEF Begin
  <2> DEFINE h == Fresh(s, NoCall, << >>, "error")
  <2>0. f' = [f EXCEPT ![s] = h] /\ h.content = << >>
    BY <2>1 DEF Fresh
  <2> HIDE DEF h
  <2>2. f'[s].content = << >> /\ \A t \in Sess \ {s} : f'[t] = f[t]
    BY <2>0, CallFacts DEF FilesOnce, LocalsTyped
  <2>3. Starts(s)
    BY <1>1, <2>1, <2>2 DEF Starts
  <2> QED
    BY <2>3, StartsOnce
<1>8. CASE c.op \notin {"write_file", "write_file_atomic", "read_file", "set_metadata"}
           /\ ~(c.op = "start_upload" /\ Malformed(c))
  <2>1. PICK label \in {"su_insert", "ab_delete", "fin_upload", "up_lock", "cl_scan"},
             out \in {"none", "error"} :
               /\ Goto(s, label) /\ f' = [f EXCEPT ![s] = [fr EXCEPT !.out = out]]
               /\ UNCHANGED uploadVars
    BY <1>2, <1>8 DEF Begin, Ops, fr, content
  <2> QED
    BY <1>6, <2>1
<1> QED
  BY <1>5, <1>7, <1>8

-----------------------------------------------------------------------------
(* The single-step calls *)

\* A committed row that nobody has locked is replaced, with less in it.
Alters(p) == /\ Holder(p) = None /\ Holder(p)' = None
             /\ Latest(p)' = Old(p)'
             /\ Toks(Old(p)') \subseteq Toks(Old(p)) /\ Distinct(Old(p)')

Same(p) == Holder(p)' = Holder(p) /\ Old(p)' = Old(p) /\ Latest(p)' = Latest(p)

LEMMA AltersOnce ==
    ASSUME FilesOnce, \A p \in Places : Same(p) \/ Alters(p), UNCHANGED <<f, pc, left>>
    PROVE  OnceInv'
<1>0. \A s \in Sess : s # None
  BY PgAssumption
<1>1. \A p \in Places : /\ Toks(Old(p)') \subseteq Toks(Old(p)) /\ Distinct(Old(p)')
                        /\ Holder(p)' = Holder(p) /\ Distinct(Latest(p)')
                        /\ Holder(p) # None => Latest(p)' = Latest(p) /\ Old(p)' = Old(p)
  BY DEF Same, Alters, FilesOnce, OnceInv, OldOnce, LatestOnce
<1>2. OldOnce'
  <2>1. ASSUME NEW p \in Places, NEW k \in Toks(Old(p)')
        PROVE  k \notin 1 .. left'
    BY <1>1, <2>1 DEF FilesOnce, OnceInv, OldOnce
  <2>2. ASSUME NEW p \in Places, NEW q \in Places \ {p}
        PROVE  Toks(Old(p)') \cap Toks(Old(q)') = {}
    BY <1>1, <2>2 DEF FilesOnce, OnceInv, OldOnce
  <2> QED
    BY <1>1, <2>1, <2>2 DEF OldOnce
<1>3. LatestOnce'
  BY <1>1 DEF FilesOnce, OnceInv, LatestOnce
<1>4. \A s \in Sess : Carried(s)' = Carried(s)
  BY DEF Carried
<1>5. Sourced'
  <2>1. ASSUME NEW s \in Sess, NEW p \in Places, Holder(p)' = s, NEW k \in Toks(Latest(p)')
        PROVE  Source(s, k)'
    <3>1. Holder(p) = s /\ k \in Toks(Latest(p))
      BY <1>0, <1>1, <2>1
    <3>2. Source(s, k)
      BY <3>1 DEF FilesOnce, OnceInv, Sourced
    <3> QED
      BY <1>0, <1>1, <1>4, <3>2 DEF Source
  <2> QED
    BY <2>1 DEF Sourced
<1>6. CarriedOnce'
  BY <1>0, <1>1, <1>4 DEF FilesOnce, OnceInv, CarriedOnce
<1> QED
  BY <1>2, <1>3, <1>5, <1>6 DEF OnceInv

\* One row changes: to a deleted one, or keeping its contents, or to an empty one.
LEMMA OtherOnce ==
    ASSUME FilesOnce, NEW n \in Node, owner[n] = None, NEW v, Shrinks(db[n], v),
           db' = [db EXCEPT ![n] = v], new' = [new EXCEPT ![n] = v],
           UNCHANGED <<owner, uploadVars, f, pc, left>>
    PROVE  OnceInv'
<1>1. /\ \A m \in Node : db'[m] = IF m = n THEN v ELSE db[m]
      /\ \A m \in Node : new'[m] = IF m = n THEN v ELSE new[m]
  BY DEF FilesOnce, FilesInv, RowsOK, RowsTyped
<1>2. ASSUME NEW p \in Places PROVE Same(p) \/ Alters(p)
  <2>1. CASE p = <<"file", n>>
    <3>1. Old(p) = Bytes(db[n]) /\ Old(p)' = Bytes(v) /\ Latest(p)' = Bytes(v)
      BY <1>1, <2>1 DEF Old, Latest, Bytes
    <3> QED
      BY <2>1, <3>1 DEF Alters, Holder, Shrinks
  <2>2. CASE p # <<"file", n>>
    BY <1>1, <2>2, PlaceCases DEF Same, Old, Latest, Holder, uploadVars
  <2> QED
    BY <2>1, <2>2
<1> QED
  BY <1>2, AltersOnce

LEMMA EnvironmentOnce ==
    ASSUME FilesOnce, Environment
    PROVE  OnceInv'
<1>0. FilesInv /\ RowsOK
  BY DEF FilesOnce, FilesInv
<1>1. CASE Tick
  <2>1. UNCHANGED <<rowVars, uploadVars, f, pc, left>>
    BY <1>1 DEF Tick
  <2>2. \A p \in Places : Same(p)
    BY <2>1 DEF Same, Old, Latest, Holder, rowVars, uploadVars
  <2> QED
    BY <2>1, <2>2, AltersOnce
<1>2. ASSUME NEW n \in Node, DeleteNode(n)
      PROVE  OnceInv'
  <2>1. UNCHANGED <<owner, uploadVars, f, pc, left>>
    BY <1>2 DEF DeleteNode
  <2>2. owner[n] = None /\ new[n] = db[n] /\ db[n] \in Row
    BY <1>0, <1>2 DEF DeleteNode, LockWaits, RowsOK, RowsTyped
  <2> DEFINE v == [db[n] EXCEPT !.st = "dead"]
  <2>3. v.st = "dead"
    BY <2>2 DEF Row
  <2>4. db' = [db EXCEPT ![n] = v] /\ new' = [new EXCEPT ![n] = v]
    BY <1>2, <2>2 DEF DeleteNode
  <2> HIDE DEF v
  <2> QED
    BY <2>1, <2>2, <2>3, <2>4, EmptyShrinks, OtherOnce
<1>3. ASSUME NEW n \in Node, NEW p \in Node, NEW nm \in Name, MoveNode(n, p, nm)
      PROVE  OnceInv'
  <2>1. UNCHANGED <<owner, uploadVars, f, pc, left>>
    BY <1>3 DEF MoveNode
  <2>2. owner[n] = None /\ new[n] = db[n] /\ db[n] \in Row
    BY <1>0, <1>3 DEF MoveNode, LockWaits, RowsOK, RowsTyped
  <2> DEFINE v == [db[n] EXCEPT !.parent = p, !.name = nm]
  <2>3. v.st = db[n].st /\ v.data = db[n].data
    BY <2>2 DEF Row
  <2>4. db' = [db EXCEPT ![n] = v] /\ new' = [new EXCEPT ![n] = v]
    BY <1>3, <2>2 DEF MoveNode
  <2> HIDE DEF v
  <2>5. Shrinks(db[n], v)
    BY <2>2, <2>3, RowDistinct DEF Shrinks, Bytes
  <2> QED
    BY <2>1, <2>2, <2>4, <2>5, OtherOnce
<1>4. ASSUME NEW p \in Node, NEW nm \in Name, MakeDir(p, nm)
      PROVE  OnceInv'
  <2>1. UNCHANGED <<owner, uploadVars, f, pc, left>>
    BY <1>4 DEF MakeDir
  <2>2. PICK n \in Node : n = FreshId /\ owner[n] = None
    BY <1>0, <1>4, FreshIdFree DEF MakeDir
  <2> DEFINE v == DirRow(p, nm)
  <2>3. v.data = << >>
    BY DEF DirRow, FileRow
  <2>4. db' = [db EXCEPT ![n] = v] /\ new' = [new EXCEPT ![n] = v]
    BY <1>4, <2>2 DEF MakeDir
  <2> HIDE DEF v
  <2> QED
    BY <2>1, <2>2, <2>3, <2>4, EmptyShrinks, OtherOnce
<1> QED
  BY <1>1, <1>2, <1>3, <1>4 DEF Environment

-----------------------------------------------------------------------------
(* The theorem *)

LEMMA OnceInit == Init => OnceInv
<1> SUFFICES ASSUME Init PROVE OnceInv
  OBVIOUS
<1> DEFINE row0(p) == IF p[1] = "file" THEN Files0[p[2]] ELSE Uploads0[p[2]]
<1>1. \A p \in Places : /\ Old(p) = Bytes(row0(p)) /\ Latest(p) = Old(p)
                        /\ Holder(p) = None
  BY PlaceCases DEF Init, Old, Latest, Holder
<1>2. \A s \in Sess : s # None /\ pc[s] = "idle" /\ f[s].content = << >>
  BY PgAssumption DEF Init, Fresh
<1>3. \A a, b \in Places :
          row0(a).st = "live" /\ row0(b).st = "live" =>
              \A i \in DOMAIN row0(a).data, j \in DOMAIN row0(b).data :
                  /\ row0(a).data[i] \notin 1 .. MaxCalls
                  /\ row0(a).data[i] = row0(b).data[j] => a = b /\ i = j
  BY TokenAssumption
<1> HIDE DEF row0
<1>4. left = MaxCalls
  BY DEF Init
<1>5. ASSUME NEW p \in Places
      PROVE  /\ Distinct(Old(p))
             /\ \A k \in Toks(Old(p)) : k \notin 1 .. left
             /\ \A q \in Places \ {p} : Toks(Old(p)) \cap Toks(Old(q)) = {}
  <2>1. CASE row0(p).st = "live"
    <3>1. Old(p) = row0(p).data
      BY <1>1, <2>1 DEF Bytes
    <3>2. Distinct(Old(p)) /\ \A k \in Toks(Old(p)) : k \notin 1 .. left
      BY <1>3, <1>4, <2>1, <3>1 DEF Distinct, Toks
    <3>3. ASSUME NEW q \in Places \ {p}
          PROVE  Toks(Old(p)) \cap Toks(Old(q)) = {}
      <4>1. CASE row0(q).st = "live"
        <5>1. Old(q) = row0(q).data
          BY <1>1, <4>1 DEF Bytes
        <5> QED
          BY <1>3, <2>1, <3>1, <4>1, <5>1 DEF Toks
      <4>2. CASE row0(q).st # "live"
        BY <1>1, <4>2, EmptyBytes DEF Bytes
      <4> QED
        BY <4>1, <4>2
    <3> QED
      BY <3>2, <3>3
  <2>2. CASE row0(p).st # "live"
    BY <1>1, <2>2, EmptyBytes DEF Bytes
  <2> QED
    BY <2>1, <2>2
<1>6. \A s \in Sess : Carried(s) = {} /\ Distinct(f[s].content)
  BY <1>2, EmptyBytes DEF Carried
<1>7. OldOnce /\ LatestOnce
  BY <1>1, <1>5 DEF OldOnce, LatestOnce
<1>8. Sourced /\ CarriedOnce
  BY <1>1, <1>2, <1>6 DEF Sourced, CarriedOnce
<1> QED
  BY <1>7, <1>8 DEF OnceInv

LEMMA OnceNext == FilesOnce /\ [Next]_vars => FilesOnce'
<1> SUFFICES ASSUME FilesOnce, [Next]_vars PROVE OnceInv'
  BY FilesNext DEF FilesOnce
<1>1. ASSUME NEW s \in Sess, Step(s) PROVE OnceInv'
  BY <1>1, WalkOnce, CommitStepOnce, InsertOnce, FkCheckOnce, AgainOnce, WriteOnce, ReadOnce,
     SetMetadataOnce, StartUploadOnce, UploadPartOnce, FinUploadOnce, FinNodeOnce,
     PublishOnce, AbortUploadOnce, CleanupOnce DEF Step
<1>2. ASSUME NEW s \in Sess, \E c \in Calls : Begin(s, c) PROVE OnceInv'
  BY <1>2, BeginOnce
<1>3. CASE UNCHANGED vars
  <2>1. UNCHANGED <<rowVars, uploadVars, f, pc, left>>
    BY <1>3 DEF vars, rowVars, uploadVars
  <2>2. \A p \in Places : Same(p)
    BY <2>1 DEF Same, Old, Latest, Holder, rowVars, uploadVars
  <2> QED
    BY <2>1, <2>2, AltersOnce
<1> QED
  BY <1>1, <1>2, <1>3, FailOnce, EnvironmentOnce DEF Next, Finished

\* FilesOnce is an invariant of the calls on file contents and uploads.
THEOREM ContentsHaveSources == Spec => []FilesOnce
<1>1. Init => FilesOnce
  BY FilesInit, OnceInit DEF FilesOnce
<1> QED
  BY <1>1, OnceNext, PTL DEF Spec

\* The bytes of one call are in one place only: no retry, race, failed commit or
\* repeated finish_upload leaves a part both staged and published, or twice.
THEOREM BytesInOnePlace == Spec => []PublishedOnce
<1>1. ASSUME FilesOnce PROVE PublishedOnce
  <2>1. ASSUME NEW a \in Stored, NEW b \in Stored,
               NEW i \in DOMAIN RowAt(a).data, NEW j \in DOMAIN RowAt(b).data,
               RowAt(a).data[i] = RowAt(b).data[j]
        PROVE  a = b /\ i = j
    <3>1. /\ a \in Places /\ b \in Places
          /\ Old(a) = RowAt(a).data /\ Old(b) = RowAt(b).data
      BY DEF Stored, RowAt, Old, Bytes
    <3>2. RowAt(a).data[i] \in Toks(Old(a)) /\ RowAt(a).data[i] \in Toks(Old(b))
      BY <2>1, <3>1 DEF Toks
    <3>3. a = b
      BY <1>1, <3>1, <3>2 DEF FilesOnce, OnceInv, OldOnce
    <3> QED
      BY <1>1, <2>1, <3>1, <3>3 DEF FilesOnce, OnceInv, OldOnce, Distinct
  <2> QED
    BY <2>1 DEF PublishedOnce
<1> QED
  BY <1>1, ContentsHaveSources, PTL

-----------------------------------------------------------------------------
(***************************************************************************)
(* Providers of different filesystems in the same tables leave each        *)
(* other's files and uploads alone (Isolated of VfsFiles), for any sets of *)
(* nodes, uploads, sessions and calls.                                     *)
(*                                                                         *)
(* A call reaches a row by walking down from its provider's root, finds it *)
(* again later by its id alone, and may by then be looking at a row that   *)
(* another call has moved or deleted.  The invariant says that everything  *)
(* a call has walked to, noted or locked is, or was when it was deleted,   *)
(* below its own root, and that no single-step call moves it out.          *)
(***************************************************************************)
(* The invariant *)

\* No row refers to one that has never been there.
FkOK == \A n \in Node : db[n].parent # None => db[db[n].parent].st # "free"

RootsOK == \A s \in Sess : db[RootOf[s]].st # "free" /\ db[RootOf[s]].parent = None

\* Row n is, or was, one of the filesystem of s.
Mine(s, n) == db[n].st # "free" /\ InTree(db, n, RootOf[s])

\* What s has locked is below its root, or is inserted below a row that is.
OwnedOK(s, n) ==
    /\ new[n].st # "free"
    /\ IF db[n].st = "free" THEN new[n].parent \in Node /\ Mine(s, new[n].parent)
       ELSE new[n].parent = db[n].parent /\ InTree(db, n, RootOf[s])

UpMine(s, u) == udb[u].st # "free" /\ udb[u].root = RootOf[s]

UpOwnedOK(s, u) == /\ unew[u].st # "free" /\ unew[u].root = RootOf[s]
                   /\ udb[u].st # "free" => udb[u].root = RootOf[s]

Unlocked == {"idle", "walk", "read", "fin_upload", "fin_node"}

LocalOK(s) ==
    /\ Mine(s, f[s].cur)
    /\ pc[s] \in Unlocked => \A n \in Node : owner[n] # s
    /\ pc[s] \in {"write", "meta", "publish"} => owner[f[s].row] = s \/ Mine(s, f[s].row)
    /\ pc[s] = "cl_delete" => \A u \in f[s].todo : uowner[u] = s \/ UpMine(s, u)

\* The inductive invariant.
TenantInv ==
    /\ FkOK /\ RootsOK
    /\ \A s \in Sess : /\ LocalOK(s)
                       /\ \A n \in Node : owner[n] = s => OwnedOK(s, n)
                       /\ \A u \in Upload : uowner[u] = s => UpOwnedOK(s, u)

-----------------------------------------------------------------------------
(* Lemmas about parent links *)

Closed(rows, S) == \A m \in S : rows[m].parent # None => rows[m].parent \in S

LEMMA ChildInTree ==
    ASSUME NEW rows, NEW n, NEW r, rows[n].parent # None, InTree(rows, rows[n].parent, r)
    PROVE  InTree(rows, n, r)
BY DEF InTree

LEMMA RootInTree == ASSUME NEW rows, NEW r PROVE InTree(rows, r, r)
BY DEF InTree

\* Rows that have no children may change their parent: the others stay below r.
LEMMA TreeKept ==
    ASSUME NEW rows, NEW after, NEW N \in SUBSET Node,
           \A m \in Node \ N : after[m].parent = rows[m].parent,
           \A m \in Node : rows[m].parent \notin N,
           NEW n \in Node \ N, NEW r, InTree(rows, n, r)
    PROVE  InTree(after, n, r)
<1>1. ASSUME NEW S \in SUBSET Node, n \in S, Closed(after, S) PROVE r \in S
  <2>1. Closed(rows, S \ N)
    BY <1>1 DEF Closed
  <2>2. S \ N \in SUBSET Node /\ n \in S \ N
    BY <1>1
  <2> QED
    BY <2>1, <2>2 DEF InTree, Closed
<1> QED
  BY <1>1 DEF InTree, Closed

-----------------------------------------------------------------------------
(* Steps that commit nothing *)

\* What s holds after the step is what it held or one of its own.
RowsMine(s) == \A n \in Node : \/ owner'[n] = owner[n] /\ new'[n] = new[n]
                               \/ owner'[n] = None
                               \/ owner'[n] = s /\ OwnedOK(s, n)'

UpsMine(s) == \A u \in Upload : \/ uowner'[u] = uowner[u] /\ unew'[u] = unew[u]
                                \/ uowner'[u] = None
                                \/ uowner'[u] = s /\ UpOwnedOK(s, u)'

Alone(s) == \A t \in Sess \ {s} : f'[t] = f[t] /\ pc'[t] = pc[t]

TenantOK == FilesInv /\ TenantInv

\* The other transactions keep their rows.
RowsLeft(s) == \A n \in Node : owner[n] \notin {s, None} => owner'[n] = owner[n]
UpsLeft(s) == \A u \in Upload : uowner[u] \notin {s, None} => uowner'[u] = uowner[u]

LEMMA QuietStep ==
    ASSUME TenantOK, NEW s \in Sess, db' = db, udb' = udb, RowsMine(s), UpsMine(s),
           RowsLeft(s), UpsLeft(s), Alone(s), LocalOK(s)'
    PROVE  TenantInv'
<1>0. \A t \in Sess : t # None
  BY PgAssumption
<1>1. FkOK' /\ RootsOK'
  BY DEF TenantOK, TenantInv, FkOK, RootsOK
<1>2. \A t \in Sess, n \in Node : Mine(t, n)' = Mine(t, n)
  BY DEF Mine
<1>3. \A t \in Sess, u \in Upload : UpMine(t, u)' = UpMine(t, u)
  BY DEF UpMine
<1>4. ASSUME NEW t \in Sess, NEW n \in Node, owner'[n] = t PROVE OwnedOK(t, n)'
  <2>1. CASE owner'[n] = owner[n] /\ new'[n] = new[n]
    <3>1. OwnedOK(t, n)
      BY <1>4, <2>1 DEF TenantOK, TenantInv
    <3> QED
      BY <2>1, <3>1 DEF OwnedOK, Mine
  <2>2. CASE owner'[n] = s /\ OwnedOK(s, n)'
    BY <1>4, <2>2
  <2> QED
    BY <1>0, <1>4, <2>1, <2>2 DEF RowsMine
<1>5. ASSUME NEW t \in Sess, NEW u \in Upload, uowner'[u] = t PROVE UpOwnedOK(t, u)'
  <2>1. CASE uowner'[u] = uowner[u] /\ unew'[u] = unew[u]
    <3>1. UpOwnedOK(t, u)
      BY <1>5, <2>1 DEF TenantOK, TenantInv
    <3> QED
      BY <2>1, <3>1 DEF UpOwnedOK
  <2>2. CASE uowner'[u] = s /\ UpOwnedOK(s, u)'
    BY <1>5, <2>2
  <2> QED
    BY <1>0, <1>5, <2>1, <2>2 DEF UpsMine
<1>6. ASSUME NEW t \in Sess \ {s} PROVE LocalOK(t)'
  <2>1. LocalOK(t) /\ f'[t] = f[t] /\ pc'[t] = pc[t]
    BY <1>6 DEF TenantOK, TenantInv, Alone
  <2>2. f[t].cur \in Node /\ (pc[t] \in {"write", "meta", "publish"} => f[t].row \in Node)
        /\ f[t].todo \subseteq Upload
    BY CallFacts DEF TenantOK, PcLocal
  <2>3. \A n \in Node : owner'[n] = t <=> owner[n] = t
    BY <1>0 DEF RowsMine, RowsLeft
  <2>4. \A u \in Upload : uowner'[u] = t <=> uowner[u] = t
    BY <1>0 DEF UpsMine, UpsLeft
  <2> QED
    BY <1>2, <1>3, <2>1, <2>2, <2>3, <2>4 DEF LocalOK
<1> QED
  BY <1>1, <1>4, <1>5, <1>6 DEF TenantInv

\* RowsMine, UpsMine: nothing is locked, or one row is.
LEMMA RowsMineSame == ASSUME NEW s, UNCHANGED rowVars PROVE RowsMine(s) /\ RowsLeft(s)
BY DEF RowsMine, RowsLeft, rowVars

LEMMA UpsMineSame == ASSUME NEW s, UNCHANGED uploadVars PROVE UpsMine(s) /\ UpsLeft(s)
BY DEF UpsMine, UpsLeft, uploadVars

LEMMA RowsMineOne ==
    ASSUME TenantOK, NEW s \in Sess, NEW n \in Node, owner[n] \in {s, None},
           owner[n] = s \/ Mine(s, n),
           NEW v, v.st # "free", v.parent = new[n].parent,
           new' = [new EXCEPT ![n] = v], owner' = [owner EXCEPT ![n] = s], db' = db
    PROVE  RowsMine(s) /\ RowsLeft(s) /\ owner'[n] = s
<1>1. \A m \in Node : /\ new'[m] = IF m = n THEN v ELSE new[m]
                      /\ owner'[m] = IF m = n THEN s ELSE owner[m]
  BY DEF TenantOK, FilesInv, RowsOK, RowsTyped
<1>2. OwnedOK(s, n)'
  <2>1. CASE owner[n] = s
    <3>1. OwnedOK(s, n)
      BY <2>1 DEF TenantOK, TenantInv
    <3> QED
      BY <1>1, <3>1 DEF OwnedOK, Mine
  <2>2. CASE owner[n] = None
    <3>1. new[n] = db[n] /\ Mine(s, n)
      BY <2>2, PgAssumption DEF TenantOK, FilesInv, RowsOK
    <3> QED
      BY <1>1, <3>1 DEF OwnedOK, Mine
  <2> QED
    BY <2>1, <2>2
<1> QED
  BY <1>1, <1>2 DEF RowsMine, RowsLeft

LEMMA UpsMineOne ==
    ASSUME TenantOK, NEW s \in Sess, NEW u \in Upload, uowner[u] \in {s, None},
           NEW v, v.st # "free", v.root = RootOf[s],
           udb[u].st # "free" => udb[u].root = RootOf[s],
           unew' = [unew EXCEPT ![u] = v], uowner' = [uowner EXCEPT ![u] = s], udb' = udb
    PROVE  UpsMine(s) /\ UpsLeft(s)
BY DEF TenantOK, FilesInv, UpsOK, UpsTyped, UpsMine, UpsLeft, UpOwnedOK

\* _lock_upload: a row that s sees in its filesystem.
LEMMA OwnFacts ==
    ASSUME TenantOK, NEW s \in Sess, NEW u \in Upload, U!LockWaits(s, u) = {}
    PROVE  /\ uowner[u] \in {s, None} /\ unew[u] \in UploadRow /\ U!Seen(s, u) = unew[u]
           /\ Own(s, u) => /\ unew[u].st = "live" /\ unew[u].root = RootOf[s]
                           /\ udb[u].st # "free" => udb[u].root = RootOf[s]
<1>1. uowner[u] \in {s, None} /\ unew[u] \in UploadRow /\ U!Seen(s, u) = unew[u]
  BY CallFacts, UpSeen DEF TenantOK
<1>2. uowner[u] = None => unew[u] = udb[u]
  BY DEF TenantOK, FilesInv, UpsOK
<1>3. uowner[u] = s => UpOwnedOK(s, u)
  BY DEF TenantOK, TenantInv
<1> QED
  BY <1>1, <1>2, <1>3 DEF Own, U!Live, UpOwnedOK

\* Deleting and locking an upload row that s sees in its filesystem.
LEMMA KillMine ==
    ASSUME TenantOK, NEW s \in Sess, NEW u \in Upload, uowner[u] \in {s, None},
           unew[u].st # "free", unew[u].root = RootOf[s],
           udb[u].st # "free" => udb[u].root = RootOf[s],
           unew' = [unew EXCEPT ![u].st = "dead"], uowner' = [uowner EXCEPT ![u] = s],
           udb' = udb
    PROVE  UpsMine(s) /\ UpsLeft(s)
<1> DEFINE v == [unew[u] EXCEPT !.st = "dead"]
<1>1. unew[u] \in UploadRow
  BY DEF TenantOK, FilesInv, UpsOK, UpsTyped
<1>2. v.st = "dead" /\ v.root = unew[u].root
  BY <1>1 DEF UploadRow
<1>3. unew' = [unew EXCEPT ![u] = v]
  OBVIOUS
<1> HIDE DEF v
<1> QED
  BY <1>2, <1>3, UpsMineOne

-----------------------------------------------------------------------------
(* The local variables of each kind of step *)

LEMMA ReturnMine ==
    ASSUME TenantOK, NEW s \in Sess, NEW ok, Return(s, ok), db' = db
    PROVE  Alone(s) /\ LocalOK(s)'
<1>1. f[s] \in Frame /\ LocalsTyped /\ LocalOK(s)
  BY CallFacts DEF TenantOK, TenantInv
<1>2. f'[s].cur = f[s].cur /\ pc'[s] = "commit"
      /\ \A t \in Sess \ {s} : f'[t] = f[t] /\ pc'[t] = pc[t]
  BY <1>1 DEF Return, Goto, LocalsTyped, Frame
<1> QED
  BY <1>1, <1>2 DEF Alone, LocalOK, Mine, Unlocked

LEMMA RefuseMine ==
    ASSUME TenantOK, NEW s \in Sess, pc[s] \in Holding, Refuse(s), db' = db
    PROVE  UpsMine(s) /\ UpsLeft(s) /\ Alone(s) /\ LocalOK(s)'
<1>1. Alone(s) /\ LocalOK(s)'
  BY ReturnMine DEF Refuse
<1>2. CASE Finishing(s)
  <2> DEFINE u == f[s].call.up
  <2>1. u \in Upload /\ uowner[u] = s
    BY <1>2, HoldsUpload DEF TenantOK
  <2>2. UpOwnedOK(s, u)
    BY <2>1 DEF TenantOK, TenantInv
  <2>3. /\ unew' = [unew EXCEPT ![u].st = "dead"] /\ uowner' = [uowner EXCEPT ![u] = s]
        /\ udb' = udb
    BY <1>2, <2>1 DEF Refuse, Discard, TenantOK, FilesInv, UpsOK, UpsTyped
  <2> HIDE DEF u
  <2> QED
    BY <1>1, <2>1, <2>2, <2>3, KillMine DEF UpOwnedOK
<1>3. CASE ~Finishing(s)
  BY <1>1, <1>3, UpsMineSame DEF Refuse
<1> QED
  BY <1>2, <1>3

LEMMA FoundMine ==
    ASSUME TenantOK, NEW s \in Sess, NEW fr \in Frame, NEW n \in Node, Mine(s, n),
           \A m \in Node : owner[m] # s, UNCHANGED rowVars,
           fr.goal = "parent" => pc[s] \in Holding, Found(s, fr, n)
    PROVE  UpsMine(s) /\ UpsLeft(s) /\ Alone(s) /\ LocalOK(s)'
<1> DEFINE fr1 == [fr EXCEPT !.cur = n, !.rest = << >>]
<1>1. CASE fr.goal = "parent" /\ ~Seen(s, n).dir
  <2>1. Refuse(s)
    BY <1>1 DEF Found
  <2> QED
    BY <1>1, <2>1, RefuseMine DEF rowVars
<1>2. CASE ~(fr.goal = "parent" /\ ~Seen(s, n).dir)
  <2>1. PICK label \in {"insert", "fin_node", "read", "meta", "commit", "write"},
             g \in {fr1, [fr1 EXCEPT !.row = n], [fr1 EXCEPT !.out = "false"]} :
             /\ Goto(s, label) /\ f' = [f EXCEPT ![s] = g] /\ UNCHANGED uploadVars
             /\ label \in {"meta", "write"} => g = [fr1 EXCEPT !.row = n]
    <3>1. CASE fr.goal = "parent"
      BY <1>2, <3>1 DEF Found
    <3>2. CASE fr.goal = "node"
      BY <3>2 DEF Found
    <3> QED
      BY <3>1, <3>2 DEF Frame
  <2>2. g.cur = n /\ (label \in {"meta", "write"} => g.row = n)
    BY <2>1 DEF Frame
  <2> HIDE DEF fr1
  <2>3. /\ f'[s] = g /\ pc'[s] = label
        /\ \A t \in Sess \ {s} : f'[t] = f[t] /\ pc'[t] = pc[t]
    BY <2>1, CallFacts DEF TenantOK, LocalsTyped, Goto
  <2>4. LocalOK(s)'
    BY <2>1, <2>2, <2>3 DEF LocalOK, Mine, rowVars
  <2> QED
    BY <2>1, <2>3, <2>4, UpsMineSame DEF Alone
<1> QED
  BY <1>1, <1>2

LEMMA RootMine ==
    ASSUME TenantOK, NEW s \in Sess
    PROVE  RootOf[s] \in Node /\ Mine(s, RootOf[s])
BY FilesAssumption, RootInTree DEF TenantOK, TenantInv, RootsOK, Mine

LEMMA StartWalkMine ==
    ASSUME TenantOK, NEW s \in Sess, NEW fr \in Frame, NEW path,
           \A m \in Node : owner[m] # s, UNCHANGED rowVars,
           fr.goal = "parent" => pc[s] \in Holding, StartWalk(s, fr, path)
    PROVE  UpsMine(s) /\ UpsLeft(s) /\ Alone(s) /\ LocalOK(s)'
<1>1. RootOf[s] \in Node /\ Mine(s, RootOf[s])
  BY RootMine
<1>2. CASE path = << >>
  BY <1>1, <1>2, FoundMine DEF StartWalk
<1>3. CASE path # << >>
  <2> DEFINE g == [fr EXCEPT !.cur = RootOf[s], !.rest = path]
  <2>1. Goto(s, "walk") /\ f' = [f EXCEPT ![s] = g] /\ UNCHANGED uploadVars
    BY <1>3 DEF StartWalk
  <2>2. g.cur = RootOf[s]
    BY DEF Frame
  <2> HIDE DEF g
  <2>3. /\ f'[s] = g /\ pc'[s] = "walk"
        /\ \A t \in Sess \ {s} : f'[t] = f[t] /\ pc'[t] = pc[t]
    BY <2>1, CallFacts DEF TenantOK, LocalsTyped, Goto
  <2>4. LocalOK(s)'
    BY <1>1, <2>2, <2>3 DEF LocalOK, Mine, rowVars
  <2> QED
    BY <2>1, <2>3, <2>4, UpsMineSame DEF Alone
<1> QED
  BY <1>2, <1>3

LEMMA ToParentMine ==
    ASSUME TenantOK, NEW s \in Sess, pc[s] \in Holding, \A m \in Node : owner[m] # s,
           UNCHANGED rowVars, ToParent(s, Path(s))
    PROVE  UpsMine(s) /\ UpsLeft(s) /\ Alone(s) /\ LocalOK(s)'
<1> DEFINE fr == [f[s] EXCEPT !.goal = "parent"]
<1>1. fr \in Frame
  BY CallFacts DEF TenantOK, Frame
<1>2. StartWalk(s, fr, Parent(Path(s)))
  BY DEF ToParent
<1> HIDE DEF fr
<1> QED
  BY <1>1, <1>2, StartWalkMine

\* A child of a row of the filesystem, seen without rows of one's own.
LEMMA ChildMine ==
    ASSUME TenantOK, NEW s \in Sess, NEW p \in Node, Mine(s, p), NEW nm,
           NEW c \in Node, c = Child(s, p, nm), owner[c] # s
    PROVE  Mine(s, c)
<1>1. Holds(db[c], p, nm)
  BY PgAssumption DEF Child, ChildIds, Seen
<1>2. p # None
  BY PgAssumption
<1> QED
  BY <1>1, <1>2, ChildInTree DEF Holds, Mine

-----------------------------------------------------------------------------
(* One lemma per action *)

LEMMA WalkTenant ==
    ASSUME TenantOK, NEW s \in Sess, Walk(s)
    PROVE  TenantInv'
<1> DEFINE c == Child(s, f[s].cur, Head(f[s].rest))
<1>1. pc[s] = "walk" /\ UNCHANGED rowVars /\ pc[s] \in Holding
  BY DEF Walk, At, Holding
<1>2. /\ f[s] \in Frame /\ LocalsTyped /\ (c # None => c \in Node) /\ f[s].cur \in Node
      /\ \A m \in Node : owner[m] # s
      /\ Mine(s, f[s].cur)
  BY <1>1, CallFacts, ChildType DEF TenantOK, TenantInv, LocalOK, Unlocked
<1>3. c # None => Mine(s, c)
  BY <1>2, ChildMine
<1>4. UpsMine(s) /\ UpsLeft(s) /\ Alone(s) /\ LocalOK(s)'
  <2>1. CASE c # None /\ Len(f[s].rest) = 1
    <3>1. Found(s, f[s], c)
      BY <2>1 DEF Walk
    <3> QED
      BY <1>1, <1>2, <1>3, <2>1, <3>1, FoundMine
  <2>2. CASE c # None /\ Len(f[s].rest) # 1 /\ Len(f[s].rest) > 1
    <3>1. f' = [f EXCEPT ![s].cur = c, ![s].rest = Tail(@)] /\ UNCHANGED <<uploadVars, pc>>
      BY <2>2 DEF Walk
    <3>2. f'[s].cur = c /\ \A t \in Sess \ {s} : f'[t] = f[t]
      BY <1>2, <3>1 DEF LocalsTyped, Frame
    <3>3. LocalOK(s)'
      BY <1>1, <1>2, <1>3, <2>2, <3>1, <3>2 DEF LocalOK, Mine, rowVars
    <3> QED
      BY <3>1, <3>2, <3>3, UpsMineSame DEF Alone
  <2>3. CASE c = None /\ f[s].goal = "node"
             /\ f[s].call.op \in {"write_file_atomic", "finish_upload"}
    <3>1. ToParent(s, Path(s))
      BY <2>3 DEF Walk
    <3> QED
      BY <1>1, <1>2, <3>1, ToParentMine
  <2>4. CASE c = None /\ ~(f[s].goal = "node"
             /\ f[s].call.op \in {"write_file_atomic", "finish_upload"})
    <3>1. Refuse(s)
      BY <2>4 DEF Walk
    <3> QED
      BY <1>1, <3>1, RefuseMine DEF rowVars
  <2>5. Len(f[s].rest) = 1 \/ Len(f[s].rest) > 1
    BY <1>1, CallFacts, LastPart DEF TenantOK, PcLocal
  <2> HIDE DEF c
  <2> QED
    BY <2>1, <2>2, <2>3, <2>4, <2>5
<1>5. udb' = udb
  BY <1>1, HoldsUpload DEF Walk, Found, StartWalk, ToParent, Refuse, Discard, uploadVars
<1> QED
  BY <1>1, <1>4, <1>5, RowsMineSame, QuietStep DEF rowVars

\* A statement that goes on to another one, with local variables g.
LEMMA GoMine ==
    ASSUME TenantOK, NEW s \in Sess, db' = db, udb' = udb, NEW label, NEW g,
           pc' = [pc EXCEPT ![s] = label], f' = [f EXCEPT ![s] = g], Mine(s, g.cur),
           label \in Unlocked => \A n \in Node : owner'[n] # s,
           label \in {"write", "meta", "publish"} => owner'[g.row] = s \/ Mine(s, g.row),
           label = "cl_delete" => \A u \in g.todo : uowner'[u] = s \/ UpMine(s, u)
    PROVE  Alone(s) /\ LocalOK(s)'
<1>1. /\ f'[s] = g /\ pc'[s] = label
      /\ \A t \in Sess \ {s} : f'[t] = f[t] /\ pc'[t] = pc[t]
  BY CallFacts DEF TenantOK, LocalsTyped
<1> QED
  BY <1>1 DEF Alone, LocalOK, Mine, UpMine

\* The end of a call whose transaction changed nothing, or undoes it.
LEMMA IdleMine ==
    ASSUME TenantOK, NEW s \in Sess, db' = db, udb' = udb, NEW label \in {"idle", "ab_delete"},
           NEW g, pc' = [pc EXCEPT ![s] = label], f' = [f EXCEPT ![s] = g],
           g.cur \in {RootOf[s], f[s].cur}, \A n \in Node : owner'[n] # s
    PROVE  Alone(s) /\ LocalOK(s)'
<1>1. Mine(s, g.cur)
  BY RootMine DEF TenantOK, TenantInv, LocalOK
<1> QED
  BY <1>1, GoMine

LEMMA RollbackMine ==
    ASSUME TenantOK, NEW s \in Sess, Rollback(s)
    PROVE  /\ RowsMine(s) /\ RowsLeft(s) /\ UpsMine(s) /\ UpsLeft(s)
           /\ db' = db /\ udb' = udb /\ \A n \in Node : owner'[n] # s
<1>0. s # None
  BY PgAssumption
<1>1. /\ db' = db
      /\ new' = [n \in Node |-> IF owner[n] = s THEN db[n] ELSE new[n]]
      /\ owner' = [n \in Node |-> IF owner[n] = s THEN None ELSE owner[n]]
  BY DEF Rollback, RollbackRows, ReleaseRows
<1>2. /\ udb' = udb
      /\ unew' = [u \in Upload |-> IF uowner[u] = s THEN udb[u] ELSE unew[u]]
      /\ uowner' = [u \in Upload |-> IF uowner[u] = s THEN None ELSE uowner[u]]
  BY DEF Rollback, U!RollbackRows, U!ReleaseRows
<1>3. RowsMine(s) /\ RowsLeft(s) /\ \A n \in Node : owner'[n] # s
  BY <1>0, <1>1 DEF RowsMine, RowsLeft
<1>4. UpsMine(s) /\ UpsLeft(s)
  BY <1>2 DEF UpsMine, UpsLeft
<1> QED
  BY <1>1, <1>2, <1>3, <1>4

LEMMA RaiseTenant ==
    ASSUME TenantOK, NEW s \in Sess, Raise(s)
    PROVE  TenantInv'
<1>1. Rollback(s)
  BY DEF Raise
<1> DEFINE a == [f[s] EXCEPT !.out = "error"]
           b == Fresh(s, NoCall, << >>, "error")
<1>2. a.cur = f[s].cur /\ b.cur = RootOf[s]
  BY CallFacts DEF TenantOK, Frame, Fresh
<1>3. \/ pc' = [pc EXCEPT ![s] = "ab_delete"] /\ f' = [f EXCEPT ![s] = a]
      \/ pc' = [pc EXCEPT ![s] = "idle"] /\ f' = [f EXCEPT ![s] = b]
  BY DEF Raise, Goto
<1> HIDE DEF a, b
<1>4. Alone(s) /\ LocalOK(s)'
  BY <1>1, <1>2, <1>3, RollbackMine, IdleMine
<1> QED
  BY <1>1, <1>4, RollbackMine, QuietStep

LEMMA FailTenant ==
    ASSUME TenantOK, NEW s \in Sess, Fail(s) \/ Cancel(s) \/ DeadlockVictim(s)
    PROVE  TenantInv'
<1>1. CASE Cancel(s)
  <2> DEFINE b == Fresh(s, NoCall, << >>, "error")
  <2>1. b.cur = RootOf[s]
    BY DEF Fresh
  <2>2. Rollback(s) /\ pc' = [pc EXCEPT ![s] = "idle"] /\ f' = [f EXCEPT ![s] = b]
    BY <1>1 DEF Cancel, Goto
  <2> HIDE DEF b
  <2>3. Alone(s) /\ LocalOK(s)'
    BY <2>1, <2>2, RollbackMine, IdleMine
  <2> QED
    BY <2>2, <2>3, RollbackMine, QuietStep
<1>2. CASE Fail(s) \/ DeadlockVictim(s)
  BY <1>2, RaiseTenant DEF Fail, DeadlockVictim
<1> QED
  BY <1>1, <1>2

LEMMA InsertTenant ==
    ASSUME TenantOK, NEW s \in Sess, Insert(s)
    PROVE  TenantInv'
<1> DEFINE p == f[s].cur
           nm == Base(Path(s))
<1>1. pc[s] = "insert" /\ pc[s] \in Holding
  BY DEF Insert, At, Holding
<1>2. Mine(s, p) /\ p \in Node
  BY CallFacts DEF TenantOK, TenantInv, LocalOK
<1>3. CASE UniqueConflict(s, p, nm) /\ Exclusive(s)
  <2>1. Refuse(s) /\ UNCHANGED rowVars
    BY <1>3 DEF Insert
  <2>2. db' = db /\ udb' = udb
    BY <2>1 DEF rowVars, Refuse, Discard, uploadVars
  <2> QED
    BY <1>1, <2>1, <2>2, RefuseMine, RowsMineSame, QuietStep
<1>4. CASE UniqueConflict(s, p, nm) /\ ~Exclusive(s)
  <2>1. pc' = [pc EXCEPT ![s] = "again"] /\ UNCHANGED <<rowVars, uploadVars, f>>
    BY <1>4 DEF Insert, Goto
  <2>2. f' = [f EXCEPT ![s] = f[s]] /\ db' = db /\ udb' = udb
    BY <2>1, CallFacts DEF TenantOK, LocalsTyped, rowVars, uploadVars
  <2>3. Alone(s) /\ LocalOK(s)'
    BY <1>2, <2>1, <2>2, GoMine DEF Unlocked
  <2> QED
    BY <2>1, <2>2, <2>3, RowsMineSame, UpsMineSame, QuietStep
<1>5. CASE ~UniqueConflict(s, p, nm)
  <2>1. /\ FreeIds # {} /\ InsertRow(s, FreshId, FileRow(p, nm))
        /\ f' = [f EXCEPT ![s].row = FreshId, ![s].made = TRUE]
        /\ Goto(s, "fk") /\ UNCHANGED <<db, shares, uploadVars>>
    BY <1>5 DEF Insert
  <2>2. PICK n \in Node : n = FreshId /\ owner[n] = None /\ new[n].st = "free"
    BY <2>1, FreshIdFree
  <2>3. db[n].st = "free"
    BY <2>2 DEF TenantOK, FilesInv, RowsOK
  <2> DEFINE v == FileRow(p, nm)
             g == [f[s] EXCEPT !.row = n, !.made = TRUE]
  <2>4. v.parent = p /\ v.st = "live" /\ g.cur = p
    BY CallFacts DEF FileRow, TenantOK, Frame
  <2>5. /\ new' = [new EXCEPT ![n] = v] /\ owner' = [owner EXCEPT ![n] = s]
        /\ f' = [f EXCEPT ![s] = g] /\ pc' = [pc EXCEPT ![s] = "fk"] /\ db' = db /\ udb' = udb
    BY <2>1, <2>2 DEF InsertRow, Goto, uploadVars
  <2> HIDE DEF v, g
  <2>6. \A m \in Node : /\ new'[m] = IF m = n THEN v ELSE new[m]
                        /\ owner'[m] = IF m = n THEN s ELSE owner[m]
    BY <2>5 DEF TenantOK, FilesInv, RowsOK, RowsTyped
  <2>7. OwnedOK(s, n)'
    BY <1>2, <2>3, <2>4, <2>5, <2>6 DEF OwnedOK, Mine
  <2>8. RowsMine(s) /\ RowsLeft(s)
    BY <2>2, <2>6, <2>7 DEF RowsMine, RowsLeft
  <2>9. Alone(s) /\ LocalOK(s)'
    BY <1>2, <2>4, <2>5, GoMine DEF Unlocked
  <2> QED
    BY <2>1, <2>5, <2>8, <2>9, UpsMineSame, QuietStep
<1> QED
  BY <1>3, <1>4, <1>5

LEMMA FkCheckTenant ==
    ASSUME TenantOK, NEW s \in Sess, FkCheck(s)
    PROVE  TenantInv'
<1>1. pc[s] = "fk"
  BY DEF FkCheck, At
<1>2. CASE ~Live(s, f[s].cur)
  BY <1>2, RaiseTenant DEF FkCheck
<1>3. CASE Live(s, f[s].cur)
  <2>1. pc' = [pc EXCEPT ![s] = Publishing(s)] /\ UNCHANGED <<db, new, owner, uploadVars, f>>
    BY <1>3 DEF FkCheck, Goto
  <2>2. f' = [f EXCEPT ![s] = f[s]] /\ owner[f[s].row] = s /\ Mine(s, f[s].cur) /\ udb' = udb
    BY <1>1, <2>1, CallFacts
       DEF TenantOK, TenantInv, LocalOK, LocalsTyped, PcHolds, uploadVars
  <2>3. Alone(s) /\ LocalOK(s)'
    BY <2>1, <2>2, GoMine DEF Unlocked, Publishing
  <2>4. RowsMine(s) /\ RowsLeft(s)
    BY <2>1 DEF RowsMine, RowsLeft
  <2> QED
    BY <2>1, <2>2, <2>3, <2>4, UpsMineSame, QuietStep
<1> QED
  BY <1>2, <1>3

\* Locking a row that is below the root.
LEMMA LockMine ==
    ASSUME TenantOK, NEW s \in Sess, NEW n \in Node, LockWaits(s, n) = {}, Lock(s, n),
           UNCHANGED <<db, new>>, owner[n] = s \/ Mine(s, n)
    PROVE  RowsMine(s) /\ RowsLeft(s) /\ owner'[n] = s
<1>1. owner[n] \in {s, None} /\ new = [new EXCEPT ![n] = new[n]]
  BY RowSeen DEF TenantOK, FilesInv, RowsOK, RowsTyped
<1>2. new[n].st # "free"
  <2>1. CASE owner[n] = s
    BY <2>1 DEF TenantOK, TenantInv, OwnedOK
  <2>2. CASE owner[n] = None
    BY <2>2, PgAssumption DEF TenantOK, FilesInv, RowsOK, Mine
  <2> QED
    BY <1>1, <2>1, <2>2
<1> QED
  BY <1>1, <1>2, RowsMineOne DEF Lock

LEMMA AgainTenant ==
    ASSUME TenantOK, NEW s \in Sess, Again(s)
    PROVE  TenantInv'
<1> DEFINE c == Child(s, f[s].cur, Base(Path(s)))
<1>1. /\ pc[s] = "again" /\ UNCHANGED <<db, new, shares>> /\ pc[s] \in Holding
      /\ f[s].cur \in Node /\ Mine(s, f[s].cur)
  BY CallFacts DEF Again, At, Holding, TenantOK, TenantInv, LocalOK
<1>2. CASE c = None
  <2>1. Refuse(s) /\ UNCHANGED owner
    BY <1>2 DEF Again
  <2>2. UNCHANGED rowVars /\ udb' = udb
    BY <1>1, <2>1 DEF rowVars, Refuse, Discard, uploadVars
  <2> QED
    BY <1>1, <2>1, <2>2, RefuseMine, RowsMineSame, QuietStep
<1>3. CASE c # None
  <2>1. PICK n \in Node : n = c
    BY <1>3, ChildType
  <2>2. LockWaits(s, n) = {} /\ Lock(s, n)
    BY <1>3, <2>1 DEF Again
  <2>3. RowsMine(s) /\ RowsLeft(s) /\ owner'[n] = s
    BY <1>1, <2>1, <2>2, ChildMine, LockMine
  <2>4. CASE Seen(s, n).dir
    <3>1. Refuse(s)
      BY <1>3, <2>1, <2>4 DEF Again
    <3>2. udb' = udb
      BY <3>1 DEF Refuse, Discard, uploadVars
    <3> QED
      BY <1>1, <2>3, <3>1, <3>2, RefuseMine, QuietStep
  <2>5. CASE ~Seen(s, n).dir
    <3> DEFINE g == [f[s] EXCEPT !.row = n, !.size = Seen(s, n).size]
    <3>1. /\ f' = [f EXCEPT ![s] = g] /\ pc' = [pc EXCEPT ![s] = Publishing(s)]
          /\ UNCHANGED uploadVars
      BY <1>3, <2>1, <2>5 DEF Again, Goto
    <3>2. g.cur = f[s].cur /\ g.row = n
      BY CallFacts DEF TenantOK, Frame
    <3> HIDE DEF g
    <3>3. udb' = udb /\ Publishing(s) \in {"publish", "write"}
      BY <3>1 DEF uploadVars, Publishing
    <3>4. Alone(s) /\ LocalOK(s)'
      BY <1>1, <2>3, <3>1, <3>2, <3>3, GoMine DEF Unlocked
    <3> QED
      BY <1>1, <2>3, <3>1, <3>3, <3>4, UpsMineSame, QuietStep
  <2> QED
    BY <2>4, <2>5
<1> QED
  BY <1>2, <1>3

\* Row f[s].row is locked, or is below the root.
LEMMA RowIsMine ==
    ASSUME TenantOK, NEW s \in Sess, pc[s] \in {"write", "meta", "publish"},
           LockWaits(s, f[s].row) = {}
    PROVE  /\ f[s].row \in Node /\ owner[f[s].row] \in {s, None} /\ new[f[s].row] \in Row
           /\ owner[f[s].row] = s \/ Mine(s, f[s].row)
           /\ Live(s, f[s].row) => new[f[s].row].st = "live"
<1>1. f[s].row \in Node /\ (owner[f[s].row] = s \/ Mine(s, f[s].row))
  BY CallFacts DEF TenantOK, TenantInv, LocalOK, PcLocal
<1> QED
  BY <1>1, CallFacts, RowSeen DEF TenantOK, RowsOK, RowsTyped, Live

LEMMA PutMine ==
    ASSUME TenantOK, NEW s \in Sess, NEW n \in Node, owner[n] \in {s, None},
           owner[n] = s \/ Mine(s, n), new[n].st = "live", NEW data, Put(s, n, data), db' = db
    PROVE  RowsMine(s) /\ RowsLeft(s)
<1> DEFINE v == [new[n] EXCEPT !.size = Len(data), !.sha = data, !.data = data]
<1>1. new[n] \in Row
  BY CallFacts DEF TenantOK, RowsOK, RowsTyped
<1>2. v.st = "live" /\ v.parent = new[n].parent
  BY <1>1 DEF Row
<1>3. new' = [new EXCEPT ![n] = v] /\ owner' = [owner EXCEPT ![n] = s]
  BY DEF Put, Lock
<1> HIDE DEF v
<1> QED
  BY <1>2, <1>3, RowsMineOne

LEMMA WriteTenant ==
    ASSUME TenantOK, NEW s \in Sess, Write(s)
    PROVE  TenantInv'
<1>1. pc[s] = "write" /\ LockWaits(s, f[s].row) = {}
  BY DEF Write, At
<1>2. CASE Live(s, f[s].row)
  <2>1. /\ Put(s, f[s].row, f[s].content) /\ Return(s, TRUE)
        /\ UNCHANGED <<db, shares, uploadVars>>
    BY <1>2 DEF Write, Put, Lock
  <2>2. RowsMine(s) /\ RowsLeft(s)
    BY <1>1, <1>2, <2>1, RowIsMine, PutMine
  <2> QED
    BY <2>1, <2>2, ReturnMine, UpsMineSame, QuietStep DEF uploadVars
<1>3. CASE ~Live(s, f[s].row) /\ f[s].content = << >>
  <2>1. Return(s, TRUE) /\ UNCHANGED <<rowVars, uploadVars>>
    BY <1>3 DEF Write
  <2> QED
    BY <2>1, ReturnMine, RowsMineSame, UpsMineSame, QuietStep DEF rowVars, uploadVars
<1>4. CASE ~Live(s, f[s].row) /\ f[s].content # << >>
  BY <1>4, RaiseTenant DEF Write
<1> QED
  BY <1>2, <1>3, <1>4

LEMMA ReadTenant ==
    ASSUME TenantOK, NEW s \in Sess, Read(s)
    PROVE  TenantInv'
<1> DEFINE g == IF Seen(s, f[s].cur).st # "live" \/ Seen(s, f[s].cur).dir
                THEN Fresh(s, NoCall, << >>, "false")
                ELSE [Fresh(s, NoCall, << >>, "true") EXCEPT
                          !.got = SubSeq(Seen(s, f[s].cur).data, 1, Seen(s, f[s].cur).size)]
<1>1. /\ pc[s] = "read" /\ UNCHANGED <<rowVars, uploadVars>>
      /\ pc' = [pc EXCEPT ![s] = "idle"] /\ f' = [f EXCEPT ![s] = g]
  BY DEF Read, At, Goto
<1>2. g.cur = RootOf[s]
  BY DEF Fresh
<1> HIDE DEF g
<1>3. db' = db /\ udb' = udb /\ \A n \in Node : owner'[n] # s
  BY <1>1 DEF TenantOK, TenantInv, LocalOK, Unlocked, rowVars, uploadVars
<1>4. Alone(s) /\ LocalOK(s)'
  BY <1>1, <1>2, <1>3, IdleMine
<1> QED
  BY <1>1, <1>3, <1>4, RowsMineSame, UpsMineSame, QuietStep

LEMMA SetMetadataTenant ==
    ASSUME TenantOK, NEW s \in Sess, SetMetadata(s)
    PROVE  TenantInv'
<1> DEFINE n == f[s].row
<1>1. /\ pc[s] = "meta" /\ LockWaits(s, n) = {} /\ UNCHANGED <<db, shares, uploadVars>>
  BY DEF SetMetadata, At
<1>2. CASE Live(s, n)
  <2> DEFINE v == [new[n] EXCEPT !.meta[f[s].call.key] = f[s].content[1]]
  <2>1. new' = [new EXCEPT ![n] = v] /\ owner' = [owner EXCEPT ![n] = s] /\ Return(s, TRUE)
    BY <1>2 DEF SetMetadata, Lock
  <2>2. /\ n \in Node /\ owner[n] \in {s, None} /\ new[n] \in Row /\ new[n].st = "live"
        /\ owner[n] = s \/ Mine(s, n)
    BY <1>1, <1>2, RowIsMine
  <2>3. v.st = "live" /\ v.parent = new[n].parent
    BY <2>2 DEF Row
  <2> HIDE DEF v
  <2>4. RowsMine(s) /\ RowsLeft(s)
    BY <1>1, <2>1, <2>2, <2>3, RowsMineOne
  <2> QED
    BY <1>1, <2>1, <2>4, ReturnMine, UpsMineSame, QuietStep DEF uploadVars
<1>3. CASE ~Live(s, n)
  <2>1. Return(s, FALSE) /\ UNCHANGED <<new, owner>>
    BY <1>3 DEF SetMetadata
  <2> QED
    BY <1>1, <2>1, ReturnMine, RowsMineSame, UpsMineSame, QuietStep DEF rowVars, uploadVars
<1> QED
  BY <1>2, <1>3

LEMMA StartUploadTenant ==
    ASSUME TenantOK, NEW s \in Sess, StartUpload(s)
    PROVE  TenantInv'
<1>1. UNCHANGED <<db, new, owner, udb>> /\ U!FreeIds # {} /\ Return(s, TRUE)
  BY DEF StartUpload
<1>2. PICK u \in Upload : u = U!FreshId /\ uowner[u] = None /\ unew[u].st = "free"
  BY <1>1, FreshUploadFree
<1> DEFINE v == [NoUpload EXCEPT !.st = "live", !.root = RootOf[s], !.path = f[s].call.path,
                                 !.excl = f[s].call.excl, !.app = f[s].call.app,
                                 !.created_at = f[s].now]
<1>3. v.st = "live" /\ v.root = RootOf[s]
  BY DEF NoUpload
<1>4. unew' = [unew EXCEPT ![u] = v] /\ uowner' = [uowner EXCEPT ![u] = s] /\ udb' = udb
  BY <1>1, <1>2 DEF StartUpload, U!InsertRow
<1> HIDE DEF v
<1>5. udb[u].st = "free"
  BY <1>2 DEF TenantOK, FilesInv, UpsOK
<1>6. UpsMine(s) /\ UpsLeft(s)
  BY <1>2, <1>3, <1>4, <1>5, UpsMineOne
<1>7. RowsMine(s) /\ RowsLeft(s)
  BY <1>1 DEF RowsMine, RowsLeft
<1> QED
  BY <1>1, <1>6, <1>7, ReturnMine, QuietStep

LEMMA UploadPartTenant ==
    ASSUME TenantOK, NEW s \in Sess, UploadPart(s)
    PROVE  TenantInv'
<1> DEFINE u == f[s].call.up
<1>1. /\ pc[s] = "up_lock" /\ UNCHANGED <<rowVars, udb>> /\ UploadWaits(s, u) = {}
  BY DEF UploadPart, At
<1>2. u \in Upload
  BY <1>1, UploadFacts DEF TenantOK
<1>3. CASE Own(s, u)
  <2> DEFINE v == [unew[u] EXCEPT !.data = @ \o f[s].content, !.size = @ + Len(f[s].content)]
  <2>1. /\ uowner' = [uowner EXCEPT ![u] = s] /\ Return(s, TRUE)
        /\ unew' = [unew EXCEPT ![u] = v]
    BY <1>3 DEF UploadPart, U!Lock
  <2>2. /\ uowner[u] \in {s, None} /\ unew[u] \in UploadRow
        /\ unew[u].st = "live" /\ unew[u].root = RootOf[s]
        /\ udb[u].st # "free" => udb[u].root = RootOf[s]
    BY <1>1, <1>2, <1>3, OwnFacts DEF UploadWaits
  <2>3. v.st = "live" /\ v.root = RootOf[s]
    BY <2>2 DEF UploadRow
  <2> HIDE DEF v
  <2>4. UpsMine(s) /\ UpsLeft(s)
    BY <1>1, <1>2, <2>1, <2>2, <2>3, UpsMineOne
  <2> QED
    BY <1>1, <2>1, <2>4, ReturnMine, RowsMineSame, QuietStep DEF rowVars
<1>4. CASE ~Own(s, u)
  <2>1. Return(s, FALSE) /\ UNCHANGED <<unew, uowner>>
    BY <1>4 DEF UploadPart
  <2> QED
    BY <1>1, <2>1, ReturnMine, RowsMineSame, UpsMineSame, QuietStep DEF rowVars, uploadVars
<1> QED
  BY <1>3, <1>4

LEMMA FinUploadTenant ==
    ASSUME TenantOK, NEW s \in Sess, FinUpload(s)
    PROVE  TenantInv'
<1> DEFINE u == f[s].call.up
<1>1. /\ pc[s] = "fin_upload" /\ UNCHANGED rowVars /\ UploadWaits(s, u) = {} /\ db' = db
  BY DEF FinUpload, At, rowVars
<1>2. u \in Upload
  BY <1>1, UploadFacts DEF TenantOK
<1>3. CASE ~Own(s, u)
  <2>1. Return(s, FALSE) /\ UNCHANGED uploadVars
    BY <1>3 DEF FinUpload
  <2> QED
    BY <1>1, <2>1, ReturnMine, RowsMineSame, UpsMineSame, QuietStep DEF uploadVars
<1>4. Own(s, u) => /\ uowner[u] \in {s, None} /\ unew[u] \in UploadRow
                   /\ unew[u].st = "live" /\ unew[u].root = RootOf[s]
                   /\ udb[u].st # "free" => udb[u].root = RootOf[s]
  BY <1>1, <1>2, OwnFacts DEF UploadWaits
<1>5. CASE Own(s, u) /\ f[s].call.size = "differ"
  <2>1. /\ unew' = [unew EXCEPT ![u].st = "dead"] /\ uowner' = [uowner EXCEPT ![u] = s]
        /\ Return(s, FALSE) /\ udb' = udb
    BY <1>5 DEF FinUpload, U!Lock
  <2>2. UpsMine(s) /\ UpsLeft(s)
    BY <1>2, <1>4, <1>5, <2>1, KillMine
  <2> QED
    BY <1>1, <2>1, <2>2, ReturnMine, RowsMineSame, QuietStep
<1>6. CASE Own(s, u) /\ f[s].call.size # "differ"
  <2> DEFINE g == [f[s] EXCEPT !.rest = unew[u].path]
  <2>1. /\ uowner' = [uowner EXCEPT ![u] = s] /\ pc' = [pc EXCEPT ![s] = "walk"]
        /\ f' = [f EXCEPT ![s] = g] /\ UNCHANGED <<udb, unew>>
    BY <1>6 DEF FinUpload, U!Lock, Goto
  <2>2. g.cur = f[s].cur
    BY CallFacts DEF TenantOK, Frame
  <2> HIDE DEF g
  <2>3. unew' = [unew EXCEPT ![u] = unew[u]]
    BY <2>1 DEF TenantOK, FilesInv, UpsOK, UpsTyped
  <2>4. UpsMine(s) /\ UpsLeft(s)
    BY <1>2, <1>4, <1>6, <2>1, <2>3, UpsMineOne
  <2>5. Mine(s, f[s].cur) /\ \A n \in Node : owner'[n] # s
    BY <1>1 DEF TenantOK, TenantInv, LocalOK, Unlocked, rowVars
  <2>6. Alone(s) /\ LocalOK(s)'
    BY <1>1, <2>1, <2>2, <2>5, GoMine
  <2> QED
    BY <1>1, <2>1, <2>4, <2>6, RowsMineSame, QuietStep
<1> QED
  BY <1>3, <1>5, <1>6

LEMMA FinNodeTenant ==
    ASSUME TenantOK, NEW s \in Sess, FinNode(s)
    PROVE  TenantInv'
<1>1. /\ pc[s] = "fin_node" /\ UNCHANGED <<db, new, shares>>
      /\ LockWaits(s, f[s].cur) = {} /\ pc[s] \in Holding
  BY DEF FinNode, At, Holding
<1>2. PICK n \in Node : n = f[s].cur /\ Mine(s, n) /\ \A m \in Node : owner[m] # s
  BY <1>1, CallFacts DEF TenantOK, TenantInv, LocalOK, Unlocked
<1>3. CASE ~Live(s, n)
  <2>1. ToParent(s, Path(s)) /\ UNCHANGED owner
    BY <1>2, <1>3 DEF FinNode
  <2>2. UNCHANGED rowVars
    BY <1>1, <2>1 DEF rowVars
  <2>3. udb' = udb
    BY <2>1 DEF ToParent, StartWalk, Found, Refuse, Discard, uploadVars
  <2> QED
    BY <1>1, <1>2, <2>1, <2>2, <2>3, ToParentMine, RowsMineSame, QuietStep DEF rowVars
<1>4. CASE Live(s, n)
  <2>1. Lock(s, n)
    BY <1>2, <1>4 DEF FinNode
  <2>2. RowsMine(s) /\ RowsLeft(s) /\ owner'[n] = s
    BY <1>1, <1>2, <2>1, LockMine
  <2>3. CASE Seen(s, n).dir \/ Exclusive(s)
    <3>1. Refuse(s)
      BY <1>2, <1>4, <2>3 DEF FinNode
    <3>2. udb' = udb
      BY <3>1 DEF Refuse, Discard, uploadVars
    <3> QED
      BY <1>1, <2>2, <3>1, <3>2, RefuseMine, QuietStep
  <2>4. CASE ~(Seen(s, n).dir \/ Exclusive(s))
    <3> DEFINE g == [f[s] EXCEPT !.row = n, !.size = Seen(s, n).size]
    <3>1. /\ f' = [f EXCEPT ![s] = g] /\ pc' = [pc EXCEPT ![s] = "publish"]
          /\ UNCHANGED uploadVars
      BY <1>2, <1>4, <2>4 DEF FinNode, Goto
    <3>2. g.cur = f[s].cur /\ g.row = n
      BY CallFacts DEF TenantOK, Frame
    <3> HIDE DEF g
    <3>3. udb' = udb
      BY <3>1 DEF uploadVars
    <3>4. Alone(s) /\ LocalOK(s)'
      BY <1>1, <1>2, <2>2, <3>1, <3>2, <3>3, GoMine DEF Unlocked
    <3> QED
      BY <1>1, <2>2, <3>1, <3>3, <3>4, UpsMineSame, QuietStep
  <2> QED
    BY <2>3, <2>4
<1> QED
  BY <1>3, <1>4

LEMMA PublishTenant ==
    ASSUME TenantOK, NEW s \in Sess, Publish(s)
    PROVE  TenantInv'
<1>1. /\ pc[s] = "publish" /\ pc[s] \in Holding /\ LockWaits(s, f[s].row) = {}
  BY DEF Publish, At, Holding
<1> DEFINE append == Staged(s).app /\ ~f[s].made
           data == IF append THEN Appended(s) ELSE Staged(s).data
<1>2. CASE ~append /\ f[s].call.sha = "differ"
  <2>1. Refuse(s) /\ UNCHANGED rowVars
    BY <1>2 DEF Publish
  <2>2. db' = db /\ udb' = udb
    BY <2>1 DEF rowVars, Refuse, Discard, uploadVars
  <2> QED
    BY <1>1, <2>1, <2>2, RefuseMine, RowsMineSame, QuietStep
<1>3. CASE ~(~append /\ f[s].call.sha = "differ")
  <2>1. Put(s, f[s].row, data) /\ Return(s, TRUE) /\ Discard(s) /\ UNCHANGED <<db, shares>>
    BY <1>3 DEF Publish
  <2>2. new[f[s].row].st = "live" /\ Finishing(s)
    BY <1>1, CallFacts DEF TenantOK, PcLocal, PcHolds, LabelOK, Finishing
  <2> HIDE DEF data
  <2>3. RowsMine(s) /\ RowsLeft(s)
    BY <1>1, <2>1, <2>2, RowIsMine, PutMine
  <2> DEFINE u == f[s].call.up
  <2>4. u \in Upload /\ uowner[u] = s
    BY <1>1, <2>2, HoldsUpload DEF TenantOK
  <2>5. UpOwnedOK(s, u)
    BY <2>4 DEF TenantOK, TenantInv
  <2>6. /\ unew' = [unew EXCEPT ![u].st = "dead"] /\ uowner' = [uowner EXCEPT ![u] = s]
        /\ udb' = udb
    BY <2>1, <2>4 DEF Discard, TenantOK, FilesInv, UpsOK, UpsTyped
  <2> HIDE DEF u
  <2>7. UpsMine(s) /\ UpsLeft(s)
    BY <2>4, <2>5, <2>6, KillMine DEF UpOwnedOK
  <2> QED
    BY <2>1, <2>3, <2>6, <2>7, ReturnMine, QuietStep
<1> QED
  BY <1>2, <1>3

LEMMA AbortUploadTenant ==
    ASSUME TenantOK, NEW s \in Sess, AbortUpload(s)
    PROVE  TenantInv'
<1> DEFINE u == f[s].call.up
<1>1. /\ pc[s] = "ab_delete" /\ UNCHANGED <<rowVars, udb>> /\ UploadWaits(s, u) = {}
      /\ db' = db
  BY DEF AbortUpload, At, rowVars
<1>2. u \in Upload
  BY <1>1, UploadFacts DEF TenantOK
<1>3. UpsMine(s) /\ UpsLeft(s)
  <2>1. CASE Own(s, u)
    <3>1. unew' = [unew EXCEPT ![u].st = "dead"] /\ uowner' = [uowner EXCEPT ![u] = s]
      BY <2>1 DEF AbortUpload, U!Lock
    <3>2. /\ uowner[u] \in {s, None} /\ unew[u].st = "live" /\ unew[u].root = RootOf[s]
          /\ udb[u].st # "free" => udb[u].root = RootOf[s]
      BY <1>1, <1>2, <2>1, OwnFacts DEF UploadWaits
    <3> QED
      BY <1>1, <1>2, <3>1, <3>2, KillMine
  <2>2. CASE ~Own(s, u)
    <3>1. UNCHANGED <<unew, uowner>>
      BY <2>2 DEF AbortUpload
    <3> QED
      BY <1>1, <3>1, UpsMineSame DEF uploadVars
  <2> QED
    BY <2>1, <2>2
<1>4. Alone(s) /\ LocalOK(s)'
  <2>1. CASE f[s].out = "error"
    <3>1. pc' = [pc EXCEPT ![s] = "commit"] /\ f' = [f EXCEPT ![s] = f[s]]
      BY <2>1, CallFacts DEF AbortUpload, Goto, TenantOK, LocalsTyped
    <3>2. Mine(s, f[s].cur)
      BY DEF TenantOK, TenantInv, LocalOK
    <3> QED
      BY <1>1, <3>1, <3>2, GoMine DEF Unlocked
  <2>2. CASE f[s].out # "error"
    BY <1>1, <2>2, ReturnMine DEF AbortUpload
  <2> QED
    BY <2>1, <2>2
<1> QED
  BY <1>1, <1>3, <1>4, RowsMineSame, QuietStep

LEMMA CleanupTenant ==
    ASSUME TenantOK, NEW s \in Sess, CleanupScan(s) \/ CleanupDelete(s)
    PROVE  TenantInv'
<1>1. UNCHANGED rowVars /\ udb' = udb /\ db' = db
  BY DEF CleanupScan, CleanupDelete, rowVars, uploadVars
<1>2. ASSUME NEW todo \in SUBSET Upload, f' = [f EXCEPT ![s].todo = todo],
             pc' = [pc EXCEPT ![s] = "cl_delete"],
             \A u \in todo : uowner'[u] = s \/ UpMine(s, u)
      PROVE  Alone(s) /\ LocalOK(s)'
  <2> DEFINE g == [f[s] EXCEPT !.todo = todo]
  <2>1. f' = [f EXCEPT ![s] = g] /\ g.cur = f[s].cur /\ g.todo = todo
    BY <1>2, CallFacts DEF TenantOK, Frame
  <2> HIDE DEF g
  <2>2. Mine(s, f[s].cur)
    BY DEF TenantOK, TenantInv, LocalOK
  <2> QED
    BY <1>1, <1>2, <2>1, <2>2, GoMine DEF Unlocked
<1>3. CASE CleanupScan(s)
  <2> DEFINE todo == {u \in Upload : Expired(s, u)}
  <2>1. /\ f' = [f EXCEPT ![s].todo = todo] /\ pc' = [pc EXCEPT ![s] = "cl_delete"]
        /\ UNCHANGED uploadVars
    BY <1>3 DEF CleanupScan, Goto
  <2>2. \A u \in todo : uowner'[u] = s \/ UpMine(s, u)
    BY <2>1 DEF Expired, U!Live, U!Seen, UpMine, uploadVars
  <2> HIDE DEF todo
  <2>3. todo \in SUBSET Upload
    BY DEF todo
  <2>4. Alone(s) /\ LocalOK(s)'
    BY <1>2, <2>1, <2>2, <2>3
  <2> QED
    BY <1>1, <2>1, <2>4, RowsMineSame, UpsMineSame, QuietStep
<1>4. CASE CleanupDelete(s) /\ f[s].todo = {}
  <2>1. Return(s, TRUE) /\ UNCHANGED uploadVars
    BY <1>4 DEF CleanupDelete
  <2> QED
    BY <1>1, <2>1, ReturnMine, RowsMineSame, UpsMineSame, QuietStep
<1>5. CASE CleanupDelete(s) /\ f[s].todo # {}
  <2>1. PICK u \in f[s].todo :
               /\ U!LockWaits(s, u) = {}
               /\ f' = [f EXCEPT ![s].todo = @ \ {u}]
               /\ IF U!Live(s, u) THEN unew' = [unew EXCEPT ![u].st = "dead"] /\ U!Lock(s, u)
                  ELSE UNCHANGED <<unew, uowner>>
               /\ UNCHANGED <<udb, pc>>
    BY <1>5 DEF CleanupDelete
  <2>2. /\ pc[s] = "cl_delete" /\ u \in Upload /\ f[s].todo \subseteq Upload
        /\ \A w \in f[s].todo : uowner[w] = s \/ UpMine(s, w)
    BY <1>5, <2>1, CallFacts DEF CleanupDelete, At, TenantOK, TenantInv, LocalOK
  <2>3. /\ uowner[u] \in {s, None} /\ U!Seen(s, u) = unew[u]
        /\ uowner[u] = None => unew[u] = udb[u]
        /\ uowner[u] = s => UpOwnedOK(s, u)
    BY <2>1, <2>2, OwnFacts DEF TenantOK, TenantInv, FilesInv, UpsOK
  <2>4. UpsMine(s) /\ UpsLeft(s) /\ \A w \in Upload : uowner[w] = s => uowner'[w] = s
    <3>1. CASE U!Live(s, u)
      <4>1. unew' = [unew EXCEPT ![u].st = "dead"] /\ uowner' = [uowner EXCEPT ![u] = s]
        BY <2>1, <3>1 DEF U!Lock
      <4>2. /\ unew[u].st # "free" /\ unew[u].root = RootOf[s]
            /\ udb[u].st # "free" => udb[u].root = RootOf[s]
        BY <2>1, <2>2, <2>3 DEF UpOwnedOK, UpMine
      <4>3. \A w \in Upload : uowner[w] = s => uowner'[w] = s
        BY <4>1 DEF TenantOK, FilesInv, UpsOK, UpsTyped
      <4> QED
        BY <1>1, <2>2, <2>3, <4>1, <4>2, <4>3, KillMine
    <3>2. CASE ~U!Live(s, u)
      BY <2>1, <3>2, UpsMineSame DEF uploadVars
    <3> QED
      BY <3>1, <3>2
  <2>5. f' = [f EXCEPT ![s].todo = f[s].todo \ {u}] /\ pc' = [pc EXCEPT ![s] = "cl_delete"]
    BY <2>1, <2>2, CallFacts DEF TenantOK, LocalsTyped
  <2>6. PICK todo \in SUBSET Upload : todo = f[s].todo \ {u}
    BY <2>2
  <2>7. \A w \in todo : uowner'[w] = s \/ UpMine(s, w)
    BY <2>2, <2>4, <2>6
  <2>8. Alone(s) /\ LocalOK(s)'
    BY <1>2, <2>5, <2>6, <2>7
  <2> QED
    BY <1>1, <2>4, <2>8, RowsMineSame, QuietStep
<1> QED
  BY <1>3, <1>4, <1>5

LEMMA BeginTenant ==
    ASSUME TenantOK, NEW s \in Sess, NEW c \in Calls, Begin(s, c)
    PROVE  TenantInv'
<1> DEFINE content == IF c.empty THEN << >> ELSE <<left>>
           fr == Fresh(s, c, content, "none")
<1>1. pc[s] = "idle" /\ UNCHANGED rowVars /\ db' = db /\ left \in Nat
  BY CallFacts DEF Begin, At, rowVars, TenantOK, CountsOK
<1>2. c \in Call /\ c.op \in Ops /\ c.empty \in BOOLEAN
  BY FilesAssumption DEF Call
<1>3. content \in Content
  BY <1>1, <1>2, EmptySeq DEF Content
<1> HIDE DEF content
<1>4. fr \in Frame /\ fr.goal = "node" /\ fr.cur = RootOf[s]
  BY <1>2, <1>3, CallFacts, FreshFrame DEF TenantOK, Fresh
<1> HIDE DEF fr
<1>5. \A m \in Node : owner[m] # s /\ owner'[m] # s
  BY <1>1 DEF TenantOK, TenantInv, LocalOK, Unlocked, rowVars
<1>6. ASSUME NEW label, NEW g, label \notin {"write", "meta", "publish", "cl_delete"},
             pc' = [pc EXCEPT ![s] = label], f' = [f EXCEPT ![s] = g], g.cur = RootOf[s],
             UNCHANGED uploadVars
      PROVE  TenantInv'
  <2>1. udb' = udb
    BY <1>6 DEF uploadVars
  <2>2. Alone(s) /\ LocalOK(s)'
    BY <1>1, <1>5, <1>6, <2>1, RootMine, GoMine
  <2> QED
    BY <1>1, <1>6, <2>1, <2>2, RowsMineSame, UpsMineSame, QuietStep
<1>7. CASE c.op \in {"write_file", "write_file_atomic", "read_file", "set_metadata"}
  <2>1. StartWalk(s, fr, c.path)
    BY <1>7 DEF Begin, fr, content
  <2>2. udb' = udb
    BY <2>1 DEF StartWalk, Found, Refuse, Discard, uploadVars
  <2>3. UpsMine(s) /\ UpsLeft(s) /\ Alone(s) /\ LocalOK(s)'
    BY <1>1, <1>4, <1>5, <2>1, StartWalkMine
  <2> QED
    BY <1>1, <2>2, <2>3, RowsMineSame, QuietStep
<1>8. CASE c.op = "start_upload" /\ Malformed(c)
  <2> DEFINE h == Fresh(s, NoCall, << >>, "error")
  <2>1. f' = [f EXCEPT ![s] = h] /\ UNCHANGED <<pc, uploadVars>>
    BY <1>8 DEF Begin
  <2>2. h.cur = RootOf[s] /\ pc' = [pc EXCEPT ![s] = "idle"]
    BY <1>1, <2>1, CallFacts DEF Fresh, TenantOK, LocalsTyped
  <2> HIDE DEF h
  <2> QED
    BY <1>6, <2>1, <2>2
<1>9. CASE c.op \notin {"write_file", "write_file_atomic", "read_file", "set_metadata"}
           /\ ~(c.op = "start_upload" /\ Malformed(c))
  <2>1. PICK label \in {"su_insert", "ab_delete", "fin_upload", "up_lock", "cl_scan"},
             out \in {"none", "error"} :
               /\ Goto(s, label) /\ f' = [f EXCEPT ![s] = [fr EXCEPT !.out = out]]
               /\ UNCHANGED uploadVars
    BY <1>2, <1>9 DEF Begin, Ops, fr, content
  <2> DEFINE g == [fr EXCEPT !.out = out]
  <2>2. g.cur = RootOf[s]
    BY <1>4 DEF Frame
  <2> HIDE DEF g
  <2>3. f' = [f EXCEPT ![s] = g] /\ pc' = [pc EXCEPT ![s] = label]
    BY <2>1 DEF g, Goto
  <2> QED
    BY <1>6, <2>1, <2>2, <2>3
<1> QED
  BY <1>7, <1>8, <1>9

-----------------------------------------------------------------------------
(* Steps that commit *)

\* What was below the root stays below it, and no other transaction's rows change.
CommitsMine ==
    /\ FkOK' /\ RootsOK'
    /\ \A t \in Sess : /\ \A n \in Node : Mine(t, n) => Mine(t, n)'
                       /\ \A u \in Upload : UpMine(t, u) => UpMine(t, u)'
    /\ \A t \in Sess, n \in Node :
           owner'[n] = t => owner[n] = t /\ new'[n] = new[n] /\ db'[n] = db[n]
    /\ \A t \in Sess, u \in Upload :
           uowner'[u] = t => uowner[u] = t /\ unew'[u] = unew[u] /\ udb'[u] = udb[u]

\* The call of t has ended, or has not moved and keeps its locks.
EndedOrSame(t) ==
    \/ pc'[t] = "idle" /\ f'[t].cur = RootOf[t] /\ \A n \in Node : owner'[n] # t
    \/ /\ pc'[t] = pc[t] /\ f'[t] = f[t]
       /\ \A n \in Node : owner[n] = t => owner'[n] = t
       /\ \A u \in Upload : uowner[u] = t => uowner'[u] = t

LEMMA CommittingStep ==
    ASSUME TenantOK, CommitsMine, \A t \in Sess : EndedOrSame(t)
    PROVE  TenantInv'
<1>1. ASSUME NEW t \in Sess, NEW n \in Node, owner'[n] = t PROVE OwnedOK(t, n)'
  <2>1. owner[n] = t /\ new'[n] = new[n] /\ db'[n] = db[n] /\ OwnedOK(t, n)
    BY <1>1 DEF CommitsMine, TenantOK, TenantInv
  <2>2. CASE db[n].st = "free"
    <3>1. new[n].parent \in Node /\ Mine(t, new[n].parent)
      BY <2>1, <2>2 DEF OwnedOK
    <3>2. Mine(t, new[n].parent)'
      <4>1. PICK p \in Node : p = new[n].parent
        BY <3>1
      <4>2. Mine(t, p)'
        BY <3>1, <4>1 DEF CommitsMine
      <4> QED
        BY <2>1, <4>1, <4>2 DEF Mine
    <3> QED
      BY <2>1, <2>2, <3>1, <3>2 DEF OwnedOK, Mine
  <2>3. CASE db[n].st # "free"
    <3>1. Mine(t, n)
      BY <2>1, <2>3 DEF OwnedOK, Mine
    <3>2. Mine(t, n)'
      BY <3>1 DEF CommitsMine
    <3> QED
      BY <2>1, <2>3, <3>2 DEF OwnedOK, Mine
  <2> QED
    BY <2>2, <2>3
<1>2. ASSUME NEW t \in Sess, NEW u \in Upload, uowner'[u] = t PROVE UpOwnedOK(t, u)'
  <2>1. uowner[u] = t /\ unew'[u] = unew[u] /\ udb'[u] = udb[u] /\ UpOwnedOK(t, u)
    BY <1>2 DEF CommitsMine, TenantOK, TenantInv
  <2> QED
    BY <2>1 DEF UpOwnedOK
<1>3. ASSUME NEW t \in Sess PROVE LocalOK(t)'
  <2>1. CASE pc'[t] = "idle" /\ f'[t].cur = RootOf[t] /\ \A n \in Node : owner'[n] # t
    <3>1. Mine(t, RootOf[t])'
      BY RootMine DEF CommitsMine
    <3> QED
      BY <2>1, <3>1 DEF LocalOK, Mine
  <2>2. CASE /\ pc'[t] = pc[t] /\ f'[t] = f[t]
             /\ \A n \in Node : owner[n] = t => owner'[n] = t
             /\ \A u \in Upload : uowner[u] = t => uowner'[u] = t
    <3>1. /\ LocalOK(t) /\ f[t].cur \in Node /\ f[t].todo \subseteq Upload
          /\ pc[t] \in {"write", "meta", "publish"} => f[t].row \in Node
      BY CallFacts DEF TenantOK, TenantInv, PcLocal
    <3>2. Mine(t, f[t].cur)' /\ \A n \in Node : owner'[n] = t => owner[n] = t
      BY <2>2, <3>1 DEF CommitsMine, LocalOK, Mine
    <3>3. pc[t] \in {"write", "meta", "publish"} => owner'[f[t].row] = t \/ Mine(t, f[t].row)'
      BY <2>2, <3>1 DEF CommitsMine, LocalOK, Mine
    <3>4. pc[t] = "cl_delete" => \A u \in f[t].todo : uowner'[u] = t \/ UpMine(t, u)'
      BY <2>2, <3>1 DEF CommitsMine, LocalOK, UpMine
    <3> QED
      BY <2>2, <3>1, <3>2, <3>3, <3>4 DEF LocalOK, Mine, UpMine
  <2> QED
    BY <2>1, <2>2 DEF EndedOrSame
<1> QED
  BY <1>1, <1>2, <1>3 DEF CommitsMine, TenantInv

\* What a commit of s does to the rows.
LEMMA CommitFacts ==
    ASSUME TenantOK, NEW s \in Sess, Commit(s)
    PROVE  /\ \A n \in Node : db'[n] = IF owner[n] = s THEN new[n] ELSE db[n]
           /\ \A u \in Upload : udb'[u] = IF uowner[u] = s THEN unew[u] ELSE udb[u]
           /\ CommitsMine /\ \A t \in Sess : EndedOrSame(t)
<1>0. s # None
  BY PgAssumption
<1>1. /\ \A n \in Node : /\ db'[n] = IF owner[n] = s THEN new[n] ELSE db[n]
                         /\ new'[n] = new[n]
                         /\ owner'[n] = IF owner[n] = s THEN None ELSE owner[n]
  BY DEF Commit, CommitRows, ReleaseRows, Seen
<1>2. \A u \in Upload : /\ udb'[u] = IF uowner[u] = s THEN unew[u] ELSE udb[u]
                        /\ unew'[u] = unew[u]
                        /\ uowner'[u] = IF uowner[u] = s THEN None ELSE uowner[u]
  BY DEF Commit, U!CommitRows, U!ReleaseRows, U!Seen
<1> DEFINE N == {n \in Node : owner[n] = s /\ db[n].st = "free"}
<1>3. /\ \A n \in Node : owner[n] = s => OwnedOK(s, n)
      /\ \A u \in Upload : uowner[u] = s => UpOwnedOK(s, u)
      /\ FkOK /\ RootsOK
  BY DEF TenantOK, TenantInv
<1>4. N \in SUBSET Node /\ \A m \in Node \ N : db'[m].parent = db[m].parent
  BY <1>1, <1>3 DEF OwnedOK
<1>5. \A m \in Node : db[m].parent \notin N
  BY <1>3, PgAssumption DEF FkOK
<1>6. \A m \in Node : db[m].st # "free" => db'[m].st # "free" /\ m \notin N
  BY <1>1, <1>3 DEF OwnedOK
<1>7. RootOf \in [Sess -> Node] /\ \A m \in Node : db[m].parent \in Node \cup {None}
  BY CallFacts, FilesAssumption DEF TenantOK, RowsOK, RowsTyped, Row
<1> HIDE DEF N
<1>8. \A t \in Sess, n \in Node : Mine(t, n) => Mine(t, n)'
  BY <1>4, <1>5, <1>6, TreeKept DEF Mine
<1>9. FkOK'
  <2>1. ASSUME NEW n \in Node, db'[n].parent # None PROVE db'[db'[n].parent].st # "free"
    <3>1. CASE n \in N
      <4>1. db'[n].parent \in Node /\ db[db'[n].parent].st # "free"
        BY <1>1, <1>3, <3>1 DEF N, OwnedOK, Mine
      <4> QED
        BY <1>6, <4>1
    <3>2. CASE n \notin N
      <4>1. db'[n].parent \in Node /\ db[db'[n].parent].st # "free"
        BY <1>3, <1>4, <1>7, <2>1, <3>2 DEF FkOK
      <4> QED
        BY <1>6, <4>1
    <3> QED
      BY <3>1, <3>2
  <2> QED
    BY <2>1 DEF FkOK
<1>10. RootsOK'
  <2>1. ASSUME NEW t \in Sess PROVE db'[RootOf[t]].st # "free" /\ db'[RootOf[t]].parent = None
    <3>1. PICK r \in Node : r = RootOf[t]
      BY <1>7
    <3>2. db[r].st # "free" /\ db[r].parent = None
      BY <1>3, <3>1 DEF RootsOK
    <3> QED
      BY <1>4, <1>6, <3>1, <3>2
  <2> QED
    BY <2>1 DEF RootsOK
<1>11. \A t \in Sess, u \in Upload : UpMine(t, u) => UpMine(t, u)'
  BY <1>2, <1>3 DEF UpMine, UpOwnedOK
<1>12. CommitsMine
  BY <1>0, <1>1, <1>2, <1>8, <1>9, <1>10, <1>11, PgAssumption DEF CommitsMine
<1>13. ASSUME NEW t \in Sess PROVE EndedOrSame(t)
  <2>1. CASE t = s
    <3> DEFINE h == Fresh(s, NoCall, << >>, f[s].out)
    <3>1. f' = [f EXCEPT ![s] = h] /\ pc' = [pc EXCEPT ![s] = "idle"] /\ h.cur = RootOf[s]
      BY DEF Commit, Goto, Fresh
    <3> HIDE DEF h
    <3>2. f'[s].cur = RootOf[s] /\ pc'[s] = "idle"
      BY <3>1, CallFacts DEF TenantOK, LocalsTyped
    <3> QED
      BY <1>0, <1>1, <2>1, <3>2 DEF EndedOrSame
  <2>2. CASE t # s
    <3>1. f'[t] = f[t] /\ pc'[t] = pc[t]
      BY <2>2, CallFacts DEF TenantOK, LocalsTyped, Commit, Goto
    <3> QED
      BY <1>1, <1>2, <2>2, <3>1 DEF EndedOrSame
  <2> QED
    BY <2>1, <2>2
<1> QED
  BY <1>1, <1>2, <1>12, <1>13

\* The parent of a row is below the root when the row is, and is not the root.
LEMMA ParentInTree ==
    ASSUME NEW rows, NEW n \in Node, NEW r, InTree(rows, n, r), r # n,
           rows[n].parent \in Node
    PROVE  InTree(rows, rows[n].parent, r)
<1>1. ASSUME NEW S \in SUBSET Node, rows[n].parent \in S, Closed(rows, S) PROVE r \in S
  <2>1. S \cup {n} \in SUBSET Node /\ n \in S \cup {n} /\ Closed(rows, S \cup {n})
    BY <1>1 DEF Closed
  <2>2. r \in S \cup {n}
    BY <2>1 DEF InTree, Closed
  <2> QED
    BY <2>2
<1> QED
  BY <1>1 DEF InTree, Closed

\* A row that moves takes what is below it along, to where its new parent is: the
\* parent is not below the row itself.
LEMMA SubtreeKept ==
    ASSUME NEW rows, NEW after, NEW n \in Node, NEW p \in Node, NEW r \in Node, NEW m \in Node,
           \A k \in Node : rows[k].parent \in Node \cup {None},
           after[n].parent = p, \A k \in Node \ {n} : after[k].parent = rows[k].parent,
           n # r, rows[n].parent # None, rows[r].parent = None,
           ~InTree(rows, p, n), InTree(rows, n, r) => InTree(rows, p, r),
           InTree(rows, m, r)
    PROVE  InTree(after, m, r)
<1>1. PICK W \in SUBSET Node : p \in W /\ Closed(rows, W) /\ n \notin W
  BY DEF InTree, Closed
<1> SUFFICES ASSUME NEW S \in SUBSET Node, m \in S, Closed(after, S) PROVE r \in S
  BY DEF InTree, Closed
<1>2. CASE n \notin S
  <2>1. Closed(rows, S)
    BY <1>2 DEF Closed
  <2> QED
    BY <2>1 DEF InTree, Closed
<1>3. CASE n \in S
  <2>1. p \in S
    BY <1>3, PgAssumption DEF Closed
  <2>2. Closed(rows, S \cap W)
    BY <1>1 DEF Closed
  <2>3. InTree(rows, p, r) => r \in S
    BY <1>1, <2>1, <2>2 DEF InTree, Closed
  <2> DEFINE D == {x \in Node : InTree(rows, x, n)}
  <2>4. CASE m \in D
    <3>1. ASSUME NEW V \in SUBSET Node, n \in V, Closed(rows, V) PROVE r \in V
      <4>1. ASSUME NEW x \in D \ {n}, rows[x].parent # None PROVE rows[x].parent \in D
        BY <4>1, ParentInTree
      <4>2. Closed(rows, D \cup V)
        BY <3>1, <4>1 DEF Closed
      <4>3. r \in D \cup V
        BY <2>4, <4>2 DEF InTree, Closed
      <4>4. ~InTree(rows, r, n)
        <5>1. {r} \in SUBSET Node /\ r \in {r} /\ Closed(rows, {r}) /\ n \notin {r}
          BY DEF Closed
        <5> QED
          BY <5>1 DEF InTree, Closed
      <4> QED
        BY <4>3, <4>4
    <3> QED
      BY <2>3, <3>1 DEF InTree, Closed
  <2>5. CASE m \notin D
    <3>1. ASSUME NEW x \in S \ D, rows[x].parent # None PROVE rows[x].parent \in S \ D
      <4>1. x # n
        BY <3>1, RootInTree
      <4>2. rows[x].parent \in S
        BY <3>1, <4>1 DEF Closed
      <4>3. rows[x].parent \notin D
        BY <3>1, ChildInTree
      <4> QED
        BY <4>2, <4>3
    <3>2. Closed(rows, S \ D) /\ m \in S \ D /\ S \ D \in SUBSET Node
      BY <2>5, <3>1 DEF Closed
    <3> QED
      BY <3>2 DEF InTree, Closed
  <2> QED
    BY <2>4, <2>5
<1> QED
  BY <1>2, <1>3

\* One committed row changes, which nobody has locked.
LEMMA OtherTenant ==
    ASSUME TenantOK, NEW n \in Node, owner[n] = None, NEW v, v.st # "free",
           \/ v.parent = db[n].parent
           \/ \A m \in Node : db[m].parent # n
           \/ db[n].st # "free" /\ db[n].parent # None /\ ~InTree(db, v.parent, n),
           v.parent \in Node, db[v.parent].st # "free",
           \A t \in Sess : RootOf[t] # n,
           \A t \in Sess : Mine(t, n) => InTree(db, v.parent, RootOf[t]),
           v.parent # n,
           db' = [db EXCEPT ![n] = v], new' = [new EXCEPT ![n] = v],
           UNCHANGED <<owner, uploadVars, f, pc>>
    PROVE  TenantInv'
<1>0. \A t \in Sess : t # None
  BY PgAssumption
<1>1. /\ \A m \in Node : db'[m] = IF m = n THEN v ELSE db[m]
      /\ \A m \in Node : new'[m] = IF m = n THEN v ELSE new[m]
  BY CallFacts DEF TenantOK, FilesInv, RowsOK, RowsTyped
<1>2. FkOK /\ RootsOK /\ RootOf \in [Sess -> Node]
      /\ \A m \in Node : db[m].parent \in Node \cup {None}
  BY FilesAssumption DEF TenantOK, TenantInv, FilesInv, RowsOK, RowsTyped, Row
<1>3. FkOK' /\ RootsOK'
  BY <1>1, <1>2 DEF FkOK, RootsOK
<1>4. ASSUME NEW t \in Sess, NEW m \in Node, InTree(db, m, RootOf[t]), m # n
      PROVE  InTree(db', m, RootOf[t])
  <2>1. CASE v.parent = db[n].parent
    <3>1. /\ {} \in SUBSET Node
          /\ \A k \in Node \ {} : db'[k].parent = db[k].parent
          /\ \A k \in Node : db[k].parent \notin {}
      BY <1>1, <2>1
    <3> QED
      BY <1>4, <3>1, TreeKept
  <2>2. CASE \A k \in Node : db[k].parent # n
    <3>1. /\ {n} \in SUBSET Node
          /\ \A k \in Node \ {n} : db'[k].parent = db[k].parent
          /\ \A k \in Node : db[k].parent \notin {n}
      BY <1>1, <2>2
    <3> QED
      BY <1>4, <3>1, TreeKept
  <2>3. CASE db[n].st # "free" /\ db[n].parent # None /\ ~InTree(db, v.parent, n)
    <3>1. PICK p \in Node, r \in Node : p = v.parent /\ r = RootOf[t]
      BY <1>2
    <3>2. InTree(db, n, r) => InTree(db, p, r)
      BY <2>3, <3>1 DEF Mine
    <3>3. n # r /\ db[r].parent = None /\ InTree(db, m, r) /\ ~InTree(db, p, n)
      BY <1>2, <1>4, <2>3, <3>1 DEF RootsOK
    <3>4. db'[n].parent = p /\ \A k \in Node \ {n} : db'[k].parent = db[k].parent
      BY <1>1, <3>1
    <3>5. InTree(db', m, r)
      BY <1>2, <2>3, <3>2, <3>3, <3>4, SubtreeKept
    <3> QED
      BY <3>1, <3>5
  <2> QED
    BY <2>1, <2>2, <2>3
<1>5. ASSUME NEW t \in Sess, NEW m \in Node, Mine(t, m) PROVE Mine(t, m)'
  <2>1. CASE m = n
    <3>1. InTree(db', v.parent, RootOf[t])
      BY <1>4, <1>5, <2>1
    <3>2. db'[n].parent = v.parent /\ v.parent # None
      BY <1>1, PgAssumption
    <3>3. InTree(db', n, RootOf[t])
      BY <3>1, <3>2, ChildInTree
    <3> QED
      BY <1>1, <2>1, <3>3 DEF Mine
  <2>2. CASE m # n
    BY <1>1, <1>4, <1>5, <2>2 DEF Mine
  <2> QED
    BY <2>1, <2>2
<1>6. CommitsMine
  BY <1>0, <1>1, <1>3, <1>5 DEF CommitsMine, UpMine, uploadVars
<1>7. \A t \in Sess : EndedOrSame(t)
  BY DEF EndedOrSame, uploadVars
<1> QED
  BY <1>6, <1>7, CommittingStep

LEMMA EnvironmentTenant ==
    ASSUME TenantOK, Environment
    PROVE  TenantInv'
<1>0. /\ RowsOK /\ FkOK /\ RootsOK /\ RootOf \in [Sess -> Node]
      /\ \A m \in Node : db[m] \in Row /\ db[m].parent \in Node \cup {None}
  BY FilesAssumption DEF TenantOK, TenantInv, FilesInv, RowsOK, RowsTyped, Row
<1>1. CASE Tick
  <2>1. UNCHANGED <<rowVars, uploadVars, f, pc>>
    BY <1>1 DEF Tick
  <2>2. CommitsMine
    BY <1>0, <2>1 DEF CommitsMine, FkOK, RootsOK, Mine, UpMine, rowVars, uploadVars
  <2>3. \A t \in Sess : EndedOrSame(t)
    BY <2>1 DEF EndedOrSame, rowVars, uploadVars
  <2> QED
    BY <2>2, <2>3, CommittingStep
<1>2. ASSUME NEW n \in Node, DeleteNode(n)
      PROVE  TenantInv'
  <2>1. UNCHANGED <<owner, uploadVars, f, pc>>
    BY <1>2 DEF DeleteNode
  <2>2. /\ owner[n] = None /\ new[n] = db[n] /\ db[n].st = "live"
        /\ db[n].parent \in Node /\ db[n].parent # n
    BY <1>0, <1>2 DEF DeleteNode, LockWaits, RowsOK, RowsTyped
  <2> DEFINE v == [db[n] EXCEPT !.st = "dead"]
  <2>3. v.st = "dead" /\ v.parent = db[n].parent
    BY <1>0 DEF Row
  <2>4. db' = [db EXCEPT ![n] = v] /\ new' = [new EXCEPT ![n] = v]
    BY <1>2, <2>2 DEF DeleteNode
  <2> HIDE DEF v
  <2>5. \A t \in Sess : RootOf[t] # n
    BY <1>0, <2>2, PgAssumption DEF RootsOK
  <2>6. db[v.parent].st # "free"
    BY <1>0, <2>2, <2>3, PgAssumption DEF FkOK
  <2>7. \A t \in Sess : Mine(t, n) => InTree(db, v.parent, RootOf[t])
    BY <2>2, <2>3, <2>5, ParentInTree DEF Mine
  <2> QED
    BY <2>1, <2>2, <2>3, <2>4, <2>5, <2>6, <2>7, OtherTenant
<1>3. ASSUME NEW n \in Node, NEW p \in Node, NEW nm \in Name, MoveNode(n, p, nm)
      PROVE  TenantInv'
  <2>1. UNCHANGED <<owner, uploadVars, f, pc>>
    BY <1>3 DEF MoveNode
  <2>2. /\ owner[n] = None /\ new[n] = db[n] /\ db[n].st = "live" /\ db[n].parent # None
        /\ db[p].st = "live" /\ db[p].dir /\ SameTree(db, n, p)
        /\ IF db[n].dir THEN ~InTree(db, p, n) ELSE \A m \in Node : db[m].parent # n
    BY <1>0, <1>3 DEF MoveNode, LockWaits, RowsOK, RowsTyped
  <2> DEFINE v == [db[n] EXCEPT !.parent = p, !.name = nm]
  <2>3. v.st = "live" /\ v.parent = p
    BY <1>0, <2>2 DEF Row
  <2>4. db' = [db EXCEPT ![n] = v] /\ new' = [new EXCEPT ![n] = v]
    BY <1>3, <2>2 DEF MoveNode
  <2> HIDE DEF v
  <2>5. \A t \in Sess : Mine(t, n) => InTree(db, p, RootOf[t])
    BY <1>0, <2>2 DEF Mine, SameTree, RootsOK
  <2>6. \A t \in Sess : RootOf[t] # n
    BY <1>0, <2>2 DEF RootsOK
  <2>7. p # n
    BY <2>2, RootInTree
  <2> QED
    BY <2>1, <2>2, <2>3, <2>4, <2>5, <2>6, <2>7, OtherTenant
<1>4. ASSUME NEW p \in Node, NEW nm \in Name, MakeDir(p, nm)
      PROVE  TenantInv'
  <2>1. UNCHANGED <<owner, uploadVars, f, pc>> /\ db[p].st = "live"
    BY <1>4 DEF MakeDir
  <2>2. PICK n \in Node : n = FreshId /\ owner[n] = None /\ new[n].st = "free"
    BY <1>4, FreshIdFree DEF MakeDir
  <2>3. db[n].st = "free"
    BY <1>0, <2>2 DEF RowsOK
  <2> DEFINE v == DirRow(p, nm)
  <2>4. v.st = "live" /\ v.parent = p
    BY DEF DirRow, FileRow
  <2>5. db' = [db EXCEPT ![n] = v] /\ new' = [new EXCEPT ![n] = v]
    BY <1>4, <2>2 DEF MakeDir
  <2> HIDE DEF v
  <2>6. /\ \A m \in Node : db[m].parent # n
        /\ \A t \in Sess : RootOf[t] # n /\ ~Mine(t, n)
    BY <1>0, <2>3, PgAssumption DEF FkOK, RootsOK, Mine
  <2> QED
    BY <2>1, <2>2, <2>3, <2>4, <2>5, <2>6, OtherTenant
<1> QED
  BY <1>1, <1>2, <1>3, <1>4 DEF Environment

\* The rows a commit changes are below the root of its provider's filesystem.
LEMMA CommitInTree ==
    ASSUME TenantOK, NEW s \in Sess, Commit(s)
    PROVE  /\ \A n \in Node : db'[n] # db[n] => InTree(db', n, RootOf[s])
           /\ \A u \in Upload : udb'[u] # udb[u] => udb'[u].root = RootOf[s]
<1>1. /\ \A n \in Node : db'[n] = IF owner[n] = s THEN new[n] ELSE db[n]
      /\ \A u \in Upload : udb'[u] = IF uowner[u] = s THEN unew[u] ELSE udb[u]
      /\ \A n \in Node : Mine(s, n) => Mine(s, n)'
  BY CommitFacts DEF CommitsMine
<1>2. ASSUME NEW n \in Node, db'[n] # db[n] PROVE InTree(db', n, RootOf[s])
  <2>1. db'[n] = new[n] /\ OwnedOK(s, n)
    BY <1>1, <1>2 DEF TenantOK, TenantInv
  <2>2. CASE db[n].st = "free"
    <3>1. PICK p \in Node : p = new[n].parent /\ Mine(s, p)
      BY <2>1, <2>2 DEF OwnedOK
    <3>2. InTree(db', p, RootOf[s]) /\ p # None
      BY <1>1, <3>1, PgAssumption DEF Mine
    <3> QED
      BY <2>1, <3>1, <3>2, ChildInTree
  <2>3. CASE db[n].st # "free"
    BY <1>1, <2>1, <2>3 DEF OwnedOK, Mine
  <2> QED
    BY <2>2, <2>3
<1>3. \A u \in Upload : uowner[u] = s => unew[u].root = RootOf[s]
  BY DEF TenantOK, TenantInv, UpOwnedOK
<1> QED
  BY <1>1, <1>2, <1>3

\* A step of t moves no other call.
LEMMA StepMovesOne ==
    ASSUME LocalsTyped, NEW t \in Sess, NEW s \in Sess \ {t},
           Step(t) \/ (\E c \in Calls : Begin(t, c)) \/ Fail(t) \/ Cancel(t) \/ DeadlockVictim(t)
    PROVE  pc'[s] = pc[s]
<1>1. ASSUME NEW label, Goto(t, label) PROVE pc'[s] = pc[s]
  BY <1>1 DEF Goto, LocalsTyped
<1>2. CASE \E c \in Calls : Begin(t, c)
  <2>1. PICK c \in Calls : Begin(t, c)
    BY <1>2
  <2>2. c.op \in Ops
    BY FilesAssumption DEF Call
  <2>3. ASSUME NEW fr, NEW path, StartWalk(t, fr, path) PROVE pc'[s] = pc[s]
    BY <1>1, <2>3 DEF StartWalk, Found, Refuse, Return
  <2>4. CASE c.op \in {"write_file", "write_file_atomic", "read_file", "set_metadata"}
    <3>1. StartWalk(t, Fresh(t, c, IF c.empty THEN << >> ELSE <<left>>, "none"), c.path)
      BY <2>1, <2>4 DEF Begin
    <3> QED
      BY <2>3, <3>1
  <2>5. CASE c.op \notin {"write_file", "write_file_atomic", "read_file", "set_metadata"}
    BY <1>1, <2>1, <2>2, <2>5 DEF Begin, Ops
  <2> QED
    BY <2>4, <2>5
<1>3. CASE Fail(t) \/ Cancel(t) \/ DeadlockVictim(t)
  BY <1>1, <1>3 DEF Fail, Cancel, DeadlockVictim, Raise
<1>4. CASE Walk(t) \/ Commit(t) \/ Insert(t) \/ FkCheck(t) \/ Again(t)
  BY <1>1, <1>4 DEF Walk, Commit, Insert, FkCheck, Again, ToParent, StartWalk, Found, Refuse,
                    Return, Raise
<1>5. CASE Write(t) \/ Read(t) \/ SetMetadata(t) \/ StartUpload(t) \/ UploadPart(t)
  BY <1>1, <1>5 DEF Write, Read, SetMetadata, StartUpload, UploadPart, Return, Raise
<1>6. CASE \/ FinUpload(t) \/ FinNode(t) \/ Publish(t)
           \/ AbortUpload(t) \/ CleanupScan(t) \/ CleanupDelete(t)
  BY <1>1, <1>6 DEF FinUpload, FinNode, Publish, AbortUpload, CleanupScan, CleanupDelete,
                    ToParent, StartWalk, Found, Refuse, Return
<1> QED
  BY <1>2, <1>3, <1>4, <1>5, <1>6 DEF Step

\* A call that ends at its COMMIT has committed or rolled back.
LEMMA EndsOrKeeps ==
    ASSUME TenantOK, [Next]_vars, NEW s \in Sess, pc[s] = "commit", pc'[s] = "idle"
    PROVE  Commit(s) \/ (db' = db /\ udb' = udb)
<1>1. CASE UNCHANGED pc
  BY <1>1
<1>2. ASSUME NEW t \in Sess, t # s,
             Step(t) \/ (\E c \in Calls : Begin(t, c)) \/ Fail(t) \/ Cancel(t) \/ DeadlockVictim(t)
      PROVE  FALSE
  BY <1>2, CallFacts, StepMovesOne DEF TenantOK
<1>3. CASE Step(s) \/ \E c \in Calls : Begin(s, c)
  BY <1>3 DEF Step, Begin, At, Walk, Insert, FkCheck, Again, Write, Read, SetMetadata, StartUpload,
              UploadPart, FinUpload, FinNode, Publish, AbortUpload, CleanupScan, CleanupDelete
<1>4. CASE Fail(s) \/ Cancel(s) \/ DeadlockVictim(s)
  <2>1. Rollback(s)
    BY <1>4 DEF Fail, Cancel, DeadlockVictim, Raise
  <2> QED
    BY <2>1, RollbackMine
<1>5. Environment => UNCHANGED pc
  BY DEF Environment, Tick, DeleteNode, MoveNode, MakeDir
<1> QED
  BY <1>1, <1>2, <1>3, <1>4, <1>5 DEF Next, Finished, vars

-----------------------------------------------------------------------------
(* The theorems *)

LEMMA TenantInit == Init => TenantInv
<1> SUFFICES ASSUME Init PROVE TenantInv
  OBVIOUS
<1>1. /\ db = Files0 /\ udb = Uploads0
      /\ \A s \in Sess : s # None /\ pc[s] = "idle" /\ f[s].cur = RootOf[s]
      /\ \A n \in Node : owner[n] = None
      /\ \A u \in Upload : uowner[u] = None
  BY PgAssumption DEF Init, Fresh
<1>2. /\ RootOf \in [Sess -> Node]
      /\ \A s \in Sess : Files0[RootOf[s]].st = "live" /\ Files0[RootOf[s]].parent = None
      /\ \A n \in Node : Files0[n].parent # None => Files0[Files0[n].parent].st # "free"
  BY FilesAssumption DEF DirRow, FileRow
<1>3. FkOK /\ RootsOK
  BY <1>1, <1>2 DEF FkOK, RootsOK
<1>4. \A s \in Sess : LocalOK(s)
  BY <1>1, <1>2, RootInTree DEF LocalOK, Mine
<1>5. \A s \in Sess : /\ \A n \in Node : owner[n] # s
                      /\ \A u \in Upload : uowner[u] # s
  BY <1>1
<1> QED
  BY <1>3, <1>4, <1>5 DEF TenantInv

LEMMA TenantNext == TenantOK /\ [Next]_vars => TenantOK'
<1> SUFFICES ASSUME TenantOK, [Next]_vars PROVE TenantInv'
  BY FilesNext DEF TenantOK
<1>1. ASSUME NEW s \in Sess, Step(s) PROVE TenantInv'
  <2>1. CASE Commit(s)
    BY <2>1, CommitFacts, CommittingStep
  <2>2. CASE ~Commit(s)
    BY <1>1, <2>2, WalkTenant, InsertTenant, FkCheckTenant, AgainTenant, WriteTenant, ReadTenant,
       SetMetadataTenant, StartUploadTenant, UploadPartTenant, FinUploadTenant, FinNodeTenant,
       PublishTenant, AbortUploadTenant, CleanupTenant DEF Step
  <2> QED
    BY <2>1, <2>2
<1>2. ASSUME NEW s \in Sess, \E c \in Calls : Begin(s, c) PROVE TenantInv'
  BY <1>2, BeginTenant
<1>3. CASE UNCHANGED vars
  <2>1. UNCHANGED <<rowVars, uploadVars, f, pc>>
    BY <1>3 DEF vars, rowVars, uploadVars
  <2>2. CommitsMine
    BY <2>1 DEF TenantOK, TenantInv, CommitsMine, FkOK, RootsOK, Mine, UpMine, rowVars, uploadVars
  <2>3. \A t \in Sess : EndedOrSame(t)
    BY <2>1 DEF EndedOrSame, rowVars, uploadVars
  <2> QED
    BY <2>2, <2>3, CommittingStep
<1> QED
  BY <1>1, <1>2, <1>3, FailTenant, EnvironmentTenant DEF Next, Finished

\* A call only walks to, locks and writes rows below the root of its provider's
\* filesystem, and only stages, publishes and discards uploads of that filesystem.
THEOREM RowsOfOneTenant == Spec => []TenantOK
<1>1. Init => TenantOK
  BY FilesInit, TenantInit DEF TenantOK
<1> QED
  BY <1>1, TenantNext, PTL DEF Spec

\* A commit of a provider changes rows of its own filesystem only, whichever paths
\* and upload ids its calls were given.
THEOREM TenantsIsolated == Spec => Isolated
<1> DEFINE A == \A s \in Sess : At(s, "commit") /\ pc'[s] = "idle" =>
                   /\ \A n \in Node : db'[n] # db[n] => InTree(db', n, RootOf[s])
                   /\ \A u \in Upload : udb'[u] # udb[u] => udb'[u].root = RootOf[s]
<1>1. ASSUME TenantOK, [Next]_vars PROVE [A]_vars
  <2> SUFFICES ASSUME NEW s \in Sess, pc[s] = "commit", pc'[s] = "idle"
               PROVE  /\ \A n \in Node : db'[n] # db[n] => InTree(db', n, RootOf[s])
                      /\ \A u \in Upload : udb'[u] # udb[u] => udb'[u].root = RootOf[s]
    BY DEF At
  <2>1. Commit(s) \/ (db' = db /\ udb' = udb)
    BY <1>1, EndsOrKeeps
  <2>2. CASE Commit(s)
    BY <1>1, <2>2, CommitInTree
  <2> QED
    BY <2>1, <2>2
<1>2. TenantOK /\ [Next]_vars => [A]_vars
  BY <1>1
<1>3. Isolated <=> [][A]_vars
  BY DEF Isolated
<1> HIDE DEF A
<1> QED
  BY <1>2, <1>3, RowsOfOneTenant, PTL DEF Spec
=============================================================================

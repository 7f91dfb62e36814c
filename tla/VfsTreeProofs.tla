---------------------------- MODULE VfsTreeProofs ----------------------------
(***************************************************************************)
(* Proofs about VfsTree, for any sets of nodes, names, sessions and calls: *)
(* every variable keeps its type, committed siblings have different names, *)
(* the committed tree has no row without a parent and no cycle of          *)
(* directories, however the statements of the calls interleave, and every  *)
(* call is one atomic step of AbstractTree.                                *)
(*                                                                         *)
(* Orphans and cycles rest on SafeInv.  It says of every call what it has  *)
(* read, locked and changed so far that no other call may undo (SessOf),   *)
(* and of the rows that they form a tree whichever of the open             *)
(* transactions commit (ShapeInv).                                         *)
(***************************************************************************)
EXTENDS VfsTree, SequenceTheorems, TLAPS

\* What each statement label says of the call and its local variables.
LabelOK(label, op) ==
    /\ label = "cn_insert" => op = "create_node"
    /\ label = "fk" => op \in {"create_node", "create_directory"}
    /\ label \in {"mv_topo", "mv_lock_src", "mv_lock_dst", "mv_check", "mv_within",
                  "mv_update"} => op = "move_node"
    /\ label \in {"del_lock", "del_check", "del_row", "cascade"} => op = "delete_node"
    /\ label \in {"mk_child", "mk_insert", "mk_again"} => op = "create_directory"

PcOf(s) ==
    /\ pc[s] # "idle" => ~RootCall(f[s].call)
    /\ LabelOK(pc[s], f[s].call.op)
    /\ pc[s] = "walk" => f[s].rest # << >>
    /\ pc[s] = "mv_within" => f[s].up # None
    /\ f[s].call.op = "create_directory" /\ pc[s] \notin {"idle", "commit"}
           => f[s].k < Len(f[s].call.path)

PcOK == \A s \in Sess : PcOf(s)

LocalInv == TypeOK /\ PcOK

-----------------------------------------------------------------------------
(* Lemmas about the helpers *)

LEMMA ChildType ==
    ASSUME NEW s, NEW p, NEW nm
    PROVE  Child(s, p, nm) # None => Child(s, p, nm) \in Node
BY DEF Child, ChildIds

LEMMA FreshIdFree ==
    FreeIds # {} => /\ FreshId \in Node
                    /\ new[FreshId].st = "free"
                    /\ owner[FreshId] = None
BY DEF FreeIds, FreshId

LEMMA PathParts ==
    ASSUME NEW path \in Seq(Name), path # << >>
    PROVE  /\ Parent(path) \in Seq(Name)
           /\ Base(path) \in Name
           /\ Head(path) \in Name
           /\ Tail(path) \in Seq(Name)
           /\ Len(path) \in Nat \ {0}
<1>1. Len(path) \in Nat \ {0}
  BY EmptySeq
<1>2. Parent(path) \in Seq(Name)
  BY <1>1, SubSeqProperties DEF Parent
<1> QED
  BY <1>1, <1>2, HeadTailProperties DEF Base

LEMMA StartWalkLocal ==
    ASSUME TypeOK,
           NEW s \in Sess, NEW fr \in Frame, NEW path \in Seq(Name),
           StartWalk(s, fr, path)
    PROVE  /\ f' \in [Sess -> Frame]
           /\ pc' \in [Sess -> Labels]
           /\ \A t \in Sess \ {s} : f'[t] = f[t] /\ pc'[t] = pc[t]
           /\ f'[s].call = fr.call /\ f'[s].rest = path /\ f'[s].k = fr.k
           /\ f'[s].src = fr.src /\ f'[s].cur = Root
           /\ pc'[s] = IF path = << >> THEN AfterWalk(fr) ELSE "walk"
           /\ pc'[s] \in Labels \ {"idle", "commit"}
<1>1. fr.call.op \in Ops
  BY DEF Frame, Call
<1>2. AfterWalk(fr) \in Labels \ {"idle", "commit"}
  BY <1>1 DEF AfterWalk, Ops, Labels
<1> DEFINE g == [fr EXCEPT !.cur = Root, !.rest = path]
<1>3. /\ g \in Frame
      /\ g.call = fr.call /\ g.rest = path /\ g.k = fr.k /\ g.src = fr.src /\ g.cur = Root
  BY PgAssumption DEF Frame
<1>4. f' = [f EXCEPT ![s] = g]
  BY DEF StartWalk
<1> HIDE DEF g
<1>5. f' \in [Sess -> Frame] /\ f'[s] = g /\ \A t \in Sess \ {s} : f'[t] = f[t]
  BY <1>3, <1>4 DEF TypeOK
<1> QED
  BY <1>2, <1>3, <1>5 DEF StartWalk, Goto, TypeOK, Labels

-----------------------------------------------------------------------------
(* LocalInv: each handler's variables and control points *)

\* A step of s that leaves the other calls alone.
StepOf(s) == /\ f' \in [Sess -> Frame]
             /\ pc' \in [Sess -> Labels]
             /\ \A t \in Sess \ {s} : f'[t] = f[t] /\ pc'[t] = pc[t]

LEMMA LocalStep ==
    ASSUME LocalInv, NEW s \in Sess, StepOf(s), PcOf(s)',
           RowsTypeOK', topo' \in Sess \cup {None}, left' \in Nat, faults' \in Nat
    PROVE  LocalInv'
<1>1. \A t \in Sess \ {s} : PcOf(t)'
  BY DEF LocalInv, PcOK, PcOf, LabelOK, StepOf, RootCall
<1> QED
  BY <1>1 DEF LocalInv, TypeOK, PcOK, StepOf

LEMMA ReturnLocal ==
    ASSUME LocalInv, NEW s \in Sess, pc[s] # "idle", NEW ok, Return(s, ok)
    PROVE  StepOf(s) /\ PcOf(s)'
<1>1. f[s] \in Frame /\ f[s]' = [f[s] EXCEPT !.out = IF ok THEN "true" ELSE "false"]
  BY DEF LocalInv, TypeOK, Return
<1>2. f[s]' \in Frame /\ f[s]'.call = f[s].call
  BY <1>1 DEF Frame
<1>3. pc[s]' = "commit"
  BY DEF LocalInv, TypeOK, Return, Goto
<1>4. ~RootCall(f[s].call)
  BY DEF LocalInv, PcOK, PcOf, LabelOK
<1>5. StepOf(s)
  BY <1>2 DEF StepOf, LocalInv, TypeOK, Return, Goto, Labels
<1>6. PcOf(s)'
  BY <1>2, <1>3, <1>4 DEF PcOf, LabelOK, RootCall
<1> QED
  BY <1>5, <1>6

LEMMA WalkLocal ==
    ASSUME LocalInv, NEW s \in Sess, NEW fr \in Frame, NEW path \in Seq(Name),
           ~RootCall(fr.call),
           fr.call.op = "create_directory" => fr.k < Len(fr.call.path),
           StartWalk(s, fr, path)
    PROVE  StepOf(s) /\ PcOf(s)'
<1>1. f'[s].call = fr.call /\ f'[s].rest = path /\ f'[s].k = fr.k
  BY StartWalkLocal DEF LocalInv
<1>2. pc'[s] = IF path = << >> THEN AfterWalk(fr) ELSE "walk"
  BY StartWalkLocal DEF LocalInv
<1>3. fr.call.op \in Ops
  BY DEF Frame, Call
<1>4. PcOf(s)'
  BY <1>1, <1>2, <1>3 DEF PcOf, LabelOK, AfterWalk, Ops, RootCall
<1> QED
  BY <1>4, StartWalkLocal DEF StepOf, LocalInv

\* Leaving a label for another of the same handler, the locals unchanged.
LEMMA FreshLocal ==
    ASSUME LocalInv, NEW s \in Sess, NEW out \in {"none", "true", "false", "error"},
           f' = [f EXCEPT ![s] = Fresh(NoCall, out)], Goto(s, "idle")
    PROVE  StepOf(s) /\ PcOf(s)'
<1>1. NoCall \in Call
  BY EmptySeq DEF NoCall, Call, Ops
<1>2. Fresh(NoCall, out) \in Frame
  BY <1>1, EmptySeq, PgAssumption DEF Fresh, Frame
<1>3. StepOf(s)
  BY <1>2 DEF StepOf, LocalInv, TypeOK, Goto, Labels
<1>4. f'[s] = Fresh(NoCall, out) /\ pc'[s] = "idle"
  BY DEF LocalInv, TypeOK, Goto
<1> QED
  BY <1>3, <1>4 DEF PcOf, LabelOK, Fresh, NoCall

LEMMA RowsTyped ==
    ASSUME RowsTypeOK, NEW s \in Sess
    PROVE  /\ CommitRows(s) => RowsTypeOK'
           /\ RollbackRows(s) => RowsTypeOK'
           /\ \A n \in Node : Seen(s, n) \in Row
           /\ \A n \in Node : Lock(s, n) /\ UNCHANGED <<db, new, shares>> => RowsTypeOK'
           /\ \A n \in Node : Share(s, n) /\ UNCHANGED <<db, new, owner>> => RowsTypeOK'
<1>1. \A n \in Node : Seen(s, n) \in Row
  BY DEF RowsTypeOK, Seen
<1>2. CommitRows(s) => RowsTypeOK'
  BY <1>1 DEF RowsTypeOK, CommitRows, ReleaseRows
<1>3. RollbackRows(s) => RowsTypeOK'
  BY DEF RowsTypeOK, RollbackRows, ReleaseRows
<1>4. \A n \in Node : Lock(s, n) /\ UNCHANGED <<db, new, shares>> => RowsTypeOK'
  BY DEF RowsTypeOK, Lock
<1>5. \A n \in Node : Share(s, n) /\ UNCHANGED <<db, new, owner>> => RowsTypeOK'
  BY DEF RowsTypeOK, Share
<1> QED
  BY <1>1, <1>2, <1>3, <1>4, <1>5

LEMMA InsertTyped ==
    ASSUME RowsTypeOK, NEW s \in Sess, NEW n \in Node, NEW p \in Node,
           NEW nm \in Name, NEW d \in BOOLEAN,
           InsertRow(s, n, NodeRow(p, nm, d)), UNCHANGED <<db, shares>>
    PROVE  RowsTypeOK'
<1>1. NodeRow(p, nm, d) \in Row
  BY DEF Row, NodeRow
<1> QED
  BY <1>1 DEF RowsTypeOK, InsertRow

LEMMA AbortLocal ==
    ASSUME LocalInv, NEW s \in Sess, Abort(s), left' \in Nat, faults' \in Nat
    PROVE  LocalInv'
<1>1. StepOf(s) /\ PcOf(s)'
  BY FreshLocal DEF Abort
<1>2. RowsTypeOK'
  BY RowsTyped DEF Abort, LocalInv, TypeOK
<1>3. topo' \in Sess \cup {None}
  BY DEF Abort, LocalInv, TypeOK
<1> QED
  BY <1>1, <1>2, <1>3, LocalStep

\* Goto with locals that keep the call and its progress.
LEMMA GotoLocal ==
    ASSUME LocalInv, NEW s \in Sess, pc[s] \notin {"idle", "commit"},
           NEW label \in Labels \ {"idle", "walk"}, Goto(s, label),
           LabelOK(label, f[s].call.op),
           NEW fr \in Frame, f' = [f EXCEPT ![s] = fr],
           label = "mv_within" => fr.up # None,
           fr.call = f[s].call, fr.k = f[s].k
    PROVE  StepOf(s) /\ PcOf(s)'
<1>1. StepOf(s)
  BY DEF StepOf, LocalInv, TypeOK, Goto
<1>2. pc'[s] = label /\ f'[s] = fr
  BY DEF LocalInv, TypeOK, Goto
<1>3. PcOf(s)
  BY DEF LocalInv, PcOK
<1>4. PcOf(s)'
  BY <1>2, <1>3 DEF PcOf, LabelOK, RootCall
<1> QED
  BY <1>1, <1>4

LEMMA GotoSame ==
    ASSUME LocalInv, NEW s \in Sess, pc[s] \notin {"idle", "commit"},
           NEW label \in Labels \ {"idle", "walk", "mv_within"}, Goto(s, label),
           LabelOK(label, f[s].call.op), UNCHANGED f
    PROVE  StepOf(s) /\ PcOf(s)'
<1>1. f[s] \in Frame /\ f' = [f EXCEPT ![s] = f[s]]
  BY DEF LocalInv, TypeOK
<1> QED
  BY <1>1, GotoLocal

LEMMA NextPartLocal ==
    ASSUME LocalInv, NEW s \in Sess, pc[s] \notin {"idle", "commit"},
           f[s].call.op = "create_directory", NextPart(s)
    PROVE  StepOf(s) /\ PcOf(s)'
<1> DEFINE k == f[s].k + 1
           path == f[s].call.path
<1>1. f[s] \in Frame /\ f[s].call \in Call /\ path \in Seq(Name) /\ f[s].k \in Nat /\ k \in Nat
  BY DEF LocalInv, TypeOK, Frame, Call
<1>2. ~RootCall(f[s].call) /\ f[s].k < Len(path)
  BY DEF LocalInv, PcOK, PcOf, LabelOK
<1>3. CASE k = Len(path)
  BY <1>3, ReturnLocal DEF NextPart
<1>4. CASE k # Len(path)
  <2>1. [f[s] EXCEPT !.k = k] \in Frame
    BY <1>1 DEF Frame
  <2>2. [f[s] EXCEPT !.k = k].call = f[s].call /\ [f[s] EXCEPT !.k = k].k = k
    BY <1>1 DEF Frame
  <2>3. Len(path) \in Nat /\ k < Len(path)
    BY <1>1, <1>2, <1>4, LenProperties
  <2>4. SubSeq(path, 1, k) \in Seq(Name)
    BY <1>1, <2>3, SubSeqProperties
  <2>5. StartWalk(s, [f[s] EXCEPT !.k = k], SubSeq(path, 1, k))
    BY <1>4 DEF NextPart
  <2> HIDE DEF k, path
  <2> QED
    BY <1>2, <2>1, <2>2, <2>3, <2>4, <2>5, WalkLocal DEF path
<1> QED
  BY <1>3, <1>4

-----------------------------------------------------------------------------
(* One lemma per group of actions *)

LEMMA CallFacts ==
    ASSUME LocalInv, NEW s \in Sess
    PROVE  /\ f[s] \in Frame
           /\ f[s].call \in Call /\ f[s].call.op \in Ops
           /\ f[s].call.path \in Seq(Name) /\ f[s].call.dst \in Seq(Name)
           /\ f[s].call.dir \in BOOLEAN
           /\ f[s].cur \in Node /\ f[s].rest \in Seq(Name) /\ f[s].k \in Nat
           /\ f[s].src \in Node \cup {None} /\ f[s].up \in Node \cup {None}
           /\ f[s].out \in {"none", "true", "false", "error"}
           /\ RowsTypeOK /\ topo \in Sess \cup {None} /\ left \in Nat /\ faults \in Nat
           /\ PcOf(s)
BY DEF LocalInv, TypeOK, PcOK, Frame, Call

LEMMA WalkStep ==
    ASSUME LocalInv, NEW s \in Sess, Walk(s)
    PROVE  LocalInv'
<1> DEFINE c == Child(s, f[s].cur, Head(f[s].rest))
<1>0. /\ pc[s] = "walk" /\ Stay /\ UNCHANGED <<rowVars, topo>>
      /\ f[s].rest # << >> /\ ~RootCall(f[s].call)
  BY CallFacts DEF Walk, At, PcOf, LabelOK
<1>1. CASE c = None
  <2>1. StepOf(s) /\ PcOf(s)'
    BY <1>0, <1>1, ReturnLocal DEF Walk
  <2> QED
    BY <1>0, <2>1, CallFacts, LocalStep DEF Stay, rowVars, RowsTypeOK
<1>2. CASE c # None
  <2>1. c \in Node /\ Tail(f[s].rest) \in Seq(Name)
    BY <1>0, <1>2, ChildType, PathParts, CallFacts
  <2> DEFINE fr == [f[s] EXCEPT !.cur = c, !.rest = Tail(f[s].rest)]
  <2>2. /\ f' = [f EXCEPT ![s] = fr]
        /\ pc' = [pc EXCEPT ![s] = IF Tail(f[s].rest) = << >> THEN AfterWalk(f[s])
                                   ELSE "walk"]
    BY <1>2 DEF Walk, Goto
  <2>3. /\ fr \in Frame /\ fr.call = f[s].call /\ fr.k = f[s].k /\ fr.src = f[s].src
        /\ fr.rest = Tail(f[s].rest)
    BY <2>1, CallFacts DEF Frame
  <2> HIDE DEF fr, c
  <2>4. AfterWalk(f[s]) \in Labels \ {"idle", "commit", "walk"}
    BY CallFacts DEF AfterWalk, Ops, Labels
  <2>5. f'[s] = fr /\ pc'[s] = IF Tail(f[s].rest) = << >> THEN AfterWalk(f[s]) ELSE "walk"
    BY <2>2 DEF LocalInv, TypeOK
  <2>6. StepOf(s)
    BY <2>2, <2>3, <2>4 DEF StepOf, LocalInv, TypeOK, Labels
  <2>7. PcOf(s)'
    BY <1>0, <2>3, <2>5, CallFacts DEF PcOf, LabelOK, AfterWalk, Ops, RootCall
  <2> QED
    BY <1>0, <2>6, <2>7, CallFacts, LocalStep DEF Stay, rowVars, RowsTypeOK
<1> QED
  BY <1>1, <1>2

LEMMA BeginStep ==
    ASSUME LocalInv, NEW s \in Sess, NEW c \in Calls, Begin(s, c)
    PROVE  LocalInv'
<1>0. /\ pc[s] = "idle" /\ left \in Nat \ {0} /\ left' = left - 1 /\ ~RootCall(c)
      /\ UNCHANGED <<rowVars, topo, faults>>
  BY CallFacts DEF Begin, At
<1>1. c \in Call /\ c.op \in Ops /\ c.path \in Seq(Name) /\ c.path # << >>
  BY <1>0, CallAssumption DEF Call, RootCall
<1> DEFINE fr == Fresh(c, "none")
<1>2. fr \in Frame /\ fr.call = c /\ fr.k = 0 /\ fr.src = None
  BY <1>1, EmptySeq, PgAssumption DEF Fresh, Frame
<1>3. 0 < Len(c.path) /\ << >> \in Seq(Name) /\ Parent(c.path) \in Seq(Name)
  BY <1>1, PathParts, EmptySeq
<1> HIDE DEF fr
<1>4. StepOf(s) /\ PcOf(s)'
  <2>1. CASE c.op = "create_node"
    <3>1. StartWalk(s, fr, Parent(c.path))
      BY <2>1 DEF Begin, fr
    <3> QED
      BY <1>0, <1>2, <1>3, <2>1, <3>1, WalkLocal
  <2>2. CASE c.op = "delete_node"
    <3>1. StartWalk(s, fr, c.path)
      BY <2>2 DEF Begin, fr
    <3> QED
      BY <1>0, <1>1, <1>2, <2>2, <3>1, WalkLocal
  <2>3. CASE c.op = "create_directory"
    <3>1. StartWalk(s, fr, << >>)
      BY <2>3 DEF Begin, fr
    <3> QED
      BY <1>0, <1>2, <1>3, <2>3, <3>1, WalkLocal
  <2>4. CASE c.op = "move_node"
    <3>1. f' = [f EXCEPT ![s] = fr] /\ Goto(s, "mv_topo")
      BY <2>4 DEF Begin, fr
    <3>2. StepOf(s) /\ f'[s] = fr /\ pc'[s] = "mv_topo"
      BY <1>2, <3>1 DEF StepOf, LocalInv, TypeOK, Goto, Labels
    <3> QED
      BY <1>0, <1>2, <2>4, <3>2 DEF PcOf, LabelOK, RootCall
  <2> QED
    BY <1>1, <2>1, <2>2, <2>3, <2>4 DEF Ops
<1> QED
  BY <1>0, <1>4, CallFacts, LocalStep DEF rowVars, RowsTypeOK

LEMMA BeginAtRootStep ==
    ASSUME LocalInv, NEW s \in Sess, NEW c \in Calls, BeginAtRoot(s, c)
    PROVE  LocalInv'
<1>1. /\ pc[s] = "idle" /\ left \in Nat \ {0} /\ left' = left - 1
      /\ UNCHANGED <<rowVars, topo, pc, faults>>
  BY CallFacts DEF BeginAtRoot, At
<1>2. Goto(s, "idle")
  BY <1>1 DEF Goto, LocalInv, TypeOK
<1>3. StepOf(s) /\ PcOf(s)'
  <2>1. CASE c.op = "create_directory"
    BY <1>2, <2>1, FreshLocal DEF BeginAtRoot
  <2>2. CASE c.op # "create_directory"
    BY <1>2, <2>2, FreshLocal DEF BeginAtRoot
  <2> QED
    BY <2>1, <2>2
<1> QED
  BY <1>1, <1>3, CallFacts, LocalStep DEF rowVars, RowsTypeOK

LEMMA CommitStep ==
    ASSUME LocalInv, NEW s \in Sess, Commit(s)
    PROVE  LocalInv'
<1>1. StepOf(s) /\ PcOf(s)'
  BY CallFacts, FreshLocal DEF Commit
<1>2. RowsTypeOK'
  BY CallFacts, RowsTyped DEF Commit
<1>3. topo' \in Sess \cup {None} /\ left' \in Nat /\ faults' \in Nat
  BY CallFacts DEF Commit, Stay
<1> QED
  BY <1>1, <1>2, <1>3, LocalStep

LEMMA CreateInsertStep ==
    ASSUME LocalInv, NEW s \in Sess, CreateInsert(s)
    PROVE  LocalInv'
<1> DEFINE p == f[s].cur
           nm == Base(f[s].call.path)
<1>0. /\ pc[s] = "cn_insert" /\ Stay /\ UNCHANGED topo
      /\ f[s].call.op = "create_node" /\ nm \in Name
  BY CallFacts, PathParts DEF CreateInsert, At, PcOf, LabelOK, RootCall
<1>1. CASE Return(s, FALSE) /\ UNCHANGED rowVars
  BY <1>0, <1>1, ReturnLocal, CallFacts, LocalStep DEF Stay, rowVars, RowsTypeOK
<1>2. CASE /\ FreeIds # {}
           /\ InsertRow(s, FreshId, NodeRow(p, nm, f[s].call.dir))
           /\ Goto(s, "fk") /\ UNCHANGED <<db, shares, f>>
  <2>1. RowsTypeOK'
    BY <1>0, <1>2, FreshIdFree, CallFacts, InsertTyped
  <2>3. StepOf(s) /\ PcOf(s)'
    BY <1>0, <1>2, GotoSame DEF Labels, LabelOK
  <2> QED
    BY <1>0, <2>1, <2>3, CallFacts, LocalStep DEF Stay
<1> QED
  BY <1>1, <1>2 DEF CreateInsert

LEMMA FkCheckStep ==
    ASSUME LocalInv, NEW s \in Sess, FkCheck(s)
    PROVE  LocalInv'
<1>0. pc[s] = "fk" /\ Stay /\ f[s].call.op \in {"create_node", "create_directory"}
  BY CallFacts DEF FkCheck, At, PcOf, LabelOK
<1>1. CASE Abort(s)
  BY <1>0, <1>1, CallFacts, AbortLocal DEF Stay
<1>2. CASE ~Abort(s)
  <2>1. Share(s, f[s].cur) /\ UNCHANGED <<db, new, owner, topo>>
    BY <1>2 DEF FkCheck
  <2>2. StepOf(s) /\ PcOf(s)'
    BY <1>0, <1>2, CallFacts, ReturnLocal, NextPartLocal DEF FkCheck
  <2> QED
    BY <1>0, <2>1, <2>2, CallFacts, RowsTyped, LocalStep DEF Stay
<1> QED
  BY <1>1, <1>2

LEMMA DeleteSteps ==
    ASSUME LocalInv, NEW s \in Sess,
           DelLock(s) \/ DelCheck(s) \/ DelRow(s) \/ Cascade(s)
    PROVE  LocalInv'
<1>0. f[s].call.op = "delete_node"
  BY CallFacts DEF DelLock, DelCheck, DelRow, Cascade, At, PcOf, LabelOK
<1>1. CASE DelLock(s)
  <2>0. pc[s] = "del_lock" /\ Stay /\ UNCHANGED <<db, new, shares, topo>>
    BY <1>1 DEF DelLock, At
  <2>1. CASE Live(s, f[s].cur)
    <3>1. Lock(s, f[s].cur) /\ Goto(s, "del_check") /\ UNCHANGED f
      BY <1>1, <2>1 DEF DelLock
    <3>2. StepOf(s) /\ PcOf(s)'
      BY <1>0, <2>0, <3>1, GotoSame DEF Labels, LabelOK
    <3> QED
      BY <2>0, <3>1, <3>2, CallFacts, RowsTyped, LocalStep DEF Stay
  <2>2. CASE ~Live(s, f[s].cur)
    <3>1. Return(s, FALSE) /\ UNCHANGED owner
      BY <1>1, <2>2 DEF DelLock
    <3> QED
      BY <2>0, <3>1, ReturnLocal, CallFacts, LocalStep DEF Stay, RowsTypeOK
  <2> QED
    BY <2>1, <2>2
<1>2. CASE DelCheck(s)
  <2>0. pc[s] = "del_check" /\ Stay /\ UNCHANGED <<rowVars, topo>>
    BY <1>2 DEF DelCheck, At
  <2>1. StepOf(s) /\ PcOf(s)'
    BY <1>0, <1>2, <2>0, ReturnLocal, GotoSame DEF DelCheck, Labels, LabelOK
  <2>2. RowsTypeOK' /\ topo' = topo /\ left' = left /\ faults' = faults
    BY <2>0, CallFacts DEF Stay, rowVars, RowsTypeOK
  <2> QED
    BY <2>1, <2>2, CallFacts, LocalStep
<1>3. CASE DelRow(s)
  <2>0. /\ pc[s] = "del_row" /\ Stay /\ UNCHANGED <<db, owner, shares, topo, f>>
        /\ Goto(s, "cascade") /\ new' = [new EXCEPT ![f[s].cur].st = "dead"]
    BY <1>3 DEF DelRow, At
  <2>1. StepOf(s) /\ PcOf(s)'
    BY <1>0, <2>0, GotoSame DEF Labels, LabelOK
  <2>2. RowsTypeOK'
    <3>1. new \in [Node -> Row] /\ RowsTypeOK
      BY CallFacts DEF RowsTypeOK
    <3>2. PICK r : r = [new[f[s].cur] EXCEPT !.st = "dead"]
      OBVIOUS
    <3>3. new[f[s].cur] \in Row
      BY <3>1, CallFacts
    <3>4. r \in Row
      BY <3>2, <3>3 DEF Row
    <3>5. new' = [new EXCEPT ![f[s].cur] = r]
      BY <2>0, <3>2
    <3>6. new' \in [Node -> Row]
      BY <3>1, <3>4, <3>5
    <3> QED
      BY <2>0, <3>1, <3>6 DEF RowsTypeOK
  <2>3. topo' = topo /\ left' = left /\ faults' = faults
    BY <2>0 DEF Stay
  <2> QED
    BY <2>1, <2>2, <2>3, CallFacts, LocalStep
<1>4. CASE Cascade(s)
  <2>0. pc[s] = "cascade" /\ Stay /\ UNCHANGED topo
    BY <1>4 DEF Cascade, At
  <2>1. CASE Return(s, TRUE) /\ UNCHANGED rowVars
    BY <2>0, <2>1, ReturnLocal, CallFacts, LocalStep DEF Stay, rowVars, RowsTypeOK
  <2>2. CASE Orphans(s) # {}
    <3>1. PICK n \in Orphans(s) :
              /\ Lock(s, n) /\ new' = [new EXCEPT ![n] = [db[n] EXCEPT !.st = "dead"]]
              /\ UNCHANGED <<db, shares, pc, f>>
      BY <1>4, <2>2 DEF Cascade
    <3>2. n \in Node
      BY <3>1 DEF Orphans
    <3>3. RowsTypeOK'
      <4>1. RowsTypeOK
        BY CallFacts
      <4>2. PICK r : r = [db[n] EXCEPT !.st = "dead"]
        OBVIOUS
      <4>3. db[n] \in Row /\ new \in [Node -> Row] /\ owner \in [Node -> Sess \cup {None}]
        BY <3>2, <4>1 DEF RowsTypeOK
      <4>4. r \in Row
        BY <4>2, <4>3 DEF Row
      <4>5. new' = [new EXCEPT ![n] = r]
        BY <3>1, <4>2
      <4>6. new' \in [Node -> Row] /\ owner' \in [Node -> Sess \cup {None}]
        BY <3>1, <4>3, <4>4, <4>5 DEF Lock
      <4> QED
        BY <3>1, <4>1, <4>6 DEF RowsTypeOK
    <3>4. StepOf(s) /\ PcOf(s)'
      BY <3>1, CallFacts DEF StepOf, LocalInv, TypeOK, PcOf, RootCall
    <3> QED
      BY <2>0, <3>3, <3>4, CallFacts, LocalStep DEF Stay
  <2> QED
    BY <1>4, <2>1, <2>2 DEF Cascade
<1> QED
  BY <1>1, <1>2, <1>3, <1>4

LEMMA MoveLockSteps ==
    ASSUME LocalInv, NEW s \in Sess, MvTopo(s) \/ MvLockSrc(s) \/ MvLockDst(s)
    PROVE  LocalInv'
<1>1. CASE MvTopo(s)
  <2>0. /\ pc[s] = "mv_topo" /\ Stay /\ UNCHANGED rowVars /\ topo' = s
        /\ StartWalk(s, f[s], f[s].call.path)
        /\ f[s].call.op = "move_node" /\ ~RootCall(f[s].call)
    BY <1>1, CallFacts DEF MvTopo, At, PcOf, LabelOK
  <2>1. StepOf(s) /\ PcOf(s)'
    BY <2>0, CallFacts, WalkLocal
  <2> QED
    BY <2>0, <2>1, CallFacts, LocalStep DEF Stay, rowVars, RowsTypeOK
<1>2. CASE MvLockSrc(s)
  <2>0. /\ pc[s] = "mv_lock_src" /\ Stay /\ UNCHANGED <<db, new, shares, topo>>
        /\ f[s].call.op = "move_node" /\ ~RootCall(f[s].call)
    BY <1>2, CallFacts DEF MvLockSrc, At, PcOf, LabelOK
  <2>1. StepOf(s) /\ PcOf(s)'
    <3>1. CASE Return(s, FALSE) \/ Return(s, TRUE)
      BY <2>0, <3>1, ReturnLocal
    <3>2. CASE StartWalk(s, [f[s] EXCEPT !.src = f[s].cur], Parent(f[s].call.dst))
      <4> DEFINE fr == [f[s] EXCEPT !.src = f[s].cur]
      <4>1. fr \in Frame /\ fr.call = f[s].call /\ fr.k = f[s].k
        BY CallFacts DEF Frame
      <4>2. Parent(f[s].call.dst) \in Seq(Name)
        BY <2>0, CallFacts, PathParts DEF RootCall
      <4>3. StartWalk(s, fr, Parent(f[s].call.dst))
        BY <3>2
      <4> HIDE DEF fr
      <4> QED
        BY <2>0, <4>1, <4>2, <4>3, WalkLocal
    <3> QED
      BY <1>2, <3>1, <3>2 DEF MvLockSrc
  <2>2. RowsTypeOK'
    BY <1>2, <2>0, CallFacts DEF MvLockSrc, Lock, RowsTypeOK
  <2> QED
    BY <2>0, <2>1, <2>2, CallFacts, LocalStep DEF Stay
<1>3. CASE MvLockDst(s)
  <2>0. /\ pc[s] = "mv_lock_dst" /\ Stay /\ UNCHANGED <<db, new, shares, topo>>
        /\ f[s].call.op = "move_node"
    BY <1>3, CallFacts DEF MvLockDst, At, PcOf, LabelOK
  <2>1. StepOf(s) /\ PcOf(s)'
    BY <1>3, <2>0, ReturnLocal, GotoSame DEF MvLockDst, Labels, LabelOK
  <2>2. RowsTypeOK'
    BY <1>3, <2>0, CallFacts DEF MvLockDst, Lock, RowsTypeOK
  <2> QED
    BY <2>0, <2>1, <2>2, CallFacts, LocalStep DEF Stay
<1> QED
  BY <1>1, <1>2, <1>3

LEMMA MoveCheckSteps ==
    ASSUME LocalInv, NEW s \in Sess, MvCheck(s) \/ MvWithin(s)
    PROVE  LocalInv'
<1>0. /\ pc[s] \in {"mv_check", "mv_within"} /\ Stay /\ UNCHANGED <<rowVars, topo>>
      /\ f[s].call.op = "move_node"
  BY CallFacts DEF MvCheck, MvWithin, At, PcOf, LabelOK
<1>1. CASE Return(s, FALSE)
  BY <1>0, <1>1, ReturnLocal, CallFacts, LocalStep DEF Stay, rowVars, RowsTypeOK
<1>2. CASE ~Return(s, FALSE)
  <2>1. PICK u \in Node \cup {None}, label \in {"mv_within", "mv_update"} :
            /\ f' = [f EXCEPT ![s].up = u] /\ Goto(s, label)
            /\ label = "mv_within" => u # None
    <3>1. CASE MvCheck(s)
      <4>1. /\ f' = [f EXCEPT ![s].up = f[s].cur]
            /\ Goto(s, IF Seen(s, f[s].src).dir THEN "mv_within" ELSE "mv_update")
        BY <1>2, <3>1 DEF MvCheck
      <4> QED
        BY <4>1, CallFacts, PgAssumption
    <3>2. CASE MvWithin(s)
      <4> DEFINE p == IF Live(s, f[s].up) THEN Seen(s, f[s].up).parent ELSE None
      <4>1. /\ f' = [f EXCEPT ![s].up = p]
            /\ Goto(s, IF p = None THEN "mv_update" ELSE "mv_within")
        BY <1>2, <3>2 DEF MvWithin
      <4>2. f[s].up \in Node
        BY <3>2, CallFacts DEF MvWithin, At, PcOf
      <4>3. p \in Node \cup {None}
        BY <4>2, CallFacts, RowsTyped DEF Row
      <4> HIDE DEF p
      <4> QED
        BY <4>1, <4>3
    <3> QED
      BY <3>1, <3>2
  <2> DEFINE fr == [f[s] EXCEPT !.up = u]
  <2>2. fr \in Frame /\ fr.call = f[s].call /\ fr.k = f[s].k /\ f' = [f EXCEPT ![s] = fr]
        /\ fr.up = u
    BY <2>1, CallFacts DEF Frame
  <2> HIDE DEF fr
  <2>3. StepOf(s) /\ PcOf(s)'
    BY <1>0, <2>1, <2>2, GotoLocal DEF Labels, LabelOK
  <2> QED
    BY <1>0, <2>3, CallFacts, LocalStep DEF Stay, rowVars, RowsTypeOK
<1> QED
  BY <1>1, <1>2

LEMMA MvUpdateStep ==
    ASSUME LocalInv, NEW s \in Sess, MvUpdate(s)
    PROVE  LocalInv'
<1>0. /\ pc[s] = "mv_update" /\ Stay /\ UNCHANGED <<db, owner, shares, topo>>
      /\ f[s].call.op = "move_node" /\ ~RootCall(f[s].call)
  BY CallFacts DEF MvUpdate, At, PcOf, LabelOK
<1>1. Base(f[s].call.dst) \in Name
  BY <1>0, CallFacts, PathParts DEF RootCall
<1>2. StepOf(s) /\ PcOf(s)'
  BY <1>0, ReturnLocal DEF MvUpdate
<1>3. RowsTypeOK'
  <2>1. RowsTypeOK /\ f[s].cur \in Node
    BY CallFacts
  <2>2. CASE UNCHANGED new
    BY <1>0, <2>1, <2>2 DEF RowsTypeOK
  <2>3. CASE new' = [new EXCEPT ![f[s].src].parent = f[s].cur,
                                ![f[s].src].name = Base(f[s].call.dst)]
    <3>1. \A n \in Node : new'[n] = new[n] \/
              new'[n] = [new[n] EXCEPT !.parent = f[s].cur, !.name = Base(f[s].call.dst)]
      BY <2>1, <2>3 DEF RowsTypeOK
    <3>2. ASSUME NEW n \in Node PROVE new'[n] \in Row
      <4>1. new[n] \in Row
        BY <2>1 DEF RowsTypeOK
      <4>2. [new[n] EXCEPT !.parent = f[s].cur, !.name = Base(f[s].call.dst)] \in Row
        BY <1>1, <2>1, <4>1 DEF Row
      <4> QED
        BY <3>1, <4>1, <4>2
    <3>3. new' \in [Node -> Row]
      BY <2>1, <2>3, <3>2 DEF RowsTypeOK
    <3> QED
      BY <1>0, <2>1, <3>3 DEF RowsTypeOK
  <2> QED
    BY <2>2, <2>3 DEF MvUpdate
<1> QED
  BY <1>0, <1>2, <1>3, CallFacts, LocalStep DEF Stay

LEMMA MakeSteps ==
    ASSUME LocalInv, NEW s \in Sess, MkChild(s) \/ MkInsert(s) \/ MkAgain(s)
    PROVE  LocalInv'
<1>0. /\ pc[s] \in {"mk_child", "mk_insert", "mk_again"} /\ Stay /\ UNCHANGED topo
      /\ f[s].call.op = "create_directory" /\ f[s].k < Len(f[s].call.path)
  BY CallFacts DEF MkChild, MkInsert, MkAgain, At, PcOf, LabelOK
<1>1. CASE MkChild(s) \/ MkAgain(s)
  <2>1. UNCHANGED rowVars
    BY <1>1 DEF MkChild, MkAgain
  <2>2. StepOf(s) /\ PcOf(s)'
    BY <1>0, <1>1, ReturnLocal, NextPartLocal, GotoSame
    DEF MkChild, MkAgain, Labels, LabelOK
  <2> QED
    BY <1>0, <2>1, <2>2, CallFacts, LocalStep DEF Stay, rowVars, RowsTypeOK
<1>2. CASE MkInsert(s)
  <2>1. Part(s) \in Name
    BY <1>0, CallFacts, LenProperties, ElementOfSeq DEF Part
  <2>2. UNCHANGED f /\ (Goto(s, "mk_again") \/ Goto(s, "fk"))
    BY <1>2 DEF MkInsert
  <2>3. StepOf(s) /\ PcOf(s)'
    BY <1>0, <2>2, GotoSame DEF Labels, LabelOK
  <2>4. RowsTypeOK /\ f[s].cur \in Node
    BY CallFacts
  <2>5. ASSUME UNCHANGED rowVars PROVE RowsTypeOK'
    BY <2>4, <2>5 DEF rowVars, RowsTypeOK
  <2>6. ASSUME FreeIds # {}, InsertRow(s, FreshId, NodeRow(f[s].cur, Part(s), TRUE)),
               UNCHANGED <<db, shares>>
        PROVE  RowsTypeOK'
    <3>1. FreshId \in Node
      BY <2>6, FreshIdFree
    <3> QED
      BY <2>1, <2>4, <2>6, <3>1, InsertTyped
  <2>7. RowsTypeOK'
    BY <1>2, <2>5, <2>6 DEF MkInsert
  <2> QED
    BY <1>0, <2>3, <2>7, CallFacts, LocalStep DEF Stay
<1> QED
  BY <1>1, <1>2

LEMMA FaultSteps ==
    ASSUME LocalInv, NEW s \in Sess, Fail(s) \/ DeadlockVictim(s)
    PROVE  LocalInv'
<1>1. Abort(s) /\ left' \in Nat /\ faults' \in Nat
  BY CallFacts DEF Fail, DeadlockVictim, Stay
<1> QED
  BY <1>1, AbortLocal

LEMMA LocalInit == Init => LocalInv
<1> SUFFICES ASSUME Init PROVE LocalInv
  OBVIOUS
<1>1. NoCall \in Call
  BY EmptySeq DEF NoCall, Call, Ops
<1>2. Fresh(NoCall, "none") \in Frame
  BY <1>1, EmptySeq, PgAssumption DEF Fresh, Frame
<1>3. TypeOK
  BY <1>2, TreeAssumption, CallAssumption DEF Init, TypeOK, RowsTypeOK, Labels
<1>4. PcOK
  BY DEF Init, PcOK, PcOf, LabelOK, Fresh, NoCall
<1> QED
  BY <1>3, <1>4 DEF LocalInv

LEMMA LocalNext == LocalInv /\ [Next]_vars => LocalInv'
<1> SUFFICES ASSUME LocalInv, [Next]_vars PROVE LocalInv'
  OBVIOUS
<1>1. CASE UNCHANGED vars
  BY <1>1 DEF vars, LocalInv, TypeOK, RowsTypeOK, PcOK, PcOf, RootCall
<1>2. ASSUME NEW s \in Sess, Step(s) PROVE LocalInv'
  BY <1>2, WalkStep, CommitStep, FkCheckStep, CreateInsertStep, DeleteSteps,
     MoveLockSteps, MoveCheckSteps, MvUpdateStep, MakeSteps DEF Step
<1>3. ASSUME NEW s \in Sess, NEW c \in Calls, Begin(s, c) \/ BeginAtRoot(s, c)
      PROVE  LocalInv'
  BY <1>3, BeginStep, BeginAtRootStep
<1>4. ASSUME NEW s \in Sess, Fail(s) \/ DeadlockVictim(s) PROVE LocalInv'
  BY <1>4, FaultSteps
<1> QED
  BY <1>1, <1>2, <1>3, <1>4 DEF Next, Finished

\* Every variable of the calls, the rows and the locks keeps its type, and a
\* statement only runs with the local variables its handler has set.
THEOREM TypeCorrect == Spec => []TypeOK
<1>1. Spec => []LocalInv
  BY LocalInit, LocalNext, PTL DEF Spec
<1>2. LocalInv => TypeOK
  BY DEF LocalInv
<1> QED
  BY <1>1, <1>2, PTL

-----------------------------------------------------------------------------
(* UniqueSiblings *)

\* Rows a call has locked and still means to change.
HeldOf(s) ==
    /\ f[s].src # None => owner[f[s].src] = s
    /\ pc[s] \in {"del_check", "del_row"} => owner[f[s].cur] = s
    /\ pc[s] \in {"mv_lock_dst", "mv_check", "mv_within", "mv_update"}
           => f[s].src # None

Held == \A s \in Sess : HeldOf(s)

\* A row that no transaction holds has one version.
Settled == \A n \in Node : owner[n] = None => new[n] = db[n]

\* Whichever open transactions commit, no two siblings come to stand together:
\* neither among the latest versions, nor among the committed ones, nor between
\* a version that one transaction holds and a committed one it does not hold.
CrossUnique == \A n, m \in Node : /\ n # m
                                  /\ owner[n] # None /\ owner[m] # owner[n]
                                  => ~SameEntry(new[n], db[m])

RowInv == Settled /\ Unique(new) /\ Unique(db) /\ CrossUnique

TreeInv == LocalInv /\ Held /\ RowInv

-----------------------------------------------------------------------------
(* RowInv under the ways a statement changes rows *)

LEMMA SameEntrySym ==
    ASSUME NEW v, NEW w, SameEntry(v, w)
    PROVE  SameEntry(w, v)
BY DEF SameEntry, Holds

LEMMA RowsSame == RowInv /\ UNCHANGED <<new, db, owner>> => RowInv'
BY DEF RowInv, Settled, Unique, CrossUnique

\* Nobody holds the entry (p, nm) once the waits are over and no conflict is found.
LEMMA NoHolder ==
    ASSUME RowsTypeOK, RowInv, NEW s \in Sess, NEW p \in Node, NEW nm \in Name,
           UniqueWaits(s, p, nm) = {}, ~UniqueConflict(s, p, nm)
    PROVE  \A m \in Node : /\ ~Holds(new[m], p, nm)
                           /\ owner[m] # s => ~Holds(db[m], p, nm)
<1> TAKE m \in Node
<1>1. ~Holds(Seen(s, m), p, nm)
  BY DEF UniqueConflict, ChildIds
<1>2. CASE owner[m] = s
  BY <1>1, <1>2 DEF Seen
<1>3. CASE owner[m] = None
  BY <1>1, <1>3 DEF Seen, RowInv, Settled
<1>4. CASE owner[m] \notin {s, None}
  <2>1. ~Holds(db[m], p, nm)
    BY <1>1, <1>4 DEF Seen
  <2>2. m \notin UniqueRivals(s, p, nm)
    BY DEF UniqueWaits
  <2>3. new[m] = db[m] \/ ~Holds(new[m], p, nm)
    BY <1>4, <2>2 DEF UniqueRivals
  <2> QED
    BY <2>1, <2>3
<1> QED
  BY <1>2, <1>3, <1>4

LEMMA LockKeeps ==
    ASSUME RowsTypeOK, RowInv, NEW s \in Sess, NEW n \in Node, owner[n] \in {s, None},
           Lock(s, n), UNCHANGED <<new, db>>
    PROVE  RowInv'
<1>1. \A m \in Node : owner'[m] = IF m = n THEN s ELSE owner[m]
  BY DEF RowsTypeOK, Lock
<1>2. Settled'
  BY <1>1, PgAssumption DEF RowInv, Settled
<1>3. CrossUnique'
  <2> SUFFICES ASSUME NEW i \in Node, NEW j \in Node, i # j,
                      owner'[i] # None, owner'[j] # owner'[i],
                      SameEntry(new[i], db[j])
               PROVE  FALSE
    BY DEF CrossUnique
  <2>1. CASE i = n /\ owner[n] = None
    <3>1. new[i] = db[i]
      BY <2>1 DEF RowInv, Settled
    <3> QED
      BY <3>1 DEF RowInv, Unique
  <2>2. CASE i # n \/ owner[n] = s
    BY <1>1, <2>2, PgAssumption DEF RowInv, CrossUnique
  <2> QED
    BY <2>1, <2>2
<1> QED
  BY <1>2, <1>3 DEF RowInv, Unique

\* A row that dies (or is locked to die) disturbs nothing.
LEMMA KillKeeps ==
    ASSUME RowsTypeOK, RowInv, NEW s \in Sess, NEW n \in Node, owner[n] \in {s, None},
           NEW v, v.st # "live",
           Lock(s, n), new' = [new EXCEPT ![n] = v], db' = db
    PROVE  RowInv'
<1>1. \A m \in Node : /\ owner'[m] = IF m = n THEN s ELSE owner[m]
                      /\ new'[m] = IF m = n THEN v ELSE new[m]
  BY DEF RowsTypeOK, Lock
<1>2. \A w : ~SameEntry(v, w) /\ ~SameEntry(w, v)
  BY DEF SameEntry, Holds
<1>3. Settled'
  BY <1>1, PgAssumption DEF RowInv, Settled
<1>4. Unique(new)'
  BY <1>1, <1>2 DEF RowInv, Unique
<1>5. CrossUnique'
  BY <1>1, <1>2, PgAssumption DEF RowInv, CrossUnique
<1> QED
  BY <1>3, <1>4, <1>5 DEF RowInv, Unique

LEMMA InsertKeeps ==
    ASSUME RowsTypeOK, RowInv, NEW s \in Sess, NEW n \in Node,
           new[n].st = "free", owner[n] = None,
           NEW p \in Node, NEW nm \in Name, NEW d,
           UniqueWaits(s, p, nm) = {}, ~UniqueConflict(s, p, nm),
           InsertRow(s, n, NodeRow(p, nm, d)), db' = db
    PROVE  RowInv'
<1> DEFINE v == NodeRow(p, nm, d)
<1>1. \A m \in Node : /\ owner'[m] = IF m = n THEN s ELSE owner[m]
                      /\ new'[m] = IF m = n THEN v ELSE new[m]
  BY DEF RowsTypeOK, InsertRow
<1>2. \A m \in Node : /\ ~Holds(new[m], p, nm)
                      /\ owner[m] # s => ~Holds(db[m], p, nm)
  BY NoHolder
<1>3. v.parent = p /\ v.name = nm
  BY DEF NodeRow
<1> HIDE DEF v
<1>4. \A m \in Node : /\ ~SameEntry(v, new[m]) /\ ~SameEntry(new[m], v)
                      /\ owner[m] # s => ~SameEntry(v, db[m])
  BY <1>2, <1>3 DEF SameEntry, Holds
<1>5. db[n].st = "free"
  BY DEF RowInv, Settled
<1>6. Settled'
  BY <1>1, PgAssumption DEF RowInv, Settled
<1>7. Unique(new)'
  BY <1>1, <1>4 DEF RowInv, Unique
<1>8. CrossUnique'
  <2> SUFFICES ASSUME NEW i \in Node, NEW j \in Node, i # j,
                      owner'[i] # None, owner'[j] # owner'[i],
                      SameEntry(new'[i], db[j])
               PROVE  FALSE
    BY DEF CrossUnique
  <2>1. CASE i = n
    BY <1>1, <1>4, <2>1
  <2>2. CASE j = n
    BY <1>5, <2>2 DEF SameEntry, Holds
  <2>3. CASE i # n /\ j # n
    BY <1>1, <2>3 DEF RowInv, CrossUnique
  <2> QED
    BY <2>1, <2>2, <2>3
<1> QED
  BY <1>6, <1>7, <1>8 DEF RowInv, Unique

LEMMA RekeyKeeps ==
    ASSUME RowsTypeOK, RowInv, NEW s \in Sess, NEW n \in Node, owner[n] = s,
           NEW p \in Node, NEW nm \in Name,
           UniqueWaits(s, p, nm) = {}, ~UniqueConflict(s, p, nm),
           NEW v, v.parent = p, v.name = nm,
           new' = [new EXCEPT ![n] = v], UNCHANGED <<db, owner>>
    PROVE  RowInv'
<1>1. \A m \in Node : new'[m] = IF m = n THEN v ELSE new[m]
  BY DEF RowsTypeOK
<1>2. \A m \in Node : /\ ~Holds(new[m], p, nm)
                      /\ owner[m] # s => ~Holds(db[m], p, nm)
  BY NoHolder
<1>3. \A m \in Node : /\ ~SameEntry(v, new[m]) /\ ~SameEntry(new[m], v)
                      /\ owner[m] # s => ~SameEntry(v, db[m])
  BY <1>2 DEF SameEntry, Holds
<1>4. Settled'
  BY <1>1, PgAssumption DEF RowInv, Settled
<1>5. Unique(new)'
  BY <1>1, <1>3 DEF RowInv, Unique
<1>6. CrossUnique'
  BY <1>1, <1>3 DEF RowInv, CrossUnique
<1> QED
  BY <1>4, <1>5, <1>6 DEF RowInv, Unique

LEMMA CommitKeeps ==
    ASSUME RowsTypeOK, RowInv, NEW s \in Sess, CommitRows(s)
    PROVE  RowInv'
<1>1. \A m \in Node : /\ owner'[m] = IF owner[m] = s THEN None ELSE owner[m]
                      /\ new'[m] = new[m]
                      /\ db'[m] = IF owner[m] = s THEN new[m] ELSE db[m]
  BY DEF CommitRows, ReleaseRows, Seen
<1>2. Settled'
  BY <1>1 DEF RowInv, Settled
<1>3. Unique(new)'
  BY <1>1 DEF RowInv, Unique
<1>4. Unique(db)'
  <2> SUFFICES ASSUME NEW i \in Node, NEW j \in Node, i # j, SameEntry(db'[i], db'[j])
               PROVE  FALSE
    BY DEF Unique
  <2>1. CASE owner[i] = s /\ owner[j] = s
    BY <1>1, <2>1 DEF RowInv, Unique
  <2>2. CASE owner[i] # s /\ owner[j] # s
    BY <1>1, <2>2 DEF RowInv, Unique
  <2>3. CASE owner[i] = s /\ owner[j] # s
    BY <1>1, <2>3, PgAssumption DEF RowInv, CrossUnique
  <2>4. CASE owner[i] # s /\ owner[j] = s
    BY <1>1, <2>4, SameEntrySym, PgAssumption DEF RowInv, CrossUnique
  <2> QED
    BY <2>1, <2>2, <2>3, <2>4
<1>5. CrossUnique'
  BY <1>1 DEF RowInv, CrossUnique, Unique
<1> QED
  BY <1>2, <1>3, <1>4, <1>5 DEF RowInv

LEMMA RollbackKeeps ==
    ASSUME RowsTypeOK, RowInv, NEW s \in Sess, RollbackRows(s)
    PROVE  RowInv'
<1>1. \A m \in Node : /\ owner'[m] = IF owner[m] = s THEN None ELSE owner[m]
                      /\ new'[m] = IF owner[m] = s THEN db[m] ELSE new[m]
                      /\ db'[m] = db[m]
  BY DEF RollbackRows, ReleaseRows
<1>2. Settled'
  BY <1>1 DEF RowInv, Settled
<1>3. Unique(new)'
  <2> SUFFICES ASSUME NEW i \in Node, NEW j \in Node, i # j, SameEntry(new'[i], new'[j])
               PROVE  FALSE
    BY DEF Unique
  <2>1. CASE owner[i] = s /\ owner[j] = s
    BY <1>1, <2>1 DEF RowInv, Unique
  <2>2. CASE owner[i] # s /\ owner[j] # s
    BY <1>1, <2>2 DEF RowInv, Unique
  <2>3. CASE owner[i] = s /\ owner[j] # s
    <3>1. SameEntry(new[j], db[i])
      BY <1>1, <2>3, SameEntrySym
    <3> QED
      BY <2>3, <3>1 DEF RowInv, CrossUnique, Settled, Unique
  <2>4. CASE owner[i] # s /\ owner[j] = s
    BY <1>1, <2>4 DEF RowInv, CrossUnique, Settled, Unique
  <2> QED
    BY <2>1, <2>2, <2>3, <2>4
<1>4. Unique(db)'
  BY <1>1 DEF RowInv, Unique
<1>5. CrossUnique'
  BY <1>1 DEF RowInv, CrossUnique
<1> QED
  BY <1>2, <1>3, <1>4, <1>5 DEF RowInv

-----------------------------------------------------------------------------
(* Every action preserves Held and RowInv *)

\* A step of s takes and gives back only its own row locks.
OwnLocks(s) == \A n \in Node : owner[n] \notin {s, None} => owner'[n] = owner[n]

\* A step of s after which s still holds what it will change.
KeepsHold(s) == /\ \A t \in Sess \ {s} : f'[t] = f[t] /\ pc'[t] = pc[t]
                /\ OwnLocks(s)
                /\ HeldOf(s)'

LEMMA HeldStep ==
    ASSUME LocalInv, Held, NEW s \in Sess, KeepsHold(s)
    PROVE  Held'
<1>1. \A t \in Sess \ {s} : HeldOf(t)'
  <2> SUFFICES ASSUME NEW t \in Sess \ {s} PROVE HeldOf(t)'
    OBVIOUS
  <2>1. f[t].src \in Node \cup {None} /\ f[t].cur \in Node /\ HeldOf(t)
    BY CallFacts DEF Held
  <2>2. \A n \in Node : owner[n] = t => owner'[n] = t
    BY PgAssumption DEF KeepsHold, OwnLocks
  <2> QED
    BY <2>1, <2>2 DEF KeepsHold, HeldOf
<1> QED
  BY <1>1 DEF Held, KeepsHold

\* The labels at which HeldOf asks for nothing but the source's lock.
Plain == Labels \ {"del_check", "del_row", "mv_lock_dst", "mv_check", "mv_within",
                   "mv_update"}

LEMMA ReturnHold ==
    ASSUME LocalInv, Held, NEW s \in Sess, NEW ok, Return(s, ok), OwnLocks(s),
           \A n \in Node : owner[n] = s => owner'[n] = s
    PROVE  KeepsHold(s)
<1>1. f[s]' = [f[s] EXCEPT !.out = IF ok THEN "true" ELSE "false"] /\ pc'[s] = "commit"
  BY DEF LocalInv, TypeOK, Return, Goto
<1>2. f[s]'.src = f[s].src
  BY <1>1, CallFacts DEF Frame
<1>3. \A t \in Sess \ {s} : f'[t] = f[t] /\ pc'[t] = pc[t]
  BY DEF LocalInv, TypeOK, Return, Goto
<1> QED
  BY <1>1, <1>2, <1>3, CallFacts DEF KeepsHold, Held, HeldOf

LEMMA WalkHold ==
    ASSUME LocalInv, NEW s \in Sess, NEW fr \in Frame, NEW path \in Seq(Name),
           StartWalk(s, fr, path), OwnLocks(s),
           fr.src # None => owner'[fr.src] = s
    PROVE  KeepsHold(s)
<1>1. fr.call.op \in Ops
  BY DEF Frame, Call
<1>2. AfterWalk(fr) \in Plain \/ (AfterWalk(fr) = "mv_lock_dst" /\ fr.src # None)
  BY <1>1 DEF AfterWalk, Ops, Plain, Labels
<1>3. /\ f'[s].src = fr.src
      /\ pc'[s] = IF path = << >> THEN AfterWalk(fr) ELSE "walk"
      /\ \A t \in Sess \ {s} : f'[t] = f[t] /\ pc'[t] = pc[t]
  BY StartWalkLocal DEF LocalInv
<1> QED
  BY <1>2, <1>3 DEF KeepsHold, HeldOf, Plain

LEMMA NextPartHold ==
    ASSUME LocalInv, Held, NEW s \in Sess, NextPart(s), UNCHANGED owner,
           pc[s] \notin {"idle", "commit"}, f[s].call.op = "create_directory"
    PROVE  KeepsHold(s)
<1> DEFINE k == f[s].k + 1
           path == f[s].call.path
<1>0. OwnLocks(s)
  BY DEF OwnLocks
<1>1. CASE k = Len(path)
  BY <1>0, <1>1, ReturnHold DEF NextPart
<1>2. CASE k # Len(path)
  <2> DEFINE fr == [f[s] EXCEPT !.k = k]
  <2>1. fr \in Frame /\ fr.src = f[s].src
    BY CallFacts DEF Frame
  <2>2. Len(path) \in Nat /\ k \in Nat /\ k < Len(path)
    BY <1>2, CallFacts, LenProperties DEF PcOf
  <2>3. SubSeq(path, 1, k) \in Seq(Name)
    BY <2>2, CallFacts, SubSeqProperties
  <2>4. StartWalk(s, fr, SubSeq(path, 1, k))
    BY <1>2 DEF NextPart
  <2>5. fr.src # None => owner'[fr.src] = s
    BY <2>1 DEF Held, HeldOf
  <2> HIDE DEF fr, k, path
  <2> QED
    BY <1>0, <2>1, <2>3, <2>4, <2>5, WalkHold
<1> QED
  BY <1>1, <1>2

LEMMA GotoHold ==
    ASSUME LocalInv, Held, NEW s \in Sess, NEW label \in Plain,
           Goto(s, label), UNCHANGED f, OwnLocks(s),
           \A n \in Node : owner[n] = s => owner'[n] = s
    PROVE  KeepsHold(s)
<1>1. pc'[s] = label /\ \A t \in Sess \ {s} : pc'[t] = pc[t]
  BY DEF LocalInv, TypeOK, Goto
<1> QED
  BY <1>1, CallFacts DEF KeepsHold, Held, HeldOf, Plain

LEMMA IdleHold ==
    ASSUME LocalInv, NEW s \in Sess, NEW out, Goto(s, "idle"),
           f' = [f EXCEPT ![s] = Fresh(NoCall, out)], ReleaseRows(s)
    PROVE  KeepsHold(s)
<1>1. f'[s].src = None /\ pc'[s] = "idle"
  BY DEF LocalInv, TypeOK, Goto, Fresh
<1>2. \A t \in Sess \ {s} : f'[t] = f[t] /\ pc'[t] = pc[t]
  BY DEF LocalInv, TypeOK, Goto
<1>3. OwnLocks(s)
  BY DEF OwnLocks, ReleaseRows
<1> QED
  BY <1>1, <1>2, <1>3 DEF KeepsHold, HeldOf

LEMMA AbortKeeps ==
    ASSUME TreeInv, NEW s \in Sess, Abort(s)
    PROVE  Held' /\ RowInv'
<1>1. KeepsHold(s)
  BY IdleHold DEF Abort, RollbackRows, TreeInv
<1>2. RowInv'
  BY RollbackKeeps, CallFacts DEF Abort, TreeInv
<1> QED
  BY <1>1, <1>2, HeldStep DEF TreeInv

\* The statements that change no row and no FOR UPDATE lock.
LEMMA ReadKeeps ==
    ASSUME TreeInv, NEW s \in Sess,
           \/ Walk(s) \/ DelCheck(s) \/ MvTopo(s) \/ MkChild(s) \/ MkAgain(s)
    PROVE  Held' /\ RowInv'
<1>0. /\ UNCHANGED <<db, new, owner>> /\ OwnLocks(s) /\ LocalInv /\ Held /\ RowInv
      /\ (f[s].src # None => owner'[f[s].src] = s)
  BY DEF Walk, DelCheck, MvTopo, MkChild, MkAgain, rowVars, OwnLocks, TreeInv, Held,
         HeldOf
<1>1. KeepsHold(s)
  <2>1. CASE Walk(s)
    <3> DEFINE c == Child(s, f[s].cur, Head(f[s].rest))
               fr == [f[s] EXCEPT !.cur = c, !.rest = Tail(f[s].rest)]
    <3>1. CASE c = None
      BY <1>0, <2>1, <3>1, ReturnHold DEF Walk
    <3>2. CASE c # None
      <4>1. /\ f' = [f EXCEPT ![s] = fr]
            /\ pc' = [pc EXCEPT ![s] = IF Tail(f[s].rest) = << >> THEN AfterWalk(f[s])
                                       ELSE "walk"]
        BY <2>1, <3>2 DEF Walk, Goto
      <4>2. fr.src = f[s].src
        BY CallFacts, <1>0 DEF Frame
      <4> HIDE DEF fr, c
      <4>3. f'[s].src = f[s].src /\ \A t \in Sess \ {s} : f'[t] = f[t] /\ pc'[t] = pc[t]
        BY <1>0, <4>1, <4>2 DEF LocalInv, TypeOK
      <4>4. \/ AfterWalk(f[s]) \in Plain
            \/ AfterWalk(f[s]) = "mv_lock_dst" /\ f[s].src # None
        BY <1>0, CallFacts DEF AfterWalk, Ops, Plain, Labels
      <4>5. pc'[s] \in {"walk", AfterWalk(f[s])}
        BY <1>0, <4>1 DEF LocalInv, TypeOK
      <4> QED
        BY <1>0, <4>3, <4>4, <4>5 DEF KeepsHold, HeldOf, Plain
    <3> QED
      BY <3>1, <3>2
  <2>2. CASE DelCheck(s)
    <3>1. CASE Return(s, FALSE)
      BY <1>0, <3>1, ReturnHold
    <3>2. CASE Goto(s, "del_row") /\ UNCHANGED f
      <4>1. pc[s] = "del_check"
        BY <2>2 DEF DelCheck, At
      <4>2. pc'[s] = "del_row" /\ \A t \in Sess \ {s} : pc'[t] = pc[t]
        BY <1>0, <3>2 DEF LocalInv, TypeOK, Goto
      <4> QED
        BY <1>0, <3>2, <4>1, <4>2 DEF KeepsHold, Held, HeldOf
    <3> QED
      BY <2>2, <3>1, <3>2 DEF DelCheck
  <2>3. CASE MvTopo(s)
    BY <1>0, <2>3, CallFacts, WalkHold DEF MvTopo
  <2>4. CASE MkChild(s) \/ MkAgain(s)
    <3>0. pc[s] \notin {"idle", "commit"} /\ f[s].call.op = "create_directory"
      BY <1>0, <2>4, CallFacts DEF MkChild, MkAgain, At, PcOf, LabelOK
    <3>1. \/ Return(s, FALSE) \/ NextPart(s)
          \/ Goto(s, "mk_insert") /\ UNCHANGED f
      BY <2>4 DEF MkChild, MkAgain
    <3> QED
      BY <1>0, <3>0, <3>1, ReturnHold, NextPartHold, GotoHold DEF Plain, Labels
  <2> QED
    BY <2>1, <2>2, <2>3, <2>4
<1> QED
  BY <1>0, <1>1, HeldStep, RowsSame

LEMMA BeginKeeps ==
    ASSUME TreeInv, NEW s \in Sess, NEW c \in Calls, Begin(s, c) \/ BeginAtRoot(s, c)
    PROVE  Held' /\ RowInv'
<1>0. UNCHANGED <<db, new, owner>> /\ OwnLocks(s) /\ LocalInv /\ Held /\ RowInv
  BY DEF Begin, BeginAtRoot, rowVars, OwnLocks, TreeInv
<1>1. CASE BeginAtRoot(s, c)
  <2>1. f'[s].src = None /\ pc'[s] = "idle"
    BY <1>0, <1>1 DEF BeginAtRoot, LocalInv, TypeOK, Fresh, At
  <2>2. \A t \in Sess \ {s} : f'[t] = f[t] /\ pc'[t] = pc[t]
    BY <1>0, <1>1 DEF BeginAtRoot, LocalInv, TypeOK
  <2> QED
    BY <1>0, <2>1, <2>2, HeldStep, RowsSame DEF KeepsHold, HeldOf
<1>2. CASE Begin(s, c)
  <2> DEFINE fr == Fresh(c, "none")
  <2>1. c \in Call /\ c.op \in Ops /\ c.path \in Seq(Name)
    BY CallAssumption DEF Call
  <2>2. c.path # << >>
    BY <1>2 DEF Begin, RootCall
  <2>3. fr \in Frame /\ fr.src = None
    BY <2>1, EmptySeq, PgAssumption DEF Fresh, Frame
  <2>4. Parent(c.path) \in Seq(Name) /\ << >> \in Seq(Name)
    BY <2>1, <2>2, PathParts, EmptySeq
  <2>5. \/ \E path \in Seq(Name) : StartWalk(s, fr, path)
        \/ f' = [f EXCEPT ![s] = fr] /\ Goto(s, "mv_topo")
    BY <1>2, <2>1, <2>4 DEF Begin, Ops
  <2> HIDE DEF fr
  <2>6. KeepsHold(s)
    <3>1. ASSUME NEW path \in Seq(Name), StartWalk(s, fr, path) PROVE KeepsHold(s)
      BY <1>0, <2>3, <3>1, WalkHold
    <3>2. ASSUME f' = [f EXCEPT ![s] = fr], Goto(s, "mv_topo") PROVE KeepsHold(s)
      <4>1. /\ f'[s] = fr /\ pc'[s] = "mv_topo"
            /\ \A t \in Sess \ {s} : f'[t] = f[t] /\ pc'[t] = pc[t]
        BY <1>0, <3>2 DEF LocalInv, TypeOK, Goto
      <4> QED
        BY <1>0, <2>3, <4>1 DEF KeepsHold, HeldOf
    <3> QED
      BY <2>5, <3>1, <3>2
  <2> QED
    BY <1>0, <2>6, HeldStep, RowsSame
<1> QED
  BY <1>1, <1>2

LEMMA CommitTreeKeeps ==
    ASSUME TreeInv, NEW s \in Sess, Commit(s)
    PROVE  Held' /\ RowInv'
<1>1. KeepsHold(s)
  BY IdleHold DEF Commit, CommitRows, TreeInv
<1>2. RowInv'
  BY CommitKeeps, CallFacts DEF Commit, TreeInv
<1> QED
  BY <1>1, <1>2, HeldStep DEF TreeInv

\* Both INSERT statements.
LEMMA InsertTreeKeeps ==
    ASSUME TreeInv, NEW s \in Sess, CreateInsert(s) \/ MkInsert(s)
    PROVE  Held' /\ RowInv'
<1> DEFINE nm == IF pc[s] = "mk_insert" THEN Part(s) ELSE Base(f[s].call.path)
           d == IF pc[s] = "mk_insert" THEN TRUE ELSE f[s].call.dir
<1>0. LocalInv /\ Held /\ RowInv /\ RowsTypeOK /\ f[s].cur \in Node
  BY CallFacts DEF TreeInv
<1>1. nm \in Name
  <2>1. CASE CreateInsert(s)
    BY <1>0, <2>1, CallFacts, PathParts DEF CreateInsert, At, PcOf, LabelOK, RootCall
  <2>2. CASE MkInsert(s)
    <3>1. f[s].call.op = "create_directory" /\ f[s].k < Len(f[s].call.path)
          /\ pc[s] = "mk_insert"
      BY <1>0, <2>2, CallFacts DEF MkInsert, At, PcOf, LabelOK
    <3> QED
      BY <1>0, <3>1, CallFacts, LenProperties, ElementOfSeq DEF Part
  <2> QED
    BY <2>1, <2>2
<1>2. CASE UNCHANGED rowVars
  <2>1. UNCHANGED <<db, new, owner>> /\ OwnLocks(s)
    BY <1>2 DEF rowVars, OwnLocks
  <2>2. Return(s, FALSE) \/ (\E label \in Plain : Goto(s, label) /\ UNCHANGED f)
    BY DEF CreateInsert, MkInsert, Plain, Labels
  <2>3. KeepsHold(s)
    BY <1>0, <2>1, <2>2, ReturnHold, GotoHold
  <2> QED
    BY <1>0, <2>1, <2>3, HeldStep, RowsSame
<1>3. CASE ~UNCHANGED rowVars
  <2>1. /\ FreeIds # {} /\ UniqueWaits(s, f[s].cur, nm) = {}
        /\ ~UniqueConflict(s, f[s].cur, nm)
        /\ InsertRow(s, FreshId, NodeRow(f[s].cur, nm, d)) /\ UNCHANGED <<db, shares, f>>
        /\ Goto(s, "fk")
    BY <1>3 DEF CreateInsert, MkInsert, At
  <2>2. FreshId \in Node /\ new[FreshId].st = "free" /\ owner[FreshId] = None
    BY <2>1, FreshIdFree
  <2> HIDE DEF nm, d
  <2>3. RowInv'
    BY <1>0, <1>1, <2>1, <2>2, InsertKeeps
  <2>4. OwnLocks(s) /\ \A n \in Node : owner[n] = s => owner'[n] = s
    BY <1>0, <2>1, <2>2 DEF OwnLocks, InsertRow, RowsTypeOK
  <2>5. KeepsHold(s)
    BY <1>0, <2>1, <2>4, GotoHold DEF Plain, Labels
  <2> QED
    BY <1>0, <2>3, <2>5, HeldStep
<1> QED
  BY <1>2, <1>3

LEMMA FkKeeps ==
    ASSUME TreeInv, NEW s \in Sess, FkCheck(s)
    PROVE  Held' /\ RowInv'
<1>0. /\ LocalInv /\ Held /\ RowInv
      /\ pc[s] = "fk" /\ f[s].call.op \in {"create_node", "create_directory"}
  BY CallFacts DEF TreeInv, FkCheck, At, PcOf, LabelOK
<1>1. CASE Abort(s)
  BY <1>1, AbortKeeps
<1>2. CASE ~Abort(s)
  <2>1. /\ UNCHANGED <<db, new, owner>> /\ OwnLocks(s)
        /\ IF f[s].call.op = "create_node" THEN Return(s, TRUE) ELSE NextPart(s)
    BY <1>2 DEF FkCheck, OwnLocks
  <2>2. KeepsHold(s)
    BY <1>0, <2>1, ReturnHold, NextPartHold
  <2> QED
    BY <1>0, <2>1, <2>2, HeldStep, RowsSame
<1> QED
  BY <1>1, <1>2

LEMMA LockFacts ==
    ASSUME RowsTypeOK, NEW s \in Sess, NEW n \in Node, LockWaits(s, n) = {}, Lock(s, n)
    PROVE  /\ owner[n] \in {s, None} /\ owner'[n] = s
           /\ OwnLocks(s) /\ \A m \in Node : owner[m] = s => owner'[m] = s
BY DEF LockWaits, Lock, OwnLocks, RowsTypeOK

LEMMA LockTreeKeeps ==
    ASSUME TreeInv, NEW s \in Sess, DelLock(s) \/ MvLockSrc(s) \/ MvLockDst(s)
    PROVE  Held' /\ RowInv'
<1>0. LocalInv /\ Held /\ RowInv /\ RowsTypeOK /\ f[s].cur \in Node /\ UNCHANGED <<db, new>>
  BY CallFacts DEF TreeInv, DelLock, MvLockSrc, MvLockDst
<1>1. CASE UNCHANGED owner /\ Return(s, FALSE)
  <2>1. OwnLocks(s)
    BY <1>1 DEF OwnLocks
  <2> QED
    BY <1>0, <1>1, <2>1, ReturnHold, HeldStep, RowsSame
<1>2. CASE ~(UNCHANGED owner /\ Return(s, FALSE))
  <2>1. LockWaits(s, f[s].cur) = {} /\ Lock(s, f[s].cur)
    BY <1>2 DEF DelLock, MvLockSrc, MvLockDst
  <2>2. /\ owner[f[s].cur] \in {s, None} /\ owner'[f[s].cur] = s
        /\ OwnLocks(s) /\ \A m \in Node : owner[m] = s => owner'[m] = s
    BY <1>0, <2>1, LockFacts
  <2>3. RowInv'
    BY <1>0, <2>1, <2>2, LockKeeps
  <2>4. CASE DelLock(s)
    <3>1. Goto(s, "del_check") /\ UNCHANGED f
      BY <1>2, <2>4 DEF DelLock
    <3>2. pc'[s] = "del_check" /\ \A t \in Sess \ {s} : pc'[t] = pc[t]
      BY <1>0, <3>1 DEF LocalInv, TypeOK, Goto
    <3>3. KeepsHold(s)
      BY <1>0, <2>2, <3>1, <3>2, CallFacts DEF KeepsHold, Held, HeldOf
    <3> QED
      BY <1>0, <2>3, <3>3, HeldStep
  <2>5. CASE MvLockSrc(s)
    <3>1. CASE Return(s, TRUE)
      BY <1>0, <2>2, <2>3, <3>1, ReturnHold, HeldStep
    <3>2. CASE StartWalk(s, [f[s] EXCEPT !.src = f[s].cur], Parent(f[s].call.dst))
      <4> DEFINE fr == [f[s] EXCEPT !.src = f[s].cur]
      <4>1. fr \in Frame /\ fr.src = f[s].cur
        BY <1>0, CallFacts DEF Frame
      <4>2. Parent(f[s].call.dst) \in Seq(Name)
        BY <1>0, <2>5, CallFacts, PathParts DEF MvLockSrc, At, PcOf, LabelOK, RootCall
      <4>3. StartWalk(s, fr, Parent(f[s].call.dst))
        BY <3>2
      <4> HIDE DEF fr
      <4>4. KeepsHold(s)
        BY <1>0, <2>2, <4>1, <4>2, <4>3, WalkHold
      <4> QED
        BY <1>0, <2>3, <4>4, HeldStep
    <3> QED
      BY <1>2, <2>5, <3>1, <3>2 DEF MvLockSrc
  <2>6. CASE MvLockDst(s)
    <3>1. Goto(s, "mv_check") /\ UNCHANGED f /\ pc[s] = "mv_lock_dst"
      BY <1>2, <2>6 DEF MvLockDst, At
    <3>2. pc'[s] = "mv_check" /\ \A t \in Sess \ {s} : pc'[t] = pc[t]
      BY <1>0, <3>1 DEF LocalInv, TypeOK, Goto
    <3>3. KeepsHold(s)
      BY <1>0, <2>2, <3>1, <3>2, CallFacts DEF KeepsHold, Held, HeldOf
    <3> QED
      BY <1>0, <2>3, <3>3, HeldStep
  <2> QED
    BY <2>4, <2>5, <2>6
<1> QED
  BY <1>1, <1>2

LEMMA KillTreeKeeps ==
    ASSUME TreeInv, NEW s \in Sess, DelRow(s) \/ Cascade(s)
    PROVE  Held' /\ RowInv'
<1>0. LocalInv /\ Held /\ RowInv /\ RowsTypeOK /\ f[s].cur \in Node
  BY CallFacts DEF TreeInv
<1>1. CASE DelRow(s)
  <2> DEFINE n == f[s].cur
             v == [new[n] EXCEPT !.st = "dead"]
  <2>1. /\ new' = [new EXCEPT ![n] = v] /\ db' = db /\ UNCHANGED <<owner, f>>
        /\ Goto(s, "cascade")
    BY <1>1 DEF DelRow
  <2>2. owner[n] = s
    BY <1>1 DEF TreeInv, Held, HeldOf, DelRow, At
  <2>3. v.st = "dead"
    BY <1>0 DEF RowsTypeOK, Row
  <2>4. Lock(s, n) /\ OwnLocks(s)
    BY <1>0, <2>1, <2>2 DEF Lock, RowsTypeOK, OwnLocks
  <2>5. KeepsHold(s)
    BY <1>0, <2>1, <2>4, GotoHold DEF Plain, Labels
  <2> HIDE DEF n, v
  <2>6. RowInv'
    BY <1>0, <2>1, <2>2, <2>3, <2>4, KillKeeps DEF n
  <2> QED
    BY <1>0, <2>5, <2>6, HeldStep
<1>2. CASE Cascade(s)
  <2>1. CASE Return(s, TRUE) /\ UNCHANGED rowVars
    <3>1. UNCHANGED <<db, new, owner>> /\ OwnLocks(s)
      BY <2>1 DEF rowVars, OwnLocks
    <3> QED
      BY <1>0, <2>1, <3>1, ReturnHold, HeldStep, RowsSame
  <2>2. CASE Orphans(s) # {}
    <3>1. PICK n \in Orphans(s) :
              /\ LockWaits(s, n) = {} /\ Lock(s, n)
              /\ new' = [new EXCEPT ![n] = [db[n] EXCEPT !.st = "dead"]]
              /\ UNCHANGED <<db, shares, pc, f>>
      BY <1>2, <2>2 DEF Cascade
    <3>2. n \in Node
      BY DEF Orphans
    <3> DEFINE v == [db[n] EXCEPT !.st = "dead"]
    <3>3. v.st = "dead" /\ new' = [new EXCEPT ![n] = v] /\ db' = db
      BY <1>0, <3>1, <3>2 DEF RowsTypeOK, Row
    <3>4. /\ owner[n] \in {s, None} /\ OwnLocks(s)
          /\ \A m \in Node : owner[m] = s => owner'[m] = s
      BY <1>0, <3>1, <3>2, LockFacts
    <3> HIDE DEF v
    <3>5. RowInv'
      BY <1>0, <3>1, <3>2, <3>3, <3>4, KillKeeps
    <3>6. KeepsHold(s)
      BY <1>0, <3>1, <3>4, CallFacts DEF KeepsHold, Held, HeldOf
    <3> QED
      BY <1>0, <3>5, <3>6, HeldStep
  <2> QED
    BY <1>2, <2>1, <2>2 DEF Cascade
<1> QED
  BY <1>1, <1>2

LEMMA MoveTreeKeeps ==
    ASSUME TreeInv, NEW s \in Sess, MvCheck(s) \/ MvWithin(s) \/ MvUpdate(s)
    PROVE  Held' /\ RowInv'
<1>0. /\ LocalInv /\ Held /\ RowInv /\ RowsTypeOK /\ f[s].cur \in Node
      /\ db' = db /\ owner' = owner /\ OwnLocks(s)
      /\ f[s].src # None /\ f[s].src \in Node /\ owner[f[s].src] = s
  BY CallFacts DEF TreeInv, MvCheck, MvWithin, MvUpdate, rowVars, OwnLocks, At, Held, HeldOf
<1>1. CASE Return(s, FALSE) \/ Return(s, TRUE)
  <2>1. KeepsHold(s)
    BY <1>0, <1>1, ReturnHold
  <2>2. CASE UNCHANGED new
    BY <1>0, <2>1, <2>2, HeldStep, RowsSame
  <2>3. CASE ~UNCHANGED new
    <3> DEFINE nm == Base(f[s].call.dst)
               v == [new[f[s].src] EXCEPT !.parent = f[s].cur, !.name = nm]
    <3>1. /\ UniqueWaits(s, f[s].cur, nm) = {} /\ ~UniqueConflict(s, f[s].cur, nm)
          /\ new' = [new EXCEPT ![f[s].src].parent = f[s].cur, ![f[s].src].name = nm]
          /\ pc[s] = "mv_update"
      BY <2>3 DEF MvCheck, MvWithin, MvUpdate, rowVars, At
    <3>2. nm \in Name
      BY <1>0, <3>1, CallFacts, PathParts DEF PcOf, LabelOK, RootCall
    <3>3. v.parent = f[s].cur /\ v.name = nm
      BY <1>0 DEF RowsTypeOK, Row
    <3>4. new' = [new EXCEPT ![f[s].src] = v]
      BY <1>0, <3>1 DEF RowsTypeOK
    <3> DEFINE n == f[s].src
               p == f[s].cur
    <3>5. /\ n \in Node /\ owner[n] = s /\ p \in Node /\ v.parent = p
          /\ UniqueWaits(s, p, nm) = {} /\ ~UniqueConflict(s, p, nm)
          /\ new' = [new EXCEPT ![n] = v] /\ UNCHANGED <<db, owner>>
      BY <1>0, <3>1, <3>3, <3>4
    <3> HIDE DEF v, nm, n, p
    <3>6. RowInv'
      BY <1>0, <3>2, <3>3, <3>5, RekeyKeeps
    <3> QED
      BY <1>0, <2>1, <3>6, HeldStep
  <2> QED
    BY <2>2, <2>3
<1>2. CASE ~(Return(s, FALSE) \/ Return(s, TRUE))
  <2>1. \E u, label : /\ f' = [f EXCEPT ![s].up = u]
                      /\ Goto(s, label) /\ UNCHANGED new
    BY <1>2 DEF MvCheck, MvWithin, MvUpdate, rowVars
  <2>2. f'[s].src = f[s].src /\ f'[s].cur = f[s].cur
    BY <1>0, <2>1, CallFacts DEF Frame, LocalInv, TypeOK
  <2>3. \A t \in Sess \ {s} : f'[t] = f[t] /\ pc'[t] = pc[t]
    BY <1>0, <2>1 DEF Goto, LocalInv, TypeOK
  <2>4. pc'[s] \in {"mv_within", "mv_update"}
    BY <1>0, <1>2 DEF MvCheck, MvWithin, MvUpdate, Goto, LocalInv, TypeOK
  <2>5. KeepsHold(s)
    BY <1>0, <2>2, <2>3, <2>4 DEF KeepsHold, HeldOf
  <2> QED
    BY <1>0, <2>1, <2>5, HeldStep, RowsSame
<1> QED
  BY <1>1, <1>2

LEMMA TreeInit == Init => TreeInv
<1> SUFFICES ASSUME Init PROVE TreeInv
  OBVIOUS
<1>1. LocalInv
  BY LocalInit
<1>2. Held
  BY DEF Init, Held, HeldOf, Fresh
<1>3. RowInv
  BY TreeAssumption DEF Init, RowInv, Settled, CrossUnique, WellFormed
<1> QED
  BY <1>1, <1>2, <1>3 DEF TreeInv

LEMMA TreeNext == TreeInv /\ [Next]_vars => TreeInv'
<1> SUFFICES ASSUME TreeInv, [Next]_vars PROVE Held' /\ RowInv'
  BY LocalNext DEF TreeInv
<1>1. CASE UNCHANGED vars
  BY <1>1, RowsSame DEF vars, TreeInv, Held, HeldOf
<1>2. ASSUME NEW s \in Sess, Step(s) PROVE Held' /\ RowInv'
  BY <1>2, ReadKeeps, CommitTreeKeeps, FkKeeps, InsertTreeKeeps, LockTreeKeeps,
     KillTreeKeeps, MoveTreeKeeps DEF Step
<1>3. ASSUME NEW s \in Sess, NEW c \in Calls, Begin(s, c) \/ BeginAtRoot(s, c)
      PROVE  Held' /\ RowInv'
  BY <1>3, BeginKeeps
<1>4. ASSUME NEW s \in Sess, Fail(s) \/ DeadlockVictim(s) PROVE Held' /\ RowInv'
  BY <1>4, AbortKeeps DEF Fail, DeadlockVictim
<1> QED
  BY <1>1, <1>2, <1>3, <1>4 DEF Next, Finished

\* No two calls, however they interleave and whichever of them fail, ever commit
\* two entries with one name into one directory.
THEOREM SiblingsUnique == Spec => []UniqueSiblings
<1>1. Spec => []TreeInv
  BY TreeInit, TreeNext, PTL DEF Spec
<1>2. TreeInv => UniqueSiblings
  BY DEF TreeInv, RowInv, UniqueSiblings
<1> QED
  BY <1>1, <1>2, PTL

-----------------------------------------------------------------------------
(* The shape of the tree: what each call has read, locked and changed *)

\* The versions that stand for a row when the open transactions are taken to have
\* committed, and when they are not.
Latest == [n \in Node |-> IF new[n].st = "live" THEN new[n] ELSE db[n]]
Earliest == [n \in Node |-> IF db[n].st = "live" THEN db[n] ELSE new[n]]

Op(s) == f[s].call.op

Makes(s) == Op(s) \in {"create_node", "create_directory"}

\* The call is about to return True.
Done(s) == pc[s] = "commit" /\ f[s].out = "true"

Killed(s, n) == owner[n] = s /\ new[n].st = "dead"

Childless(n) == \A m \in Node : ~(db[m].st = "live" /\ db[m].parent = n)

\* A call that has returned holds no lock.
IdleOf(s) == pc[s] = "idle" => \A n \in Node : owner[n] # s /\ s \notin shares[n]

\* The row that a call has resolved, and the topology lock of move_node.
ResolvedOf(s) ==
    /\ Seen(s, f[s].cur).st # "free"
    /\ pc[s] \in {"del_lock", "del_check", "del_row", "mv_lock_src"} => f[s].cur # Root
    /\ f[s].src # Root
    /\ f[s].src # None => f[s].call.path # f[s].call.dst
    /\ pc[s] \in {"mv_check", "mv_within", "mv_update"} => owner[f[s].cur] = s /\ db[f[s].cur].dir
    /\ Op(s) = "move_node" /\ pc[s] \notin {"idle", "mv_topo"} => topo = s

\* Nobody deletes a row that another call holds FOR KEY SHARE.
SharedOf(s) == \A p \in Node : s \in shares[p] =>
                   owner[p] \in {s, None} /\ Live(s, p) /\ Makes(s)

\* What create_node and create_directory have inserted, and the parent that they
\* hold or are about to check.
MadeOf(s) ==
    /\ Makes(s) => \A n \in Node : owner[n] = s =>
           /\ db[n].st = "free" /\ new[n].st = "live"
           /\ new[n].parent \in Node \ {n} /\ new[n].name \in Name
           /\ s \in shares[new[n].parent] \/ (pc[s] = "fk" /\ new[n].parent = f[s].cur)
    /\ Op(s) = "create_directory" => \A n \in Node : owner[n] = s => new[n].dir
    /\ Op(s) = "create_node" => \A n \in Node : owner[n] = s =>
           /\ pc[s] = "fk" \/ Done(s)
           /\ new[n] = NodeRow(f[s].cur, Base(f[s].call.path), f[s].call.dir)
           /\ db[f[s].cur].dir
           /\ \A m \in Node : owner[m] = s => m = n
    /\ Op(s) = "create_node" /\ (pc[s] = "fk" \/ Done(s)) => \E n \in Node : owner[n] = s

\* The rows that delete_node has deleted: cur, and others only below a file.
Emptied(s) ==
    /\ Killed(s, f[s].cur)
    /\ \A n \in Node : Killed(s, n) => n = f[s].cur \/ Killed(s, db[n].parent)
    /\ db[f[s].cur].dir => /\ Childless(f[s].cur)
                           /\ \A n \in Node : Killed(s, n) => n = f[s].cur

\* What delete_node has locked and deleted: the resolved row and, below a file, the cascade.
DeletedOf(s) == Op(s) = "delete_node" =>
    /\ \A n \in Node : owner[n] = s =>
           /\ db[n].st = "live" /\ n # Root
           /\ new[n] = db[n] \/ new[n] = [db[n] EXCEPT !.st = "dead"]
    /\ pc[s] = "del_row" /\ db[f[s].cur].dir => Childless(f[s].cur)
    /\ IF pc[s] = "cascade" \/ Done(s) THEN Emptied(s)
       ELSE \A n \in Node : ~Killed(s, n)
    /\ pc[s] = "commit" => Orphans(s) = {}

\* What move_node has moved: at its end, the source row.
MovedOf(s) == Op(s) = "move_node" =>
    /\ \A n \in Node : owner[n] = s =>
           /\ db[n].st = "live"
           /\ n # f[s].src \/ ~Done(s) => new[n] = db[n]
    /\ Done(s) /\ f[s].src # None =>
           /\ new[f[s].src] = [db[f[s].src] EXCEPT !.parent = f[s].cur,
                                                   !.name = Base(f[s].call.dst)]
           /\ owner[f[s].cur] = s /\ db[f[s].cur].dir
           /\ ~Holds(db[f[s].src], f[s].cur, Base(f[s].call.dst))
    /\ Done(s) /\ f[s].src = None => f[s].call.path = f[s].call.dst

\* Rows of A are committed, the source is none of them, and their parents are in B.
Chain(s, A, B) == /\ f[s].src \notin A
                  /\ \A n \in A : db[n].st = "live" /\ db[n].parent \in B \cup {None}

\* The rows of A and the one it looks at next.
Reached(s, A) == IF db[f[s].up].st = "live" THEN A \cup {f[s].up} ELSE A

Climbed(s, A) == f[s].cur \in Reached(s, A) /\ Chain(s, A, Reached(s, A))

\* Seen from the destination upwards, _is_within has not met the source.
ClearOf(s) ==
    /\ pc[s] = "mv_within" => \E A \in SUBSET Node : Climbed(s, A)
    /\ pc[s] = "mv_update" \/ (Op(s) = "move_node" /\ Done(s) /\ f[s].src # None) =>
           /\ f[s].cur # f[s].src
           /\ db[f[s].src].dir => \E A \in SUBSET Node : f[s].cur \in A /\ Chain(s, A, A)

SessOf(s) == /\ IdleOf(s) /\ ResolvedOf(s) /\ SharedOf(s) /\ MadeOf(s)
             /\ DeletedOf(s) /\ MovedOf(s) /\ ClearOf(s)

RootOK == /\ db[Root].st = "live" /\ db[Root].dir /\ db[Root].parent = None
          /\ new[Root] = db[Root]

ShapeInv == RootOK /\ NoOrphans /\ DirsAcyclic(Latest) /\ DirsAcyclic(Earliest)

SafeInv == (\A s \in Sess : SessOf(s)) /\ ShapeInv

TreeSafe == TreeInv /\ SafeInv

-----------------------------------------------------------------------------
(* What the invariant says of a row that a call has locked *)

LEMMA OwnedRow ==
    ASSUME TreeSafe, NEW s \in Sess, NEW n \in Node, owner[n] = s
    PROVE  /\ db[n].st \in {"free", "live"} /\ new[n].st \in {"live", "dead"}
           /\ pc[s] # "idle"
           /\ db[n].st = "free" => Makes(s) /\ new[n].st = "live"
           /\ db[n].st = "live" => ~Makes(s) /\ new[n].dir = db[n].dir
           /\ new[n].st = "dead" => Op(s) = "delete_node" /\ db[n].st = "live"
                                   /\ new[n] = [db[n] EXCEPT !.st = "dead"]
           /\ db[n].st = "live" /\ new[n].st = "live" /\ new[n] # db[n]
                 => /\ Op(s) = "move_node" /\ Done(s) /\ n = f[s].src /\ topo = s
                    /\ new[n] = [db[n] EXCEPT !.parent = f[s].cur,
                                             !.name = Base(f[s].call.dst)]
<1>0. /\ Op(s) \in Ops /\ db[n] \in Row /\ new[n] \in Row /\ RowsTypeOK
      /\ IdleOf(s) /\ ResolvedOf(s) /\ MadeOf(s) /\ DeletedOf(s) /\ MovedOf(s)
  BY CallFacts DEF TreeSafe, TreeInv, SafeInv, SessOf, RowsTypeOK, Op
<1>1. pc[s] # "idle"
  BY <1>0 DEF IdleOf
<1>2. CASE Makes(s)
  BY <1>0, <1>1, <1>2 DEF MadeOf, Makes
<1>3. CASE Op(s) = "delete_node"
  BY <1>0, <1>1, <1>3 DEF DeletedOf, Makes, Row
<1>4. CASE Op(s) = "move_node"
  <2>1. db[n].st = "live" /\ ~Makes(s)
    BY <1>0, <1>4 DEF MovedOf, Makes
  <2>2. CASE new[n] = db[n]
    BY <1>1, <1>4, <2>1, <2>2
  <2>3. CASE new[n] # db[n]
    <3>1. n = f[s].src /\ Done(s) /\ f[s].src # None
      BY <1>0, <1>4, <2>3, PgAssumption DEF MovedOf
    <3>2. new[n] = [db[n] EXCEPT !.parent = f[s].cur, !.name = Base(f[s].call.dst)]
      BY <1>0, <1>4, <3>1 DEF MovedOf
    <3>3. new[n].st = "live" /\ new[n].dir = db[n].dir
      BY <1>0, <2>1, <3>2 DEF Row
    <3>4. topo = s
      BY <1>0, <1>4, <3>1 DEF ResolvedOf, Done
    <3> QED
      BY <1>1, <1>4, <2>1, <3>1, <3>2, <3>3, <3>4
  <2> QED
    BY <2>2, <2>3
<1> QED
  BY <1>0, <1>2, <1>3, <1>4 DEF Ops, Makes

\* The invariant taken apart.
LEMMA SafeFacts ==
    ASSUME TreeSafe, NEW s \in Sess
    PROVE  /\ LocalInv /\ RowsTypeOK /\ Settled /\ HeldOf(s) /\ PcOf(s)
           /\ IdleOf(s) /\ ResolvedOf(s) /\ SharedOf(s) /\ MadeOf(s)
           /\ DeletedOf(s) /\ MovedOf(s) /\ ClearOf(s)
           /\ RootOK /\ NoOrphans /\ DirsAcyclic(Latest) /\ DirsAcyclic(Earliest)
           /\ Op(s) \in Ops /\ f[s] \in Frame /\ f[s].cur \in Node
           /\ f[s].src \in Node \cup {None} /\ f[s].up \in Node \cup {None}
           /\ topo \in Sess \cup {None}
           /\ \A n \in Node : /\ db[n] \in Row /\ new[n] \in Row
                              /\ owner[n] \in Sess \cup {None}
BY CallFacts DEF TreeSafe, TreeInv, SafeInv, SessOf, ShapeInv, RowsTypeOK, Op, RowInv, Held

\* What a row looks like before and after the open transactions commit.
LEMMA RowHistory ==
    ASSUME TreeSafe, NEW n \in Node
    PROVE  /\ owner[n] = None => new[n] = db[n]
           /\ new[n].st = "live" => db[n].st \in {"live", "free"}
           /\ db[n].st = "live" => new[n].st \in {"live", "dead"} /\ new[n].dir = db[n].dir
           /\ db[n].st = "free" /\ new[n].st # "free"
                => new[n].st = "live" /\ owner[n] # None /\ Makes(owner[n])
           /\ db[n].st # "free" => new[n].st # "free"
           /\ new[n].st = "dead" => db[n].st \in {"live", "dead"}
                                    /\ new[n].parent = db[n].parent
           /\ db[n].st = "live" /\ new[n].st = "live" /\ new[n].parent # db[n].parent
                => /\ topo \in Sess /\ owner[n] = topo /\ n = f[topo].src
                   /\ Op(topo) = "move_node" /\ Done(topo)
<1>1. /\ db[n] \in Row /\ new[n] \in Row /\ owner[n] \in Sess \cup {None}
      /\ Settled
  BY DEF TreeSafe, TreeInv, LocalInv, TypeOK, RowsTypeOK, RowInv
<1>2. CASE owner[n] = None
  BY <1>1, <1>2 DEF Settled, Row
<1>3. CASE owner[n] # None
  <2>1. PICK s \in Sess : owner[n] = s
    BY <1>1, <1>3
  <2>2. /\ db[n].st \in {"free", "live"} /\ new[n].st \in {"live", "dead"}
        /\ db[n].st = "free" => Makes(s) /\ new[n].st = "live"
        /\ db[n].st = "live" => new[n].dir = db[n].dir
        /\ new[n].st = "dead" => db[n].st = "live" /\ new[n] = [db[n] EXCEPT !.st = "dead"]
        /\ db[n].st = "live" /\ new[n].st = "live" /\ new[n] # db[n]
              => Op(s) = "move_node" /\ Done(s) /\ n = f[s].src /\ topo = s
    BY <2>1, OwnedRow
  <2> QED
    BY <1>1, <1>3, <2>1, <2>2 DEF Row
<1> QED
  BY <1>2, <1>3

-----------------------------------------------------------------------------
(* The other calls: what a step of s leaves true of them *)

\* A statement of s changes no committed row, and of the calls, the locks and the
\* uncommitted rows only those of s.
Untouched(s) ==
    /\ db' = db
    /\ \A t \in Sess \ {s} :
          /\ f'[t] = f[t] /\ pc'[t] = pc[t] /\ (topo = t => topo' = t)
          /\ \A n \in Node : /\ owner'[n] = t <=> owner[n] = t
                             /\ owner[n] = t => new'[n] = new[n]
                             /\ t \in shares'[n] <=> t \in shares[n]
                             /\ t \in shares[n] => owner'[n] \in {t, None}

\* A step changes nothing that the invariant of call t reads.
Kept(t) ==
    /\ db' = db /\ f'[t] = f[t] /\ pc'[t] = pc[t] /\ (topo = t => topo' = t)
    /\ \A n \in Node : /\ owner'[n] = t <=> owner[n] = t
                       /\ owner[n] = t => new'[n] = new[n]
                       /\ t \in shares'[n] <=> t \in shares[n]
                       /\ t \in shares[n] => owner'[n] \in {t, None}

LEMMA SessKept ==
    ASSUME TreeSafe, NEW t \in Sess, Kept(t)
    PROVE  SessOf(t)'
<1>0. /\ db' = db /\ f'[t] = f[t] /\ pc'[t] = pc[t] /\ (topo = t => topo' = t)
      /\ \A n \in Node : /\ owner'[n] = t <=> owner[n] = t
                         /\ owner[n] = t => new'[n] = new[n]
                         /\ t \in shares'[n] <=> t \in shares[n]
                         /\ t \in shares[n] => owner'[n] \in {t, None}
  BY DEF Kept
<1>1. \A n \in Node : Seen(t, n)' = Seen(t, n)
  BY <1>0 DEF Seen
<1>2. /\ Op(t)' = Op(t) /\ Done(t)' = Done(t) /\ Makes(t)' = Makes(t)
      /\ \A n \in Node : /\ Killed(t, n)' <=> Killed(t, n)
                         /\ Childless(n)' <=> Childless(n)
  BY <1>0 DEF Op, Done, Makes, Killed, Childless
<1>3. f[t].cur \in Node
  BY SafeFacts
<1>4. IdleOf(t)' /\ ResolvedOf(t)' /\ SharedOf(t)'
  BY <1>0, <1>1, <1>2, <1>3, SafeFacts DEF IdleOf, ResolvedOf, SharedOf, Live
<1>5. MadeOf(t)'
  BY <1>0, <1>2, <1>3, SafeFacts DEF MadeOf
<1>6. Orphans(t)' = Orphans(t)
  BY <1>0, <1>1 DEF Orphans, Live
<1>7. DeletedOf(t)'
  <2>1. \A n \in Node : db[n].st = "live" /\ n # Root => db[n].parent \in Node
    BY SafeFacts DEF NoOrphans, HasParent
  <2>2. DeletedOf(t)
    BY SafeFacts
  <2>3. ASSUME Op(t) = "delete_node", Emptied(t) PROVE Emptied(t)'
    <3>1. \A n \in Node : Killed(t, n) => db[n].parent \in Node
      BY <2>1, <2>2, <2>3 DEF DeletedOf, Killed
    <3> QED
      BY <1>0, <1>3, <2>3, <3>1 DEF Emptied, Killed, Childless
  <2> QED
    BY <1>0, <1>3, <1>6, <2>2, <2>3 DEF DeletedOf, Killed, Childless, Op, Done
<1>8. MovedOf(t)'
  <2>1. MovedOf(t) /\ f[t].src \in Node \cup {None} /\ HeldOf(t)
    BY SafeFacts
  <2> QED
    BY <1>0, <1>3, <2>1 DEF MovedOf, Op, Done, HeldOf
<1>9. ClearOf(t)'
  <2>1. ClearOf(t)
    BY SafeFacts
  <2>2. ASSUME NEW A \in SUBSET Node, NEW B PROVE Chain(t, A, B)' <=> Chain(t, A, B)
    BY <1>0 DEF Chain
  <2>3. ASSUME NEW A \in SUBSET Node PROVE Climbed(t, A)' <=> Climbed(t, A)
    BY <1>0 DEF Climbed, Reached, Chain
  <2> QED
    BY <1>0, <2>1, <2>2, <2>3 DEF ClearOf, Op, Done
<1> QED
  BY <1>4, <1>5, <1>7, <1>8, <1>9 DEF SessOf

LEMMA OthersKept ==
    ASSUME TreeSafe, NEW s \in Sess, Untouched(s), NEW t \in Sess \ {s}
    PROVE  SessOf(t)'
<1>1. Kept(t)
  BY DEF Kept, Untouched
<1> QED
  BY <1>1, SessKept

-----------------------------------------------------------------------------
(* The other calls when s commits *)

\* Nothing that a call has put below a row that another call has locked commits.
LEMMA NoNewChild ==
    ASSUME TreeSafe, NEW s \in Sess, pc[s] = "commit", NEW m \in Node, NEW p \in Node,
           owner[m] = s, new[m].st = "live", new[m].parent = p, owner[p] \notin {s, None}
    PROVE  new[m] = db[m]
<1>1. CASE db[m].st = "free"
  <2>0. MadeOf(s) /\ Makes(s)
    BY <1>1, OwnedRow, SafeFacts
  <2>1. s \in shares[new[m].parent]
    BY <2>0 DEF MadeOf
  <2>2. SharedOf(s)
    BY SafeFacts
  <2> QED
    BY <2>1, <2>2 DEF SharedOf
<1>2. CASE db[m].st # "free" /\ new[m] # db[m]
  <2>1. /\ db[m].st = "live" /\ Op(s) = "move_node" /\ Done(s) /\ m = f[s].src
        /\ new[m] = [db[m] EXCEPT !.parent = f[s].cur, !.name = Base(f[s].call.dst)]
    BY <1>2, OwnedRow
  <2>2. owner[f[s].cur] = s
    <3>1. MovedOf(s) /\ f[s].src # None
      BY <2>1, PgAssumption, SafeFacts
    <3> QED
      BY <2>1, <3>1 DEF MovedOf
  <2>3. new[m].parent = f[s].cur
    BY <2>1, SafeFacts DEF Row
  <2> QED
    BY <2>2, <2>3
<1> QED
  BY <1>1, <1>2

LEMMA CommitRowFacts ==
    ASSUME TreeSafe, NEW s \in Sess, Commit(s)
    PROVE  /\ pc[s] = "commit" /\ new' = new
           /\ \A n \in Node : /\ db'[n] = IF owner[n] = s THEN new[n] ELSE db[n]
                              /\ owner'[n] = IF owner[n] = s THEN None ELSE owner[n]
                              /\ shares'[n] = shares[n] \ {s}
           /\ \A t \in Sess \ {s} : /\ f'[t] = f[t] /\ pc'[t] = pc[t]
                                    /\ topo = t => topo' = t
           /\ f'[s] = Fresh(NoCall, f[s].out) /\ pc'[s] = "idle"
BY SafeFacts DEF Commit, CommitRows, ReleaseRows, Seen, At, Goto, LocalInv, TypeOK

\* No child of a row that s deletes is left when s commits.
LEMMA NoChildLeft ==
    ASSUME TreeSafe, NEW s \in Sess, pc[s] = "commit", NEW n \in Node, NEW p \in Node,
           db[n].st = "live", db[n].parent = p, Killed(s, p)
    PROVE  Killed(s, n)
<1>1. Op(s) = "delete_node"
  BY OwnedRow DEF Killed
<1>2. Orphans(s) = {}
  BY <1>1, SafeFacts DEF DeletedOf
<1>3. CASE owner[n] # s
  BY <1>2, <1>3 DEF Orphans, Live, Seen, Killed
<1>4. CASE owner[n] = s /\ new[n].st # "dead"
  <2>1. new[n] = db[n]
    BY <1>1, <1>4, OwnedRow
  <2> QED
    BY <1>2, <1>4, <2>1 DEF Orphans, Live, Seen, Killed
<1> QED
  BY <1>3, <1>4 DEF Killed

LEMMA CommitChain ==
    ASSUME TreeSafe, NEW s \in Sess, Commit(s), NEW t \in Sess \ {s}, topo = t,
           NEW n \in Node, db[n].st = "live", ~Killed(s, n)
    PROVE  /\ db'[n] = db[n]
           /\ db[n].parent \in Node => ~Killed(s, db[n].parent)
<1>0. /\ pc[s] = "commit" /\ db[n].parent \in Node \cup {None}
      /\ db'[n] = IF owner[n] = s THEN new[n] ELSE db[n]
  BY CommitRowFacts, SafeFacts DEF Row
<1>1. db'[n] = db[n]
  BY <1>0, OwnedRow DEF Killed
<1> QED
  BY <1>0, <1>1, NoChildLeft

LEMMA CommitOthers ==
    ASSUME TreeSafe, NEW s \in Sess, Commit(s), NEW t \in Sess \ {s}
    PROVE  SessOf(t)'
<1>0. /\ pc[s] = "commit" /\ new' = new
      /\ f'[t] = f[t] /\ pc'[t] = pc[t] /\ (topo = t => topo' = t)
      /\ f[t].cur \in Node /\ f[t].src \in Node \cup {None}
  BY CommitRowFacts, SafeFacts
<1>1. \A n \in Node : /\ db'[n] = IF owner[n] = s THEN new[n] ELSE db[n]
                      /\ owner'[n] = t <=> owner[n] = t
                      /\ owner'[n] = IF owner[n] = s THEN None ELSE owner[n]
                      /\ t \in shares'[n] <=> t \in shares[n]
  BY CommitRowFacts, PgAssumption
<1>2. \A n \in Node : owner[n] = t => db'[n] = db[n]
  BY <1>1
<1>3. IdleOf(t)'
  BY <1>0, <1>1, SafeFacts DEF IdleOf
<1>4. ResolvedOf(t)'
  <2>1. ResolvedOf(t)
    BY SafeFacts
  <2>2. (Seen(t, f[t].cur).st # "free")'
    <3>1. CASE owner[f[t].cur] = s
      BY <1>0, <1>1, <3>1, OwnedRow DEF Seen
    <3>2. CASE owner[f[t].cur] # s
      BY <1>0, <1>1, <2>1, <3>2 DEF Seen, ResolvedOf
    <3> QED
      BY <3>1, <3>2
  <2> QED
    BY <1>0, <1>1, <2>1, <2>2 DEF ResolvedOf, Op
<1>5. SharedOf(t)'
  <2>1. SharedOf(t)
    BY SafeFacts
  <2> QED
    BY <1>0, <1>1, <2>1, PgAssumption DEF SharedOf, Live, Seen, Makes, Op
<1>6. MadeOf(t)'
  <2>1. MadeOf(t)
    BY SafeFacts
  <2>2. ASSUME db[f[t].cur].dir, NEW n \in Node, owner[n] = t, Makes(t)
        PROVE  db'[f[t].cur].dir
    <3>1. CASE owner[f[t].cur] = s /\ db[f[t].cur].st = "free"
      BY <3>1, <1>0, SafeFacts DEF ResolvedOf, Seen
    <3>2. CASE owner[f[t].cur] = s /\ db[f[t].cur].st # "free"
      BY <1>0, <1>1, <2>2, <3>2, OwnedRow
    <3>3. CASE owner[f[t].cur] # s
      BY <1>0, <1>1, <2>2, <3>3
    <3> QED
      BY <3>1, <3>2, <3>3
  <2> QED
    BY <1>0, <1>1, <1>2, <2>1, <2>2 DEF MadeOf, Makes, Op, Done
<1>7. ASSUME NEW p \in Node, owner[p] = t, NEW n \in Node,
             db'[n].st = "live", db'[n].parent = p, owner[n] # t
      PROVE  db'[n] = db[n]
  BY <1>0, <1>1, <1>7, NoNewChild, PgAssumption
<1>8. DeletedOf(t)'
  <2>1. DeletedOf(t)
    BY SafeFacts
  <2>2. ASSUME NEW p \in Node, owner[p] = t, Childless(p) PROVE Childless(p)'
    BY <1>1, <1>2, <1>7, <2>2 DEF Childless
  <2>3. ASSUME Op(t) = "delete_node", Emptied(t) PROVE Emptied(t)'
    <3>1. \A n \in Node : Killed(t, n) => db[n].parent \in Node
      BY <2>1, <2>3, SafeFacts DEF DeletedOf, Killed, NoOrphans, HasParent
    <3>2. owner[f[t].cur] = t
      BY <2>3 DEF Emptied, Killed
    <3>3. db[f[t].cur].dir => Childless(f[t].cur)'
      BY <1>0, <2>2, <2>3, <3>2 DEF Emptied
    <3> QED
      BY <1>0, <1>1, <1>2, <2>3, <3>1, <3>2, <3>3 DEF Emptied, Killed, Childless
  <2>4. ASSUME Orphans(t) = {} PROVE Orphans(t)' = {}
    <3> SUFFICES ASSUME NEW n \in Orphans(t)' PROVE FALSE
      OBVIOUS
    <3> DEFINE p == Seen(t, n)'.parent
    <3>1. n \in Node /\ Seen(t, n)'.st = "live" /\ p \in Node /\ owner[p] = t
          /\ new[p].st = "dead"
      BY <1>0, <1>1 DEF Orphans, Live
    <3>2. Seen(t, n)' = Seen(t, n)
      BY <1>0, <1>1, <1>2, <1>7, <3>1 DEF Seen
    <3> QED
      BY <2>4, <3>1, <3>2 DEF Orphans, Live
  <2>5. HeldOf(t)
    BY SafeFacts
  <2>6. pc[t] = "del_row" /\ db[f[t].cur].dir => Childless(f[t].cur)'
                             \/ Op(t) # "delete_node"
    BY <1>0, <2>1, <2>2, <2>5 DEF DeletedOf, HeldOf
  <2> QED
    BY <1>0, <1>1, <1>2, <2>1, <2>3, <2>4, <2>5, <2>6
    DEF DeletedOf, Killed, Childless, Op, Done, HeldOf
<1>9. MovedOf(t)'
  <2>1. MovedOf(t) /\ HeldOf(t)
    BY SafeFacts
  <2>2. ASSUME f[t].src # None PROVE db'[f[t].src] = db[f[t].src]
    BY <1>0, <1>2, <2>1, <2>2 DEF HeldOf
  <2>3. ASSUME owner[f[t].cur] = t PROVE db'[f[t].cur] = db[f[t].cur]
    BY <1>0, <1>2, <2>3
  <2>4. \A n \in Node : owner[n] = t <=> owner'[n] = t
    BY <1>1
  <2> SUFFICES ASSUME Op(t) = "move_node" PROVE MovedOf(t)'
    BY <1>0 DEF MovedOf, Op
  <2>5. ASSUME NEW n \in Node, owner[n] = t
        PROVE  db'[n].st = "live" /\ (n # f[t].src \/ ~Done(t) => new'[n] = db'[n])
    BY <1>0, <1>2, <2>1, <2>5 DEF MovedOf
  <2>6. ASSUME Done(t), f[t].src # None
        PROVE  /\ new'[f[t].src] = [db'[f[t].src] EXCEPT !.parent = f[t].cur,
                                                       !.name = Base(f[t].call.dst)]
               /\ owner'[f[t].cur] = t /\ db'[f[t].cur].dir
               /\ ~Holds(db'[f[t].src], f[t].cur, Base(f[t].call.dst))
    <3>1. owner[f[t].cur] = t /\ db[f[t].cur].dir
      BY <2>1, <2>6 DEF MovedOf
    <3>2. new[f[t].src] = [db[f[t].src] EXCEPT !.parent = f[t].cur,
                                               !.name = Base(f[t].call.dst)]
      BY <2>1, <2>6 DEF MovedOf
    <3> QED
      BY <1>0, <2>1, <2>2, <2>3, <2>4, <2>6, <3>1, <3>2 DEF MovedOf
  <2>7. Done(t) /\ f[t].src = None => f[t].call.path = f[t].call.dst
    BY <2>1 DEF MovedOf
  <2> QED
    BY <1>0, <2>4, <2>5, <2>6, <2>7 DEF MovedOf, Op, Done
<1>10. ClearOf(t)'
  <2>1. ClearOf(t) /\ HeldOf(t) /\ ResolvedOf(t) /\ PcOf(t)
    BY SafeFacts
  <2>2. CASE pc[t] = "mv_within"
    <3>1. topo = t /\ owner[f[t].cur] = t /\ f[t].up \in Node
      BY <2>1, <2>2, SafeFacts DEF ResolvedOf, PcOf, LabelOK, Op
    <3>2. PICK A \in SUBSET Node : Climbed(t, A)
      BY <2>1, <2>2 DEF ClearOf
    <3>3. PICK E \in SUBSET Node : E = {n \in A : ~Killed(s, n)}
      OBVIOUS
    <3>4. \A n \in Reached(t, A) : n \in Node /\ db[n].st = "live"
      BY <3>1, <3>2 DEF Climbed, Reached, Chain
    <3>5. \A n \in Reached(t, A) : ~Killed(s, n) =>
             /\ db'[n] = db[n] /\ n \in Reached(t, E)'
             /\ db[n].parent \in Node => ~Killed(s, db[n].parent)
      BY <1>0, <3>1, <3>3, <3>4, CommitChain DEF Reached
    <3>6. ~Killed(s, f[t].cur)
      BY <3>1 DEF Killed
    <3>7. Climbed(t, E)'
      <4>1. f[t].cur \in Reached(t, E)'
        BY <3>2, <3>5, <3>6 DEF Climbed
      <4>2. ASSUME NEW n \in E
            PROVE  /\ n # f[t].src /\ db'[n].st = "live"
                   /\ db'[n].parent \in Reached(t, E)' \cup {None}
        <5>1. n \in A /\ n \in Reached(t, A) /\ ~Killed(s, n)
          BY <3>3 DEF Reached
        <5>2. db'[n] = db[n] /\ (db[n].parent \in Node => ~Killed(s, db[n].parent))
          BY <3>5, <5>1
        <5>3. n # f[t].src /\ db[n].st = "live" /\ db[n].parent \in Reached(t, A) \cup {None}
          BY <3>2, <5>1 DEF Climbed, Chain
        <5>4. CASE db[n].parent \in Reached(t, A)
          BY <3>4, <3>5, <5>2, <5>3, <5>4
        <5> QED
          BY <5>2, <5>3, <5>4
      <4> QED
        BY <1>0, <4>1, <4>2 DEF Climbed, Chain
    <3> QED
      BY <1>0, <2>2, <3>7 DEF ClearOf, Done
  <2>3. CASE pc[t] # "mv_within" /\ (pc[t] = "mv_update"
                \/ (Op(t) = "move_node" /\ Done(t) /\ f[t].src # None))
    <3>1. /\ topo = t /\ owner[f[t].cur] = t /\ f[t].src \in Node
          /\ owner[f[t].src] = t /\ f[t].cur # f[t].src
      BY <2>1, <2>3, SafeFacts DEF ResolvedOf, PcOf, LabelOK, Op, Done, HeldOf, MovedOf, ClearOf
    <3>2. ASSUME db[f[t].src].dir
          PROVE  \E E \in SUBSET Node : f[t].cur \in E /\ Chain(t, E, E)'
      <4>1. PICK A \in SUBSET Node : f[t].cur \in A /\ Chain(t, A, A)
        BY <2>1, <2>3, <3>2 DEF ClearOf
      <4>2. PICK E \in SUBSET Node : E = {n \in A : ~Killed(s, n)}
        OBVIOUS
      <4>3. \A n \in E : db'[n] = db[n] /\ (db[n].parent \in Node => ~Killed(s, db[n].parent))
        BY <1>0, <3>1, <4>1, <4>2, CommitChain DEF Chain
      <4>4. Chain(t, E, E)'
        BY <1>0, <4>1, <4>2, <4>3 DEF Chain
      <4>5. f[t].cur \in E
        BY <3>1, <4>1, <4>2 DEF Killed
      <4> QED
        BY <4>4, <4>5
    <3>3. db'[f[t].src] = db[f[t].src]
      BY <1>2, <3>1
    <3> QED
      BY <1>0, <2>3, <3>1, <3>2, <3>3 DEF ClearOf
  <2>4. CASE pc[t] # "mv_within" /\ ~(pc[t] = "mv_update"
                \/ (Op(t) = "move_node" /\ Done(t) /\ f[t].src # None))
    BY <1>0, <2>4 DEF ClearOf, Op, Done
  <2> QED
    BY <2>2, <2>3, <2>4
<1> QED
  BY <1>3, <1>4, <1>5, <1>6, <1>8, <1>9, <1>10 DEF SessOf

-----------------------------------------------------------------------------
(* The call that takes the step *)

LEMMA EmptyHanded ==
    ASSUME NEW s \in Sess, ResolvedOf(s)',
           \A n \in Node : owner'[n] # s /\ s \notin shares'[n],
           pc'[s] \notin {"commit", "cascade", "fk", "del_row", "mv_within", "mv_update"}
    PROVE  SessOf(s)'
<1>1. IdleOf(s)' /\ SharedOf(s)' /\ MadeOf(s)'
  BY DEF IdleOf, SharedOf, MadeOf, Done
<1>2. DeletedOf(s)' /\ MovedOf(s)' /\ ClearOf(s)'
  BY DEF DeletedOf, MovedOf, ClearOf, Done, Killed
<1> QED
  BY <1>1, <1>2 DEF SessOf

\* A statement that only reads: nothing a call has done depends on it but where the
\* call is now, what it has resolved, and how far _is_within has come.
LEMMA QuietOwn ==
    ASSUME TreeSafe, NEW s \in Sess, UNCHANGED rowVars,
           f'[s].call = f[s].call, f'[s].src = f[s].src,
           pc[s] \notin {"idle", "commit", "fk", "cascade"},
           pc'[s] \notin {"idle", "fk", "cascade"},
           pc'[s] = "commit" => f'[s].out = "false" \/ Op(s) = "create_directory",
           pc'[s] = "del_row" => f'[s].cur = f[s].cur /\ (db[f[s].cur].dir => Childless(f[s].cur)),
           ResolvedOf(s)', ClearOf(s)'
    PROVE  SessOf(s)'
<1>0. /\ db' = db /\ new' = new /\ owner' = owner /\ shares' = shares
      /\ Op(s)' = Op(s) /\ (Makes(s)' <=> Makes(s)) /\ Op(s) \in Ops
  BY SafeFacts DEF rowVars, Op, Makes
<1>1. IdleOf(s)'
  BY DEF IdleOf
<1>2. SharedOf(s)'
  BY <1>0, SafeFacts DEF SharedOf, Live, Seen
<1>3. MadeOf(s)'
  <2>1. MadeOf(s)
    BY SafeFacts
  <2> QED
    BY <1>0, <2>1 DEF MadeOf, Done, Op, Makes
<1>4. DeletedOf(s)'
  <2>1. DeletedOf(s)
    BY SafeFacts
  <2>2. Op(s) = "delete_node" => ~Done(s) /\ ~Done(s)'
    BY <1>0 DEF Done
  <2>3. Op(s) = "delete_node" => \A n \in Node : ~Killed(s, n)
    BY <2>1, <2>2 DEF DeletedOf
  <2>4. Op(s) = "delete_node" => Orphans(s)' = {}
    BY <1>0, <2>3 DEF Orphans, Live, Seen, Killed
  <2> QED
    BY <1>0, <2>1, <2>2, <2>3, <2>4 DEF DeletedOf, Killed, Childless
<1>5. MovedOf(s)'
  <2>1. MovedOf(s)
    BY SafeFacts
  <2>2. Op(s) = "move_node" => ~Done(s) /\ ~Done(s)'
    BY <1>0 DEF Done
  <2> QED
    BY <1>0, <2>1, <2>2 DEF MovedOf
<1> QED
  BY <1>1, <1>2, <1>3, <1>4, <1>5 DEF SessOf

\* A step of s that changes its own frame, and rows and locks only as s may.
LEMMA QuietOthers ==
    ASSUME TreeSafe, NEW s \in Sess, UNCHANGED rowVars,
           topo' = topo \/ topo \in {s, None},
           \A t \in Sess \ {s} : f'[t] = f[t] /\ pc'[t] = pc[t]
    PROVE  Untouched(s)
<1>1. \A t \in Sess : SharedOf(t)
  BY SafeFacts
<1> QED
  BY <1>1, PgAssumption DEF Untouched, rowVars, SharedOf

\* return False, the transaction having changed nothing since.
LEMMA ReturnFalseOwn ==
    ASSUME TreeSafe, NEW s \in Sess, UNCHANGED <<rowVars, topo>>, Return(s, FALSE),
           pc[s] \notin {"idle", "mv_topo", "commit", "fk", "cascade"}
    PROVE  SessOf(s)' /\ Untouched(s)
<1>1. /\ f'[s] = [f[s] EXCEPT !.out = "false"] /\ pc'[s] = "commit"
      /\ \A t \in Sess \ {s} : f'[t] = f[t] /\ pc'[t] = pc[t]
  BY SafeFacts DEF Return, Goto, LocalInv, TypeOK
<1>2. f'[s].call = f[s].call /\ f'[s].src = f[s].src /\ f'[s].cur = f[s].cur
      /\ f'[s].out = "false"
  BY <1>1, SafeFacts DEF Frame
<1>3. ResolvedOf(s)'
  <2>1. ResolvedOf(s)
    BY SafeFacts
  <2> QED
    BY <1>1, <1>2, <2>1 DEF ResolvedOf, rowVars, Seen, Op
<1>4. ClearOf(s)'
  BY <1>1, <1>2 DEF ClearOf, Done
<1> QED
  BY <1>1, <1>2, <1>3, <1>4, QuietOwn, QuietOthers

\* The row that _resolve has reached, the walk from the root included.
LEMMA StartWalkOwn ==
    ASSUME TreeSafe, NEW s \in Sess, UNCHANGED rowVars,
           NEW fr \in Frame, NEW path \in Seq(Name), StartWalk(s, fr, path),
           fr.call = f[s].call, fr.src = f[s].src,
           path = << >> => Makes(s) \/ (Op(s) = "move_node" /\ fr.src # None),
           pc[s] \notin {"idle", "commit", "fk", "cascade"},
           \/ topo' = topo /\ pc[s] # "mv_topo"
           \/ topo' = s /\ topo \in {s, None}
    PROVE  SessOf(s)' /\ Untouched(s)
<1>1. /\ \A t \in Sess \ {s} : f'[t] = f[t] /\ pc'[t] = pc[t]
      /\ f'[s].call = f[s].call /\ f'[s].src = f[s].src /\ f'[s].cur = Root
      /\ pc'[s] = IF path = << >> THEN AfterWalk(fr) ELSE "walk"
  BY SafeFacts, StartWalkLocal DEF LocalInv
<1>2. Op(s) \in Ops /\ fr.call.op = Op(s)
  BY SafeFacts DEF Op
<1>3. pc'[s] \in {"walk", "cn_insert", "mv_lock_dst", "mk_child"}
  BY <1>1, <1>2 DEF AfterWalk, Ops, Makes
<1>4. ResolvedOf(s)'
  <2>1. ResolvedOf(s) /\ RootOK
    BY SafeFacts
  <2> QED
    BY <1>1, <1>3, <2>1 DEF ResolvedOf, RootOK, rowVars, Seen, Op
<1>5. ClearOf(s)'
  BY <1>3 DEF ClearOf, Done
<1> QED
  BY <1>1, <1>3, <1>4, <1>5, QuietOwn, QuietOthers

LEMMA NextPartOwn ==
    ASSUME TreeSafe, NEW s \in Sess, UNCHANGED <<rowVars, topo>>, NextPart(s),
           pc[s] \in {"mk_child", "mk_again"}
    PROVE  SessOf(s)' /\ Untouched(s)
<1> DEFINE k == f[s].k + 1
           path == f[s].call.path
<1>0. /\ Op(s) = "create_directory" /\ Makes(s) /\ path \in Seq(Name)
      /\ f[s].k \in Nat /\ f[s].k < Len(path)
      /\ UNCHANGED rowVars /\ topo' = topo
  BY SafeFacts, CallFacts DEF PcOf, LabelOK, Op, Makes
<1>1. CASE k = Len(path)
  <2>1. Return(s, TRUE)
    BY <1>1 DEF NextPart
  <2>2. /\ f'[s] = [f[s] EXCEPT !.out = "true"] /\ pc'[s] = "commit"
        /\ \A t \in Sess \ {s} : f'[t] = f[t] /\ pc'[t] = pc[t]
    BY <2>1, SafeFacts DEF Return, Goto, LocalInv, TypeOK
  <2>3. f'[s].call = f[s].call /\ f'[s].src = f[s].src /\ f'[s].cur = f[s].cur
    BY <2>2, SafeFacts DEF Frame
  <2>4. ResolvedOf(s)'
    <3>1. ResolvedOf(s)
      BY SafeFacts
    <3> QED
      BY <2>2, <2>3, <3>1 DEF ResolvedOf, rowVars, Seen, Op
  <2>5. ClearOf(s)'
    BY <1>0, <2>2, <2>3 DEF ClearOf, Op
  <2> QED
    BY <1>0, <2>2, <2>3, <2>4, <2>5, QuietOwn, QuietOthers
<1>2. CASE k # Len(path)
  <2> DEFINE fr == [f[s] EXCEPT !.k = k]
  <2>1. fr \in Frame /\ fr.call = f[s].call /\ fr.src = f[s].src
    BY <1>0, SafeFacts DEF Frame
  <2>2. SubSeq(path, 1, k) \in Seq(Name)
    BY <1>0, <1>2, LenProperties, SubSeqProperties
  <2>3. StartWalk(s, fr, SubSeq(path, 1, k))
    BY <1>2 DEF NextPart
  <2>4. PICK way \in Seq(Name) : StartWalk(s, fr, way)
    BY <2>2, <2>3
  <2>5. pc[s] \notin {"idle", "commit", "fk", "cascade", "mv_topo"}
    OBVIOUS
  <2> HIDE DEF fr
  <2> QED
    BY <1>0, <2>1, <2>4, <2>5, StartWalkOwn
<1> QED
  BY <1>1, <1>2

LEMMA WalkOwn ==
    ASSUME TreeSafe, NEW s \in Sess, Walk(s)
    PROVE  SessOf(s)' /\ Untouched(s)
<1> DEFINE c == Child(s, f[s].cur, Head(f[s].rest))
<1>0. /\ pc[s] = "walk" /\ UNCHANGED rowVars /\ topo' = topo
      /\ ~RootCall(f[s].call) /\ f[s].rest \in Seq(Name) /\ f[s].rest # << >>
      /\ UNCHANGED <<rowVars, topo>>
  BY SafeFacts, CallFacts DEF Walk, At, PcOf, LabelOK
<1>1. CASE c = None
  BY <1>0, <1>1, ReturnFalseOwn DEF Walk
<1>2. CASE c # None
  <2>1. c \in ChildIds(s, f[s].cur, Head(f[s].rest)) /\ c \in Node
    BY <1>2, ChildType DEF Child
  <2>2. Seen(s, c).st = "live" /\ Seen(s, c).parent = f[s].cur
    BY <2>1 DEF ChildIds, Holds
  <2>3. c # Root
    BY <2>2, SafeFacts, PgAssumption DEF RootOK, Seen
  <2> DEFINE fr == [f[s] EXCEPT !.cur = c, !.rest = Tail(f[s].rest)]
             label == IF Tail(f[s].rest) = << >> THEN AfterWalk(f[s]) ELSE "walk"
  <2>4. f' = [f EXCEPT ![s] = fr] /\ pc' = [pc EXCEPT ![s] = label]
    BY <1>2 DEF Walk, Goto
  <2>5. /\ fr.call = f[s].call /\ fr.src = f[s].src /\ fr.cur = c
        /\ label \in {"walk", "cn_insert", "del_lock", "mv_lock_src", "mv_lock_dst", "mk_child"}
    BY <2>1, SafeFacts DEF Frame, AfterWalk, Ops, Op
  <2> HIDE DEF fr, c, label
  <2>6. f'[s] = fr /\ pc'[s] = label /\ \A t \in Sess \ {s} : f'[t] = f[t] /\ pc'[t] = pc[t]
    BY <2>4, SafeFacts DEF LocalInv, TypeOK
  <2>7. ResolvedOf(s)'
    <3>1. ResolvedOf(s)
      BY SafeFacts
    <3> QED
      BY <1>0, <2>2, <2>3, <2>5, <2>6, <3>1 DEF ResolvedOf, rowVars, Seen, Op
  <2>8. ClearOf(s)'
    BY <2>5, <2>6 DEF ClearOf, Done
  <2> QED
    BY <1>0, <2>5, <2>6, <2>7, <2>8, QuietOwn, QuietOthers
<1> QED
  BY <1>1, <1>2

\* Before it deletes, a delete_node has changed nothing and seen everything.
LEMMA DelSees ==
    ASSUME TreeSafe, NEW s \in Sess, pc[s] \in {"del_lock", "del_check", "del_row"}
    PROVE  /\ Op(s) = "delete_node"
           /\ \A n \in Node : /\ Seen(s, n) = db[n]
                              /\ owner[n] = s => new[n] = db[n] /\ db[n].st = "live"
<1>1. Op(s) = "delete_node" /\ ~Done(s)
  BY SafeFacts DEF PcOf, LabelOK, Op, Done
<1>2. ASSUME NEW n \in Node, owner[n] = s PROVE new[n] = db[n] /\ db[n].st = "live"
  <2>1. DeletedOf(s)
    BY SafeFacts
  <2>2. db[n].st = "live" /\ new[n].st # "dead"
    BY <1>1, <1>2, <2>1 DEF DeletedOf, Killed
  <2> QED
    BY <1>1, <1>2, <2>2, OwnedRow
<1> QED
  BY <1>1, <1>2 DEF Seen

LEMMA DelCheckOwn ==
    ASSUME TreeSafe, NEW s \in Sess, DelCheck(s)
    PROVE  SessOf(s)' /\ Untouched(s)
<1>0. /\ pc[s] = "del_check" /\ UNCHANGED rowVars /\ topo' = topo
      /\ UNCHANGED <<rowVars, topo>>
  BY DEF DelCheck, At
<1>1. CASE Return(s, FALSE)
  BY <1>0, <1>1, ReturnFalseOwn
<1>2. CASE ~Return(s, FALSE)
  <2>1. /\ Goto(s, "del_row") /\ f' = f
        /\ ~(Seen(s, f[s].cur).dir /\ ChildrenOf(s, f[s].cur) # {})
    BY <1>2 DEF DelCheck
  <2>2. pc'[s] = "del_row" /\ \A t \in Sess \ {s} : pc'[t] = pc[t]
    BY <2>1, SafeFacts DEF Goto, LocalInv, TypeOK
  <2>3. \A n \in Node : Seen(s, n) = db[n]
    BY <1>0, DelSees
  <2>4. ResolvedOf(s) /\ f[s].cur \in Node
    BY SafeFacts
  <2>5. db[f[s].cur].dir => Childless(f[s].cur)
    BY <2>1, <2>3, <2>4 DEF ChildrenOf, Live, Childless
  <2>6. ResolvedOf(s)'
    BY <1>0, <2>1, <2>2, <2>4 DEF ResolvedOf, rowVars, Seen, Op
  <2>7. ClearOf(s)'
    BY <2>2 DEF ClearOf, Done
  <2> QED
    BY <1>0, <2>1, <2>2, <2>5, <2>6, <2>7, QuietOwn, QuietOthers
<1> QED
  BY <1>1, <1>2

LEMMA MvTopoOwn ==
    ASSUME TreeSafe, NEW s \in Sess, MvTopo(s)
    PROVE  SessOf(s)' /\ Untouched(s)
<1>1. /\ pc[s] = "mv_topo" /\ UNCHANGED rowVars /\ topo' = s
      /\ StartWalk(s, f[s], f[s].call.path)
      /\ f[s] \in Frame /\ f[s].call.path \in Seq(Name) /\ f[s].call.path # << >>
  BY SafeFacts, CallFacts DEF MvTopo, At, PcOf, RootCall
<1>2. topo \in {s, None}
  BY SafeFacts DEF MvTopo, TopoWaits
<1> QED
  BY <1>1, <1>2, StartWalkOwn

LEMMA MkReadOwn ==
    ASSUME TreeSafe, NEW s \in Sess, MkChild(s) \/ MkAgain(s)
    PROVE  SessOf(s)' /\ Untouched(s)
<1>0. /\ pc[s] \in {"mk_child", "mk_again"} /\ UNCHANGED rowVars /\ topo' = topo
      /\ UNCHANGED <<rowVars, topo>>
  BY DEF MkChild, MkAgain, At
<1>1. CASE Return(s, FALSE)
  BY <1>0, <1>1, ReturnFalseOwn
<1>2. CASE NextPart(s)
  BY <1>0, <1>2, NextPartOwn
<1>3. CASE ~Return(s, FALSE) /\ ~NextPart(s)
  <2>1. Goto(s, "mk_insert") /\ f' = f
    BY <1>3 DEF MkChild, MkAgain
  <2>2. pc'[s] = "mk_insert" /\ \A t \in Sess \ {s} : pc'[t] = pc[t]
    BY <2>1, SafeFacts DEF Goto, LocalInv, TypeOK
  <2>3. ResolvedOf(s)'
    <3>1. ResolvedOf(s)
      BY SafeFacts
    <3> QED
      BY <1>0, <2>1, <2>2, <3>1 DEF ResolvedOf, rowVars, Seen, Op
  <2>4. ClearOf(s)'
    BY <2>2 DEF ClearOf, Done
  <2> QED
    BY <1>0, <2>1, <2>2, <2>3, <2>4, QuietOwn, QuietOthers
<1> QED
  BY <1>1, <1>2, <1>3

\* Before it updates, a move_node has changed nothing.
LEMMA MvSees ==
    ASSUME TreeSafe, NEW s \in Sess,
           pc[s] \in {"mv_lock_src", "mv_lock_dst", "mv_check", "mv_within", "mv_update"}
    PROVE  /\ Op(s) = "move_node"
           /\ \A n \in Node : /\ Seen(s, n) = db[n]
                              /\ owner[n] = s => new[n] = db[n] /\ db[n].st = "live"
<1>1. Op(s) = "move_node" /\ ~Done(s) /\ MovedOf(s)
  BY SafeFacts DEF PcOf, LabelOK, Op, Done
<1>2. \A n \in Node : owner[n] = s => new[n] = db[n] /\ db[n].st = "live"
  BY <1>1 DEF MovedOf
<1> QED
  BY <1>1, <1>2 DEF Seen

\* The source and the destination that a move_node has locked.
LEMMA MvHas ==
    ASSUME TreeSafe, NEW s \in Sess, pc[s] \in {"mv_check", "mv_within", "mv_update"}
    PROVE  /\ f[s].src \in Node /\ owner[f[s].src] = s /\ db[f[s].src].st = "live"
           /\ owner[f[s].cur] = s /\ db[f[s].cur].st = "live" /\ db[f[s].cur].dir
           /\ topo = s /\ f[s].cur \in Node
<1>1. /\ f[s].src \in Node /\ owner[f[s].src] = s /\ f[s].cur \in Node
  BY SafeFacts DEF HeldOf
<1>2. Op(s) = "move_node"
  BY MvSees
<1>3. owner[f[s].cur] = s /\ db[f[s].cur].dir /\ topo = s
  BY <1>2, SafeFacts DEF ResolvedOf
<1> QED
  BY <1>1, <1>3, MvSees

LEMMA MvCheckOwn ==
    ASSUME TreeSafe, NEW s \in Sess, MvCheck(s)
    PROVE  SessOf(s)' /\ Untouched(s)
<1>0. /\ pc[s] = "mv_check" /\ UNCHANGED rowVars /\ topo' = topo
      /\ UNCHANGED <<rowVars, topo>> /\ db' = db
  BY DEF MvCheck, At, rowVars
<1>1. CASE Return(s, FALSE)
  BY <1>0, <1>1, ReturnFalseOwn
<1>2. CASE ~Return(s, FALSE)
  <2> DEFINE label == IF Seen(s, f[s].src).dir THEN "mv_within" ELSE "mv_update"
             fr == [f[s] EXCEPT !.up = f[s].cur]
  <2>1. f' = [f EXCEPT ![s].up = f[s].cur] /\ Goto(s, label)
    BY <1>2 DEF MvCheck
  <2>2. f'[s] = fr /\ \A t \in Sess \ {s} : f'[t] = f[t]
    BY <2>1, SafeFacts DEF LocalInv, TypeOK
  <2>3. pc'[s] = label /\ \A t \in Sess \ {s} : pc'[t] = pc[t]
    BY <2>1, SafeFacts DEF Goto, LocalInv, TypeOK
  <2>4. fr.call = f[s].call /\ fr.src = f[s].src /\ fr.cur = f[s].cur /\ fr.up = f[s].cur
    BY SafeFacts DEF Frame
  <2>5. /\ f[s].src \in Node /\ db[f[s].cur].st = "live" /\ db[f[s].cur].dir
        /\ f[s].cur \in Node /\ label = IF db[f[s].src].dir THEN "mv_within" ELSE "mv_update"
    BY <1>0, MvHas, MvSees
  <2> HIDE DEF fr, label
  <2>6. ResolvedOf(s)'
    <3>1. ResolvedOf(s)
      BY SafeFacts
    <3> QED
      BY <1>0, <2>2, <2>3, <2>4, <2>5, <3>1 DEF ResolvedOf, rowVars, Seen, Op
  <2>7. ClearOf(s)'
    <3>1. CASE db[f[s].src].dir
      <4>1. Climbed(s, {})'
        BY <1>0, <2>2, <2>4, <2>5 DEF Climbed, Reached, Chain
      <4> QED
        BY <2>3, <2>5, <3>1, <4>1 DEF ClearOf, Done
    <3>2. CASE ~db[f[s].src].dir
      BY <1>0, <2>2, <2>3, <2>4, <2>5, <3>2 DEF ClearOf, Done
    <3> QED
      BY <3>1, <3>2
  <2>8. pc'[s] \in {"mv_within", "mv_update"}
    BY <2>3, <2>5
  <2> QED
    BY <1>0, <2>2, <2>3, <2>4, <2>6, <2>7, <2>8, QuietOwn, QuietOthers
<1> QED
  BY <1>1, <1>2

LEMMA MvWithinOwn ==
    ASSUME TreeSafe, NEW s \in Sess, MvWithin(s)
    PROVE  SessOf(s)' /\ Untouched(s)
<1>0. /\ pc[s] = "mv_within" /\ UNCHANGED rowVars /\ topo' = topo
      /\ UNCHANGED <<rowVars, topo>> /\ db' = db
  BY DEF MvWithin, At, rowVars
<1>1. CASE Return(s, FALSE)
  BY <1>0, <1>1, ReturnFalseOwn
<1>2. CASE ~Return(s, FALSE)
  <2> DEFINE p == IF Live(s, f[s].up) THEN Seen(s, f[s].up).parent ELSE None
             fr == [f[s] EXCEPT !.up = p]
             label == IF p = None THEN "mv_update" ELSE "mv_within"
  <2>1. f' = [f EXCEPT ![s].up = p] /\ Goto(s, label) /\ f[s].up # f[s].src
    BY <1>2 DEF MvWithin
  <2>2. f'[s] = fr /\ \A t \in Sess \ {s} : f'[t] = f[t]
    BY <2>1, SafeFacts DEF LocalInv, TypeOK
  <2>3. pc'[s] = label /\ \A t \in Sess \ {s} : pc'[t] = pc[t]
    BY <2>1, SafeFacts DEF Goto, LocalInv, TypeOK
  <2>4. f[s].up \in Node
    BY <1>0, SafeFacts DEF PcOf
  <2>5. p = IF db[f[s].up].st = "live" THEN db[f[s].up].parent ELSE None
    BY <1>0, <2>4, MvSees DEF Live
  <2>6. fr.call = f[s].call /\ fr.src = f[s].src /\ fr.cur = f[s].cur /\ fr.up = p
    BY SafeFacts DEF Frame
  <2> HIDE DEF fr, p
  <2>7. pc'[s] \in {"mv_within", "mv_update"} /\ label # "commit"
    BY <2>3
  <2>8. ResolvedOf(s)'
    <3>1. ResolvedOf(s)
      BY SafeFacts
    <3> QED
      BY <1>0, <2>2, <2>6, <2>7, <3>1 DEF ResolvedOf, rowVars, Seen, Op
  <2>9. ClearOf(s)'
    <3>1. PICK A \in SUBSET Node : Climbed(s, A)
      BY <1>0, SafeFacts DEF ClearOf
    <3>2. PICK B \in SUBSET Node : B = Reached(s, A)
      BY <2>4 DEF Reached
    <3>3. f[s].cur \in B /\ f[s].src \notin B
      BY <2>1, <3>1, <3>2 DEF Climbed, Chain, Reached
    <3>4. ASSUME NEW n \in B
          PROVE  /\ db[n].st = "live"
                 /\ db[n].parent \in B \cup {None} \/ (db[n].parent = p /\ p # None)
      BY <2>4, <2>5, <3>1, <3>2 DEF Climbed, Chain, Reached
    <3>5. p # None => db[p].st = "live" /\ p \in Node
      BY <2>4, <2>5, SafeFacts DEF NoOrphans, HasParent
    <3>6. CASE p = None
      <4>1. Chain(s, B, B)' /\ f[s].cur # f[s].src
        BY <1>0, <2>2, <2>6, <3>3, <3>4, <3>6 DEF Chain
      <4> QED
        BY <2>2, <2>3, <2>6, <3>3, <3>6, <4>1 DEF ClearOf
    <3>7. CASE p # None
      <4>1. Reached(s, B)' = B \cup {p}
        BY <1>0, <2>2, <2>6, <3>5, <3>7 DEF Reached
      <4>2. Climbed(s, B)'
        BY <1>0, <2>2, <2>6, <3>3, <3>4, <4>1 DEF Climbed, Chain
      <4> QED
        BY <2>3, <3>7, <4>2 DEF ClearOf, Done
    <3> QED
      BY <3>6, <3>7
  <2> QED
    BY <1>0, <2>2, <2>3, <2>6, <2>7, <2>8, <2>9, QuietOwn, QuietOthers
<1> QED
  BY <1>1, <1>2

\* Taking a row FOR UPDATE takes nothing from the other calls.
LEMMA LockOthers ==
    ASSUME TreeSafe, NEW s \in Sess, NEW n \in Node, LockWaits(s, n) = {}, Lock(s, n),
           UNCHANGED <<db, shares, topo>>,
           \A m \in Node \ {n} : new'[m] = new[m],
           \A t \in Sess \ {s} : f'[t] = f[t] /\ pc'[t] = pc[t]
    PROVE  /\ Untouched(s)
           /\ owner[n] \in {s, None} /\ shares[n] \subseteq {s}
           /\ \A m \in Node : owner'[m] = IF m = n THEN s ELSE owner[m]
<1>1. owner[n] \in {s, None} /\ shares[n] \subseteq {s}
  <2>1. shares[n] \subseteq Sess
    BY SafeFacts DEF RowsTypeOK
  <2>2. \A t \in shares[n] \cup {owner[n]} : t \in {s, None}
    BY DEF LockWaits
  <2> QED
    BY <2>1, <2>2, PgAssumption
<1>2. \A m \in Node : owner'[m] = IF m = n THEN s ELSE owner[m]
  BY SafeFacts DEF Lock, RowsTypeOK
<1>3. \A t \in Sess : SharedOf(t)
  BY SafeFacts
<1>4. ASSUME NEW t \in Sess \ {s}, NEW m \in Node
      PROVE  /\ owner'[m] = t <=> owner[m] = t
             /\ owner[m] = t => new'[m] = new[m]
             /\ t \in shares'[m] <=> t \in shares[m]
             /\ t \in shares[m] => owner'[m] \in {t, None}
  BY <1>1, <1>2, <1>3, PgAssumption DEF SharedOf
<1> QED
  BY <1>1, <1>2, <1>4 DEF Untouched

LEMMA DelLockOwn ==
    ASSUME TreeSafe, NEW s \in Sess, DelLock(s)
    PROVE  SessOf(s)' /\ Untouched(s)
<1> DEFINE n == f[s].cur
<1>0. /\ pc[s] = "del_lock" /\ UNCHANGED <<db, new, shares, topo>> /\ LockWaits(s, n) = {}
      /\ n \in Node /\ db' = db /\ new' = new /\ shares' = shares /\ topo' = topo
  BY SafeFacts DEF DelLock, At
<1>1. CASE Return(s, FALSE) /\ UNCHANGED owner
  <2>1. UNCHANGED <<rowVars, topo>>
    BY <1>0, <1>1 DEF rowVars
  <2> QED
    BY <1>0, <1>1, <2>1, ReturnFalseOwn
<1>2. CASE ~(Return(s, FALSE) /\ UNCHANGED owner)
  <2>1. Live(s, n) /\ Lock(s, n) /\ Goto(s, "del_check") /\ f' = f
    BY <1>2 DEF DelLock
  <2>2. pc'[s] = "del_check" /\ \A t \in Sess \ {s} : pc'[t] = pc[t]
    BY <2>1, SafeFacts DEF Goto, LocalInv, TypeOK
  <2>3. /\ Untouched(s) /\ owner[n] \in {s, None}
        /\ \A m \in Node : owner'[m] = IF m = n THEN s ELSE owner[m]
    BY <1>0, <2>1, <2>2, LockOthers
  <2>4. /\ Op(s) = "delete_node" /\ n # Root
        /\ \A m \in Node : owner[m] = s => new[m] = db[m] /\ db[m].st = "live" /\ m # Root
    <3>1. Op(s) = "delete_node" /\ DeletedOf(s) /\ ResolvedOf(s)
      BY <1>0, DelSees, SafeFacts
    <3> QED
      BY <1>0, <3>1, DelSees DEF ResolvedOf, DeletedOf
  <2>5. db[n].st = "live" /\ new[n] = db[n]
    BY <1>0, <2>1, <2>3, <2>4, DelSees, RowHistory DEF Live
  <2> HIDE DEF n
  <2>6. \A m \in Node : owner'[m] = s =>
            new'[m] = db'[m] /\ db'[m].st = "live" /\ m # Root
    BY <1>0, <2>3, <2>4, <2>5
  <2>7. IdleOf(s)' /\ ClearOf(s)' /\ MadeOf(s)' /\ MovedOf(s)'
    BY <2>1, <2>2, <2>4 DEF IdleOf, ClearOf, MadeOf, MovedOf, Makes, Op, Done
  <2>8. SharedOf(s)'
    BY <1>0, <2>1, <2>4, SafeFacts DEF SharedOf, Makes, Op
  <2>9. ResolvedOf(s)'
    <3>1. ResolvedOf(s)
      BY SafeFacts
    <3> QED
      BY <1>0, <2>1, <2>2, <2>3, <2>4, <2>5, <3>1 DEF ResolvedOf, Seen, Op, n
  <2>10. DeletedOf(s)'
    BY <2>2, <2>6 DEF DeletedOf, Killed, Done
  <2> QED
    BY <2>3, <2>7, <2>8, <2>9, <2>10 DEF SessOf
<1> QED
  BY <1>1, <1>2

\* Both row locks of move_node.
LEMMA MvLockOwn ==
    ASSUME TreeSafe, NEW s \in Sess, MvLockSrc(s) \/ MvLockDst(s)
    PROVE  SessOf(s)' /\ Untouched(s)
<1>n. PICK n \in Node : n = f[s].cur
  BY SafeFacts
<1>0. /\ pc[s] \in {"mv_lock_src", "mv_lock_dst"} /\ n = f[s].cur
      /\ UNCHANGED <<db, new, shares, topo>>
      /\ db' = db /\ new' = new /\ shares' = shares /\ topo' = topo
      /\ PcOf(s) /\ ~RootCall(f[s].call)
  BY <1>n, SafeFacts DEF MvLockSrc, MvLockDst, At, PcOf
<1>1. CASE Return(s, FALSE) /\ UNCHANGED owner
  <2>1. UNCHANGED <<rowVars, topo>>
    BY <1>0, <1>1 DEF rowVars
  <2> QED
    BY <1>0, <1>1, <2>1, ReturnFalseOwn
<1>2. CASE ~(Return(s, FALSE) /\ UNCHANGED owner)
  <2>1. Live(s, n) /\ Lock(s, n) /\ LockWaits(s, n) = {}
    BY <1>0, <1>2 DEF MvLockSrc, MvLockDst
  <2>2. /\ Op(s) = "move_node" /\ topo = s
        /\ \A m \in Node : owner[m] = s => new[m] = db[m] /\ db[m].st = "live"
        /\ \A m \in Node : Seen(s, m) = db[m]
    BY <1>0, MvSees, SafeFacts DEF ResolvedOf
  <2>3. owner[n] \in {s, None}
    BY <1>0, <2>1, SafeFacts, LockFacts
  <2>4. db[n].st = "live" /\ new[n] = db[n]
    BY <1>0, <2>1, <2>2, <2>3, RowHistory DEF Live
  <2>5. \/ /\ pc[s] = "mv_lock_src" /\ f[s].call.path = f[s].call.dst /\ f[s].src = None
           /\ f'[s] = [f[s] EXCEPT !.out = "true"] /\ pc'[s] = "commit"
        \/ /\ pc[s] = "mv_lock_src" /\ f[s].call.path # f[s].call.dst
           /\ f'[s].call = f[s].call /\ f'[s].src = n /\ f'[s].cur = Root
           /\ pc'[s] \in {"walk", "mv_lock_dst"}
        \/ /\ pc[s] = "mv_lock_dst" /\ f'[s] = f[s] /\ pc'[s] = "mv_check"
           /\ Seen(s, n).dir
    <3>1. CASE MvLockSrc(s) /\ f[s].call.path = f[s].call.dst
      <4>1. Return(s, TRUE) /\ pc[s] = "mv_lock_src"
        BY <1>2, <3>1 DEF MvLockSrc, At
      <4>2. f[s].src = None
        BY <3>1, SafeFacts DEF ResolvedOf
      <4> QED
        BY <3>1, <4>1, <4>2, SafeFacts DEF Return, Goto, LocalInv, TypeOK
    <3>2. CASE MvLockSrc(s) /\ f[s].call.path # f[s].call.dst
      <4> DEFINE fr == [f[s] EXCEPT !.src = f[s].cur]
      <4>1. StartWalk(s, fr, Parent(f[s].call.dst)) /\ pc[s] = "mv_lock_src"
        BY <1>2, <3>2 DEF MvLockSrc, At
      <4>2. /\ fr \in Frame /\ fr.call = f[s].call /\ fr.src = n
        BY <1>0, SafeFacts DEF Frame
      <4>3. Parent(f[s].call.dst) \in Seq(Name)
        BY <1>0, <2>2, SafeFacts, CallFacts, PathParts DEF RootCall, Op
      <4>4. PICK way \in Seq(Name) : StartWalk(s, fr, way)
        BY <4>1, <4>3
      <4> HIDE DEF fr
      <4>5. /\ f'[s].call = fr.call /\ f'[s].src = fr.src /\ f'[s].cur = Root
            /\ pc'[s] = IF way = << >> THEN AfterWalk(fr) ELSE "walk"
        BY <4>2, <4>4, SafeFacts, StartWalkLocal DEF LocalInv
      <4>6. AfterWalk(fr) = "mv_lock_dst"
        BY <1>0, <2>2, <4>2, PgAssumption DEF AfterWalk, Op
      <4> QED
        BY <3>2, <4>1, <4>2, <4>5, <4>6
    <3>3. CASE MvLockDst(s)
      <4>1. Goto(s, "mv_check") /\ f' = f /\ pc[s] = "mv_lock_dst" /\ Seen(s, n).dir
        BY <1>0, <1>2, <3>3 DEF MvLockDst, At
      <4> QED
        BY <4>1, SafeFacts DEF Goto, LocalInv, TypeOK
    <3> QED
      BY <3>1, <3>2, <3>3
  <2>6. \A t \in Sess \ {s} : f'[t] = f[t] /\ pc'[t] = pc[t]
    BY SafeFacts DEF MvLockSrc, MvLockDst, Return, StartWalk, Goto, LocalInv, TypeOK
  <2>7. /\ Untouched(s)
        /\ \A m \in Node : owner'[m] = IF m = n THEN s ELSE owner[m]
    BY <1>0, <2>1, <2>6, LockOthers
  <2>8. f'[s].call = f[s].call
    BY <2>5, SafeFacts DEF Frame
  <2>9. \A m \in Node : owner'[m] = s => new'[m] = db'[m] /\ db'[m].st = "live"
    BY <1>0, <2>2, <2>4, <2>7
  <2>10. /\ Done(s)' => f'[s].src = None /\ f'[s].call.path = f'[s].call.dst
         /\ pc'[s] \in {"commit", "walk", "mv_lock_dst", "mv_check"}
    BY <2>5, <2>8, SafeFacts DEF Done, Frame
  <2>11. IdleOf(s)' /\ MadeOf(s)' /\ DeletedOf(s)'
    BY <2>2, <2>8, <2>10 DEF IdleOf, MadeOf, DeletedOf, Makes, Op, Done
  <2>12. SharedOf(s)'
    BY <1>0, <2>2, SafeFacts DEF SharedOf, Makes, Op
  <2>13. MovedOf(s)'
    BY <2>9, <2>10 DEF MovedOf
  <2>14. ClearOf(s)'
    BY <2>10 DEF ClearOf
  <2>15. ResolvedOf(s)'
    <3>1. ResolvedOf(s) /\ RootOK /\ db[n].st = "live"
      BY <2>4, SafeFacts
    <3>2. f'[s].src # Root /\ (f'[s].src # None => f'[s].call.path # f'[s].call.dst)
      BY <2>5, <2>8, <3>1, <1>0, SafeFacts DEF ResolvedOf, Frame
    <3>3. f'[s].cur \in {n, Root}
      BY <1>0, <2>5, SafeFacts DEF Frame
    <3>4. (Seen(s, n).st # "free")' /\ (Seen(s, Root).st # "free")'
      BY <1>0, <2>4, <3>1 DEF Seen, RootOK
    <3>5. pc'[s] = "mv_check" => owner'[f'[s].cur] = s /\ db'[f'[s].cur].dir
      BY <1>0, <2>2, <2>5, <2>7
    <3> QED
      BY <1>0, <2>2, <2>10, <3>2, <3>3, <3>4, <3>5 DEF ResolvedOf, Seen
  <2> QED
    BY <2>7, <2>11, <2>12, <2>13, <2>14, <2>15 DEF SessOf
<1> QED
  BY <1>1, <1>2

\* Both INSERT statements, when they add a row.
LEMMA InsertOwn ==
    ASSUME TreeSafe, NEW s \in Sess, NEW n \in Node, NEW nm \in Name, NEW d \in BOOLEAN,
           pc[s] \in {"cn_insert", "mk_insert"},
           new[n].st = "free", owner[n] = None,
           InsertRow(s, n, NodeRow(f[s].cur, nm, d)), Goto(s, "fk"),
           UNCHANGED <<db, shares, f, topo>>,
           Op(s) = "create_directory" => d,
           Op(s) = "create_node" => /\ nm = Base(f[s].call.path) /\ d = f[s].call.dir
                                    /\ Seen(s, f[s].cur).dir
    PROVE  SessOf(s)' /\ Untouched(s)
<1>1. /\ db' = db /\ shares' = shares /\ f' = f /\ topo' = topo
      /\ pc'[s] = "fk" /\ \A t \in Sess \ {s} : pc'[t] = pc[t]
      /\ \A m \in Node : /\ owner'[m] = IF m = n THEN s ELSE owner[m]
                         /\ new'[m] = IF m = n THEN NodeRow(f[s].cur, nm, d) ELSE new[m]
  BY SafeFacts DEF Goto, LocalInv, TypeOK, InsertRow, RowsTypeOK
<1>2. db[n].st = "free" /\ f[s].cur \in Node /\ f[s].cur # n
  BY SafeFacts, PgAssumption DEF Settled, ResolvedOf, Seen
<1>3. Makes(s) /\ Op(s) \in {"create_node", "create_directory"}
  BY SafeFacts DEF PcOf, LabelOK, Op, Makes
<1>4. \A t \in Sess : t \notin shares[n]
  BY <1>2, SafeFacts, PgAssumption DEF SharedOf, Live, Seen
<1>5. \A t \in Sess : SharedOf(t)
  BY SafeFacts
<1>6. Untouched(s)
  BY <1>1, <1>4, <1>5, PgAssumption DEF Untouched, SharedOf
<1>7. IdleOf(s)' /\ DeletedOf(s)' /\ MovedOf(s)' /\ ClearOf(s)'
  BY <1>1, <1>3 DEF IdleOf, DeletedOf, MovedOf, ClearOf, Op, Done
<1>8. ResolvedOf(s)'
  <2>1. ResolvedOf(s)
    BY SafeFacts
  <2> QED
    BY <1>1, <1>2, <1>3, <2>1 DEF ResolvedOf, Seen, Op
<1>9. SharedOf(s)'
  BY <1>1, <1>3, <1>4, <1>5 DEF SharedOf, Live, Seen, Makes, Op
<1>10. MadeOf(s)'
  <2>1. MadeOf(s)
    BY SafeFacts
  <2>2. /\ new'[n].st = "live" /\ new'[n].parent = f[s].cur /\ new'[n].name = nm
        /\ new'[n].dir = d
    BY <1>1 DEF NodeRow
  <2>3. ASSUME Op(s) = "create_directory" PROVE MadeOf(s)'
    <3>1. ASSUME NEW m \in Node, owner'[m] = s
          PROVE  /\ db[m].st = "free" /\ new'[m].st = "live"
                 /\ new'[m].parent \in Node \ {m} /\ new'[m].name \in Name /\ new'[m].dir
                 /\ s \in shares[new'[m].parent] \/ new'[m].parent = f[s].cur
      <4>1. CASE m = n
        BY <1>2, <2>2, <2>3, <4>1
      <4>2. CASE m # n
        <5>1. owner[m] = s /\ new'[m] = new[m] /\ pc[s] # "fk"
          BY <1>1, <3>1, <4>2
        <5>2. /\ db[m].st = "free" /\ new[m].st = "live"
              /\ new[m].parent \in Node \ {m} /\ new[m].name \in Name
              /\ s \in shares[new[m].parent]
          BY <1>3, <2>1, <5>1 DEF MadeOf
        <5>3. new[m].dir
          BY <2>1, <2>3, <5>1 DEF MadeOf
        <5> QED
          BY <5>1, <5>2, <5>3
      <4> QED
        BY <4>1, <4>2
    <3> QED
      BY <1>1, <2>3, <3>1 DEF MadeOf, Makes, Op, Done
  <2>4. ASSUME Op(s) = "create_node" PROVE MadeOf(s)'
    <3>1. \A m \in Node : owner[m] # s
      BY <2>1, <2>4 DEF MadeOf, Done
    <3>2. db[f[s].cur].dir
      BY <2>4, <3>1, <1>2 DEF Seen
    <3> QED
      BY <1>1, <1>2, <2>2, <2>4, <3>1, <3>2 DEF MadeOf, Makes, Op, Done
  <2> QED
    BY <1>3, <2>3, <2>4
<1> QED
  BY <1>6, <1>7, <1>8, <1>9, <1>10 DEF SessOf

LEMMA CreateInsertOwn ==
    ASSUME TreeSafe, NEW s \in Sess, CreateInsert(s)
    PROVE  SessOf(s)' /\ Untouched(s)
<1>0. /\ pc[s] = "cn_insert" /\ topo' = topo /\ Op(s) = "create_node"
      /\ f[s].call.dir \in BOOLEAN /\ Base(f[s].call.path) \in Name
  BY SafeFacts, CallFacts, PathParts DEF CreateInsert, At, PcOf, LabelOK, RootCall, Op
<1>1. CASE Return(s, FALSE) /\ UNCHANGED rowVars
  BY <1>0, <1>1, ReturnFalseOwn
<1>2. CASE ~(Return(s, FALSE) /\ UNCHANGED rowVars)
  <2>1. /\ Seen(s, f[s].cur).dir /\ FreeIds # {} /\ UNCHANGED <<db, shares, f>>
        /\ InsertRow(s, FreshId, NodeRow(f[s].cur, Base(f[s].call.path), f[s].call.dir))
        /\ Goto(s, "fk")
    BY <1>2 DEF CreateInsert
  <2> QED
    BY <1>0, <2>1, FreshIdFree, InsertOwn
<1> QED
  BY <1>1, <1>2

LEMMA MkInsertOwn ==
    ASSUME TreeSafe, NEW s \in Sess, MkInsert(s)
    PROVE  SessOf(s)' /\ Untouched(s)
<1>0. /\ pc[s] = "mk_insert" /\ topo' = topo /\ f' = f /\ Op(s) = "create_directory"
      /\ Part(s) \in Name
  <2>1. pc[s] = "mk_insert" /\ topo' = topo /\ f' = f /\ Op(s) = "create_directory"
        /\ f[s].k < Len(f[s].call.path)
    BY SafeFacts DEF MkInsert, At, PcOf, LabelOK, Op
  <2> QED
    BY <2>1, SafeFacts, CallFacts, LenProperties, ElementOfSeq DEF Part
<1>1. CASE UNCHANGED rowVars /\ Goto(s, "mk_again")
  <2>1. pc'[s] = "mk_again" /\ \A t \in Sess \ {s} : pc'[t] = pc[t]
    BY <1>1, SafeFacts DEF Goto, LocalInv, TypeOK
  <2>2. ResolvedOf(s)'
    <3>1. ResolvedOf(s)
      BY SafeFacts
    <3> QED
      BY <1>0, <1>1, <2>1, <3>1 DEF ResolvedOf, rowVars, Seen, Op
  <2>3. ClearOf(s)'
    BY <2>1 DEF ClearOf, Done
  <2> QED
    BY <1>0, <1>1, <2>1, <2>2, <2>3, QuietOwn, QuietOthers
<1>2. CASE ~(UNCHANGED rowVars /\ Goto(s, "mk_again"))
  <2>1. /\ FreeIds # {} /\ UNCHANGED <<db, shares>>
        /\ InsertRow(s, FreshId, NodeRow(f[s].cur, Part(s), TRUE)) /\ Goto(s, "fk")
    BY <1>2 DEF MkInsert
  <2> QED
    BY <1>0, <2>1, FreshIdFree, InsertOwn
<1> QED
  BY <1>1, <1>2

\* The foreign-key check that finds the parent.
LEMMA FkOwn ==
    ASSUME TreeSafe, NEW s \in Sess, FkCheck(s), ~Abort(s)
    PROVE  SessOf(s)' /\ Untouched(s)
<1>n. PICK p \in Node : p = f[s].cur
  BY SafeFacts
<1>0. /\ pc[s] = "fk" /\ ShareWaits(s, p) = {} /\ Live(s, p) /\ Share(s, p)
      /\ db' = db /\ new' = new /\ owner' = owner /\ topo' = topo
      /\ IF Op(s) = "create_node" THEN Return(s, TRUE) ELSE NextPart(s)
  BY <1>n DEF FkCheck, At, Op
<1>1. Op(s) \in {"create_node", "create_directory"} /\ Makes(s)
  BY <1>0, SafeFacts DEF PcOf, LabelOK, Op, Makes
<1>2. owner[p] \in {s, None}
  BY <1>0, SafeFacts DEF ShareWaits
<1>3. \A m \in Node : shares'[m] = IF m = p THEN shares[m] \cup {s} ELSE shares[m]
  BY <1>0, SafeFacts DEF Share, RowsTypeOK
<1>4. /\ f'[s].call = f[s].call /\ f'[s].src = f[s].src
      /\ \/ /\ f'[s].cur = p /\ pc'[s] = "commit"
            /\ f'[s].out = "true"
         \/ /\ Op(s) = "create_directory" /\ f'[s].cur = Root
            /\ pc'[s] \in {"walk", "mk_child"}
      /\ \A t \in Sess \ {s} : f'[t] = f[t] /\ pc'[t] = pc[t]
  <2>1. ASSUME Return(s, TRUE)
        PROVE  /\ f'[s].call = f[s].call /\ f'[s].src = f[s].src /\ f'[s].cur = p
               /\ pc'[s] = "commit" /\ f'[s].out = "true"
               /\ \A t \in Sess \ {s} : f'[t] = f[t] /\ pc'[t] = pc[t]
    <3>1. /\ f'[s] = [f[s] EXCEPT !.out = "true"] /\ pc'[s] = "commit"
          /\ \A t \in Sess \ {s} : f'[t] = f[t] /\ pc'[t] = pc[t]
      BY <2>1, SafeFacts DEF Return, Goto, LocalInv, TypeOK
    <3> QED
      BY <1>n, <3>1, SafeFacts DEF Frame
  <2>2. CASE Return(s, TRUE)
    BY <2>1, <2>2
  <2>3. CASE ~Return(s, TRUE)
    <3> DEFINE k == f[s].k + 1
               path == f[s].call.path
               fr == [f[s] EXCEPT !.k = k]
    <3>1. /\ Op(s) = "create_directory" /\ k # Len(path)
          /\ StartWalk(s, fr, SubSeq(path, 1, k))
      BY <1>0, <1>1, <2>3 DEF NextPart
    <3>2. path \in Seq(Name) /\ f[s].k \in Nat /\ f[s].k < Len(path)
      BY <1>0, <3>1, SafeFacts, CallFacts DEF PcOf, Op
    <3>3. fr \in Frame /\ fr.call = f[s].call /\ fr.src = f[s].src
      BY <3>2, SafeFacts DEF Frame
    <3>4. SubSeq(path, 1, k) \in Seq(Name)
      BY <3>1, <3>2, LenProperties, SubSeqProperties
    <3>5. PICK way \in Seq(Name) : StartWalk(s, fr, way)
      BY <3>1, <3>4
    <3> HIDE DEF fr
    <3>6. /\ f'[s].call = fr.call /\ f'[s].src = fr.src /\ f'[s].cur = Root
          /\ pc'[s] = IF way = << >> THEN AfterWalk(fr) ELSE "walk"
          /\ \A t \in Sess \ {s} : f'[t] = f[t] /\ pc'[t] = pc[t]
      BY <3>3, <3>5, SafeFacts, StartWalkLocal DEF LocalInv
    <3>7. AfterWalk(fr) = "mk_child"
      BY <3>1, <3>3 DEF AfterWalk, Op
    <3> QED
      BY <3>1, <3>3, <3>6, <3>7
  <2> QED
    BY <2>2, <2>3
<1>5. Untouched(s)
  <2>1. \A t \in Sess : SharedOf(t)
    BY SafeFacts
  <2> QED
    BY <1>0, <1>3, <1>4, <2>1 DEF Untouched, SharedOf
<1>6. IdleOf(s)' /\ DeletedOf(s)' /\ MovedOf(s)' /\ ClearOf(s)'
  BY <1>1, <1>4 DEF IdleOf, DeletedOf, MovedOf, ClearOf, Op, Done
<1>7. ResolvedOf(s)'
  <2>1. ResolvedOf(s) /\ RootOK
    BY SafeFacts
  <2> QED
    BY <1>n, <1>0, <1>1, <1>4, <2>1 DEF ResolvedOf, Seen, Op, RootOK
<1>8. SharedOf(s)'
  <2>1. SharedOf(s)
    BY SafeFacts
  <2> QED
    BY <1>0, <1>1, <1>2, <1>3, <1>4, <2>1 DEF SharedOf, Live, Seen, Makes, Op
<1>9. MadeOf(s)'
  <2>1. MadeOf(s)
    BY SafeFacts
  <2>2. ASSUME NEW n \in Node, owner[n] = s PROVE s \in shares'[new[n].parent]
    <3>1. new[n].parent \in Node /\ (s \in shares[new[n].parent] \/ new[n].parent = p)
      BY <1>n, <1>1, <2>1, <2>2 DEF MadeOf
    <3> QED
      BY <1>3, <3>1
  <2>3. CASE Op(s) = "create_directory"
    BY <1>0, <1>1, <1>4, <2>1, <2>2, <2>3 DEF MadeOf, Makes, Op
  <2>4. CASE Op(s) = "create_node"
    <3>1. pc'[s] = "commit" /\ f'[s].out = "true" /\ f'[s].cur = p
      BY <1>4, <2>4
    <3> QED
      BY <1>n, <1>0, <1>1, <1>4, <2>1, <2>2, <2>4, <3>1 DEF MadeOf, Makes, Op, Done
  <2> QED
    BY <1>1, <2>3, <2>4
<1> QED
  BY <1>5, <1>6, <1>7, <1>8, <1>9 DEF SessOf

\* A deletion takes row n: the named row, or in the cascade a child of a taken one.
LEMMA TakeOwn ==
    ASSUME TreeSafe, NEW s \in Sess, NEW n \in Node, Op(s) = "delete_node",
           db[n].st = "live", n # Root, owner[n] = s \/ Lock(s, n),
           \A m \in Node : owner'[m] = IF m = n THEN s ELSE owner[m],
           \A m \in Node : new'[m] = IF m = n THEN [db[n] EXCEPT !.st = "dead"] ELSE new[m],
           db' = db, shares' = shares, topo' = topo, f' = f, pc'[s] = "cascade",
           Emptied(s)', pc[s] # "idle", ~Done(s),
           \A m \in Node : owner[m] = s =>
               new[m] = db[m] \/ new[m] = [db[m] EXCEPT !.st = "dead"]
    PROVE  SessOf(s)'
<1>1. IdleOf(s)' /\ MadeOf(s)' /\ MovedOf(s)' /\ ClearOf(s)'
  BY DEF IdleOf, MadeOf, MovedOf, ClearOf, Op, Makes, Done
<1>2. SharedOf(s)'
  BY SafeFacts DEF SharedOf, Makes, Op
<1>3. ResolvedOf(s)'
  <2>1. ResolvedOf(s) /\ f[s].cur \in Node /\ db[n] \in Row
    BY SafeFacts
  <2>2. new'[n].st = "dead"
    BY <2>1 DEF Row
  <2> QED
    BY <2>1, <2>2 DEF ResolvedOf, Seen, Op
<1>4. DeletedOf(s)'
  <2>1. DeletedOf(s)
    BY SafeFacts
  <2> QED
    BY <2>1 DEF DeletedOf
<1> QED
  BY <1>1, <1>2, <1>3, <1>4 DEF SessOf

LEMMA DelRowOwn ==
    ASSUME TreeSafe, NEW s \in Sess, DelRow(s)
    PROVE  SessOf(s)' /\ Untouched(s)
<1>n. PICK n \in Node : n = f[s].cur
  BY SafeFacts
<1>0. /\ pc[s] = "del_row" /\ pc'[s] = "cascade" /\ f' = f /\ db' = db
      /\ owner' = owner /\ shares' = shares /\ topo' = topo
      /\ new' = [new EXCEPT ![n].st = "dead"]
      /\ \A t \in Sess \ {s} : pc'[t] = pc[t]
  BY <1>n, SafeFacts DEF DelRow, At, Goto, LocalInv, TypeOK
<1>1. /\ Op(s) = "delete_node" /\ owner[n] = s /\ n # Root /\ ~Done(s)
      /\ \A m \in Node : owner[m] = s => new[m] = db[m] /\ db[m].st = "live"
  <2>1. DeletedOf(s) /\ HeldOf(s)
    BY SafeFacts
  <2> QED
    BY <1>n, <1>0, <2>1, DelSees DEF DeletedOf, HeldOf, Done
<1>2. /\ \A m \in Node : new'[m] = IF m = n THEN [db[n] EXCEPT !.st = "dead"] ELSE new[m]
      /\ db[n].st = "live" /\ db[n] \in Row
  BY <1>0, <1>1, SafeFacts DEF RowsTypeOK
<1>3. new'[n].st = "dead"
  BY <1>2 DEF Row
<1>4. Emptied(s)'
  <2>1. db[n].dir => Childless(n)
    BY <1>n, <1>0, <1>1, SafeFacts DEF DeletedOf
  <2>2. \A m \in Node : Killed(s, m)' <=> m = n
    BY <1>0, <1>1, <1>2, <1>3 DEF Killed
  <2> QED
    BY <1>n, <1>0, <2>1, <2>2 DEF Emptied, Childless
<1>5. SessOf(s)'
  BY <1>0, <1>1, <1>2, <1>4, TakeOwn
<1>6. Untouched(s)
  <2>1. \A t \in Sess : SharedOf(t)
    BY SafeFacts
  <2> QED
    BY <1>0, <1>1, <1>2, <2>1 DEF Untouched, SharedOf
<1> QED
  BY <1>5, <1>6

LEMMA CascadeOwn ==
    ASSUME TreeSafe, NEW s \in Sess, Cascade(s)
    PROVE  SessOf(s)' /\ Untouched(s)
<1>0. /\ pc[s] = "cascade" /\ db' = db /\ shares' = shares /\ topo' = topo
      /\ Op(s) = "delete_node" /\ ~Done(s) /\ DeletedOf(s) /\ Emptied(s)
  <2>1. pc[s] = "cascade" /\ topo' = topo /\ db' = db /\ shares' = shares
    BY DEF Cascade, At, rowVars
  <2>2. Op(s) = "delete_node" /\ DeletedOf(s)
    BY <2>1, SafeFacts DEF PcOf, LabelOK, Op
  <2> QED
    BY <2>1, <2>2 DEF DeletedOf, Done
<1>1. CASE Orphans(s) = {}
  <2>1. Return(s, TRUE) /\ UNCHANGED rowVars
    BY <1>1 DEF Cascade
  <2>2. /\ f'[s] = [f[s] EXCEPT !.out = "true"] /\ pc'[s] = "commit"
        /\ \A t \in Sess \ {s} : f'[t] = f[t] /\ pc'[t] = pc[t]
        /\ db' = db /\ new' = new /\ owner' = owner /\ shares' = shares
    BY <2>1, SafeFacts DEF Return, Goto, LocalInv, TypeOK, rowVars
  <2>3. f'[s].call = f[s].call /\ f'[s].src = f[s].src /\ f'[s].cur = f[s].cur
        /\ f'[s].out = "true"
    BY <2>2, SafeFacts DEF Frame
  <2>4. IdleOf(s)' /\ MadeOf(s)' /\ MovedOf(s)' /\ ClearOf(s)'
    BY <1>0, <2>2, <2>3 DEF IdleOf, MadeOf, MovedOf, ClearOf, Op, Makes, Done
  <2>5. SharedOf(s)'
    BY <1>0, <2>2, SafeFacts DEF SharedOf, Makes, Op
  <2>6. ResolvedOf(s)'
    <3>1. ResolvedOf(s)
      BY SafeFacts
    <3> QED
      BY <1>0, <2>2, <2>3, <3>1 DEF ResolvedOf, Seen, Op
  <2>7. Orphans(s)' = {}
    BY <1>1, <2>2 DEF Orphans, Live, Seen
  <2>8. Emptied(s)'
    BY <1>0, <2>2, <2>3 DEF Emptied, Killed, Childless
  <2>9. DeletedOf(s)'
    BY <1>0, <2>2, <2>7, <2>8 DEF DeletedOf, Done
  <2> QED
    BY <2>1, <2>2, <2>4, <2>5, <2>6, <2>9, <1>0, QuietOthers DEF SessOf
<1>2. CASE Orphans(s) # {}
  <2>1. PICK n \in Orphans(s) :
            /\ LockWaits(s, n) = {} /\ Lock(s, n)
            /\ new' = [new EXCEPT ![n] = [db[n] EXCEPT !.st = "dead"]]
            /\ pc' = pc /\ f' = f
    BY <1>2 DEF Cascade
  <2>2. PICK p \in Node : p = Seen(s, n).parent
    BY DEF Orphans
  <2>3. n \in Node /\ Live(s, n) /\ Killed(s, p)
    BY <2>2 DEF Orphans, Killed
  <2>4. \A m \in Node : new'[m] = IF m = n THEN [db[n] EXCEPT !.st = "dead"] ELSE new[m]
    BY <2>1, <2>3, SafeFacts DEF RowsTypeOK
  <2>5. /\ Untouched(s) /\ owner[n] \in {s, None}
        /\ \A m \in Node : owner'[m] = IF m = n THEN s ELSE owner[m]
    BY <1>0, <2>1, <2>3, <2>4, LockOthers
  <2>6. Seen(s, n) = db[n] /\ db[n].st = "live"
    <3>1. CASE owner[n] = s
      <4>1. db[n].st = "live" /\ new[n].st = "live"
        BY <1>0, <2>3, <3>1 DEF Live, Seen, DeletedOf
      <4> QED
        BY <1>0, <2>3, <3>1, <4>1, OwnedRow DEF Seen
    <3>2. CASE owner[n] # s
      BY <2>3, <3>2 DEF Live, Seen
    <3> QED
      BY <3>1, <3>2
  <2>7. /\ n # Root /\ db[n].parent = p /\ n # f[s].cur /\ f[s].cur \in Node
        /\ ~Killed(s, n) /\ n # p
    <3>1. ~Killed(s, n)
      BY <2>3 DEF Killed, Live, Seen
    <3> QED
      BY <1>0, <2>2, <2>3, <2>6, <3>1, SafeFacts, PgAssumption DEF RootOK, Emptied
  <2>8. new'[n].st = "dead" /\ owner'[n] = s
    BY <2>3, <2>4, <2>5, SafeFacts DEF Row
  <2>9. \A m \in Node : Killed(s, m)' <=> Killed(s, m) \/ m = n
    BY <2>4, <2>5, <2>8 DEF Killed
  <2>10. Emptied(s)'
    <3>1. ~db[f[s].cur].dir
      BY <1>0, <2>3, <2>6, <2>7 DEF Emptied, Childless
    <3>2. ASSUME NEW m \in Node, Killed(s, m), m # f[s].cur
          PROVE  db[m].parent \in Node /\ Killed(s, db[m].parent)
      <4>1. db[m].st = "live" /\ m # Root /\ Killed(s, db[m].parent)
        BY <1>0, <3>2 DEF DeletedOf, Emptied, Killed
      <4> QED
        BY <4>1, SafeFacts DEF NoOrphans, HasParent
    <3>3. ASSUME NEW m \in Node, Killed(s, m)', m # f[s].cur
          PROVE  Killed(s, db[m].parent)'
      <4>1. PICK q \in Node : q = db[m].parent /\ Killed(s, q)
        BY <2>3, <2>7, <2>9, <3>2, <3>3
      <4>2. Killed(s, q)'
        BY <2>9, <4>1
      <4> QED
        BY <1>0, <4>1, <4>2 DEF Killed
    <3> QED
      BY <1>0, <2>1, <2>7, <2>9, <3>1, <3>3 DEF Emptied, Killed, Childless
  <2>11. SessOf(s)'
    <3>1. \A m \in Node : owner[m] = s =>
              new[m] = db[m] \/ new[m] = [db[m] EXCEPT !.st = "dead"]
      BY <1>0 DEF DeletedOf
    <3> QED
      BY <1>0, <2>1, <2>3, <2>4, <2>5, <2>6, <2>7, <2>10, <3>1, TakeOwn
  <2> QED
    BY <2>5, <2>11
<1> QED
  BY <1>1, <1>2

LEMMA MvUpdateOwn ==
    ASSUME TreeSafe, NEW s \in Sess, MvUpdate(s)
    PROVE  SessOf(s)' /\ Untouched(s)
<1> DEFINE nm == Base(f[s].call.dst)
<1>n. PICK n \in Node : n = f[s].src
  BY MvHas DEF MvUpdate, At
<1>0. /\ pc[s] = "mv_update" /\ db' = db /\ owner' = owner /\ shares' = shares
      /\ topo' = topo /\ UNCHANGED <<db, owner, shares, topo>>
      /\ Op(s) = "move_node" /\ owner[n] = s
      /\ owner[f[s].cur] = s /\ db[f[s].cur].dir /\ f[s].cur \in Node
      /\ \A m \in Node : owner[m] = s => new[m] = db[m] /\ db[m].st = "live"
  BY <1>n, MvHas, MvSees DEF MvUpdate, At
<1>1. CASE Return(s, FALSE) /\ UNCHANGED new
  <2>1. UNCHANGED <<rowVars, topo>>
    BY <1>0, <1>1 DEF rowVars
  <2> QED
    BY <1>0, <1>1, <2>1, ReturnFalseOwn
<1>2. CASE ~(Return(s, FALSE) /\ UNCHANGED new)
  <2>1. /\ new' = [new EXCEPT ![n].parent = f[s].cur, ![n].name = nm] /\ Return(s, TRUE)
    BY <1>n, <1>2 DEF MvUpdate
  <2>2. /\ f'[s] = [f[s] EXCEPT !.out = "true"] /\ pc'[s] = "commit"
        /\ \A t \in Sess \ {s} : f'[t] = f[t] /\ pc'[t] = pc[t]
    BY <2>1, SafeFacts DEF Return, Goto, LocalInv, TypeOK
  <2>3. f'[s].call = f[s].call /\ f'[s].src = f[s].src /\ f'[s].cur = f[s].cur
    BY <2>2, SafeFacts DEF Frame
  <2>4. /\ \A m \in Node \ {n} : new'[m] = new[m]
        /\ new'[n] = [db[n] EXCEPT !.parent = f[s].cur, !.name = nm]
    BY <1>0, <2>1, SafeFacts DEF RowsTypeOK
  <2>5. db[n] \in Row /\ new'[n].st = "live"
    BY <1>0, <2>4, SafeFacts DEF Row
  <2>6. IdleOf(s)' /\ DeletedOf(s)' /\ MadeOf(s)'
    BY <1>0, <2>2, <2>3 DEF IdleOf, DeletedOf, MadeOf, Op, Makes
  <2>7. SharedOf(s)'
    BY <1>0, SafeFacts DEF SharedOf, Makes, Op
  <2>8. ResolvedOf(s)'
    <3>1. ResolvedOf(s)
      BY SafeFacts
    <3>2. new'[f[s].cur].st = "live"
      <4>1. new[f[s].cur].st = "live"
        BY <1>0
      <4> QED
        BY <1>0, <2>4, <2>5, <4>1
    <3> QED
      BY <1>0, <2>2, <2>3, <3>1, <3>2 DEF ResolvedOf, Seen, Op
  <2>9. MovedOf(s)'
    <3>1. \A m \in Node : owner'[m] = s /\ m # f'[s].src => new'[m] = db'[m]
      BY <1>n, <1>0, <2>3, <2>4
    <3>2. new'[f'[s].src] = [db'[f'[s].src] EXCEPT !.parent = f'[s].cur,
                                                  !.name = Base(f'[s].call.dst)]
      BY <1>n, <1>0, <2>3, <2>4
    <3>3. Done(s)'
      BY <2>2, SafeFacts DEF Done, Frame
    <3>4. ~Holds(db'[f'[s].src], f'[s].cur, Base(f'[s].call.dst))
      <4>1. ~UniqueConflict(s, f[s].cur, nm)
        BY <1>2 DEF MvUpdate
      <4>2. Seen(s, n) = db[n]
        BY <1>0 DEF Seen
      <4> QED
        BY <1>n, <1>0, <2>3, <4>1, <4>2 DEF UniqueConflict, ChildIds
    <3>5. f'[s].src \in Node
      BY <1>n, <2>3
    <3> QED
      BY <1>0, <2>3, <3>1, <3>2, <3>3, <3>4, <3>5, PgAssumption DEF MovedOf
  <2>10. ClearOf(s)'
    <3>1. ClearOf(s)
      BY SafeFacts
    <3> QED
      BY <1>0, <2>2, <2>3, <3>1 DEF ClearOf, Chain
  <2>11. Untouched(s)
    <3>1. \A t \in Sess : SharedOf(t)
      BY SafeFacts
    <3> QED
      BY <1>0, <2>2, <2>4, <3>1 DEF Untouched, SharedOf
  <2> QED
    BY <2>6, <2>7, <2>8, <2>9, <2>10, <2>11 DEF SessOf
<1> QED
  BY <1>1, <1>2

LEMMA BeginOwn ==
    ASSUME TreeSafe, NEW s \in Sess, NEW c \in Calls, Begin(s, c) \/ BeginAtRoot(s, c)
    PROVE  SessOf(s)' /\ Untouched(s)
<1>0. /\ pc[s] = "idle" /\ UNCHANGED rowVars /\ topo' = topo
      /\ db' = db /\ new' = new /\ owner' = owner /\ shares' = shares
      /\ \A t \in Sess \ {s} : f'[t] = f[t] /\ pc'[t] = pc[t]
  <2>1. c.op \in Ops
    BY CallAssumption DEF Call
  <2>2. /\ \E x : f' = [f EXCEPT ![s] = x]
        /\ pc' = pc \/ \E label : pc' = [pc EXCEPT ![s] = label]
    BY <2>1 DEF Begin, BeginAtRoot, StartWalk, Goto, Ops
  <2>3. \A t \in Sess \ {s} : f'[t] = f[t] /\ pc'[t] = pc[t]
    BY <2>2, SafeFacts DEF LocalInv, TypeOK
  <2> QED
    BY <2>3 DEF Begin, BeginAtRoot, At, rowVars
<1>1. \A n \in Node : owner'[n] # s /\ s \notin shares'[n]
  BY <1>0, SafeFacts DEF IdleOf
<1>2. c \in Call /\ c.op \in Ops /\ c.path \in Seq(Name)
  BY CallAssumption DEF Call
<1>3. /\ f'[s].cur = Root /\ f'[s].src = None
      /\ pc'[s] \in {"idle", "walk", "cn_insert", "mk_child", "mv_topo"}
      /\ pc'[s] \in {"walk", "cn_insert", "mk_child"} => f'[s].call.op # "move_node"
  <2>1. CASE BeginAtRoot(s, c)
    BY <1>0, <2>1, SafeFacts DEF BeginAtRoot, Fresh, LocalInv, TypeOK
  <2>2. CASE Begin(s, c)
    <3> DEFINE fr == Fresh(c, "none")
    <3>1. fr \in Frame /\ fr.src = None /\ fr.call = c /\ fr.cur = Root
      BY <1>2, EmptySeq, PgAssumption DEF Fresh, Frame
    <3>2. c.path # << >> /\ Parent(c.path) \in Seq(Name) /\ << >> \in Seq(Name)
      BY <1>2, <2>2, PathParts, EmptySeq DEF Begin, RootCall
    <3>3. \/ \E path \in Seq(Name) : /\ StartWalk(s, fr, path) /\ c.op # "move_node"
                                     /\ c.op = "delete_node" => path # << >>
          \/ f' = [f EXCEPT ![s] = fr] /\ Goto(s, "mv_topo")
      BY <1>2, <2>2, <3>2 DEF Begin, Ops
    <3> HIDE DEF fr
    <3>4. ASSUME NEW path \in Seq(Name), StartWalk(s, fr, path), c.op # "move_node",
                 c.op = "delete_node" => path # << >>
          PROVE  /\ f'[s].cur = Root /\ f'[s].src = None /\ f'[s].call.op # "move_node"
                 /\ pc'[s] \in {"walk", "cn_insert", "mk_child"}
      BY <1>2, <3>1, <3>4, StartWalkLocal, SafeFacts DEF AfterWalk, Ops, LocalInv
    <3>5. ASSUME f' = [f EXCEPT ![s] = fr], Goto(s, "mv_topo")
          PROVE  f'[s].cur = Root /\ f'[s].src = None /\ pc'[s] = "mv_topo"
      BY <3>1, <3>5, SafeFacts DEF Goto, LocalInv, TypeOK
    <3> QED
      BY <3>3, <3>4, <3>5
  <2> QED
    BY <2>1, <2>2
<1>4. ResolvedOf(s)'
  <2>1. RootOK
    BY SafeFacts
  <2> QED
    BY <1>0, <1>3, <2>1, PgAssumption DEF ResolvedOf, RootOK, Seen, Op
<1> QED
  BY <1>0, <1>1, <1>3, <1>4, EmptyHanded, QuietOthers

\* A call that ends, either way, holds nothing any more.
LEMMA EndOwn ==
    ASSUME TreeSafe, NEW s \in Sess, Commit(s) \/ Abort(s)
    PROVE  SessOf(s)'
<1>1. /\ pc'[s] = "idle" /\ f'[s].cur = Root /\ f'[s].src = None
      /\ f'[s].call.op = "delete_node"
  BY SafeFacts DEF Commit, Abort, Goto, Fresh, NoCall, LocalInv, TypeOK
<1>2. \A n \in Node : owner'[n] # s /\ s \notin shares'[n]
  BY PgAssumption DEF Commit, Abort, CommitRows, RollbackRows, ReleaseRows
<1>3. (Seen(s, Root).st # "free")'
  BY <1>2, SafeFacts, PgAssumption
  DEF Commit, Abort, CommitRows, RollbackRows, Seen, RootOK
<1>4. ResolvedOf(s)'
  BY <1>1, <1>3, PgAssumption DEF ResolvedOf, Op
<1> QED
  BY <1>1, <1>2, <1>4, EmptyHanded

LEMMA AbortOthers ==
    ASSUME TreeSafe, NEW s \in Sess, Abort(s)
    PROVE  Untouched(s)
<1>1. \A t \in Sess : SharedOf(t)
  BY SafeFacts
<1>2. /\ db' = db
      /\ \A n \in Node : /\ owner'[n] = IF owner[n] = s THEN None ELSE owner[n]
                         /\ new'[n] = IF owner[n] = s THEN db[n] ELSE new[n]
                         /\ shares'[n] = shares[n] \ {s}
  BY DEF Abort, RollbackRows, ReleaseRows
<1>3. \A t \in Sess \ {s} : f'[t] = f[t] /\ pc'[t] = pc[t] /\ (topo = t => topo' = t)
  BY SafeFacts DEF Abort, Goto, LocalInv, TypeOK
<1> QED
  BY <1>1, <1>2, <1>3, PgAssumption DEF Untouched, SharedOf

-----------------------------------------------------------------------------
(* Cycles of directories *)

\* Rows whose links are links of an acyclic set of rows.
LEMMA SubAcyclic ==
    ASSUME NEW rows, NEW rows2, DirsAcyclic(rows),
           \A n \in Node \ {Root} : rows2[n].st = "live" /\ rows2[n].dir =>
               /\ rows[n].st = "live" /\ rows[n].dir
               /\ rows2[n].parent = rows[n].parent
    PROVE  DirsAcyclic(rows2)
BY DEF DirsAcyclic, LiveNodes, Uprooted

\* One more row, to which nothing refers.
LEMMA LeafAcyclic ==
    ASSUME NEW rows, NEW rows2, DirsAcyclic(rows), NEW n \in Node,
           \A m \in Node \ {n, Root} : rows2[m].st = "live" /\ rows2[m].dir =>
               /\ rows[m].st = "live" /\ rows[m].dir
               /\ rows2[m].parent = rows[m].parent,
           \A m \in Node \ {Root} : rows2[m].st = "live" => rows2[m].parent # n
    PROVE  DirsAcyclic(rows2)
<1> SUFFICES ASSUME NEW S \in SUBSET {m \in LiveNodes(rows2) : rows2[m].dir},
                    Uprooted(rows2, S)
             PROVE  FALSE
  BY DEF DirsAcyclic
<1> DEFINE T == S \ {n}
<1>1. \A m \in S : m \in Node \ {Root} /\ rows2[m].st = "live" /\ rows2[m].dir
  BY DEF LiveNodes
<1>2. \A m \in S : rows2[m].parent \in T
  BY <1>1 DEF Uprooted
<1>3. T # {}
  BY <1>2 DEF Uprooted
<1>4. \A m \in T : rows[m].st = "live" /\ rows[m].dir /\ rows[m].parent \in T
  BY <1>1, <1>2
<1>5. T \in SUBSET {m \in LiveNodes(rows) : rows[m].dir} /\ Uprooted(rows, T)
  BY <1>1, <1>3, <1>4 DEF LiveNodes, Uprooted
<1> QED
  BY <1>5 DEF DirsAcyclic

\* A row n that gets a parent in A, a set that its ancestors stay in and n is not.
LEMMA RelinkAcyclic ==
    ASSUME NEW rows, NEW rows2, DirsAcyclic(rows), NEW n \in Node, NEW A, n \notin A,
           \A m \in Node \ {n, Root} : rows2[m].st = "live" /\ rows2[m].dir =>
               /\ rows[m].st = "live" /\ rows[m].dir
               /\ rows2[m].parent = rows[m].parent,
           rows2[n].parent \in A,
           \A m \in A : rows2[m].parent \in A \cup {None}
    PROVE  DirsAcyclic(rows2)
<1> SUFFICES ASSUME NEW S \in SUBSET {m \in LiveNodes(rows2) : rows2[m].dir},
                    Uprooted(rows2, S)
             PROVE  FALSE
  BY DEF DirsAcyclic
<1>1. \A m \in S : /\ m \in Node \ {Root} /\ rows2[m].st = "live" /\ rows2[m].dir
                   /\ rows2[m].parent \in S
  BY DEF LiveNodes, Uprooted
<1>2. CASE n \notin S
  <2>1. S \in SUBSET {m \in LiveNodes(rows) : rows[m].dir} /\ Uprooted(rows, S)
    BY <1>1, <1>2 DEF LiveNodes, Uprooted
  <2> QED
    BY <2>1 DEF DirsAcyclic
<1>3. CASE n \in S
  <2> DEFINE T == S \cap A
  <2>1. rows2[n].parent \in T
    BY <1>1, <1>3
  <2>2. \A m \in T : rows[m].st = "live" /\ rows[m].dir /\ rows[m].parent \in T
    BY <1>1, PgAssumption
  <2>3. T \in SUBSET {m \in LiveNodes(rows) : rows[m].dir} /\ Uprooted(rows, T)
    BY <1>1, <2>1, <2>2 DEF LiveNodes, Uprooted
  <2> QED
    BY <2>3 DEF DirsAcyclic
<1> QED
  BY <1>2, <1>3

LEMMA RowsAt ==
    ASSUME NEW n \in Node
    PROVE  /\ Latest[n] = IF new[n].st = "live" THEN new[n] ELSE db[n]
           /\ Earliest[n] = IF db[n].st = "live" THEN db[n] ELSE new[n]
           /\ Latest'[n] = IF new'[n].st = "live" THEN new'[n] ELSE db'[n]
           /\ Earliest'[n] = IF db'[n].st = "live" THEN db'[n] ELSE new'[n]
BY DEF Latest, Earliest

Shaped == RootOK' /\ NoOrphans' /\ DirsAcyclic(Latest') /\ DirsAcyclic(Earliest')

LEMMA ShapedInv == Shaped => ShapeInv'
BY DEF Shaped, ShapeInv, DirsAcyclic, LiveNodes, Uprooted

\* Nothing refers to an id that no row has had.
LEMMA FreeUnused ==
    ASSUME TreeSafe, NEW n \in Node, new[n].st = "free", owner[n] = None, NEW m \in Node
    PROVE  /\ db[m].st = "live" => db[m].parent # n
           /\ new[m].st = "live" => new[m].parent # n
<1>1. db[n].st = "free" /\ None \notin Node
  BY RowHistory, PgAssumption
<1>2. db[m].st = "live" => db[m].parent # n
  <2>1. NoOrphans
    BY DEF TreeSafe, SafeInv, ShapeInv
  <2> QED
    BY <1>1, <2>1 DEF NoOrphans, HasParent
<1>3. ASSUME new[m].st = "live", new[m].parent = n PROVE FALSE
  <2>1. owner[m] # None
    BY <1>2, <1>3, RowHistory
  <2>2. PICK t \in Sess : t = owner[m]
    BY <2>1, RowHistory DEF TreeSafe, TreeInv, LocalInv, TypeOK, RowsTypeOK
  <2>3. CASE db[m].st = "free"
    <3>1. MadeOf(t) /\ Makes(t) /\ SharedOf(t) /\ ResolvedOf(t)
      BY <2>2, <2>3, OwnedRow, SafeFacts
    <3>2. t \in shares[n] \/ n = f[t].cur
      BY <1>3, <2>2, <3>1 DEF MadeOf
    <3>3. Seen(t, n).st = "free"
      BY <1>1, <2>2, PgAssumption DEF Seen
    <3> QED
      BY <3>1, <3>2, <3>3 DEF SharedOf, ResolvedOf, Live
  <2>4. CASE db[m].st # "free"
    <3>1. /\ db[m].st = "live" /\ new[m] # db[m]
      BY <1>2, <1>3, <2>2, <2>4, OwnedRow
    <3>2. /\ Op(t) = "move_node" /\ Done(t) /\ m = f[t].src
          /\ new[m] = [db[m] EXCEPT !.parent = f[t].cur, !.name = Base(f[t].call.dst)]
      BY <1>3, <2>2, <3>1, OwnedRow
    <3>3. MovedOf(t) /\ db[m] \in Row /\ f[t].src # None
      BY <3>2, SafeFacts, PgAssumption
    <3>4. owner[f[t].cur] = t /\ new[m].parent = f[t].cur
      BY <3>2, <3>3 DEF MovedOf, Row
    <3> QED
      BY <1>3, <2>2, <3>4, PgAssumption
  <2> QED
    BY <2>3, <2>4
<1> QED
  BY <1>2, <1>3

LEMMA QuietShaped ==
    ASSUME TreeSafe, db' = db, new' = new
    PROVE  Shaped
<1>1. RootOK /\ NoOrphans /\ DirsAcyclic(Latest) /\ DirsAcyclic(Earliest)
  BY DEF TreeSafe, SafeInv, ShapeInv
<1>2. Latest' = Latest /\ Earliest' = Earliest
  BY DEF Latest, Earliest
<1> QED
  BY <1>1, <1>2 DEF Shaped, RootOK, NoOrphans, HasParent

LEMMA InsertShaped ==
    ASSUME TreeSafe, NEW s \in Sess, NEW n \in Node, NEW p \in Node, NEW nm, NEW d,
           new[n].st = "free", owner[n] = None, p # n, db' = db,
           new' = [new EXCEPT ![n] = NodeRow(p, nm, d)]
    PROVE  Shaped
<1>1. RootOK /\ NoOrphans /\ DirsAcyclic(Latest) /\ DirsAcyclic(Earliest)
  BY DEF TreeSafe, SafeInv, ShapeInv
<1>2. /\ \A m \in Node \ {n} : new'[m] = new[m]
      /\ new'[n].st = "live" /\ new'[n].parent = p /\ db[n].st = "free"
  BY RowHistory, SafeFacts DEF NodeRow, RowsTypeOK
<1>3. \A m \in Node : /\ db[m].st = "live" => db[m].parent # n
                      /\ new[m].st = "live" => new[m].parent # n
  BY FreeUnused
<1>4. n # Root
  BY <1>1, <1>2 DEF RootOK
<1>5. DirsAcyclic(Latest')
  BY <1>1, <1>2, <1>3, RowsAt, LeafAcyclic
<1>6. DirsAcyclic(Earliest')
  BY <1>1, <1>2, <1>3, RowsAt, LeafAcyclic
<1> QED
  BY <1>1, <1>2, <1>4, <1>5, <1>6 DEF Shaped, RootOK, NoOrphans, HasParent

LEMMA KillShaped ==
    ASSUME TreeSafe, NEW n \in Node, n # Root, db[n].st = "live",
           owner[n] = None \/ new[n] = db[n], db' = db,
           \A m \in Node : new'[m] = IF m = n THEN [db[n] EXCEPT !.st = "dead"] ELSE new[m]
    PROVE  Shaped
<1>1. /\ RootOK /\ NoOrphans /\ DirsAcyclic(Latest) /\ DirsAcyclic(Earliest)
      /\ db[n] \in Row /\ new[n] = db[n]
  BY RowHistory DEF TreeSafe, SafeInv, ShapeInv, TreeInv, LocalInv, TypeOK, RowsTypeOK
<1>2. new'[n].st = "dead"
  BY <1>1 DEF Row
<1>3. \A m \in Node : Latest'[m] = Latest[m] /\ Earliest'[m] = Earliest[m]
  BY <1>1, <1>2, RowsAt
<1>4. DirsAcyclic(Latest') /\ DirsAcyclic(Earliest')
  BY <1>1, <1>3, SubAcyclic
<1> QED
  BY <1>1, <1>4, PgAssumption DEF Shaped, RootOK, NoOrphans, HasParent

LEMMA MvUpdateShaped ==
    ASSUME TreeSafe, NEW s \in Sess, MvUpdate(s)
    PROVE  Shaped
<1>n. PICK n \in Node : n = f[s].src
  BY MvHas DEF MvUpdate, At
<1>0. /\ pc[s] = "mv_update" /\ db' = db /\ owner[n] = s /\ db[n].st = "live"
      /\ topo = s /\ new[n] = db[n] /\ n # Root /\ db[n] \in Row
  BY <1>n, MvHas, MvSees, SafeFacts DEF MvUpdate, At, ResolvedOf
<1>1. RootOK /\ NoOrphans /\ DirsAcyclic(Latest) /\ DirsAcyclic(Earliest)
  BY SafeFacts
<1>2. CASE new' = new
  BY <1>0, <1>2, QuietShaped
<1>3. CASE new' # new
  <2>1. new' = [new EXCEPT ![n].parent = f[s].cur, ![n].name = Base(f[s].call.dst)]
    BY <1>n, <1>3 DEF MvUpdate
  <2>2. /\ \A m \in Node \ {n} : new'[m] = new[m]
        /\ new'[n] = [db[n] EXCEPT !.parent = f[s].cur, !.name = Base(f[s].call.dst)]
    BY <1>0, <2>1, SafeFacts DEF RowsTypeOK
  <2>3. /\ new'[n].st = "live" /\ new'[n].parent = f[s].cur /\ new'[n].dir = db[n].dir
    BY <1>0, <2>2 DEF Row
  <2>4. DirsAcyclic(Earliest')
    <3>1. \A m \in Node : Earliest'[m] = Earliest[m]
      BY <1>0, <2>2, RowsAt
    <3> QED
      BY <1>1, <3>1, SubAcyclic
  <2>5. \A m \in Node \ {n} : Latest'[m] = Latest[m]
    BY <1>0, <2>2, RowsAt
  <2>6. Latest'[n] = new'[n]
    BY <2>3, RowsAt
  <2>7. DirsAcyclic(Latest')
    <3>1. CASE ~db[n].dir
      BY <1>1, <2>3, <2>5, <2>6, <3>1, SubAcyclic
    <3>2. CASE db[n].dir
      <4>1. PICK A \in SUBSET Node : f[s].cur \in A /\ Chain(s, A, A)
        BY <1>n, <1>0, <3>2, SafeFacts DEF ClearOf
      <4>2. ASSUME NEW m \in A
            PROVE  m \in Node \ {n} /\ Latest'[m].parent \in A \cup {None}
        <5>1. m # n /\ db[m].st = "live" /\ db[m].parent \in A \cup {None}
          BY <1>n, <4>1 DEF Chain
        <5>2. new[m].st = "live" => new[m].parent = db[m].parent
          BY <1>0, <5>1, RowHistory DEF Done
        <5> QED
          BY <2>5, <5>1, <5>2, RowsAt
      <4>3. n \notin A
        BY <4>2
      <4> QED
        BY <1>1, <2>3, <2>5, <2>6, <4>1, <4>2, <4>3, RelinkAcyclic
    <3> QED
      BY <3>1, <3>2
  <2> QED
    BY <1>0, <1>1, <2>2, <2>4, <2>7, PgAssumption DEF Shaped, RootOK, NoOrphans, HasParent
<1> QED
  BY <1>2, <1>3

\* A commit takes the rows a call has changed from the latest to the committed ones;
\* a rollback takes them back.
LEMMA AbortShaped ==
    ASSUME TreeSafe, NEW s \in Sess, Abort(s)
    PROVE  Shaped
<1>0. /\ RootOK /\ NoOrphans /\ DirsAcyclic(Latest) /\ DirsAcyclic(Earliest)
  BY SafeFacts
<1>1. /\ db' = db
      /\ \A n \in Node : new'[n] = IF owner[n] = s THEN db[n] ELSE new[n]
  BY DEF Abort, RollbackRows
<1>2. \A n \in Node : Earliest'[n].st = "live" => Earliest'[n] = Earliest[n]
  BY <1>1, RowsAt
<1>3. DirsAcyclic(Earliest')
  BY <1>0, <1>2, SubAcyclic
<1>4. DirsAcyclic(Latest')
  <2>1. CASE topo = s
    <3>1. ASSUME NEW n \in Node, Latest'[n].st = "live"
          PROVE  /\ Earliest[n].st = "live" /\ Earliest[n].dir = Latest'[n].dir
                 /\ Earliest[n].parent = Latest'[n].parent
      BY <1>1, <2>1, <3>1, RowsAt, RowHistory
    <3> QED
      BY <1>0, <3>1, SubAcyclic
  <2>2. CASE topo # s
    <3>1. ASSUME NEW n \in Node, Latest'[n].st = "live"
          PROVE  /\ Latest[n].st = "live" /\ Latest[n].dir = Latest'[n].dir
                 /\ Latest[n].parent = Latest'[n].parent
      BY <1>1, <2>2, <3>1, RowsAt, RowHistory
    <3> QED
      BY <1>0, <3>1, SubAcyclic
  <2> QED
    BY <2>1, <2>2
<1>5. RootOK'
  BY <1>0, <1>1, PgAssumption DEF RootOK
<1> QED
  BY <1>0, <1>1, <1>3, <1>4, <1>5 DEF Shaped, NoOrphans, HasParent

LEMMA CommitShaped ==
    ASSUME TreeSafe, NEW s \in Sess, Commit(s)
    PROVE  Shaped
<1>0. /\ RootOK /\ NoOrphans /\ DirsAcyclic(Latest) /\ DirsAcyclic(Earliest)
      /\ MadeOf(s) /\ SharedOf(s) /\ MovedOf(s)
  BY SafeFacts
<1>1. /\ pc[s] = "commit" /\ new' = new
      /\ \A n \in Node : db'[n] = IF owner[n] = s THEN new[n] ELSE db[n]
  BY CommitRowFacts
<1>2. DirsAcyclic(Latest')
  <2>1. ASSUME NEW n \in Node, Latest'[n].st = "live"
        PROVE  Latest'[n] = Latest[n]
    BY <1>1, <2>1, RowsAt
  <2> QED
    BY <1>0, <2>1, SubAcyclic
<1>3. DirsAcyclic(Earliest')
  <2>1. CASE topo = s
    <3>1. ASSUME NEW n \in Node, Earliest'[n].st = "live"
          PROVE  /\ Latest[n].st = "live" /\ Latest[n].dir = Earliest'[n].dir
                 /\ Latest[n].parent = Earliest'[n].parent
      BY <1>1, <2>1, <3>1, RowsAt, RowHistory
    <3> QED
      BY <1>0, <3>1, SubAcyclic
  <2>2. CASE topo # s
    <3>1. ASSUME NEW n \in Node, Earliest'[n].st = "live"
          PROVE  /\ Earliest[n].st = "live" /\ Earliest[n].dir = Earliest'[n].dir
                 /\ Earliest[n].parent = Earliest'[n].parent
      BY <1>1, <2>2, <3>1, RowsAt, RowHistory
    <3> QED
      BY <1>0, <3>1, SubAcyclic
  <2> QED
    BY <2>1, <2>2
<1>4. RootOK'
  BY <1>0, <1>1, PgAssumption DEF RootOK
<1>5. ASSUME NEW n \in Node, db'[n].st = "live", n # Root
      PROVE  db'[n].parent \in Node /\ db'[db'[n].parent].st = "live"
  <2>1. CASE db[n].st = "live" /\ db'[n].parent = db[n].parent
    <3>1. PICK p \in Node : p = db[n].parent /\ db[p].st = "live"
      BY <1>0, <1>5, <2>1 DEF NoOrphans, HasParent
    <3>2. ~Killed(s, n)
      BY <1>1, <1>5 DEF Killed
    <3>3. ~Killed(s, p)
      BY <1>1, <2>1, <3>1, <3>2, NoChildLeft
    <3>4. db'[p].st = "live"
      BY <1>1, <3>1, <3>3, RowHistory DEF Killed
    <3> QED
      BY <2>1, <3>1, <3>4
  <2>2. CASE db[n].st # "live"
    <3>1. owner[n] = s /\ db[n].st = "free" /\ Makes(s)
      BY <1>1, <1>5, <2>2, OwnedRow
    <3>2. PICK p \in Node : p = db'[n].parent /\ s \in shares[p]
      BY <1>0, <1>1, <3>1 DEF MadeOf
    <3>3. db'[p].st = "live"
      BY <1>0, <1>1, <3>2, PgAssumption DEF SharedOf, Live, Seen
    <3> QED
      BY <3>2, <3>3
  <2>3. CASE db[n].st = "live" /\ db'[n].parent # db[n].parent
    <3>1. /\ owner[n] = s /\ db'[n] = new[n] /\ new[n] # db[n]
      BY <1>1, <2>3
    <3>2. /\ Op(s) = "move_node" /\ Done(s) /\ n = f[s].src
          /\ new[n] = [db[n] EXCEPT !.parent = f[s].cur, !.name = Base(f[s].call.dst)]
      BY <1>5, <2>3, <3>1, OwnedRow
    <3>3. /\ f[s].src # None /\ f[s].cur \in Node /\ db[n] \in Row /\ f[s].cur # n
      BY <3>2, SafeFacts, PgAssumption DEF ClearOf
    <3>4. owner[f[s].cur] = s /\ new[n].parent = f[s].cur
      BY <1>0, <3>2, <3>3 DEF MovedOf, Row
    <3>5. new[f[s].cur].st = "live"
      BY <1>0, <3>2, <3>3, <3>4 DEF MovedOf
    <3> QED
      BY <1>1, <3>1, <3>3, <3>4, <3>5
  <2> QED
    BY <2>1, <2>2, <2>3
<1>6. NoOrphans'
  BY <1>4, <1>5 DEF NoOrphans, HasParent, RootOK
<1> QED
  BY <1>2, <1>3, <1>4, <1>6 DEF Shaped

-----------------------------------------------------------------------------
(* The invariant *)

LEMMA SafeStep ==
    ASSUME TreeSafe, NEW s \in Sess, Step(s)
    PROVE  SessOf(s)' /\ (Untouched(s) \/ Commit(s)) /\ Shaped
<1>1. CASE \/ Walk(s) \/ DelCheck(s) \/ MvTopo(s) \/ MvCheck(s) \/ MvWithin(s)
           \/ MkChild(s) \/ MkAgain(s)
  <2>1. db' = db /\ new' = new
    BY <1>1 DEF Walk, DelCheck, MvTopo, MvCheck, MvWithin, MkChild, MkAgain, rowVars
  <2> QED
    BY <1>1, <2>1, WalkOwn, DelCheckOwn, MvTopoOwn, MvCheckOwn, MvWithinOwn, MkReadOwn,
       QuietShaped
<1>2. CASE DelLock(s) \/ MvLockSrc(s) \/ MvLockDst(s)
  <2>1. db' = db /\ new' = new
    BY <1>2 DEF DelLock, MvLockSrc, MvLockDst
  <2> QED
    BY <1>2, <2>1, DelLockOwn, MvLockOwn, QuietShaped
<1>3. CASE FkCheck(s)
  <2>1. CASE Abort(s)
    BY <2>1, EndOwn, AbortOthers, AbortShaped
  <2>2. CASE ~Abort(s)
    <3>1. db' = db /\ new' = new
      BY <1>3, <2>2 DEF FkCheck
    <3> QED
      BY <1>3, <2>2, <3>1, FkOwn, QuietShaped
  <2> QED
    BY <2>1, <2>2
<1>4. CASE CreateInsert(s) \/ MkInsert(s)
  <2>1. SessOf(s)' /\ Untouched(s)
    BY <1>4, CreateInsertOwn, MkInsertOwn
  <2>2. \/ db' = db /\ new' = new
        \/ \E nm, d : /\ FreeIds # {} /\ db' = db
                      /\ InsertRow(s, FreshId, NodeRow(f[s].cur, nm, d))
    BY <1>4 DEF CreateInsert, MkInsert, rowVars
  <2>3. CASE db' = db /\ new' = new
    BY <2>1, <2>3, QuietShaped
  <2>4. CASE ~(db' = db /\ new' = new)
    <3>1. PICK nm, d : /\ FreeIds # {} /\ db' = db
                       /\ InsertRow(s, FreshId, NodeRow(f[s].cur, nm, d))
      BY <2>2, <2>4
    <3>2. PICK n \in Node : n = FreshId /\ new[n].st = "free" /\ owner[n] = None
      BY <3>1, FreshIdFree
    <3>3. f[s].cur \in Node /\ f[s].cur # n
      BY <3>2, SafeFacts, PgAssumption DEF ResolvedOf, Seen, Settled
    <3>4. new' = [new EXCEPT ![n] = NodeRow(f[s].cur, nm, d)]
      BY <3>1, <3>2 DEF InsertRow
    <3> QED
      BY <2>1, <3>1, <3>2, <3>3, <3>4, InsertShaped
  <2> QED
    BY <2>3, <2>4
<1>5. CASE DelRow(s)
  <2>1. PICK n \in Node : n = f[s].cur
    BY SafeFacts
  <2>2. /\ pc[s] = "del_row" /\ db' = db /\ new' = [new EXCEPT ![n].st = "dead"]
    BY <1>5, <2>1 DEF DelRow, At
  <2>3. owner[n] = s /\ n # Root /\ new[n] = db[n] /\ db[n].st = "live"
    BY <2>1, <2>2, SafeFacts, DelSees DEF HeldOf, ResolvedOf
  <2>4. \A m \in Node : new'[m] = IF m = n THEN [db[n] EXCEPT !.st = "dead"] ELSE new[m]
    BY <2>2, <2>3, SafeFacts DEF RowsTypeOK
  <2> QED
    BY <1>5, <2>2, <2>3, <2>4, DelRowOwn, KillShaped
<1>6. CASE Cascade(s)
  <2>1. SessOf(s)' /\ Untouched(s)
    BY <1>6, CascadeOwn
  <2>2. CASE Orphans(s) = {}
    <3>1. db' = db /\ new' = new
      BY <1>6, <2>2 DEF Cascade, rowVars
    <3> QED
      BY <2>1, <3>1, QuietShaped
  <2>3. CASE Orphans(s) # {}
    <3>1. PICK n \in Orphans(s) :
              /\ LockWaits(s, n) = {} /\ Lock(s, n) /\ db' = db
              /\ new' = [new EXCEPT ![n] = [db[n] EXCEPT !.st = "dead"]]
      BY <1>6, <2>3 DEF Cascade
    <3>2. n \in Node /\ Live(s, n) /\ Seen(s, n).parent \in Node
      BY DEF Orphans
    <3>3. owner[n] \in {s, None}
      BY <3>1, <3>2, SafeFacts, LockFacts
    <3>4. pc[s] = "cascade" /\ Op(s) = "delete_node" /\ DeletedOf(s)
      BY <1>6, SafeFacts DEF Cascade, At, PcOf, LabelOK, Op
    <3>5. db[n].st = "live" /\ (owner[n] = None \/ new[n] = db[n])
      <4>1. CASE owner[n] = None
        BY <3>2, <4>1, PgAssumption DEF Live, Seen
      <4>2. CASE owner[n] = s
        <5>1. db[n].st = "live" /\ new[n].st = "live"
          BY <3>2, <3>4, <4>2 DEF Live, Seen, DeletedOf
        <5> QED
          BY <3>2, <3>4, <4>2, <5>1, OwnedRow
      <4> QED
        BY <3>3, <4>1, <4>2
    <3>6. n # Root
      BY <3>2, SafeFacts, PgAssumption DEF RootOK, Seen
    <3>7. \A m \in Node : new'[m] = IF m = n THEN [db[n] EXCEPT !.st = "dead"] ELSE new[m]
      BY <3>1, <3>2, SafeFacts DEF RowsTypeOK
    <3> QED
      BY <2>1, <3>1, <3>2, <3>5, <3>6, <3>7, KillShaped
  <2> QED
    BY <2>2, <2>3
<1>7. CASE MvUpdate(s)
  BY <1>7, MvUpdateOwn, MvUpdateShaped
<1>8. CASE Commit(s)
  BY <1>8, EndOwn, CommitShaped
<1> QED
  BY <1>1, <1>2, <1>3, <1>4, <1>5, <1>6, <1>7, <1>8 DEF Step

LEMMA SafeAll ==
    ASSUME TreeSafe, NEW s \in Sess, SessOf(s)', Untouched(s) \/ Commit(s), Shaped
    PROVE  SafeInv'
<1>1. ASSUME NEW t \in Sess PROVE SessOf(t)'
  <2>1. CASE t = s
    BY <2>1
  <2>2. CASE t # s
    BY <2>2, OthersKept, CommitOthers
  <2> QED
    BY <2>1, <2>2
<1> QED
  BY <1>1, ShapedInv DEF SafeInv

LEMMA SafeInit == Init => TreeSafe
<1> SUFFICES ASSUME Init PROVE SafeInv
  BY TreeInit DEF TreeSafe
<1>1. /\ db = Tree0 /\ new = Tree0 /\ topo = None
      /\ \A n \in Node : owner[n] = None /\ shares[n] = {}
      /\ \A s \in Sess : pc[s] = "idle" /\ f[s] = Fresh(NoCall, "none")
      /\ WellFormed(Tree0)
  BY TreeAssumption DEF Init
<1>2. RootOK
  BY <1>1, PgAssumption DEF WellFormed, HasParent, RootOK
<1>3. NoOrphans
  BY <1>1 DEF WellFormed, NoOrphans
<1>4. DirsAcyclic(Latest) /\ DirsAcyclic(Earliest)
  BY <1>1, RowsAt, SubAcyclic DEF WellFormed
<1>5. ASSUME NEW s \in Sess PROVE SessOf(s)
  <2>1. /\ f[s].cur = Root /\ f[s].src = None /\ Op(s) = "delete_node"
        /\ ~Done(s) /\ ~Makes(s)
    BY <1>1 DEF Fresh, NoCall, Op, Done, Makes
  <2>2. IdleOf(s) /\ SharedOf(s) /\ MadeOf(s) /\ MovedOf(s) /\ ClearOf(s)
    BY <1>1, <2>1, PgAssumption DEF IdleOf, SharedOf, MadeOf, MovedOf, ClearOf
  <2>3. DeletedOf(s)
    BY <1>1, <2>1, PgAssumption DEF DeletedOf, Killed
  <2>4. ResolvedOf(s)
    BY <1>1, <1>2, <2>1, PgAssumption DEF ResolvedOf, Seen, RootOK
  <2> QED
    BY <2>2, <2>3, <2>4 DEF SessOf
<1> QED
  BY <1>2, <1>3, <1>4, <1>5 DEF SafeInv, ShapeInv

LEMMA SafeNext == TreeSafe /\ [Next]_vars => TreeSafe'
<1> SUFFICES ASSUME TreeSafe, [Next]_vars PROVE SafeInv'
  BY TreeNext DEF TreeSafe
<1>1. CASE UNCHANGED vars
  <2>1. ShapeInv'
    BY <1>1, QuietShaped, ShapedInv DEF vars
  <2>2. ASSUME NEW s \in Sess PROVE SessOf(s)'
    <3>1. \A n \in Node : s \in shares[n] => owner[n] \in {s, None}
      BY SafeFacts DEF SharedOf
    <3>2. Kept(s)
      BY <1>1, <3>1 DEF vars, rowVars, Kept
    <3> QED
      BY <3>2, SessKept
  <2> QED
    BY <2>1, <2>2 DEF SafeInv
<1>2. ASSUME NEW s \in Sess, Step(s) PROVE SafeInv'
  BY <1>2, SafeStep, SafeAll
<1>3. ASSUME NEW s \in Sess, NEW c \in Calls, Begin(s, c) \/ BeginAtRoot(s, c)
      PROVE  SafeInv'
  <2>1. db' = db /\ new' = new
    BY <1>3 DEF Begin, BeginAtRoot, rowVars
  <2> QED
    BY <1>3, <2>1, BeginOwn, QuietShaped, SafeAll
<1>4. ASSUME NEW s \in Sess, Fail(s) \/ DeadlockVictim(s) PROVE SafeInv'
  <2>1. Abort(s)
    BY <1>4 DEF Fail, DeadlockVictim
  <2> QED
    BY <2>1, EndOwn, AbortOthers, AbortShaped, SafeAll
<1> QED
  BY <1>1, <1>2, <1>3, <1>4 DEF Next, Finished

\* In every reachable state each call's reads, locks and changes are as the invariant
\* says, and the rows form a tree whichever of the open transactions commit.
THEOREM TreeStaysSafe == Spec => []TreeSafe
BY SafeInit, SafeNext, PTL DEF Spec

\* Whatever calls race, and whichever of them fail, no commit leaves a row without a
\* parent: no creation or move ends below a directory that a delete_node removes.
THEOREM OrphanFree == Spec => []NoOrphans
<1>1. TreeSafe => NoOrphans
  BY DEF TreeSafe, SafeInv, ShapeInv
<1> QED
  BY <1>1, TreeStaysSafe, PTL

\* Concurrent moves never commit directories into one another.
THEOREM DirCycleFree == Spec => []NoDirCycles
<1>1. ASSUME TreeSafe PROVE NoDirCycles
  <2>1. DirsAcyclic(Earliest)
    BY <1>1 DEF TreeSafe, SafeInv, ShapeInv
  <2> QED
    BY <2>1, RowsAt, SubAcyclic DEF NoDirCycles
<1> QED
  BY <1>1, TreeStaysSafe, PTL

\* A committed cycle runs through a file with a directory below it: as long as only
\* directories have children, the whole committed tree is acyclic.
THEOREM CyclesNeedFiles == Spec => [](ParentsAreDirs => NoCycles)
<1>1. ASSUME TreeSafe, ParentsAreDirs, NEW S \in SUBSET LiveNodes(db), Uprooted(db, S)
      PROVE  FALSE
  <2> DEFINE D == {n \in S : db[n].dir}
  <2>1. \A n \in S : db[n].parent \in D
    BY <1>1 DEF ParentsAreDirs, ParentIsDir, LiveNodes, Uprooted
  <2>2. D \in SUBSET {n \in LiveNodes(db) : db[n].dir} /\ Uprooted(db, D)
    BY <1>1, <2>1 DEF Uprooted
  <2>3. DirsAcyclic(db)
    BY <1>1, RowsAt, SubAcyclic DEF TreeSafe, SafeInv, ShapeInv
  <2> QED
    BY <2>2, <2>3 DEF DirsAcyclic
<1>2. TreeSafe => (ParentsAreDirs => NoCycles)
  BY <1>1 DEF NoCycles, Acyclic
<1> QED
  BY <1>2, TreeStaysSafe, PTL

-----------------------------------------------------------------------------
(* Only a commit changes the committed rows *)

LEMMA OnlyCommits ==
    ASSUME TreeSafe, [Next]_vars, ~\E s \in Sess : Commit(s)
    PROVE  db' = db
<1>1. CASE UNCHANGED vars
  BY <1>1 DEF vars
<1>2. ASSUME NEW s \in Sess, Step(s) PROVE db' = db
  BY <1>2, SafeStep DEF Untouched
<1>3. ASSUME NEW s \in Sess, NEW c \in Calls, Begin(s, c) \/ BeginAtRoot(s, c)
      PROVE  db' = db
  BY <1>3, BeginOwn DEF Untouched
<1>4. ASSUME NEW s \in Sess, Fail(s) \/ DeadlockVictim(s) PROVE db' = db
  BY <1>4, AbortOthers DEF Fail, DeadlockVictim, Untouched
<1> QED
  BY <1>1, <1>2, <1>3, <1>4 DEF Next, Finished

\* A call that returns False has changed none of its rows, create_directory excepted.
LEMMA FalseKeeps ==
    ASSUME TreeSafe, NEW s \in Sess, pc[s] = "commit", ~Done(s), Op(s) # "create_directory",
           NEW n \in Node, owner[n] = s
    PROVE  new[n] = db[n]
<1>1. MadeOf(s) /\ DeletedOf(s) /\ MovedOf(s) /\ Op(s) \in Ops
  BY SafeFacts
<1>2. CASE Op(s) = "create_node"
  BY <1>1, <1>2 DEF MadeOf, Makes
<1>3. CASE Op(s) = "delete_node"
  BY <1>1, <1>3, OwnedRow DEF DeletedOf, Killed
<1>4. CASE Op(s) = "move_node"
  BY <1>1, <1>4 DEF MovedOf
<1> QED
  BY <1>1, <1>2, <1>3, <1>4 DEF Ops

LEMMA FalseStep ==
    ASSUME TreeSafe, [Next]_vars, NEW s \in Sess, pc[s] = "commit", pc'[s] = "idle",
           f[s].out = "false", Op(s) # "create_directory"
    PROVE  db' = db
<1>1. CASE Commit(s)
  <2>1. \A n \in Node : db'[n] = db[n]
    BY <1>1, CommitRowFacts, FalseKeeps DEF Done
  <2>2. db' = [n \in Node |-> db'[n]] /\ db = [n \in Node |-> db[n]]
    BY <1>1, SafeFacts DEF Commit, CommitRows, RowsTypeOK
  <2> QED
    BY <2>1, <2>2
<1>2. CASE ~Commit(s)
  <2>1. ~\E t \in Sess : Commit(t)
    BY <1>2, CommitRowFacts
  <2> QED
    BY <2>1, OnlyCommits
<1> QED
  BY <1>1, <1>2

\* A create_node, delete_node or move_node that returns False has changed nothing.
THEOREM FalseChangesNothing == Spec => FalseHasNoEffect
<1>1. TreeSafe /\ [Next]_vars =>
        [\A s \in Sess : /\ At(s, "commit") /\ pc'[s] = "idle" /\ f[s].out = "false"
                         /\ f[s].call.op # "create_directory"
                        => db' = db]_vars
  BY FalseStep DEF At, Op
<1> QED
  BY <1>1, TreeStaysSafe, PTL DEF Spec, FalseHasNoEffect

LEMMA DeathStep ==
    ASSUME TreeSafe, [Next]_vars, NEW n \in Node, NEW m \in Node,
           db[n].st = "live", db[n].dir, db'[n].st = "dead", m # n,
           db'[db[n].parent].st # "dead"
    PROVE  /\ ~(db[m].st = "live" /\ db[m].parent = n)
           /\ ~(db'[m].st = "live" /\ db'[m].parent = n)
<1>1. PICK s \in Sess : Commit(s)
  BY OnlyCommits
<1>2. /\ pc[s] = "commit"
      /\ \A k \in Node : db'[k] = IF owner[k] = s THEN new[k] ELSE db[k]
  BY <1>1, CommitRowFacts
<1>3. Killed(s, n) /\ Op(s) = "delete_node" /\ DeletedOf(s)
  BY <1>2, OwnedRow, SafeFacts DEF Killed
<1>4. Emptied(s) /\ n # Root
  BY <1>3 DEF DeletedOf, Killed
<1>5. db[n].parent \in Node
  BY <1>4, SafeFacts DEF NoOrphans, HasParent
<1>6. n = f[s].cur
  BY <1>2, <1>3, <1>4, <1>5 DEF Emptied, Killed
<1>7. Childless(n)
  BY <1>4, <1>6 DEF Emptied
<1>8. db'[m].st = "live" => db'[m] = db[m]
  <2>1. CASE owner[m] = s
    <3>1. new[m] = db[m] \/ new[m] = [db[m] EXCEPT !.st = "dead"]
      BY <1>3, <2>1 DEF DeletedOf
    <3>2. db'[m] = new[m] /\ db[m] \in Row
      BY <1>2, <2>1, CallFacts DEF TreeSafe, TreeInv, RowsTypeOK
    <3> QED
      BY <3>1, <3>2 DEF Row
  <2>2. CASE owner[m] # s
    BY <1>2, <2>2
  <2> QED
    BY <2>1, <2>2
<1> QED
  BY <1>7, <1>8 DEF Childless

\* delete_node removes a directory only when it is empty, also when a creation or a
\* move into it races with the emptiness check.
THEOREM DeletedWhenEmpty == Spec => DirsDieEmpty
<1>1. TreeSafe /\ [Next]_vars =>
        [\A n, m \in Node :
          /\ db[n].st = "live" /\ db[n].dir /\ db'[n].st = "dead" /\ m # n
          /\ db'[db[n].parent].st # "dead"
          => /\ ~(db[m].st = "live" /\ db[m].parent = n)
             /\ ~(db'[m].st = "live" /\ db'[m].parent = n)]_vars
  BY DeathStep
<1> QED
  BY <1>1, TreeStaysSafe, PTL DEF Spec, DirsDieEmpty

-----------------------------------------------------------------------------
(* Every call is one step of AbstractTree *)

\* A call that is about to commit has its answer.
Answered == \A s \in Sess : pc[s] = "commit" => f[s].out \in {"true", "false"}

RefInv == TreeSafe /\ Answered

\* What a statement other than a commit and a rollback changes of what callers see.
Silent(s) ==
    /\ pc[s] # "idle" /\ pc'[s] # "idle"
    /\ f'[s].call = f[s].call
    /\ pc'[s] = "commit" => f'[s].out \in {"true", "false"}

LEMMA ReturnSilent ==
    ASSUME LocalInv, NEW s \in Sess, NEW ok, pc[s] # "idle", Return(s, ok)
    PROVE  Silent(s)
BY CallFacts DEF Return, Goto, LocalInv, TypeOK, Frame, Silent

LEMMA WalkSilent ==
    ASSUME LocalInv, NEW s \in Sess, NEW fr \in Frame, NEW path \in Seq(Name), pc[s] # "idle",
           StartWalk(s, fr, path), fr.call = f[s].call
    PROVE  Silent(s)
BY StartWalkLocal DEF LocalInv, Silent

LEMMA PrefixPath ==
    ASSUME NEW path \in Seq(Name), NEW k \in Nat, k <= Len(path)
    PROVE  SubSeq(path, 1, k) \in Seq(Name)
<1>1. \A i \in 1 .. k : path[i] \in Name
  BY ElementOfSeq
<1> QED
  BY <1>1, SubSeqProperties

LEMMA NextPartSilent ==
    ASSUME LocalInv, NEW s \in Sess, pc[s] \notin {"idle", "commit"},
           Op(s) = "create_directory", NextPart(s)
    PROVE  Silent(s)
<1> DEFINE k == f[s].k + 1
           path == f[s].call.path
<1>1. CASE Return(s, TRUE)
  BY <1>1, ReturnSilent
<1>2. CASE ~Return(s, TRUE)
  <2>1. StartWalk(s, [f[s] EXCEPT !.k = k], SubSeq(path, 1, k))
    BY <1>2 DEF NextPart
  <2>2. /\ path \in Seq(Name) /\ f[s].k \in Nat /\ f[s].k < Len(path) /\ f[s] \in Frame
        /\ Len(path) \in Nat
    BY CallFacts DEF PcOf, Op
  <2>3. SubSeq(path, 1, k) \in Seq(Name)
    <3>1. path \in Seq(Name) /\ k \in Nat /\ k <= Len(path)
      BY <2>2
    <3> HIDE DEF path, k
    <3> QED
      BY <3>1, PrefixPath
  <2>4. [f[s] EXCEPT !.k = k] \in Frame /\ [f[s] EXCEPT !.k = k].call = f[s].call
    <3>1. k \in Nat /\ f[s] \in Frame
      BY <2>2
    <3> HIDE DEF path, k
    <3> QED
      BY ONLY <3>1 DEF Frame
  <2> QED
    BY <2>1, <2>3, <2>4, WalkSilent
<1> QED
  BY <1>1, <1>2

LEMMA GotoSilent ==
    ASSUME LocalInv, NEW s \in Sess, NEW label \in Labels \ {"idle", "commit"}, pc[s] # "idle",
           Goto(s, label), f'[s].call = f[s].call
    PROVE  Silent(s)
BY DEF Goto, LocalInv, TypeOK, Silent

LEMMA StepSilent ==
    ASSUME TreeSafe, NEW s \in Sess, Step(s), ~Commit(s), ~Abort(s)
    PROVE  Silent(s)
<1>0. /\ LocalInv /\ f \in [Sess -> Frame] /\ f[s] \in Frame /\ Op(s) \in Ops
      /\ f[s].call.path \in Seq(Name) /\ f[s].call.dst \in Seq(Name)
      /\ PcOf(s)
  BY SafeFacts, CallFacts DEF LocalInv, TypeOK
<1>1. CASE Walk(s)
  <2>1. pc[s] = "walk"
    BY <1>1 DEF Walk, At
  <2>2. CASE Return(s, FALSE)
    BY <1>0, <2>1, <2>2, ReturnSilent
  <2>3. CASE ~Return(s, FALSE)
    <3> DEFINE c == Child(s, f[s].cur, Head(f[s].rest))
               label == IF Tail(f[s].rest) = << >> THEN AfterWalk(f[s]) ELSE "walk"
    <3>1. f' = [f EXCEPT ![s].cur = c, ![s].rest = Tail(@)] /\ Goto(s, label)
      BY <1>1, <2>3 DEF Walk
    <3>2. label \in Labels \ {"idle", "commit"}
      BY <1>0 DEF AfterWalk, Labels, Op, Ops
    <3>3. f'[s].call = f[s].call
      BY <1>0, <3>1 DEF Frame
    <3> HIDE DEF label
    <3> QED
      BY <1>0, <2>1, <3>1, <3>2, <3>3, GotoSilent
  <2> QED
    BY <2>2, <2>3
<1>2. CASE FkCheck(s)
  <2>1. pc[s] = "fk" /\ Op(s) \in {"create_node", "create_directory"}
    BY <1>0, <1>2 DEF FkCheck, At, PcOf, LabelOK, Op
  <2>2. Return(s, TRUE) \/ (Op(s) = "create_directory" /\ NextPart(s))
    BY <1>2, <2>1 DEF FkCheck, Op
  <2> QED
    BY <1>0, <2>1, <2>2, ReturnSilent, NextPartSilent
<1>3. CASE \/ CreateInsert(s) \/ DelLock(s) \/ DelCheck(s) \/ DelRow(s) \/ Cascade(s)
           \/ MvLockDst(s) \/ MvCheck(s) \/ MvWithin(s) \/ MvUpdate(s) \/ MkInsert(s)
  <2>1. pc[s] # "idle"
    BY <1>3 DEF CreateInsert, DelLock, DelCheck, DelRow, Cascade, MvLockDst, MvCheck,
       MvWithin, MvUpdate, MkInsert, At
  <2>2. \/ \E ok : Return(s, ok)
        \/ f' = f /\ pc' = pc
        \/ /\ \E label \in Labels \ {"idle", "commit"} : Goto(s, label)
           /\ f' = f \/ \E up : f' = [f EXCEPT ![s].up = up]
    <3>1. CASE CreateInsert(s)
      BY <3>1 DEF CreateInsert, Labels
    <3>2. CASE DelLock(s)
      BY <3>2 DEF DelLock, Labels
    <3>3. CASE DelCheck(s) \/ DelRow(s)
      BY <3>3 DEF DelCheck, DelRow, Labels
    <3>4. CASE Cascade(s)
      BY <3>4 DEF Cascade, Labels
    <3>5. CASE MvLockDst(s)
      BY <3>5 DEF MvLockDst, Labels
    <3>6. CASE MvCheck(s)
      BY <3>6 DEF MvCheck, Labels
    <3>7. CASE MvWithin(s)
      BY <3>7 DEF MvWithin, Labels
    <3>8. CASE MvUpdate(s)
      BY <3>8 DEF MvUpdate, Labels
    <3>9. CASE MkInsert(s)
      BY <3>9 DEF MkInsert, Labels
    <3> QED
      BY <1>3, <3>1, <3>2, <3>3, <3>4, <3>5, <3>6, <3>7, <3>8, <3>9
  <2>3. pc[s] # "commit"
    BY <1>3 DEF CreateInsert, DelLock, DelCheck, DelRow, Cascade, MvLockDst, MvCheck,
       MvWithin, MvUpdate, MkInsert, At
  <2>4. (f' = f \/ \E up : f' = [f EXCEPT ![s].up = up]) => f'[s].call = f[s].call
    BY <1>0 DEF Frame
  <2> QED
    BY <1>0, <2>1, <2>2, <2>3, <2>4, ReturnSilent, GotoSilent DEF Silent
<1>4. CASE MvTopo(s)
  BY <1>0, <1>4, WalkSilent DEF MvTopo, At
<1>5. CASE MvLockSrc(s)
  <2>1. pc[s] = "mv_lock_src" /\ f[s].cur \in Node /\ f[s].call.dst # << >>
    BY <1>0, <1>5, SafeFacts DEF MvLockSrc, At, PcOf, LabelOK, RootCall
  <2>2. /\ [f[s] EXCEPT !.src = f[s].cur] \in Frame
        /\ [f[s] EXCEPT !.src = f[s].cur].call = f[s].call
    BY <1>0, <2>1 DEF Frame
  <2>3. Parent(f[s].call.dst) \in Seq(Name)
    BY <1>0, <2>1, PathParts
  <2>4. \/ \E ok : Return(s, ok)
        \/ StartWalk(s, [f[s] EXCEPT !.src = f[s].cur], Parent(f[s].call.dst))
    BY <1>5 DEF MvLockSrc
  <2> QED
    BY <1>0, <2>1, <2>2, <2>3, <2>4, ReturnSilent, WalkSilent
<1>6. CASE MkChild(s) \/ MkAgain(s)
  <2>1. pc[s] \in {"mk_child", "mk_again"} /\ Op(s) = "create_directory"
    BY <1>0, <1>6 DEF MkChild, MkAgain, At, PcOf, LabelOK, Op
  <2>2. \/ \E ok : Return(s, ok)
        \/ NextPart(s)
        \/ Goto(s, "mk_insert") /\ f' = f
    BY <1>6 DEF MkChild, MkAgain
  <2> QED
    BY <1>0, <2>1, <2>2, ReturnSilent, NextPartSilent, GotoSilent DEF Labels
<1> QED
  BY <1>1, <1>2, <1>3, <1>4, <1>5, <1>6 DEF Step

Begun(s, c) == /\ f'[s].call = c /\ pc'[s] \notin {"idle", "commit"}

LEMMA BegunFacts ==
    ASSUME TreeSafe, NEW s \in Sess, NEW c \in Calls
    PROVE  /\ Begin(s, c) => Begun(s, c)
           /\ BeginAtRoot(s, c) => pc'[s] = "idle"
<1>1. c \in Call /\ LocalInv
  BY CallAssumption, SafeFacts
<1>2. ASSUME BeginAtRoot(s, c) PROVE pc'[s] = "idle"
  BY <1>2 DEF BeginAtRoot, At
<1>3. ASSUME Begin(s, c) PROVE Begun(s, c)
  <2>1. Fresh(c, "none") \in Frame /\ Fresh(c, "none").call = c /\ c.op \in Ops
    BY <1>1, EmptySeq, PgAssumption DEF Fresh, Frame, Call
  <2>2. c.path \in Seq(Name) /\ (c.op = "create_node" => Parent(c.path) \in Seq(Name))
    BY <1>1, <1>3, PathParts DEF Begin, RootCall, Call
  <2>3. CASE c.op = "move_node"
    BY <1>1, <1>3, <2>1, <2>3 DEF Begin, Goto, Begun, LocalInv, TypeOK
  <2>4. CASE c.op # "move_node"
    <3>1. \E path \in Seq(Name) : StartWalk(s, Fresh(c, "none"), path)
      BY <1>3, <2>1, <2>2, <2>4, EmptySeq DEF Begin, Ops
    <3> QED
      BY <1>1, <2>1, <3>1, StartWalkLocal DEF LocalInv, Begun
  <2> QED
    BY <2>3, <2>4
<1> QED
  BY <1>2, <1>3

LEMMA AnsweredNext == RefInv /\ [Next]_vars => RefInv'
<1> SUFFICES ASSUME RefInv, [Next]_vars PROVE Answered'
  BY SafeNext DEF RefInv
<1>0. TreeSafe /\ Answered
  BY DEF RefInv
<1>1. CASE UNCHANGED vars
  BY <1>0, <1>1 DEF vars, Answered
<1>2. ASSUME NEW s \in Sess, Untouched(s), pc'[s] = "commit" => f'[s].out \in {"true", "false"}
      PROVE  Answered'
  BY <1>0, <1>2 DEF Answered, Untouched
<1>3. ASSUME NEW s \in Sess, Abort(s) PROVE Answered'
  <2>1. pc'[s] = "idle"
    BY <1>0, <1>3, SafeFacts DEF Abort, Goto, LocalInv, TypeOK
  <2> QED
    BY <1>0, <1>2, <1>3, <2>1, AbortOthers
<1>4. ASSUME NEW s \in Sess, Commit(s) PROVE Answered'
  BY <1>0, <1>4, CommitRowFacts DEF Answered
<1>5. ASSUME NEW s \in Sess, Step(s) PROVE Answered'
  BY <1>0, <1>2, <1>3, <1>4, <1>5, SafeStep, StepSilent DEF Silent
<1>6. ASSUME NEW s \in Sess, NEW c \in Calls, Begin(s, c) \/ BeginAtRoot(s, c)
      PROVE  Answered'
  BY <1>0, <1>2, <1>6, BeginOwn, BegunFacts DEF Begun
<1>7. ASSUME NEW s \in Sess, Fail(s) \/ DeadlockVictim(s) PROVE Answered'
  BY <1>3, <1>7 DEF Fail, DeadlockVictim
<1> QED
  BY <1>1, <1>5, <1>6, <1>7 DEF Next, Finished

LEMMA RefInvariant == Spec => []RefInv
<1>1. Init => RefInv
  BY SafeInit DEF Init, RefInv, Answered
<1> QED
  BY <1>1, AnsweredNext, PTL DEF Spec

-----------------------------------------------------------------------------
(* Beginning and ending a call *)

LEMMA AbsBegin ==
    ASSUME TreeSafe, NEW s \in Sess, NEW c \in Calls, Begin(s, c)
    PROVE  AbsTree!Begin(s)
<1>1. pc[s] = "idle" /\ db' = db /\ \A t \in Sess \ {s} : f'[t] = f[t] /\ pc'[t] = pc[t]
  BY BeginOwn DEF Begin, At, Untouched
<1>2. pc'[s] # "idle" /\ f'[s].call = c
  BY BegunFacts DEF Begun
<1> QED
  BY <1>1, <1>2 DEF AbsTree!Begin, AbsTree!Nothing, At

LEMMA AbsAtRoot ==
    ASSUME TreeSafe, NEW s \in Sess, NEW c \in Calls, BeginAtRoot(s, c)
    PROVE  AbsTree!AtRoot(s)
<1>1. /\ pc[s] = "idle" /\ db' = db /\ pc' = pc
      /\ \A t \in Sess \ {s} : f'[t] = f[t] /\ pc'[t] = pc[t]
  BY BeginOwn DEF BeginAtRoot, At, Untouched
<1>2. f'[s].out \in {"true", "false"}
  BY SafeFacts DEF BeginAtRoot, LocalInv, TypeOK, Fresh
<1> QED
  BY <1>1, <1>2 DEF AbsTree!AtRoot, AbsTree!Nothing, At

LEMMA AbsEnd ==
    ASSUME TreeSafe, NEW s \in Sess, NEW r, pc[s] # "idle", pc'[s] = "idle",
           f'[s] = Fresh(NoCall, r),
           \A t \in Sess \ {s} : f'[t] = f[t] /\ pc'[t] = pc[t]
    PROVE  AbsTree!End(s, r)
<1>1. f[s].call # None /\ f'[s].out = r
  BY SafeFacts, CallFacts, CallAssumption DEF Fresh
<1> QED
  BY <1>1 DEF AbsTree!End, At

LEMMA AbsAbort ==
    ASSUME TreeSafe, NEW s \in Sess, Abort(s), pc[s] # "idle"
    PROVE  AbsTree!Refuse(s)
<1>1. /\ db' = db /\ pc'[s] = "idle" /\ f'[s] = Fresh(NoCall, "error")
      /\ \A t \in Sess \ {s} : f'[t] = f[t] /\ pc'[t] = pc[t]
  BY SafeFacts DEF Abort, RollbackRows, Goto, LocalInv, TypeOK
<1>2. AbsTree!End(s, "error")
  BY <1>1, AbsEnd
<1> QED
  BY <1>1, <1>2 DEF AbsTree!Refuse, AbsTree!Nothing

-----------------------------------------------------------------------------
(* Commits *)

\* The name of a row that a commit writes was free, as far as the row's siblings are
\* not written by the same call.
LEMMA CommitNameFree ==
    ASSUME TreeSafe, NEW s \in Sess, Commit(s), NEW n \in Node, NEW m \in Node, n # m,
           db'[n].st = "live", db'[n].parent # None,
           db[m].st = "live", db[m].parent = db'[n].parent, db'[m] = db[m]
    PROVE  db[m].name # db'[n].name
<1>1. Unique(db')
  <2>1. [Next]_vars
    BY DEF Next, Step
  <2> QED
    BY <2>1, SafeNext DEF TreeSafe, TreeInv, RowInv, Unique
<1> QED
  BY <1>1 DEF Unique, SameEntry, Holds

\* Where the rows that create_node and create_directory insert go.
LEMMA MadeRows ==
    ASSUME TreeSafe, NEW s \in Sess, pc[s] = "commit", Makes(s), NEW n \in Node, owner[n] = s
    PROVE  /\ db[n].st = "free" /\ new[n].st = "live" /\ new[n].name \in Name
           /\ new[n].parent \in Node \ {n}
           /\ owner[new[n].parent] # s => db[new[n].parent].st = "live"
<1>1. /\ db[n].st = "free" /\ new[n].st = "live" /\ new[n].name \in Name
      /\ new[n].parent \in Node \ {n} /\ s \in shares[new[n].parent]
  BY SafeFacts DEF MadeOf
<1> QED
  BY <1>1, SafeFacts DEF SharedOf, Live, Seen

LEMMA AbsCreate ==
    ASSUME TreeSafe, NEW s \in Sess, Commit(s), Op(s) = "create_node", Done(s),
           NEW c, c = f[s].call
    PROVE  \E p \in Node : AbsTree!Add(p, AbsTree!Last(c.path), c.dir)
<1>1. MadeOf(s) /\ Makes(s) /\ pc[s] = "commit"
      /\ \A m \in Node : db'[m] = IF owner[m] = s THEN new[m] ELSE db[m]
  BY SafeFacts, CommitRowFacts DEF Makes
<1>2. PICK n \in Node : owner[n] = s
  BY <1>1 DEF MadeOf
<1>3. PICK p \in Node : p = f[s].cur
  BY SafeFacts
<1>4. PICK nm \in Name, d \in BOOLEAN : nm = AbsTree!Last(c.path) /\ d = c.dir
  BY <1>1, SafeFacts, CallFacts, PathParts DEF PcOf, RootCall, AbsTree!Last, Base
<1>5. /\ new[n] = NodeRow(p, nm, d) /\ db[p].dir /\ \A m \in Node : owner[m] = s => m = n
  BY <1>1, <1>2, <1>3, <1>4 DEF MadeOf, AbsTree!Last, Base
<1>6. /\ db[n].st = "free" /\ p # n /\ db[p].st = "live"
  BY <1>1, <1>2, <1>5, MadeRows DEF NodeRow
<1>7. \A m \in Node : db'[m] = IF m = n THEN NodeRow(p, nm, d) ELSE db[m]
  BY <1>1, <1>2, <1>5
<1>8. \A m \in Node : db[m].st = "live" /\ db[m].parent = p => db[m].name # nm
  BY <1>6, <1>7, CommitNameFree, PgAssumption DEF NodeRow
<1> DEFINE L == {m \in Node : db[m].st = "live"}
           K == {m \in Node : db'[m].st = "live"}
           old == [m \in L |-> [parent |-> db[m].parent, name |-> db[m].name,
                                dir |-> db[m].dir]]
<1>9. K = L \cup {n} /\ n \notin L
  BY <1>6, <1>7 DEF NodeRow
<1>10. [m \in K |-> [parent |-> db'[m].parent, name |-> db'[m].name, dir |-> db'[m].dir]]
       = [m \in (DOMAIN old) \cup {n} |->
             IF m = n THEN [parent |-> p, name |-> nm, dir |-> d] ELSE old[m]]
  BY <1>7, <1>9 DEF NodeRow
<1>11. {m \in Node : db'[m].st # "free"} = {m \in Node : db[m].st # "free"} \cup {n}
  BY <1>7 DEF NodeRow
<1>12. AbsTree!IsDir(p)
  BY <1>5, <1>6 DEF AbsTree!IsDir, AbsTree!Present
<1>13. AbsTree!NameFree(p, nm)
  BY <1>8 DEF AbsTree!NameFree, AbsTree!Children, AbsTree!Present
<1>14. AbsTree!Add(p, nm, d)
  BY <1>6, <1>10, <1>11, <1>12, <1>13 DEF AbsTree!Add, AbsTree!Entry, AbsTree!Present
<1> QED
  BY <1>3, <1>4, <1>14

LEMMA AbsMake ==
    ASSUME TreeSafe, NEW s \in Sess, Commit(s), Op(s) = "create_directory"
    PROVE  AbsTree!AddDirs
<1> DEFINE N == {n \in Node : owner[n] = s}
           par == [n \in N |-> new[n].parent]
           nm == [n \in N |-> new[n].name]
           L == {m \in Node : db[m].st = "live"}
           K == {m \in Node : db'[m].st = "live"}
           old == [m \in L |-> [parent |-> db[m].parent, name |-> db[m].name,
                                dir |-> db[m].dir]]
<1>1. MadeOf(s) /\ Makes(s) /\ pc[s] = "commit"
      /\ \A m \in Node : db'[m] = IF m \in N THEN new[m] ELSE db[m]
  BY SafeFacts, CommitRowFacts DEF Makes
<1>2. \A n \in N : /\ db[n].st = "free" /\ new[n].st = "live" /\ new[n].name \in Name
                   /\ new[n].parent \in Node \ {n} /\ new[n].dir
                   /\ new[n].parent \notin N => new[n].parent \in L
  BY <1>1, MadeRows DEF MadeOf
<1>3. par \in [N -> Node] /\ nm \in [N -> Name]
  BY <1>2
<1>4. \A n \in N : n \in Node \ {m \in Node : db[m].st # "free"}
  BY <1>2
<1>5. ASSUME NEW n \in N, NEW m \in L, db[m].parent = par[n] PROVE db[m].name # nm[n]
  <2>1. db'[m] = db[m] /\ db'[n] = new[n] /\ m # n
    BY <1>1, <1>2
  <2> QED
    BY <1>2, <1>5, <2>1, CommitNameFree, PgAssumption
<1>6. \A n \in N : \/ par[n] \in L /\ \A m \in L : db[m].parent = par[n] => db[m].name # nm[n]
                   \/ par[n] \in N \ {n}
  BY <1>2, <1>5
<1>7. ASSUME NEW n \in N, NEW m \in N, par[n] = par[m], nm[n] = nm[m] PROVE n = m
  <2>1. Unique(new)
    BY DEF TreeSafe, TreeInv, RowInv
  <2> QED
    BY <1>2, <1>7, <2>1, PgAssumption DEF Unique, SameEntry, Holds
<1>8. K = L \cup N /\ \A n \in N : n \notin L
  BY <1>1, <1>2
<1>9. [m \in K |-> [parent |-> db'[m].parent, name |-> db'[m].name, dir |-> db'[m].dir]]
      = [m \in (DOMAIN old) \cup N |->
            IF m \in N THEN [parent |-> par[m], name |-> nm[m], dir |-> TRUE] ELSE old[m]]
  <2>1. \A m \in N : new[m].dir = TRUE
    BY <1>2, SafeFacts DEF Row
  <2> QED
    BY <1>1, <1>8, <2>1
<1>10. {m \in Node : db'[m].st # "free"} = {m \in Node : db[m].st # "free"} \cup N
  BY <1>1, <1>2
<1>11. PICK M, q, w : M = N /\ q = par /\ w = nm
  OBVIOUS
<1> HIDE DEF N, par, nm
<1>12. M \in SUBSET (Node \ {m \in Node : db[m].st # "free"})
  BY <1>4, <1>11
<1>13. q \in [M -> Node] /\ w \in [M -> Name]
  BY <1>3, <1>11
<1>14. \A n \in M : \/ q[n] \in AbsTree!Present /\ AbsTree!NameFree(q[n], w[n])
                    \/ q[n] \in M \ {n}
  <2> SUFFICES ASSUME NEW n \in M, q[n] \notin M \ {n}
               PROVE  q[n] \in AbsTree!Present /\ AbsTree!NameFree(q[n], w[n])
    OBVIOUS
  <2>1. q[n] \in L /\ \A m \in L : db[m].parent = q[n] => db[m].name # w[n]
    BY <1>6, <1>11
  <2> QED
    BY <2>1 DEF AbsTree!NameFree, AbsTree!Children, AbsTree!Present
<1>15. \A n, m \in M : q[n] = q[m] /\ w[n] = w[m] => n = m
  BY <1>7, <1>11
<1>16. [m \in K |-> [parent |-> db'[m].parent, name |-> db'[m].name, dir |-> db'[m].dir]]
       = [m \in (DOMAIN old) \cup M |->
             IF m \in M THEN [parent |-> q[m], name |-> w[m], dir |-> TRUE] ELSE old[m]]
  BY <1>9, <1>11
<1>17. {m \in Node : db'[m].st # "free"} = {m \in Node : db[m].st # "free"} \cup M
  BY <1>10, <1>11
<1> HIDE DEF K, L, old
<1>18. \E D \in SUBSET (Node \ {m \in Node : db[m].st # "free"}) :
          \E par1 \in [D -> Node] : \E nm1 \in [D -> Name] :
              /\ \A n \in D : \/ par1[n] \in AbsTree!Present /\ AbsTree!NameFree(par1[n], nm1[n])
                             \/ par1[n] \in D \ {n}
              /\ \A n, m \in D : par1[n] = par1[m] /\ nm1[n] = nm1[m] => n = m
              /\ [m \in K |-> [parent |-> db'[m].parent, name |-> db'[m].name,
                              dir |-> db'[m].dir]]
                 = [m \in (DOMAIN old) \cup D |->
                       IF m \in D THEN [parent |-> par1[m], name |-> nm1[m], dir |-> TRUE]
                       ELSE old[m]]
              /\ {m \in Node : db'[m].st # "free"} = {m \in Node : db[m].st # "free"} \cup D
  <2> USE <1>12, <1>13
  <2> WITNESS M \in SUBSET (Node \ {m \in Node : db[m].st # "free"})
  <2> WITNESS q \in [M -> Node]
  <2> WITNESS w \in [M -> Name]
  <2> QED
    BY <1>14, <1>15, <1>16, <1>17
<1> QED
  BY <1>18 DEF K, L, old, AbsTree!AddDirs, AbsTree!Entry, AbsTree!Present

LEMMA AbsDelete ==
    ASSUME TreeSafe, NEW s \in Sess, Commit(s), Op(s) = "delete_node", Done(s)
    PROVE  AbsTree!Remove
<1> DEFINE L == {m \in Node : db[m].st = "live"}
           K == {m \in Node : db'[m].st = "live"}
           old == [m \in L |-> [parent |-> db[m].parent, name |-> db[m].name,
                                dir |-> db[m].dir]]
<1>1. /\ DeletedOf(s) /\ Emptied(s) /\ pc[s] = "commit"
      /\ \A m \in Node : db'[m] = IF owner[m] = s THEN new[m] ELSE db[m]
  BY SafeFacts, CommitRowFacts DEF DeletedOf
<1>2. PICK N : N = {n \in Node : Killed(s, n)}
  OBVIOUS
<1>3. PICK top \in Node : top = f[s].cur
  BY SafeFacts
<1>4. \A n \in N : n \in L /\ n # Root
  BY <1>1, <1>2 DEF DeletedOf, Killed
<1>5. \A m \in N : \A n \in L : db[n].parent = m => n \in N
  BY <1>1, <1>2, NoChildLeft
<1>6. \A m \in N \ {top} : db[m].parent \in N
  <2> SUFFICES ASSUME NEW m \in N \ {top} PROVE db[m].parent \in N
    OBVIOUS
  <2>1. db[m].parent \in Node
    BY <1>4, SafeFacts DEF NoOrphans, HasParent
  <2> QED
    BY <1>1, <1>2, <1>3, <2>1 DEF Emptied
<1>7. top \in N /\ (db[top].dir => N = {top})
  BY <1>1, <1>2, <1>3 DEF Emptied
<1>8. \A m \in Node : /\ m \in N => db'[m].st = "dead"
                      /\ m \notin N => db'[m] = db[m]
  <2> SUFFICES ASSUME NEW m \in Node
               PROVE  /\ m \in N => db'[m].st = "dead"
                      /\ m \notin N => db'[m] = db[m]
    OBVIOUS
  <2>1. CASE m \in N
    BY <1>1, <1>2, <2>1 DEF Killed
  <2>2. CASE m \notin N
    <3>1. owner[m] = s => new[m].st # "dead"
      BY <1>2, <2>2 DEF Killed
    <3>2. db[m] \in Row
      BY SafeFacts
    <3>3. owner[m] = s => new[m] = db[m]
      BY <1>1, <3>1, <3>2 DEF DeletedOf, Row
    <3> QED
      BY <1>1, <2>2, <3>3
  <2> QED
    BY <2>1, <2>2
<1>9. K = L \ N
  BY <1>8
<1>10. [m \in K |-> [parent |-> db'[m].parent, name |-> db'[m].name, dir |-> db'[m].dir]]
       = [m \in (DOMAIN old) \ N |-> old[m]]
  BY <1>8, <1>9
<1>11. {m \in Node : db'[m].st # "free"} = {m \in Node : db[m].st # "free"}
  BY <1>4, <1>8
<1>12. \A m \in N : AbsTree!Children(m) \subseteq N
  BY <1>5 DEF AbsTree!Children, AbsTree!Present
<1>13. N \in SUBSET (AbsTree!Present \ {Root})
  BY <1>4 DEF AbsTree!Present
<1> QED
  BY <1>4, <1>6, <1>7, <1>10, <1>11, <1>12, <1>13 DEF AbsTree!Remove, AbsTree!Present

LEMMA AbsMove ==
    ASSUME TreeSafe, NEW s \in Sess, Commit(s), Op(s) = "move_node", Done(s),
           NEW c, c = f[s].call, c.path # c.dst
    PROVE  AbsTree!Reparent(AbsTree!Last(c.dst))
<1> DEFINE L == {m \in Node : db[m].st = "live"}
           K == {m \in Node : db'[m].st = "live"}
           old == [m \in L |-> [parent |-> db[m].parent, name |-> db[m].name,
                                dir |-> db[m].dir]]
<1>1. /\ MovedOf(s) /\ ClearOf(s) /\ HeldOf(s) /\ ResolvedOf(s) /\ pc[s] = "commit"
      /\ \A m \in Node : db'[m] = IF owner[m] = s THEN new[m] ELSE db[m]
  BY SafeFacts, CommitRowFacts
<1>2. PICK n \in Node : n = f[s].src /\ owner[n] = s
  BY <1>1, SafeFacts DEF MovedOf, HeldOf
<1>3. PICK p \in Node : p = f[s].cur
  BY SafeFacts
<1>4. PICK nm : nm = AbsTree!Last(c.dst)
  OBVIOUS
<1>5. /\ new[n] = [db[n] EXCEPT !.parent = p, !.name = nm]
      /\ owner[p] = s /\ db[p].dir /\ ~Holds(db[n], p, nm) /\ n # Root /\ n # p
  BY <1>1, <1>2, <1>3, <1>4, PgAssumption
  DEF MovedOf, ResolvedOf, ClearOf, AbsTree!Last, Base
<1>6. db[n].st = "live" /\ db[p].st = "live" /\ db[n] \in Row
  BY <1>1, <1>2, <1>5, SafeFacts DEF MovedOf
<1>7. \A m \in Node : db'[m] = IF m = n THEN [db[n] EXCEPT !.parent = p, !.name = nm] ELSE db[m]
  BY <1>1, <1>2, <1>5 DEF MovedOf
<1>8. /\ db'[n].st = "live" /\ db'[n].parent = p /\ db'[n].name = nm
      /\ db'[n].dir = db[n].dir
  BY <1>6, <1>7 DEF Row
<1>9. \A m \in L : db[m].parent = p => db[m].name # nm
  BY <1>5, <1>6, <1>7, <1>8, CommitNameFree, PgAssumption DEF Holds
<1>10. K = L
  BY <1>6, <1>7, <1>8
<1>11. [m \in K |-> [parent |-> db'[m].parent, name |-> db'[m].name, dir |-> db'[m].dir]]
       = [old EXCEPT ![n].parent = p, ![n].name = nm]
  BY <1>6, <1>7, <1>8, <1>10
<1>12. {m \in Node : db'[m].st # "free"} = {m \in Node : db[m].st # "free"}
  BY <1>6, <1>7, <1>8
<1>13. AbsTree!IsDir(p) /\ AbsTree!NameFree(p, nm)
  BY <1>5, <1>6, <1>9
  DEF AbsTree!IsDir, AbsTree!NameFree, AbsTree!Children, AbsTree!Present
<1>14. ASSUME db[n].dir PROVE ~AbsTree!Below(p, n)
  <2>1. PICK A \in SUBSET Node : p \in A /\ Chain(s, A, A)
    BY <1>1, <1>2, <1>3, <1>14, PgAssumption DEF ClearOf
  <2>2. n \notin A /\ \A m \in A : m \in L /\ db[m].parent \in A \cup {None}
    BY <1>2, <2>1 DEF Chain
  <2>3. \A m \in A \ {Root} : db[m].parent \in A
    BY <2>2, SafeFacts, PgAssumption DEF NoOrphans, HasParent
  <2>4. A \in SUBSET L
    BY <2>2
  <2> QED
    BY <2>1, <2>2, <2>3, <2>4 DEF AbsTree!Below, AbsTree!Present
<1>15. AbsTree!Reparent(nm)
  BY <1>5, <1>6, <1>11, <1>12, <1>13, <1>14 DEF AbsTree!Reparent, AbsTree!Present
<1> QED
  BY <1>4, <1>15

\* A commit that leaves the rows as they were.
LEMMA AbsNothing ==
    ASSUME TreeSafe, NEW s \in Sess, Commit(s), \A n \in Node : owner[n] = s => new[n] = db[n]
    PROVE  AbsTree!Nothing
<1>1. \A n \in Node : db'[n] = db[n]
  BY CommitRowFacts
<1> QED
  BY <1>1 DEF AbsTree!Nothing

LEMMA AbsCommit ==
    ASSUME RefInv, NEW s \in Sess, Commit(s)
    PROVE  AbsTree!Succeed(s) \/ AbsTree!Refuse(s)
<1>0. /\ TreeSafe /\ pc[s] = "commit" /\ f[s].out \in {"true", "false"} /\ Op(s) \in Ops
      /\ pc'[s] = "idle" /\ f'[s] = Fresh(NoCall, f[s].out)
      /\ \A t \in Sess \ {s} : f'[t] = f[t] /\ pc'[t] = pc[t]
  BY CommitRowFacts, SafeFacts DEF RefInv, Answered
<1>1. CASE f[s].out = "true"
  <2>1. AbsTree!End(s, "true") /\ Done(s)
    BY <1>0, <1>1, AbsEnd DEF Done
  <2>2. PICK c : c = f[s].call
    OBVIOUS
  <2>3. c.op = Op(s)
    BY <2>2 DEF Op
  <2>4. \/ c.op = "create_node" /\ \E p \in Node : AbsTree!Add(p, AbsTree!Last(c.path), c.dir)
        \/ c.op = "delete_node" /\ AbsTree!Remove
        \/ c.op = "move_node" /\ IF c.path = c.dst THEN AbsTree!Nothing
                                 ELSE AbsTree!Reparent(AbsTree!Last(c.dst))
        \/ c.op = "create_directory" /\ AbsTree!AddDirs
    <3>1. CASE c.op = "create_node"
      BY <1>0, <2>1, <2>2, <2>3, <3>1, AbsCreate
    <3>2. CASE c.op = "delete_node"
      BY <1>0, <2>1, <2>3, <3>2, AbsDelete
    <3>3. CASE c.op = "move_node" /\ c.path # c.dst
      BY <1>0, <2>1, <2>2, <2>3, <3>3, AbsMove
    <3>4. CASE c.op = "move_node" /\ c.path = c.dst
      <4>1. MovedOf(s) /\ f[s].src = None
        BY <1>0, <2>2, <3>4, SafeFacts DEF ResolvedOf
      <4>2. \A n \in Node : owner[n] = s => new[n] = db[n]
        BY <2>3, <3>4, <4>1, PgAssumption DEF MovedOf
      <4> QED
        BY <1>0, <3>4, <4>2, AbsNothing
    <3>5. CASE c.op = "create_directory"
      BY <1>0, <2>3, <3>5, AbsMake
    <3> QED
      BY <1>0, <2>3, <3>1, <3>2, <3>3, <3>4, <3>5 DEF Ops
  <2>5. c \in {[t \in Sess |-> IF At(t, "idle") THEN None ELSE f[t].call][s]}
    BY <1>0, <2>2 DEF At
  <2> QED
    BY <2>1, <2>4, <2>5 DEF AbsTree!Succeed
<1>2. CASE f[s].out = "false"
  <2>1. AbsTree!End(s, "false") /\ ~Done(s)
    BY <1>0, <1>2, AbsEnd DEF Done
  <2>2. CASE Op(s) = "create_directory"
    <3>1. AbsTree!AddDirs
      BY <1>0, <2>2, AbsMake
    <3>2. [t \in Sess |-> IF At(t, "idle") THEN None ELSE f[t].call][s].op = "create_directory"
      BY <1>0, <2>2 DEF At, Op
    <3> QED
      BY <2>1, <3>1, <3>2 DEF AbsTree!Refuse
  <2>3. CASE Op(s) # "create_directory"
    BY <1>0, <2>1, <2>3, FalseKeeps, AbsNothing DEF AbsTree!Refuse
  <2> QED
    BY <2>2, <2>3
<1> QED
  BY <1>0, <1>1, <1>2

-----------------------------------------------------------------------------
(* The refinement *)

LEMMA AbsInit == Init => AbsTree!Init
BY DEF Init, AbsTree!Init, AbsTree!Tree, AbsTree!Entry, At, Fresh

LEMMA AbsSilent ==
    ASSUME TreeSafe, NEW s \in Sess, Untouched(s), Silent(s)
    PROVE  UNCHANGED AbsTree!avars
<1>1. /\ db' = db
      /\ \A t \in Sess : (pc'[t] = "idle" <=> pc[t] = "idle") /\ f'[t].call = f[t].call
                         /\ (pc[t] = "idle" => f'[t].out = f[t].out)
  BY DEF Untouched, Silent
<1> QED
  BY <1>1 DEF AbsTree!avars, At

LEMMA AbsNext == RefInv /\ [Next]_vars => [AbsTree!Next]_(AbsTree!avars)
<1> SUFFICES ASSUME RefInv, [Next]_vars
             PROVE  AbsTree!Next \/ UNCHANGED AbsTree!avars
  OBVIOUS
<1>0. TreeSafe
  BY DEF RefInv
<1>1. CASE UNCHANGED vars
  BY <1>1 DEF vars, AbsTree!avars, At
<1>2. ASSUME NEW s \in Sess, Abort(s), pc[s] # "idle" PROVE AbsTree!Next
  BY <1>0, <1>2, AbsAbort DEF AbsTree!Next
<1>3. ASSUME NEW s \in Sess, Step(s) PROVE AbsTree!Next \/ UNCHANGED AbsTree!avars
  <2>1. CASE Commit(s)
    BY <2>1, AbsCommit DEF AbsTree!Next
  <2>2. CASE Abort(s)
    <3>1. pc[s] # "idle"
      BY <1>3 DEF Step, Walk, Commit, FkCheck, CreateInsert, DelLock, DelCheck, DelRow, Cascade,
         MvTopo, MvLockSrc, MvLockDst, MvCheck, MvWithin, MvUpdate, MkChild, MkInsert,
         MkAgain, At
    <3> QED
      BY <1>2, <2>2, <3>1
  <2>3. CASE ~Commit(s) /\ ~Abort(s)
    BY <1>0, <1>3, <2>3, SafeStep, StepSilent, AbsSilent
  <2> QED
    BY <2>1, <2>2, <2>3
<1>4. ASSUME NEW s \in Sess, NEW c \in Calls, Begin(s, c) \/ BeginAtRoot(s, c)
      PROVE  AbsTree!Next
  BY <1>0, <1>4, AbsBegin, AbsAtRoot DEF AbsTree!Next
<1>5. ASSUME NEW s \in Sess, Fail(s) PROVE AbsTree!Next
  BY <1>2, <1>5 DEF Fail, At
<1>6. ASSUME NEW s \in Sess, DeadlockVictim(s) PROVE AbsTree!Next
  <2>1. WaitsFor(s) # {}
    BY <1>6 DEF DeadlockVictim, WaitCycle
  <2>2. pc[s] # "idle"
    BY <2>1 DEF WaitsFor
  <2> QED
    BY <1>2, <1>6, <2>2 DEF DeadlockVictim
<1> QED
  BY <1>1, <1>3, <1>4, <1>5, <1>6 DEF Next, Finished

\* Whatever calls race, each takes effect in one step, by the change that its result
\* reports: the tree of VfsTree is the one of AbstractTree.
THEOREM CallsAreAtomic == Spec => AtomicTree
BY AbsInit, AbsNext, RefInvariant, PTL DEF Spec, AtomicTree, AbsTree!Spec
=============================================================================

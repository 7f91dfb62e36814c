---------------------------- MODULE JoinedProofs ----------------------------
(***************************************************************************)
(* Proofs about JoinedProvider, for any connections and modes, any calls   *)
(* and any databases to start from.                                        *)
(***************************************************************************)
EXTENDS JoinedProvider, TLAPS

\* What _ensure_schema leaves and no operation takes away.
Base == {<<"tables">>, <<"index">>, <<"root">>}

Grown(x, y) == Base \cap x \subseteq y

\* Two changes that do the same to nodes, contents and business rows.
SameRows(x, y) == Rows(x.add) = Rows(y.add) /\ Rows(x.del) = Rows(y.del)

TxnOK(t) == /\ t \in Txn
            /\ t.del \cap Base = {} /\ <<"tables">> \notin t.held
            /\ <<"tables">> \in t.add \/ <<"ddl">> \in t.held => <<"schema">> \in t.held
            /\ t.st = "idle" => t = NoTxn

\* What the transaction did before the call, and what it should do now.
Before(c) == IF block[c] = "own" THEN None ELSE told[c]
Expected(c) == CASE pc[c] = "content" -> Then(Before(c), [add |-> {Node(c)}, del |-> {}])
                 [] pc[c] = "end" -> Then(Before(c), g[c].plan)
                 [] OTHER -> Before(c)

\* The call of c and the block it runs in.
CallOK(c) ==
    /\ txn[c].st # "failed"
    /\ Mode[c] = "pool" => block[c] = "own"
    /\ block[c] = "own" => /\ txn[c].st = "open" /\ undone[c] # "pending"
                           /\ told[c] = None
    /\ block[c] = "savepoint" => /\ Mode[c] = "auto" /\ txn[c].st = "open"
                                 /\ base[c].st = "open" /\ base[c].held \subseteq txn[c].held
                                 /\ SameRows(base[c], told[c])
                                 /\ undone[c] = "pending" => Base \subseteq Apply(db, base[c])
    /\ Autocommit(c) => g[c].call.op = "read"
    /\ g[c].call.op = "initialize" => /\ pc[c] \in {"lock", "schema", "end"}
                                      /\ txn[c].st = "open" /\ block[c] # "savepoint"
    /\ pc[c] \in {"lock", "schema"} => g[c].call.op = "initialize"
    /\ pc[c] = "lock" /\ <<"use">> \in txn[c].held => g[c].used
    /\ pc[c] = "schema" => <<"schema">> \in txn[c].held
    /\ pc[c] \in {"topology", "check"} => g[c].call.op = "move"
    /\ pc[c] = "content" => g[c].call.op = "write"
    /\ pc[c] = "end" /\ g[c].call.op = "initialize" => Base \subseteq txn[c].add
    /\ pc[c] = "end" /\ g[c].out # "true" => g[c].plan = None
    /\ pc[c] = "end" /\ txn[c].st = "idle" => g[c].plan = None
    /\ SameRows(txn[c], Expected(c))

IdleOK(c) == /\ Mode[c] = "pool" => txn[c].st = "idle"
             /\ txn[c].st = "open" => SameRows(txn[c], told[c])

\* Where the schema is that initialize has reported.
SchemaOK(c) == /\ undone[c] = "no" /\ ready[c] => Base \subseteq db
               /\ undone[c] = "pending" => /\ txn[c].st # "idle"
                                           /\ txn[c].st = "failed" \/ Base \subseteq View(c)

ConnOK(c) == /\ TxnOK(txn[c]) /\ TxnOK(base[c])
             /\ txn[c].st = "idle" => told[c] = None
             /\ IF pc[c] = "idle" THEN IdleOK(c) ELSE CallOK(c)
             /\ SchemaOK(c)
             /\ g[c].out # "collision"

\* The advisory lock of _ensure_schema.
OneSchema == \A c, d \in Conn : <<"schema">> \in txn[c].held \cap txn[d].held => c = d

\* The inductive invariant.
JoinInv == TypeOK /\ OneSchema /\ \A c \in Conn : ConnOK(c)

-----------------------------------------------------------------------------
(* Changes *)

\* No fact of the schema is a row.
LEMMA BaseFacts ==
    /\ Base \subseteq Fact /\ <<"oldindex">> \in Fact /\ <<"oldindex">> \notin Base
    /\ \A x \in Base \cup {<<"oldindex">>} : x[1] \notin {"node", "data", "business"}
    /\ \A nm : <<"node", nm>> \notin Base /\ <<"data", nm>> \notin Base
               /\ <<"business", nm>> \notin Base
<1>1. Base \subseteq Fact /\ <<"oldindex">> \in Fact
  BY DEF Base, Fact
<1>2. \A x \in Base \cup {<<"oldindex">>} : x[1] \in {"tables", "index", "root", "oldindex"}
  BY DEF Base
<1>3. \A nm : <<"node", nm>>[1] = "node" /\ <<"data", nm>>[1] = "data"
              /\ <<"business", nm>>[1] = "business"
  OBVIOUS
<1>4. <<"oldindex">> \notin Base
  <2>1. <<"oldindex">>[1] = "oldindex" /\ \A x \in Base : x[1] \in {"tables", "index", "root"}
    BY DEF Base
  <2> QED
    BY <2>1
<1> QED
  BY <1>1, <1>2, <1>3, <1>4

LEMMA NoneType == None \in Change /\ None.add = {} /\ None.del = {}
BY DEF None, Change

LEMMA ThenType ==
    ASSUME NEW x, NEW y, x.add \subseteq Fact, x.del \subseteq Fact,
           y.add \subseteq Fact, y.del \subseteq Fact
    PROVE  /\ Then(x, y) \in Change
           /\ Then(x, y).add = (x.add \ y.del) \cup y.add
           /\ Then(x, y).del = (x.del \ y.add) \cup y.del
BY DEF Then, Change

LEMMA ThenRows ==
    ASSUME NEW x, NEW z, NEW y, SameRows(x, z)
    PROVE  SameRows(Then(x, y), Then(z, y))
BY DEF SameRows, Then, Rows

LEMMA ThenNoRows ==
    ASSUME NEW x, NEW y, Rows(y.add) = {}, Rows(y.del) = {}
    PROVE  SameRows(Then(x, y), x)
BY DEF SameRows, Then, Rows

LEMMA NoneThen ==
    ASSUME NEW y \in Change
    PROVE  Then(None, y) = y
BY DEF Then, None, Change

LEMMA ApplyRows ==
    ASSUME NEW x, NEW y, SameRows(x, y), NEW facts
    PROVE  Rows(Apply(facts, x)) = Rows(Apply(facts, y))
BY DEF SameRows, Rows, Apply

LEMMA SameRowsEquiv ==
    /\ \A x : SameRows(x, x)
    /\ \A x, y : SameRows(x, y) => SameRows(y, x)
    /\ \A x, y, z : SameRows(x, y) /\ SameRows(y, z) => SameRows(x, z)
BY DEF SameRows

-----------------------------------------------------------------------------
(* One connection *)

\* A connection of the invariant.
LEMMA ConnFacts ==
    ASSUME JoinInv, NEW c \in Conn
    PROVE  /\ TypeOK /\ ConnOK(c) /\ TxnOK(txn[c]) /\ TxnOK(base[c]) /\ SchemaOK(c)
           /\ pc[c] # "idle" => CallOK(c)
           /\ pc[c] = "idle" => IdleOK(c)
           /\ txn[c].st = "idle" => told[c] = None
           /\ db \subseteq Fact /\ txn[c] \in Txn /\ base[c] \in Txn
           /\ block[c] \in {"own", "savepoint", "none"} /\ pc[c] \in Labels
           /\ g[c].call \in Call /\ g[c].plan \in Change /\ g[c].used \in BOOLEAN
           /\ g[c].call.name \in Name /\ g[c].call.dst \in Name /\ g[c].call.op \in Ops
           /\ g[c].out \in {"none", "true", "false", "error"}
           /\ ready[c] \in BOOLEAN /\ told[c] \in Change
           /\ undone[c] \in {"no", "pending", "yes"}
           /\ txn[c].st \in {"idle", "open", "failed"}
           /\ txn[c].add \subseteq Fact /\ txn[c].del \subseteq Fact
           /\ txn[c].held \subseteq Locks \cup Fact
<1>1. TypeOK /\ ConnOK(c)
  BY DEF JoinInv
<1>2. PICK q : q = g[c]
  OBVIOUS
<1>3. q \in [call : Call, plan : Change, used : BOOLEAN,
             out : {"none", "true", "false", "error", "collision"}]
  BY <1>1, <1>2 DEF TypeOK
<1>4. /\ q.call \in Call /\ q.plan \in Change /\ q.used \in BOOLEAN
      /\ q.out \in {"none", "true", "false", "error", "collision"}
  BY <1>3
<1>5. q.call.name \in Name /\ q.call.dst \in Name /\ q.call.op \in Ops
  BY <1>4 DEF Call
<1>6. PICK t : t = txn[c]
  OBVIOUS
<1>7. t \in Txn
  BY <1>1, <1>6 DEF TypeOK
<1>8. /\ t.st \in {"idle", "open", "failed"} /\ t.add \subseteq Fact /\ t.del \subseteq Fact
      /\ t.held \subseteq Locks \cup Fact
  BY <1>7 DEF Txn
<1> QED
  BY <1>1, <1>2, <1>4, <1>5, <1>6, <1>8 DEF TypeOK, ConnOK

\* What the others rely on when connection c takes a step.
LEMMA OneConn ==
    ASSUME JoinInv, NEW c \in Conn, TypeOK', Grown(db, db'),
           \A d \in Conn \ {c} : /\ txn'[d] = txn[d] /\ base'[d] = base[d]
                                 /\ block'[d] = block[d] /\ pc'[d] = pc[d] /\ g'[d] = g[d]
                                 /\ ready'[d] = ready[d] /\ told'[d] = told[d]
                                 /\ undone'[d] = undone[d],
           <<"schema">> \in txn'[c].held => <<"schema">> \in txn[c].held \/ LockWaits(c) = {},
           ConnOK(c)'
    PROVE  JoinInv'
<1>1. ASSUME NEW d \in Conn \ {c} PROVE ConnOK(d)'
  <2>1. ConnOK(d) /\ TxnOK(txn[d])
    BY DEF JoinInv, ConnOK
  <2>2. Base \cap Apply(db, txn[d]) \subseteq Apply(db', txn[d])
    BY DEF Grown, Apply
  <2>3. SchemaOK(d)'
    BY <2>1, <2>2 DEF ConnOK, SchemaOK, View, Grown
  <2>4. IdleOK(d) => IdleOK(d)'
    BY DEF IdleOK
  <2>5. CallOK(d) => CallOK(d)'
    <3>1. Base \cap Apply(db, base[d]) \subseteq Apply(db', base[d])
      BY DEF Grown, Apply
    <3>2. Expected(d)' = Expected(d)
      BY DEF Expected, Before, Node
    <3> QED
      BY <3>1, <3>2 DEF CallOK, Autocommit
  <2> QED
    BY <2>1, <2>3, <2>4, <2>5 DEF ConnOK, TxnOK
<1>2. OneSchema'
  <2>1. \A d \in Conn \ {c} : ~(<<"schema">> \in txn'[c].held \cap txn[d].held)
    BY DEF JoinInv, OneSchema, LockWaits, Holders
  <2> QED
    BY <2>1 DEF JoinInv, OneSchema
<1> QED
  BY <1>1, <1>2 DEF JoinInv

\* What the database and the transaction of c become with a statement of its call.
LEMMA ExecuteFacts ==
    ASSUME JoinInv, NEW c \in Conn, NEW ch \in Change, NEW locks \in SUBSET (Locks \cup Fact),
           Autocommit(c) => ch = None,
           ch.del \cap Base = {}, <<"tables">> \notin locks,
           <<"tables">> \in ch.add \/ <<"ddl">> \in locks => <<"schema">> \in txn[c].held \cup locks,
           Execute(c, ch, locks)
    PROVE  \E t \in Txn :
              /\ TxnOK(t) /\ txn' = [txn EXCEPT ![c] = t] /\ db' = db
              /\ SameRows(t, Then(txn[c], ch))
              /\ Base \cap View(c) \subseteq Apply(db, t)
              /\ txn[c].held \subseteq t.held /\ t.held \subseteq txn[c].held \cup locks
              /\ IF Autocommit(c) THEN t = txn[c]
                 ELSE t.st = "open" /\ ch.add \subseteq t.add /\ locks \subseteq t.held
<1>1. PICK x : x = txn[c]
  OBVIOUS
<1>2. /\ x \in Txn /\ TxnOK(x) /\ x.add \subseteq Fact /\ x.del \subseteq Fact
      /\ x.held \subseteq Locks \cup Fact
  BY <1>1, ConnFacts
<1>3. CASE Autocommit(c)
  <2>1. ch = None /\ db' = Apply(db, None) /\ txn' = txn
    BY <1>3 DEF Execute
  <2>2. db' = db
    BY <2>1, NoneType DEF Apply
  <2>3. SameRows(x, Then(x, None))
    BY NoneType, ThenNoRows, SameRowsEquiv DEF Rows
  <2>4. txn' = [txn EXCEPT ![c] = x]
    BY <1>1, <2>1 DEF JoinInv, TypeOK
  <2> QED
    BY <1>1, <1>2, <1>3, <2>1, <2>2, <2>3, <2>4 DEF View
<1>4. CASE ~Autocommit(c)
  <2>1. /\ txn' = [txn EXCEPT ![c] = [st |-> "open", add |-> Then(x, ch).add,
                                      del |-> Then(x, ch).del, held |-> x.held \cup locks]]
        /\ db' = db
    BY <1>1, <1>4 DEF Execute
  <2>2. PICK t : t = [st |-> "open", add |-> Then(x, ch).add,
                      del |-> Then(x, ch).del, held |-> x.held \cup locks]
    OBVIOUS
  <2>3. ch.add \subseteq Fact /\ ch.del \subseteq Fact
    BY DEF Change
  <2>4. /\ t.st = "open" /\ t.add = (x.add \ ch.del) \cup ch.add
        /\ t.del = (x.del \ ch.add) \cup ch.del /\ t.held = x.held \cup locks
        /\ t.add = Then(x, ch).add /\ t.del = Then(x, ch).del
    BY <1>2, <2>2, <2>3, ThenType
  <2>5. t \in Txn
    BY <1>2, <2>2, <2>3, <2>4 DEF Txn
  <2>6. TxnOK(t)
    BY <1>1, <1>2, <2>4, <2>5 DEF TxnOK
  <2>7. SameRows(t, Then(x, ch))
    BY <2>4 DEF SameRows
  <2>8. Base \cap Apply(db, x) \subseteq Apply(db, t)
    BY <2>4 DEF Apply
  <2> QED
    BY <1>1, <1>4, <2>1, <2>2, <2>4, <2>5, <2>6, <2>7, <2>8 DEF View
<1> QED
  BY <1>3, <1>4

\* A step of a call that commits nothing: c's transaction becomes t, its label l
\* and its call q.
LEMMA CallStep ==
    ASSUME JoinInv, NEW c \in Conn, NEW t \in Txn, TxnOK(t),
           txn' = [txn EXCEPT ![c] = t], db' = db,
           t.st = "idle" => told[c] = None,
           undone[c] = "pending" =>
               t.st # "idle" /\ (t.st = "failed" \/ Base \subseteq Apply(db, t)),
           <<"schema">> \in t.held => <<"schema">> \in txn[c].held \/ LockWaits(c) = {},
           NEW l \in Labels, pc' = [pc EXCEPT ![c] = l],
           NEW q, g' = [g EXCEPT ![c] = q],
           q \in [call : Call, plan : Change, used : BOOLEAN,
                  out : {"none", "true", "false", "error"}],
           UNCHANGED <<base, block, ready, told, undone, left>>, faults' \in Nat,
           IF l = "idle" THEN IdleOK(c)' ELSE CallOK(c)'
    PROVE  JoinInv'
<1>1. /\ txn'[c] = t /\ pc'[c] = l /\ g'[c] = q
      /\ \A d \in Conn \ {c} : txn'[d] = txn[d] /\ pc'[d] = pc[d] /\ g'[d] = g[d]
  BY DEF JoinInv, TypeOK
<1>2. TypeOK'
  <2>1. /\ db' \subseteq Fact /\ txn' \in [Conn -> Txn] /\ base' \in [Conn -> Txn]
        /\ block' \in [Conn -> {"own", "savepoint", "none"}] /\ pc' \in [Conn -> Labels]
        /\ ready' \in [Conn -> BOOLEAN] /\ told' \in [Conn -> Change]
        /\ undone' \in [Conn -> {"no", "pending", "yes"}] /\ left' \in Nat /\ faults' \in Nat
    BY DEF JoinInv, TypeOK
  <2>2. q \in [call : Call, plan : Change, used : BOOLEAN,
               out : {"none", "true", "false", "error", "collision"}]
    OBVIOUS
  <2>3. g' \in [Conn -> [call : Call, plan : Change, used : BOOLEAN,
                         out : {"none", "true", "false", "error", "collision"}]]
    BY <2>2 DEF JoinInv, TypeOK
  <2>4. Mode[c] = "pool" /\ l = "idle" => t.st = "idle"
    BY <1>1 DEF IdleOK
  <2>5. \A d \in Conn : /\ txn'[d].st = "idle" => txn'[d] = NoTxn
                        /\ Mode[d] = "pool" /\ pc'[d] = "idle" => txn'[d].st = "idle"
    BY <1>1, <2>4 DEF JoinInv, TypeOK, TxnOK
  <2> QED
    BY <2>1, <2>3, <2>5 DEF TypeOK
<1>3. ConnOK(c)'
  <2>1. q.out # "collision"
    OBVIOUS
  <2>2. SchemaOK(c)'
    BY <1>1, ConnFacts DEF SchemaOK, View
  <2>3. TxnOK(base[c])' /\ TxnOK(txn[c])'
    BY <1>1, ConnFacts DEF TxnOK
  <2> QED
    BY <1>1, <2>1, <2>2, <2>3 DEF ConnOK
<1>4. \A d \in Conn \ {c} : /\ base'[d] = base[d] /\ block'[d] = block[d]
                            /\ ready'[d] = ready[d] /\ told'[d] = told[d]
                            /\ undone'[d] = undone[d]
  OBVIOUS
<1>5. Grown(db, db')
  BY DEF Grown
<1> QED
  BY <1>1, <1>2, <1>3, <1>4, <1>5, OneConn

\* A statement of a call.
LEMMA GoesOn ==
    ASSUME JoinInv, NEW c \in Conn, pc[c] # "idle", NEW t \in Txn, TxnOK(t),
           txn' = [txn EXCEPT ![c] = t], db' = db,
           Base \cap View(c) \subseteq Apply(db, t),
           t.st = "open" \/ t = txn[c],
           <<"schema">> \in t.held => <<"schema">> \in txn[c].held \/ LockWaits(c) = {},
           NEW l \in Labels, pc' = [pc EXCEPT ![c] = l],
           NEW q, g' = [g EXCEPT ![c] = q],
           q \in [call : Call, plan : Change, used : BOOLEAN,
                  out : {"none", "true", "false", "error"}],
           Quiet,
           IF l = "idle" THEN IdleOK(c)' ELSE CallOK(c)'
    PROVE  JoinInv'
<1>1. SchemaOK(c) /\ txn[c].st # "failed"
  BY ConnFacts DEF CallOK
<1>2. undone[c] = "pending" => t.st # "idle" /\ (t.st = "failed" \/ Base \subseteq Apply(db, t))
  BY <1>1 DEF SchemaOK
<1>3. t.st = "idle" => told[c] = None
  BY ConnFacts
<1>4. UNCHANGED <<base, block, ready, told, undone, left>> /\ faults' \in Nat
  BY DEF Quiet, JoinInv, TypeOK
<1> QED
  BY <1>2, <1>3, <1>4, CallStep

\* An exception: the call's own block or its savepoint rolls back, or the caller's
\* transaction has failed.
LEMMA RaiseStep ==
    ASSUME JoinInv, NEW c \in Conn, pc[c] # "idle", NEW sql \in BOOLEAN,
           sql \/ block[c] = "own", Raise(c, sql, "error"),
           UNCHANGED <<base, block, ready, told, undone, left>>, faults' \in Nat
    PROVE  JoinInv'
<1>1. PICK x : x = txn[c]
  OBVIOUS
<1>2. PICK q : q = [g[c] EXCEPT !.plan = None, !.used = FALSE, !.out = "error"]
  OBVIOUS
<1>3. /\ db' = db /\ pc' = [pc EXCEPT ![c] = "idle"] /\ g' = [g EXCEPT ![c] = q]
  BY <1>2 DEF Raise, Finish
<1>4. q \in [call : Call, plan : Change, used : BOOLEAN, out : {"none", "true", "false", "error"}]
  <2>1. PICK q0 : q0 = g[c]
    OBVIOUS
  <2>2. q0 \in [call : Call, plan : Change, used : BOOLEAN,
                out : {"none", "true", "false", "error", "collision"}]
    BY <2>1 DEF JoinInv, TypeOK
  <2>3. q = [q0 EXCEPT !.plan = None, !.used = FALSE, !.out = "error"]
    BY <1>2, <2>1
  <2> QED
    BY <2>2, <2>3, NoneType
<1>5. CallOK(c) /\ TxnOK(x) /\ TxnOK(base[c]) /\ x \in Txn /\ base[c] \in Txn
  BY <1>1, ConnFacts
<1>6. \E t \in Txn :
         /\ TxnOK(t) /\ txn' = [txn EXCEPT ![c] = t] /\ t.held \subseteq x.held
         /\ t.st = "idle" => told[c] = None
         /\ Mode[c] = "pool" => t.st = "idle"
         /\ t.st = "open" => SameRows(t, told[c])
         /\ undone[c] = "pending" =>
               t.st # "idle" /\ (t.st = "failed" \/ Base \subseteq Apply(db, t))
  <2>1. CASE block[c] = "own"
    <3>1. txn' = [txn EXCEPT ![c] = NoTxn]
      BY <2>1 DEF Raise
    <3>2. NoTxn \in Txn /\ TxnOK(NoTxn) /\ NoTxn.held = {} /\ NoTxn.st = "idle"
      BY DEF NoTxn, Txn, TxnOK
    <3> QED
      BY <1>5, <2>1, <3>1, <3>2 DEF CallOK
  <2>2. CASE block[c] = "savepoint"
    <3>1. txn' = [txn EXCEPT ![c] = base[c]]
      BY <2>2 DEF Raise
    <3> QED
      BY <1>1, <1>5, <2>2, <3>1 DEF CallOK
  <2>3. CASE block[c] = "none" /\ x.st = "open"
    <3>1. sql = TRUE
      BY <2>3
    <3>2. txn' = [txn EXCEPT ![c] = [x EXCEPT !.st = "failed"]]
      BY <1>1, <2>3, <3>1 DEF Raise
    <3>3. PICK t : t = [x EXCEPT !.st = "failed"]
      OBVIOUS
    <3>4. t \in Txn /\ t.st = "failed" /\ t.add = x.add /\ t.del = x.del /\ t.held = x.held
      BY <1>5, <3>3 DEF Txn
    <3>5. TxnOK(t)
      BY <1>5, <3>4 DEF TxnOK
    <3> QED
      BY <1>5, <2>3, <3>2, <3>3, <3>4, <3>5 DEF CallOK
  <2>4. CASE block[c] = "none" /\ x.st # "open"
    <3>1. txn' = [txn EXCEPT ![c] = txn[c]]
      BY <1>1, <2>4 DEF Raise
    <3>2. x.st = "idle"
      BY <1>1, <1>5, <2>4, ConnFacts DEF CallOK
    <3>3. undone[c] # "pending" /\ told[c] = None
      BY <1>1, <3>2, ConnFacts DEF SchemaOK
    <3> QED
      BY <1>1, <1>5, <2>4, <3>1, <3>2, <3>3
  <2>5. block[c] \in {"own", "savepoint", "none"}
    BY ConnFacts
  <2> QED
    BY <2>1, <2>2, <2>3, <2>4, <2>5
<1>7. PICK t \in Txn :
         /\ TxnOK(t) /\ txn' = [txn EXCEPT ![c] = t] /\ t.held \subseteq x.held
         /\ t.st = "idle" => told[c] = None
         /\ Mode[c] = "pool" => t.st = "idle"
         /\ t.st = "open" => SameRows(t, told[c])
         /\ undone[c] = "pending" =>
               t.st # "idle" /\ (t.st = "failed" \/ Base \subseteq Apply(db, t))
  BY <1>6
<1>8. IdleOK(c)'
  <2>1. txn'[c] = t
    BY <1>7 DEF JoinInv, TypeOK
  <2> QED
    BY <1>7, <2>1 DEF IdleOK, SameRows
<1>9. <<"schema">> \in t.held => <<"schema">> \in txn[c].held \/ LockWaits(c) = {}
  BY <1>1, <1>7
<1>10. "idle" \in Labels
  BY DEF Labels
<1> QED
  BY <1>3, <1>4, <1>7, <1>8, <1>9, <1>10, CallStep

-----------------------------------------------------------------------------
(* The statements of a call *)

LEMMA AwaitFacts ==
    ASSUME JoinInv, NEW c \in Conn, NEW l, NEW plan \in Change,
           NEW out \in {"none", "true", "false", "error"}, Await(c, l, plan, out)
    PROVE  \E q \in [call : Call, plan : Change, used : BOOLEAN,
                     out : {"none", "true", "false", "error"}] :
              /\ pc' = [pc EXCEPT ![c] = l] /\ g' = [g EXCEPT ![c] = q]
              /\ q.call = g[c].call /\ q.used = g[c].used /\ q.plan = plan /\ q.out = out
<1>1. PICK q0 : q0 = g[c]
  OBVIOUS
<1>2. q0 \in [call : Call, plan : Change, used : BOOLEAN,
              out : {"none", "true", "false", "error", "collision"}]
  BY <1>1 DEF JoinInv, TypeOK
<1>3. g' = [g EXCEPT ![c] = [q0 EXCEPT !.plan = plan, !.out = out]]
  BY <1>1 DEF Await
<1>4. PICK q : q = [q0 EXCEPT !.plan = plan, !.out = out]
  OBVIOUS
<1>5. /\ q \in [call : Call, plan : Change, used : BOOLEAN,
                out : {"none", "true", "false", "error"}]
      /\ q.call = q0.call /\ q.used = q0.used /\ q.plan = plan /\ q.out = out
  BY <1>2, <1>4
<1> QED
  BY <1>1, <1>3, <1>4, <1>5 DEF Await

LEMMA CallFacts ==
    ASSUME JoinInv, NEW c \in Conn
    PROVE  /\ Node(c) \in Fact /\ Data(c) \in Fact /\ Dst(c) \in Fact
           /\ <<"data", g[c].call.dst>> \in Fact
           /\ {Node(c), Data(c), Dst(c), <<"data", g[c].call.dst>>} \cap Base = {}
           /\ Plan(c) \in Change /\ Plan(c).del \cap Base = {} /\ Plan(c).add \cap Base = {}
           /\ [add |-> {Node(c)}, del |-> {}] \in Change
<1>1. g[c].call.name \in Name /\ g[c].call.dst \in Name
  BY ConnFacts
<1>2. /\ Node(c) \in Fact /\ Data(c) \in Fact /\ Dst(c) \in Fact
      /\ <<"data", g[c].call.dst>> \in Fact
  BY <1>1 DEF Node, Data, Dst, Fact
<1>3. {Node(c), Data(c), Dst(c), <<"data", g[c].call.dst>>} \cap Base = {}
  BY BaseFacts DEF Node, Data, Dst
<1>4. [add |-> {Node(c)}, del |-> {}] \in Change
  BY <1>2 DEF Change
<1>5. Plan(c) \in Change /\ Plan(c).del \cap Base = {} /\ Plan(c).add \cap Base = {}
  <2>1. PICK op : op = g[c].call.op
    OBVIOUS
  <2>2. CASE op = "create"
    BY <1>2, <1>3, <2>1, <2>2 DEF Plan, Change
  <2>3. CASE op = "write"
    BY <1>2, <1>3, <2>1, <2>3 DEF Plan, Change
  <2>4. CASE op = "delete"
    BY <1>2, <1>3, <2>1, <2>4 DEF Plan, Change
  <2>5. CASE op = "move"
    <3>1. PICK S : S = {<<"data", g[c].call.dst>> : x \in {Data(c)} \cap View(c)}
      OBVIOUS
    <3>2. S \subseteq {<<"data", g[c].call.dst>>}
      BY <3>1
    <3>3. Plan(c) = [add |-> {Dst(c)} \cup S, del |-> {Node(c), Data(c)}]
      BY <2>1, <2>5, <3>1 DEF Plan
    <3> QED
      BY <1>2, <1>3, <3>2, <3>3 DEF Change
  <2>6. CASE op \notin {"create", "write", "delete", "move"}
    <3>1. Plan(c) = None
      BY <2>1, <2>6 DEF Plan
    <3> QED
      BY <3>1, NoneType
  <2> QED
    BY <2>2, <2>3, <2>4, <2>5, <2>6
<1> QED
  BY <1>2, <1>3, <1>4, <1>5

LEMMA LockStep ==
    ASSUME JoinInv, NEW c \in Conn, Lock(c) \/ Topology(c)
    PROVE  JoinInv'
<1>1. PICK k \in {"schema", "topology"}, l \in {"schema", "check"} :
          /\ Execute(c, None, {<<k>>}) /\ Await(c, l, None, "none") /\ Quiet
          /\ \/ pc[c] = "lock" /\ l = "schema" /\ k = "schema" /\ LockWaits(c) = {}
             \/ pc[c] = "topology" /\ l = "check" /\ k = "topology"
  BY DEF Lock, Topology
<1>2. CallOK(c)
  BY <1>1, ConnFacts
<1>3. ~Autocommit(c)
  BY <1>1, <1>2 DEF CallOK
<1>4. /\ <<k>> \in Locks /\ <<"tables">> # <<k>> /\ <<"ddl">> # <<k>>
      /\ k = "topology" => <<"schema">> # <<k>>
  <2>1. <<k>>[1] = k /\ <<"tables">>[1] = "tables" /\ <<"ddl">>[1] = "ddl"
        /\ <<"schema">>[1] = "schema"
    OBVIOUS
  <2> QED
    BY <2>1 DEF Locks
<1>5. PICK t \in Txn :
              /\ TxnOK(t) /\ txn' = [txn EXCEPT ![c] = t] /\ db' = db
              /\ SameRows(t, Then(txn[c], None))
              /\ Base \cap View(c) \subseteq Apply(db, t)
              /\ txn[c].held \subseteq t.held /\ t.held \subseteq txn[c].held \cup {<<k>>}
              /\ t.st = "open" /\ {<<k>>} \subseteq t.held
  BY <1>1, <1>3, <1>4, NoneType, ExecuteFacts
<1>6. PICK q \in [call : Call, plan : Change, used : BOOLEAN,
                     out : {"none", "true", "false", "error"}] :
              /\ pc' = [pc EXCEPT ![c] = l] /\ g' = [g EXCEPT ![c] = q]
              /\ q.call = g[c].call /\ q.used = g[c].used /\ q.plan = None /\ q.out = "none"
  BY <1>1, NoneType, AwaitFacts
<1>7. SameRows(t, Before(c))
  <2>1. SameRows(txn[c], Before(c))
    BY <1>1, <1>2 DEF CallOK, Expected
  <2> QED
    BY <1>5, <2>1, NoneType, ThenNoRows, SameRowsEquiv DEF Rows
<1>8. pc'[c] = l /\ g'[c] = q /\ txn'[c] = t
  BY <1>5, <1>6 DEF JoinInv, TypeOK
<1>9. CallOK(c)'
  <2>1. Expected(c)' = Before(c) /\ UNCHANGED <<base, block, told, undone>>
    BY <1>1, <1>8 DEF Expected, Before, Quiet
  <2>2. SameRows(txn'[c], Expected(c)')
    BY <1>7, <1>8, <2>1
  <2>3. /\ l = "schema" => g[c].call.op = "initialize" /\ <<"schema">> \in t.held
        /\ l = "check" => g[c].call.op = "move"
    BY <1>1, <1>2, <1>5 DEF CallOK
  <2> QED
    BY <1>1, <1>2, <1>5, <1>6, <1>8, <2>1, <2>2, <2>3 DEF CallOK, Autocommit, SameRows
<1>10. /\ <<"schema">> \in t.held => <<"schema">> \in txn[c].held \/ LockWaits(c) = {}
       /\ l \in Labels /\ l # "idle"
  BY <1>1, <1>4, <1>5 DEF Labels
<1> QED
  BY <1>1, <1>5, <1>6, <1>9, <1>10, GoesOn

LEMMA MigrationFacts ==
    ASSUME NEW c
    PROVE  /\ Migration(c) \in Change /\ Indexes(c) \in Change
           /\ Then(Migration(c), Indexes(c)) \in Change
           /\ Then(Migration(c), Indexes(c)).add = Base
           /\ Rows(Base) = {} /\ Rows(Migration(c).add) = {}
           /\ Rows(Migration(c).del) = {} /\ Migration(c).del \cap Base = {}
           /\ Then(Migration(c), Indexes(c)).del = Migration(c).del
<1>1. Migration(c).add = {<<"tables">>} /\ Migration(c).del = {<<"oldindex">>}
  BY DEF Migration
<1>2. Indexes(c).add = {<<"index">>, <<"root">>} /\ Indexes(c).del = {}
  BY DEF Indexes
<1>3. Migration(c) \in Change /\ Indexes(c) \in Change
  BY BaseFacts DEF Migration, Indexes, Change, Base
<1>4. <<"oldindex">> \notin {<<"index">>, <<"root">>}
  BY BaseFacts DEF Base
<1>5. /\ Then(Migration(c), Indexes(c)).add = {<<"tables">>, <<"index">>, <<"root">>}
      /\ Then(Migration(c), Indexes(c)).del = {<<"oldindex">>}
      /\ Then(Migration(c), Indexes(c)) \in Change
  <2>1. /\ Migration(c).add \subseteq Fact /\ Migration(c).del \subseteq Fact
        /\ Indexes(c).add \subseteq Fact /\ Indexes(c).del \subseteq Fact
    BY <1>1, <1>2, BaseFacts DEF Base
  <2> QED
    BY <1>1, <1>2, <1>4, <2>1, ThenType
<1>6. Rows(Base) = {} /\ Rows({<<"tables">>}) = {} /\ Rows({<<"oldindex">>}) = {}
  BY BaseFacts DEF Rows, Base
<1> QED
  BY <1>1, <1>3, <1>5, <1>6, BaseFacts DEF Base

\* Nobody else has created the tables in an open transaction while c holds the
\* advisory lock.
LEMMA NoRivals ==
    ASSUME JoinInv, NEW c \in Conn, pc[c] = "schema"
    PROVE  Rivals(c, {<<"tables">>}) = {}
<1>1. <<"schema">> \in txn[c].held
  BY ConnFacts DEF CallOK
<1>2. ASSUME NEW d \in Conn \ {c}
      PROVE  <<"tables">> \notin txn[d].add \cup txn[d].del \cup txn[d].held
  <2>1. <<"schema">> \notin txn[d].held
    BY <1>1 DEF JoinInv, OneSchema
  <2>2. TxnOK(txn[d])
    BY ConnFacts
  <2>3. <<"tables">> \in Base
    BY DEF Base
  <2> QED
    BY <2>1, <2>2, <2>3 DEF TxnOK
<1> QED
  BY <1>2 DEF Rivals

\* What a statement with change ch makes of the transaction, when what the
\* transaction did before is `before`.
LEMMA StatementRows ==
    ASSUME NEW t, NEW x, NEW ch, NEW before,
           SameRows(t, Then(x, ch)), SameRows(x, before)
    PROVE  SameRows(t, Then(before, ch))
BY ThenRows, SameRowsEquiv

LEMMA SchemaStep ==
    ASSUME JoinInv, NEW c \in Conn, Schema(c)
    PROVE  JoinInv'
<1>1. pc[c] = "schema" /\ Quiet /\ CallOK(c)
  BY ConnFacts DEF Schema
<1>2. /\ g[c].call.op = "initialize" /\ ~Autocommit(c) /\ <<"schema">> \in txn[c].held
      /\ txn[c].st = "open" /\ SameRows(txn[c], Before(c))
  BY <1>1 DEF CallOK, Expected, Autocommit
<1>3. UNCHANGED <<base, block, ready, told, undone, left>> /\ faults' \in Nat
  BY <1>1 DEF Quiet, JoinInv, TypeOK
<1>4. /\ <<"use">> \in Locks /\ <<"ddl">> \in Locks
      /\ <<"tables">> \notin {<<"use">>, <<"ddl">>}
  <2>1. <<"use">>[1] = "use" /\ <<"tables">>[1] = "tables" /\ <<"ddl">>[1] = "ddl"
    OBVIOUS
  <2> QED
    BY <2>1 DEF Locks
<1>5. CASE block[c] = "own" /\ Raise(c, FALSE, "error")
  BY <1>1, <1>3, <1>5, RaiseStep
<1>6. CASE /\ block[c] # "own"
           /\ Execute(c, Migration(c), {<<"ddl">>}) /\ Finish(c, "error")
  <2>1. PICK t \in Txn :
              /\ TxnOK(t) /\ txn' = [txn EXCEPT ![c] = t] /\ db' = db
              /\ SameRows(t, Then(txn[c], Migration(c)))
              /\ Base \cap View(c) \subseteq Apply(db, t)
              /\ txn[c].held \subseteq t.held /\ t.held \subseteq txn[c].held \cup {<<"ddl">>}
              /\ t.st = "open"
    BY <1>2, <1>4, <1>6, MigrationFacts, ExecuteFacts
  <2>2. PICK q0 : q0 = g[c]
    OBVIOUS
  <2>3. PICK q : q = [q0 EXCEPT !.plan = None, !.used = FALSE, !.out = "error"]
    OBVIOUS
  <2>4. q \in [call : Call, plan : Change, used : BOOLEAN, out : {"none", "true", "false", "error"}]
    <3>1. q0 \in [call : Call, plan : Change, used : BOOLEAN,
                  out : {"none", "true", "false", "error", "collision"}]
      BY <2>2 DEF JoinInv, TypeOK
    <3> QED
      BY <2>3, <3>1, NoneType
  <2>5. pc' = [pc EXCEPT ![c] = "idle"] /\ g' = [g EXCEPT ![c] = q]
    BY <1>6, <2>2, <2>3 DEF Finish
  <2>6. SameRows(t, told[c])
    <3>1. SameRows(txn[c], told[c])
      BY <1>2, <1>6 DEF Before
    <3> QED
      BY <2>1, <3>1, MigrationFacts, ThenNoRows, SameRowsEquiv
  <2>7. IdleOK(c)'
    <3>1. txn'[c] = t /\ Mode[c] # "pool"
      BY <1>1, <1>6, <2>1 DEF JoinInv, TypeOK, CallOK
    <3> QED
      BY <1>3, <2>6, <3>1 DEF IdleOK, SameRows
  <2>8. "idle" \in Labels
    BY DEF Labels
  <2> QED
    BY <1>1, <1>2, <2>1, <2>4, <2>5, <2>7, <2>8, GoesOn
<1>7. CASE /\ Execute(c, Then(Migration(c), Indexes(c)), {<<"use">>, <<"ddl">>})
           /\ Await(c, "end", None, "true")
  <2> DEFINE ch == Then(Migration(c), Indexes(c))
  <2>1. PICK t \in Txn :
              /\ TxnOK(t) /\ txn' = [txn EXCEPT ![c] = t] /\ db' = db
              /\ SameRows(t, Then(txn[c], ch))
              /\ Base \cap View(c) \subseteq Apply(db, t)
              /\ txn[c].held \subseteq t.held /\ t.held \subseteq txn[c].held \cup {<<"use">>, <<"ddl">>}
              /\ t.st = "open" /\ Base \subseteq t.add
    <3>1. /\ ch \in Change /\ ch.del \cap Base = {} /\ ch.add = Base
          /\ {<<"use">>, <<"ddl">>} \in SUBSET (Locks \cup Fact)
      BY <1>4, MigrationFacts
    <3> HIDE DEF ch
    <3>2. Execute(c, ch, {<<"use">>, <<"ddl">>})
      BY <1>7 DEF ch
    <3> QED
      BY <1>2, <1>4, <3>1, <3>2, ExecuteFacts
  <2>2. PICK q \in [call : Call, plan : Change, used : BOOLEAN,
                     out : {"none", "true", "false", "error"}] :
              /\ pc' = [pc EXCEPT ![c] = "end"] /\ g' = [g EXCEPT ![c] = q]
              /\ q.call = g[c].call /\ q.used = g[c].used /\ q.plan = None /\ q.out = "true"
    BY <1>7, NoneType, AwaitFacts
  <2>3. SameRows(t, Then(Before(c), None))
    <3>1. Rows(ch.add) = {} /\ Rows(ch.del) = {}
      BY MigrationFacts
    <3>2. SameRows(Then(txn[c], ch), txn[c])
      BY <3>1, ThenNoRows
    <3>3. SameRows(Then(Before(c), None), Before(c))
      BY NoneType, ThenNoRows DEF Rows
    <3> HIDE DEF ch
    <3> QED
      BY <1>2, <2>1, <3>2, <3>3, SameRowsEquiv
  <2>4. pc'[c] = "end" /\ g'[c] = q /\ txn'[c] = t
    BY <2>1, <2>2 DEF JoinInv, TypeOK
  <2>5. SameRows(txn'[c], Expected(c)')
    <3>1. Expected(c)' = Then(Before(c), None)
      BY <1>3, <2>2, <2>4 DEF Expected, Before
    <3> QED
      BY <2>3, <2>4, <3>1
  <2>6. CallOK(c)'
    BY <1>1, <1>2, <1>3, <2>1, <2>2, <2>4, <2>5 DEF CallOK, Autocommit, SameRows
  <2>7. "end" \in Labels /\ <<"schema">> \in txn[c].held
    BY <1>2 DEF Labels
  <2> HIDE DEF ch
  <2> QED
    BY <1>1, <2>1, <2>2, <2>6, <2>7, GoesOn
<1>8. \/ block[c] = "own" /\ Raise(c, FALSE, "error")
      \/ block[c] # "own" /\ Execute(c, Migration(c), {<<"ddl">>}) /\ Finish(c, "error")
      \/ /\ Execute(c, Then(Migration(c), Indexes(c)), {<<"use">>, <<"ddl">>})
         /\ Await(c, "end", None, "true")
  BY <1>1, NoRivals DEF Schema
<1> QED
  BY <1>5, <1>6, <1>7, <1>8

\* The locks that statements on nodes take.
LEMMA LockNames ==
    ASSUME JoinInv, NEW c \in Conn
    PROVE  /\ {<<"use">>, Node(c)} \subseteq Locks \cup Fact
           /\ {<<"tables">>, <<"ddl">>, <<"schema">>} \cap {<<"use">>, Node(c)} = {}
<1>1. /\ <<"use">>[1] = "use" /\ <<"tables">>[1] = "tables" /\ <<"ddl">>[1] = "ddl"
      /\ <<"schema">>[1] = "schema" /\ Node(c)[1] = "node"
  BY DEF Node
<1>2. {<<"tables">>, <<"ddl">>, <<"schema">>} \cap {<<"use">>, Node(c)} = {}
  BY <1>1
<1> QED
  BY <1>2, CallFacts DEF Locks

\* A statement of an operation on nodes, after which the call goes on at label l
\* with the given plan and result.
LEMMA AnswerStep ==
    ASSUME JoinInv, NEW c \in Conn, pc[c] # "idle", g[c].call.op # "initialize",
           NEW ch \in Change, ch.del \cap Base = {}, ch.add \cap Base = {},
           NEW locks \in SUBSET {<<"use">>, Node(c)},
           Autocommit(c) => ch = None,
           Execute(c, ch, locks),
           NEW l \in {"statement", "content", "end"}, NEW plan \in Change,
           NEW out \in {"none", "true", "false", "error"},
           Await(c, l, plan, out), Quiet,
           l = "content" => g[c].call.op = "write",
           l = "end" /\ out # "true" => plan = None,
           l = "end" /\ Autocommit(c) => plan = None,
           SameRows(Then(txn[c], ch),
                    CASE l = "content" -> Then(Before(c), [add |-> {Node(c)}, del |-> {}])
                      [] l = "end" -> Then(Before(c), plan)
                      [] OTHER -> Before(c))
    PROVE  JoinInv'
<1> DEFINE expected == CASE l = "content" -> Then(Before(c), [add |-> {Node(c)}, del |-> {}])
                         [] l = "end" -> Then(Before(c), plan)
                         [] OTHER -> Before(c)
<1>1. /\ locks \in SUBSET (Locks \cup Fact)
      /\ <<"tables">> \notin locks /\ <<"ddl">> \notin locks /\ <<"schema">> \notin locks
      /\ <<"tables">> \in Base
  BY LockNames DEF Base
<1>2. PICK t \in Txn :
              /\ TxnOK(t) /\ txn' = [txn EXCEPT ![c] = t] /\ db' = db
              /\ SameRows(t, Then(txn[c], ch))
              /\ Base \cap View(c) \subseteq Apply(db, t)
              /\ txn[c].held \subseteq t.held /\ t.held \subseteq txn[c].held \cup locks
              /\ IF Autocommit(c) THEN t = txn[c]
                 ELSE t.st = "open" /\ ch.add \subseteq t.add /\ locks \subseteq t.held
  BY <1>1, ExecuteFacts
<1>3. PICK q \in [call : Call, plan : Change, used : BOOLEAN,
                     out : {"none", "true", "false", "error"}] :
              /\ pc' = [pc EXCEPT ![c] = l] /\ g' = [g EXCEPT ![c] = q]
              /\ q.call = g[c].call /\ q.used = g[c].used /\ q.plan = plan /\ q.out = out
  BY AwaitFacts
<1>4. pc'[c] = l /\ g'[c] = q /\ txn'[c] = t
  BY <1>2, <1>3 DEF JoinInv, TypeOK
<1>5. SameRows(txn'[c], Expected(c)')
  <2>1. Expected(c)' = expected
    BY <1>3, <1>4 DEF Expected, Before, Quiet, Node
  <2>2. SameRows(t, expected)
    BY <1>2, SameRowsEquiv
  <2> QED
    BY <1>4, <2>1, <2>2
<1> HIDE DEF expected
<1>6. CallOK(c) /\ UNCHANGED <<base, block, told, undone>>
  BY ConnFacts DEF Quiet
<1>7. CallOK(c)'
  <2>1. txn[c].st = "open" => t.st = "open"
    BY <1>2
  <2>2. Autocommit(c)' => Autocommit(c)
    BY <1>2, <1>4 DEF Autocommit
  <2>3. t.st # "failed"
    BY <1>2, <1>6 DEF CallOK
  <2> QED
    BY <1>2, <1>3, <1>4, <1>5, <1>6, <2>1, <2>2, <2>3 DEF CallOK, SameRows
<1>8. l \in Labels /\ l # "idle" /\ (t.st = "open" \/ t = txn[c])
  BY <1>2 DEF Labels
<1>9. <<"schema">> \in t.held => <<"schema">> \in txn[c].held \/ LockWaits(c) = {}
  BY <1>1, <1>2
<1> QED
  BY <1>2, <1>3, <1>7, <1>8, <1>9, GoesOn

LEMMA CheckStep ==
    ASSUME JoinInv, NEW c \in Conn, Check(c)
    PROVE  JoinInv'
<1>1. /\ pc[c] = "check" /\ Quiet /\ CallOK(c) /\ g[c].call.op = "move"
      /\ SameRows(txn[c], Before(c)) /\ ~Autocommit(c)
  BY ConnFacts DEF Check, CallOK, Expected
<1>2. UNCHANGED <<base, block, ready, told, undone, left>> /\ faults' \in Nat
  BY <1>1 DEF Quiet, JoinInv, TypeOK
<1>3. SameRows(Then(txn[c], None), Before(c)) /\ SameRows(Then(txn[c], None), Then(Before(c), None))
  BY <1>1, NoneType, ThenNoRows, ThenRows, SameRowsEquiv DEF Rows
<1>4. CASE Raise(c, TRUE, "error")
  BY <1>1, <1>2, <1>4, RaiseStep
<1>5. CASE Execute(c, None, {<<"use">>, Node(c)}) /\ Await(c, "statement", None, "none")
  <2>1. {<<"use">>, Node(c)} \in SUBSET {<<"use">>, Node(c)}
    OBVIOUS
  <2> QED
    BY <1>1, <1>3, <1>5, <2>1, NoneType, AnswerStep
<1>6. CASE Execute(c, None, {<<"use">>}) /\ Await(c, "end", None, "false")
  <2>1. {<<"use">>} \in SUBSET {<<"use">>, Node(c)}
    OBVIOUS
  <2> QED
    BY <1>1, <1>3, <1>6, <2>1, NoneType, AnswerStep
<1> QED
  BY <1>4, <1>5, <1>6 DEF Check

LEMMA ContentStep ==
    ASSUME JoinInv, NEW c \in Conn, Content(c)
    PROVE  JoinInv'
<1> DEFINE node == [add |-> {Node(c)}, del |-> {}]
<1>1. /\ pc[c] = "content" /\ Quiet /\ CallOK(c) /\ g[c].call.op = "write"
      /\ SameRows(txn[c], Then(Before(c), node)) /\ ~Autocommit(c)
      /\ Execute(c, Plan(c), {<<"use">>}) /\ Await(c, "end", Plan(c), "true")
  BY ConnFacts DEF Content, CallOK, Expected
<1>2. Plan(c) = [add |-> {Node(c), Data(c)}, del |-> {}]
  BY <1>1 DEF Plan
<1>3. \A x : Then(Then(x, node), Plan(c)) = Then(x, Plan(c))
  BY <1>2 DEF Then
<1>4. SameRows(Then(txn[c], Plan(c)), Then(Before(c), Plan(c)))
  <2>1. SameRows(Then(txn[c], Plan(c)), Then(Then(Before(c), node), Plan(c)))
    BY <1>1, ThenRows
  <2> QED
    BY <1>3, <2>1
<1>5. {<<"use">>} \in SUBSET {<<"use">>, Node(c)}
  OBVIOUS
<1> QED
  BY <1>1, <1>4, <1>5, CallFacts, AnswerStep

LEMMA StatementStep ==
    ASSUME JoinInv, NEW c \in Conn, Statement(c)
    PROVE  JoinInv'
<1> DEFINE node == [add |-> {Node(c)}, del |-> {}]
<1>1. /\ pc[c] = "statement" /\ Quiet /\ CallOK(c) /\ g[c].call.op # "initialize"
      /\ SameRows(txn[c], Before(c)) /\ (Autocommit(c) => g[c].call.op = "read")
  BY ConnFacts DEF Statement, CallOK, Expected
<1>2. UNCHANGED <<base, block, ready, told, undone, left>> /\ faults' \in Nat
  BY <1>1 DEF Quiet, JoinInv, TypeOK
<1>3. \A ch : SameRows(Then(txn[c], ch), Then(Before(c), ch))
  BY <1>1, ThenRows
<1>4. /\ {<<"use">>} \in SUBSET {<<"use">>, Node(c)} /\ {} \in SUBSET {<<"use">>, Node(c)}
      /\ "true" \in {"none", "true", "false", "error"}
      /\ "false" \in {"none", "true", "false", "error"}
  OBVIOUS
<1>5. CASE Raise(c, TRUE, "error")
  BY <1>1, <1>2, <1>5, RaiseStep
<1>6. CASE /\ Execute(c, None, {}) \/ Execute(c, None, {<<"use">>})
           /\ \E out \in {"true", "false"} : Await(c, "end", None, out)
  BY <1>1, <1>3, <1>4, <1>6, NoneType, AnswerStep
<1>7. CASE /\ g[c].call.op # "read"
           /\ Execute(c, Plan(c), {<<"use">>}) /\ Await(c, "end", Plan(c), "true")
  BY <1>1, <1>3, <1>4, <1>7, CallFacts, AnswerStep
<1>8. CASE /\ g[c].call.op = "write"
           /\ Execute(c, node, {<<"use">>}) /\ Await(c, "content", Plan(c), "true")
  <2>1. node.del \cap Base = {} /\ node.add \cap Base = {} /\ node \in Change
    BY CallFacts
  <2> QED
    BY <1>1, <1>3, <1>4, <1>8, <2>1, CallFacts, AnswerStep
<1>9. \/ Raise(c, TRUE, "error")
      \/ /\ Execute(c, None, {}) \/ Execute(c, None, {<<"use">>})
         /\ \E out \in {"true", "false"} : Await(c, "end", None, out)
      \/ /\ g[c].call.op # "read"
         /\ Execute(c, Plan(c), {<<"use">>}) /\ Await(c, "end", Plan(c), "true")
      \/ /\ g[c].call.op = "write"
         /\ Execute(c, node, {<<"use">>}) /\ Await(c, "content", Plan(c), "true")
  <2>1. CASE <<"tables">> \notin View(c)
    BY <2>1 DEF Statement
  <2>2. CASE <<"tables">> \in View(c) /\ g[c].call.op = "move"
    <3>1. MoveUpdate(c)
      BY <2>2 DEF Statement
    <3> QED
      BY <2>2, <3>1 DEF MoveUpdate
  <2>3. CASE <<"tables">> \in View(c) /\ g[c].call.op = "read"
    <3>1. Plan(c) = None
      BY <2>3 DEF Plan
    <3>2. \E ok \in BOOLEAN : Answer(c, None, "end", ok)
      BY <2>3 DEF Statement
    <3> QED
      BY <3>1, <3>2 DEF Answer
  <2>4. CASE <<"tables">> \in View(c) /\ g[c].call.op = "delete"
    <3>1. Answer(c, Plan(c), "end", TRUE) \/ Answer(c, None, "end", FALSE)
      BY <2>4 DEF Statement
    <3> QED
      BY <2>4, <3>1 DEF Answer
  <2>5. CASE <<"tables">> \in View(c) /\ g[c].call.op \in {"create", "write"}
    <3>1. \/ Answer(c, None, "end", FALSE)
          \/ g[c].call.op = "create" /\ Answer(c, node, "end", TRUE)
          \/ g[c].call.op = "write" /\ Answer(c, node, "content", TRUE)
      BY <2>5 DEF Statement
    <3>2. g[c].call.op = "create" => Plan(c) = node
      BY DEF Plan
    <3> QED
      BY <2>5, <3>1, <3>2 DEF Answer
  <2>6. g[c].call.op \in Ops
    BY ConnFacts
  <2> QED
    BY <1>1, <2>1, <2>2, <2>3, <2>4, <2>5, <2>6 DEF Ops
<1> QED
  BY <1>5, <1>6, <1>7, <1>8, <1>9

-----------------------------------------------------------------------------
(* Calls begin and end *)

\* A transaction of the call's own starts on an idle connection only.
LEMMA OwnBlocks ==
    ASSUME JoinInv, NEW c \in Conn, pc[c] = "idle", NEW b,
           b \in {InitBlock(c), TxBlock(c)} \/ (b = "own" /\ Mode[c] = "pool")
           \/ (b = "none" /\ Mode[c] # "pool")
    PROVE  /\ b \in {"own", "savepoint", "none"}
           /\ b = "own" => txn[c].st = "idle"
           /\ Mode[c] = "pool" => b = "own"
           /\ b = "savepoint" => Mode[c] = "auto" /\ txn[c].st # "idle"
<1>1. Mode[c] \in {"pool", "joined", "auto"}
  BY JoinedAssumption
<1>2. Mode[c] = "pool" => txn[c].st = "idle"
  BY ConnFacts DEF IdleOK
<1> QED
  BY <1>1, <1>2 DEF InitBlock, TxBlock

LEMMA OpenTxn ==
    ASSUME JoinInv, NEW c \in Conn, txn[c].st = "idle",
           NEW t, t = [txn[c] EXCEPT !.st = "open"]
    PROVE  /\ t \in Txn /\ TxnOK(t) /\ t.st = "open" /\ t.add = {} /\ t.del = {} /\ t.held = {}
           /\ SameRows(t, None)
<1>1. txn[c] = NoTxn
  BY ConnFacts DEF TxnOK
<1>2. t \in Txn /\ t.st = "open" /\ t.add = {} /\ t.del = {} /\ t.held = {}
  BY <1>1 DEF NoTxn, Txn
<1> QED
  BY <1>2, NoneType DEF TxnOK, SameRows

LEMMA BeginStep ==
    ASSUME JoinInv, NEW c \in Conn, NEW call \in Calls, Begin(c, call)
    PROVE  JoinInv'
<1>1. PICK b : b = CASE call.op = "initialize" -> InitBlock(c)
                     [] call.op = "read" -> IF Mode[c] = "pool" THEN "own" ELSE "none"
                     [] OTHER -> TxBlock(c)
  OBVIOUS
<1>2. PICK q : q = [call |-> call, plan |-> None,
                    used |-> <<"use">> \in txn[c].held, out |-> "none"]
  OBVIOUS
<1>3. /\ pc[c] = "idle" /\ left > 0 /\ left' = left - 1 /\ txn[c].st # "failed"
      /\ g' = [g EXCEPT ![c] = q]
      /\ pc' = [pc EXCEPT ![c] = First(call)]
      /\ block' = [block EXCEPT ![c] = b]
      /\ base' = [base EXCEPT ![c] = IF b = "savepoint" THEN txn[c] ELSE NoTxn]
      /\ txn' = IF b = "own" THEN [txn EXCEPT ![c].st = "open"] ELSE txn
      /\ UNCHANGED <<db, ready, told, undone, faults>>
  BY <1>1, <1>2 DEF Begin
<1>4. call \in Call /\ call.op \in Ops
  BY JoinedAssumption DEF Call
<1>5. /\ b \in {"own", "savepoint", "none"}
      /\ b = "own" => txn[c].st = "idle"
      /\ Mode[c] = "pool" => b = "own"
      /\ b = "savepoint" => Mode[c] = "auto" /\ txn[c].st # "idle"
  <2>1. b \in {InitBlock(c), TxBlock(c)} \/ (b = "own" /\ Mode[c] = "pool")
        \/ (b = "none" /\ Mode[c] # "pool")
    BY <1>1
  <2> QED
    BY <1>3, <2>1, OwnBlocks
<1>6. PICK t : t = IF b = "own" THEN [txn[c] EXCEPT !.st = "open"] ELSE txn[c]
  OBVIOUS
<1>7. txn' = [txn EXCEPT ![c] = t]
  BY <1>3, <1>6 DEF JoinInv, TypeOK
<1>8. /\ t \in Txn /\ TxnOK(t) /\ t.st # "failed" /\ (b = "own" => t.st = "open")
      /\ t.held \subseteq txn[c].held
      /\ SameRows(t, IF b = "own" THEN None ELSE told[c])
      /\ t.st = "idle" => told[c] = None
      /\ b = "own" => told[c] = None /\ undone[c] # "pending"
      /\ undone[c] = "pending" => t.st # "idle" /\ Base \subseteq Apply(db, t)
      /\ b # "own" => t = txn[c]
  <2>1. IdleOK(c) /\ SchemaOK(c) /\ TxnOK(txn[c]) /\ (txn[c].st = "idle" => told[c] = None)
        /\ txn[c] \in Txn /\ txn[c].st \in {"idle", "open", "failed"}
    BY <1>3, ConnFacts
  <2>2. CASE b = "own"
    BY <1>5, <1>6, <2>1, <2>2, OpenTxn DEF SchemaOK
  <2>3. CASE b # "own" /\ txn[c].st = "idle"
    <3>1. t = NoTxn /\ told[c] = None
      BY <1>6, <2>1, <2>3 DEF TxnOK
    <3>2. SameRows(t, told[c])
      BY <3>1, NoneType DEF NoTxn, SameRows
    <3> QED
      BY <1>6, <2>1, <2>3, <3>1, <3>2 DEF SchemaOK
  <2>4. CASE b # "own" /\ txn[c].st = "open"
    BY <1>6, <2>1, <2>4 DEF SchemaOK, IdleOK, View
  <2> QED
    BY <1>3, <2>1, <2>2, <2>3, <2>4
<1>9. NoTxn \in Txn /\ TxnOK(NoTxn)
  BY DEF NoTxn, Txn, TxnOK
<1>10. PICK s : s = IF b = "savepoint" THEN txn[c] ELSE NoTxn
  OBVIOUS
<1>11. /\ s \in Txn /\ TxnOK(s) /\ base' = [base EXCEPT ![c] = s]
       /\ b = "savepoint" => s = t
  BY <1>3, <1>8, <1>9, <1>10, ConnFacts
<1>12. First(call) \in {"lock", "topology", "statement"}
       /\ (call.op = "initialize" <=> First(call) = "lock")
       /\ (First(call) = "topology" => call.op = "move")
  BY <1>4 DEF First, Ops
<1>13. /\ txn'[c] = t /\ base'[c] = s /\ block'[c] = b /\ pc'[c] = First(call) /\ g'[c] = q
       /\ \A d \in Conn \ {c} : /\ txn'[d] = txn[d] /\ base'[d] = base[d]
                                /\ block'[d] = block[d] /\ pc'[d] = pc[d] /\ g'[d] = g[d]
                                /\ ready'[d] = ready[d] /\ told'[d] = told[d]
                                /\ undone'[d] = undone[d]
  BY <1>3, <1>7, <1>11 DEF JoinInv, TypeOK
<1>14. /\ q.call = call /\ q.plan = None /\ q.out = "none"
       /\ q.used = (<<"use">> \in txn[c].held)
  BY <1>2
<1>15. TypeOK'
  <2>1. /\ db' \subseteq Fact /\ txn' \in [Conn -> Txn] /\ base' \in [Conn -> Txn]
        /\ block' \in [Conn -> {"own", "savepoint", "none"}] /\ pc' \in [Conn -> Labels]
        /\ ready' \in [Conn -> BOOLEAN] /\ told' \in [Conn -> Change]
        /\ undone' \in [Conn -> {"no", "pending", "yes"}] /\ left' \in Nat /\ faults' \in Nat
    <3>1. left' \in Nat
      BY <1>3 DEF JoinInv, TypeOK
    <3>2. First(call) \in Labels
      BY <1>12 DEF Labels
    <3>3. txn' \in [Conn -> Txn] /\ base' \in [Conn -> Txn]
      BY <1>7, <1>8, <1>11 DEF JoinInv, TypeOK
    <3>4. pc' \in [Conn -> Labels] /\ block' \in [Conn -> {"own", "savepoint", "none"}]
      BY <1>3, <1>5, <3>2 DEF JoinInv, TypeOK
    <3> QED
      BY <1>3, <3>1, <3>3, <3>4 DEF JoinInv, TypeOK
  <2>2. q \in [call : Call, plan : Change, used : BOOLEAN,
               out : {"none", "true", "false", "error", "collision"}]
    BY <1>2, <1>4, NoneType
  <2>3. g' \in [Conn -> [call : Call, plan : Change, used : BOOLEAN,
                         out : {"none", "true", "false", "error", "collision"}]]
    BY <1>3, <2>2 DEF JoinInv, TypeOK
  <2>4. \A d \in Conn : /\ txn'[d].st = "idle" => txn'[d] = NoTxn
                        /\ Mode[d] = "pool" /\ pc'[d] = "idle" => txn'[d].st = "idle"
    BY <1>8, <1>12, <1>13 DEF JoinInv, TypeOK, TxnOK
  <2> QED
    BY <2>1, <2>3, <2>4 DEF TypeOK
<1>16. CallOK(c)'
  <2>1. SameRows(txn'[c], Expected(c)')
    BY <1>3, <1>8, <1>12, <1>13 DEF Expected, Before
  <2>2. Autocommit(c)' => call.op = "read"
    <3>1. Autocommit(c)' => Mode[c] = "auto" /\ t.st = "idle" /\ b # "own" /\ txn[c].st = "idle"
      BY <1>8, <1>13 DEF Autocommit
    <3> QED
      BY <1>1, <3>1 DEF InitBlock, TxBlock
  <2>3. call.op = "initialize" => t.st = "open" /\ b # "savepoint"
    <3>1. call.op = "initialize" => b = IF txn[c].st = "idle" THEN "own" ELSE "none"
      BY <1>1 DEF InitBlock
    <3> QED
      BY <1>8, <3>1 DEF Txn
  <2>4. b = "savepoint" => t.st = "open" /\ SameRows(s, told[c]) /\ s.held \subseteq t.held
    BY <1>5, <1>8, <1>11 DEF Txn
  <2>5. <<"use">> \in t.held => q.used
    BY <1>8, <1>14
  <2>6. g'[c].call.op = call.op
    BY <1>13, <1>14
  <2> QED
    BY <1>3, <1>5, <1>8, <1>11, <1>12, <1>13, <1>14, <2>1, <2>2, <2>3, <2>4, <2>5, <2>6
       DEF CallOK, SameRows
<1>17. ConnOK(c)'
  <2>1. SchemaOK(c)'
    <3>1. SchemaOK(c)
      BY ConnFacts
    <3> QED
      BY <1>3, <1>8, <1>13, <3>1 DEF SchemaOK, View
  <2> QED
    BY <1>3, <1>8, <1>11, <1>12, <1>13, <1>14, <1>16, <2>1 DEF ConnOK, TxnOK
<1>18. Grown(db, db') /\ (<<"schema">> \in txn'[c].held => <<"schema">> \in txn[c].held)
  BY <1>3, <1>8, <1>13 DEF Grown
<1> QED
  BY <1>13, <1>15, <1>17, <1>18, OneConn

\* A view keeps what the schema has, and every view is a set of facts.
LEMMA ViewFacts ==
    ASSUME JoinInv, NEW c \in Conn
    PROVE  View(c) \subseteq Fact /\ Grown(db, View(c))
BY ConnFacts DEF View, Apply, Grown, TxnOK

LEMMA EmptyTxn ==
    /\ NoTxn \in Txn /\ TxnOK(NoTxn) /\ NoTxn.st = "idle" /\ NoTxn.held = {}
    /\ NoTxn.add = {} /\ NoTxn.del = {}
BY DEF NoTxn, Txn, TxnOK

LEMMA EndStep ==
    ASSUME JoinInv, NEW c \in Conn, End(c)
    PROVE  JoinInv'
<1>1. /\ pc[c] = "end" /\ pc' = [pc EXCEPT ![c] = "idle"]
      /\ ready' = [ready EXCEPT ![c] = @ \/ g[c].call.op = "initialize"]
      /\ undone' = IF g[c].call.op # "initialize" THEN undone
                   ELSE [undone EXCEPT ![c] = IF block[c] = "own" THEN "no" ELSE "pending"]
      /\ UNCHANGED <<base, block, left, faults>>
  BY DEF End, Finish
<1>2. CallOK(c) /\ SchemaOK(c) /\ SameRows(txn[c], Then(Before(c), g[c].plan))
  BY <1>1, ConnFacts DEF CallOK, Expected
<1>3. PICK t : t = IF block[c] = "own" THEN NoTxn ELSE txn[c]
  OBVIOUS
<1>4. PICK u : u = IF block[c] = "own" THEN told[c] ELSE Then(told[c], g[c].plan)
  OBVIOUS
<1>5. /\ txn' = [txn EXCEPT ![c] = t] /\ told' = [told EXCEPT ![c] = u]
      /\ db' = IF block[c] = "own" THEN View(c) ELSE db
  BY <1>3, <1>4 DEF End, JoinInv, TypeOK
<1>6. t \in Txn /\ TxnOK(t) /\ t.held \subseteq txn[c].held
  BY <1>3, EmptyTxn, ConnFacts
<1>7. u \in Change /\ (t.st = "idle" => u = None) /\ (t.st = "open" => SameRows(t, u))
  <2>1. CASE block[c] = "own"
    BY <1>2, <1>3, <1>4, <2>1, EmptyTxn, ConnFacts DEF CallOK
  <2>2. CASE block[c] # "own"
    <3>1. told[c] \in Change /\ g[c].plan \in Change
      BY ConnFacts
    <3>2. Then(told[c], g[c].plan) \in Change
      BY <3>1, ThenType DEF Change
    <3>3. txn[c].st = "idle" => told[c] = None /\ g[c].plan = None
      BY <1>1, <1>2, ConnFacts DEF CallOK
    <3>4. txn[c].st = "idle" => Then(told[c], g[c].plan) = None
      BY <3>3, NoneType, NoneThen
    <3> QED
      BY <1>2, <1>3, <1>4, <2>2, <3>2, <3>4 DEF Before
  <2> QED
    BY <2>1, <2>2
<1>8. PICK q0 : q0 = g[c]
  OBVIOUS
<1>9. PICK q : q = [q0 EXCEPT !.plan = None, !.used = FALSE, !.out = q0.out]
  OBVIOUS
<1>10. g' = [g EXCEPT ![c] = q]
  BY <1>8, <1>9 DEF End, Finish
<1>11. /\ q \in [call : Call, plan : Change, used : BOOLEAN,
                 out : {"none", "true", "false", "error", "collision"}]
       /\ q.out # "collision"
  <2>1. q0 \in [call : Call, plan : Change, used : BOOLEAN,
                out : {"none", "true", "false", "error", "collision"}]
        /\ q0.out # "collision"
    BY <1>8, ConnFacts DEF JoinInv, TypeOK
  <2> QED
    BY <1>9, <2>1, NoneType
<1>12. /\ txn'[c] = t /\ pc'[c] = "idle" /\ g'[c] = q /\ told'[c] = u
       /\ ready'[c] = (ready[c] \/ g[c].call.op = "initialize")
       /\ undone'[c] = IF g[c].call.op # "initialize" THEN undone[c]
                       ELSE IF block[c] = "own" THEN "no" ELSE "pending"
       /\ \A d \in Conn \ {c} : /\ txn'[d] = txn[d] /\ base'[d] = base[d]
                                /\ block'[d] = block[d] /\ pc'[d] = pc[d] /\ g'[d] = g[d]
                                /\ ready'[d] = ready[d] /\ told'[d] = told[d]
                                /\ undone'[d] = undone[d]
  BY <1>1, <1>5, <1>10 DEF JoinInv, TypeOK
<1>13. Mode[c] = "pool" => t.st = "idle"
  BY <1>2, <1>3, EmptyTxn DEF CallOK
<1>14. TypeOK'
  <2>1. db' \subseteq Fact /\ txn' \in [Conn -> Txn] /\ told' \in [Conn -> Change]
    BY <1>5, <1>6, <1>7, ViewFacts DEF JoinInv, TypeOK
  <2>2. "idle" \in Labels
    BY DEF Labels
  <2>3. pc' \in [Conn -> Labels] /\ ready' \in [Conn -> BOOLEAN]
    BY <1>1, <2>2 DEF JoinInv, TypeOK
  <2>4. undone' \in [Conn -> {"no", "pending", "yes"}]
    BY <1>1 DEF JoinInv, TypeOK
  <2>5. g' \in [Conn -> [call : Call, plan : Change, used : BOOLEAN,
                         out : {"none", "true", "false", "error", "collision"}]]
    BY <1>10, <1>11 DEF JoinInv, TypeOK
  <2>6. /\ base' \in [Conn -> Txn] /\ block' \in [Conn -> {"own", "savepoint", "none"}]
        /\ left' \in Nat /\ faults' \in Nat
    BY <1>1 DEF JoinInv, TypeOK
  <2>7. \A d \in Conn : /\ txn'[d].st = "idle" => txn'[d] = NoTxn
                        /\ Mode[d] = "pool" /\ pc'[d] = "idle" => txn'[d].st = "idle"
    BY <1>6, <1>12, <1>13 DEF JoinInv, TypeOK, TxnOK
  <2> QED
    BY <2>1, <2>3, <2>4, <2>5, <2>6, <2>7 DEF TypeOK
<1>15. SchemaOK(c)'
  <2>1. Base \subseteq txn[c].add => Base \subseteq View(c)
    BY DEF View, Apply
  <2>2. CASE g[c].call.op = "initialize" /\ block[c] = "own"
    <3>1. Base \subseteq View(c) /\ db' = View(c)
      BY <1>1, <1>2, <1>5, <2>1, <2>2 DEF CallOK
    <3> QED
      BY <1>12, <2>2, <3>1 DEF SchemaOK
  <2>3. CASE g[c].call.op = "initialize" /\ block[c] # "own"
    <3>1. Base \subseteq Apply(db, txn[c]) /\ db' = db /\ t = txn[c] /\ txn[c].st = "open"
      BY <1>1, <1>2, <1>3, <1>5, <2>1, <2>3 DEF CallOK, View
    <3>2. undone'[c] = "pending" /\ txn'[c] = txn[c]
      BY <1>12, <2>3, <3>1
    <3> QED
      BY <3>1, <3>2 DEF SchemaOK, View
  <2>4. CASE g[c].call.op # "initialize" /\ block[c] = "own"
    <3>1. undone[c] # "pending" /\ db' = View(c) /\ Grown(db, View(c))
      BY <1>2, <1>5, <2>4, ViewFacts DEF CallOK
    <3>2. undone'[c] = undone[c] /\ ready'[c] = ready[c]
      BY <1>12, <2>4, ConnFacts
    <3> QED
      BY <1>2, <3>1, <3>2 DEF SchemaOK, Grown
  <2>5. CASE g[c].call.op # "initialize" /\ block[c] # "own"
    <3>1. db' = db /\ txn'[c] = txn[c]
      BY <1>3, <1>5, <1>12, <2>5
    <3>2. undone'[c] = undone[c] /\ ready'[c] = ready[c]
      BY <1>12, <2>5, ConnFacts
    <3> QED
      BY <1>2, <3>1, <3>2 DEF SchemaOK, View
  <2> QED
    BY <2>2, <2>3, <2>4, <2>5
<1>16. ConnOK(c)'
  <2>1. TxnOK(base[c])
    BY ConnFacts
  <2>2. IdleOK(c)'
    BY <1>7, <1>12, <1>13 DEF IdleOK, SameRows
  <2> QED
    BY <1>1, <1>6, <1>7, <1>11, <1>12, <1>15, <2>1, <2>2 DEF ConnOK, TxnOK
<1>17. Grown(db, db') /\ (<<"schema">> \in txn'[c].held => <<"schema">> \in txn[c].held)
  BY <1>5, <1>6, <1>12, ViewFacts DEF Grown
<1> QED
  BY <1>12, <1>14, <1>16, <1>17, OneConn

-----------------------------------------------------------------------------
(* Steps between the calls of a connection *)

\* Its transaction becomes t, and what the caller was told u.
LEMMA BetweenCalls ==
    ASSUME JoinInv, NEW c \in Conn, pc[c] = "idle", NEW t \in Txn, TxnOK(t),
           NEW u \in Change, NEW r \in BOOLEAN, NEW n \in {"no", "pending", "yes"},
           txn' = [txn EXCEPT ![c] = t], told' = [told EXCEPT ![c] = u],
           ready' = [ready EXCEPT ![c] = r], undone' = [undone EXCEPT ![c] = n],
           db' \subseteq Fact, Grown(db, db'), left' \in Nat,
           UNCHANGED <<base, block, pc, g, faults>>,
           t.st = "idle" => u = None,
           t.st = "open" => SameRows(t, u),
           Mode[c] = "pool" => t.st = "idle",
           t.held \subseteq txn[c].held,
           n = "no" /\ r => Base \subseteq db',
           n = "pending" => t.st # "idle" /\ (t.st = "failed" \/ Base \subseteq Apply(db', t))
    PROVE  JoinInv'
<1>1. /\ txn'[c] = t /\ told'[c] = u /\ ready'[c] = r /\ undone'[c] = n
      /\ \A d \in Conn \ {c} : /\ txn'[d] = txn[d] /\ base'[d] = base[d]
                               /\ block'[d] = block[d] /\ pc'[d] = pc[d] /\ g'[d] = g[d]
                               /\ ready'[d] = ready[d] /\ told'[d] = told[d]
                               /\ undone'[d] = undone[d]
  BY DEF JoinInv, TypeOK
<1>2. TypeOK'
  <2>1. /\ txn' \in [Conn -> Txn] /\ told' \in [Conn -> Change] /\ ready' \in [Conn -> BOOLEAN]
        /\ undone' \in [Conn -> {"no", "pending", "yes"}]
    BY DEF JoinInv, TypeOK
  <2>2. \A d \in Conn : /\ txn'[d].st = "idle" => txn'[d] = NoTxn
                        /\ Mode[d] = "pool" /\ pc'[d] = "idle" => txn'[d].st = "idle"
    BY <1>1 DEF JoinInv, TypeOK, TxnOK
  <2> QED
    BY <2>1, <2>2 DEF JoinInv, TypeOK
<1>3. ConnOK(c)'
  <2>1. TxnOK(base[c]) /\ g[c].out # "collision"
    BY ConnFacts
  <2>2. IdleOK(c)'
    BY <1>1 DEF IdleOK, SameRows
  <2>3. SchemaOK(c)'
    BY <1>1 DEF SchemaOK, View
  <2> QED
    BY <1>1, <2>1, <2>2, <2>3 DEF ConnOK, TxnOK
<1> QED
  BY <1>1, <1>2, <1>3, OneConn

LEMMA CloseStep ==
    ASSUME JoinInv, NEW c \in Conn, Close(c)
    PROVE  JoinInv'
<1>1. /\ pc[c] = "idle" /\ left' \in Nat /\ ready' = [ready EXCEPT ![c] = FALSE]
      /\ UNCHANGED <<db, txn, base, block, pc, g, told, undone, faults>>
  BY DEF Close, JoinInv, TypeOK
<1>2. /\ txn' = [txn EXCEPT ![c] = txn[c]] /\ told' = [told EXCEPT ![c] = told[c]]
      /\ undone' = [undone EXCEPT ![c] = undone[c]]
  BY <1>1 DEF JoinInv, TypeOK
<1>3. /\ TxnOK(txn[c]) /\ txn[c] \in Txn /\ told[c] \in Change /\ FALSE \in BOOLEAN
      /\ undone[c] \in {"no", "pending", "yes"} /\ IdleOK(c) /\ SchemaOK(c)
      /\ txn[c].st = "idle" => told[c] = None
  BY <1>1, ConnFacts
<1>4. db' \subseteq Fact /\ Grown(db, db')
  BY <1>1, ConnFacts DEF Grown
<1>5. /\ undone[c] = "pending" => /\ txn[c].st # "idle"
                                  /\ txn[c].st = "failed" \/ Base \subseteq Apply(db', txn[c])
      /\ txn[c].st = "open" => SameRows(txn[c], told[c])
      /\ Mode[c] = "pool" => txn[c].st = "idle"
  BY <1>1, <1>3 DEF SchemaOK, View, IdleOK
<1> QED
  BY <1>1, <1>2, <1>3, <1>4, <1>5, BetweenCalls

LEMMA CallerBeginsStep ==
    ASSUME JoinInv, NEW c \in Conn, CallerBegins(c)
    PROVE  JoinInv'
<1>1. /\ pc[c] = "idle" /\ Mode[c] # "pool" /\ txn[c].st = "idle" /\ left' \in Nat
      /\ txn' = [txn EXCEPT ![c].st = "open"]
      /\ UNCHANGED <<db, told, undone, base, block, pc, g, ready, faults>>
  BY DEF CallerBegins, Idle, Autocommit, Same, JoinInv, TypeOK
<1>2. PICK t : t = [txn[c] EXCEPT !.st = "open"]
  OBVIOUS
<1>3. t \in Txn /\ TxnOK(t) /\ t.st = "open" /\ t.held = {} /\ SameRows(t, None)
  BY <1>1, <1>2, OpenTxn
<1>4. /\ txn' = [txn EXCEPT ![c] = t] /\ told' = [told EXCEPT ![c] = None]
      /\ undone' = [undone EXCEPT ![c] = undone[c]] /\ ready' = [ready EXCEPT ![c] = ready[c]]
  <2>1. told[c] = None
    BY <1>1, ConnFacts
  <2> QED
    BY <1>1, <1>2, <2>1 DEF JoinInv, TypeOK
<1>5. /\ None \in Change /\ ready[c] \in BOOLEAN /\ undone[c] \in {"no", "pending", "yes"}
      /\ undone[c] # "pending" /\ db' \subseteq Fact /\ Grown(db, db')
      /\ undone[c] = "no" /\ ready[c] => Base \subseteq db'
  BY <1>1, NoneType, ConnFacts DEF SchemaOK, Grown
<1>6. /\ t \in Txn /\ TxnOK(t) /\ t.held \subseteq txn[c].held /\ t.st # "idle"
      /\ Mode[c] = "pool" => t.st = "idle"
      /\ t.st = "open" => SameRows(t, None)
      /\ UNCHANGED <<base, block, pc, g, faults>>
  BY <1>1, <1>3
<1>7. pc[c] = "idle" /\ left' \in Nat
  BY <1>1
<1>8. undone[c] = "pending" => /\ t.st # "idle"
                               /\ t.st = "failed" \/ Base \subseteq Apply(db', t)
  BY <1>5
<1> QED
  BY <1>4, <1>5, <1>6, <1>7, <1>8, BetweenCalls

LEMMA BusinessStep ==
    ASSUME JoinInv, NEW c \in Conn, Business(c)
    PROVE  JoinInv'
<1> DEFINE ch == [add |-> {<<"business", c>>}, del |-> {}]
<1>1. /\ pc[c] = "idle" /\ Mode[c] # "pool" /\ txn[c].st # "failed" /\ left' \in Nat
      /\ Execute(c, ch, {})
      /\ told' = IF Autocommit(c) THEN told ELSE [told EXCEPT ![c] = Then(@, ch)]
      /\ UNCHANGED <<undone, base, block, pc, g, ready, faults>>
  BY DEF Business, Idle, Same, JoinInv, TypeOK
<1>2. /\ ch \in Change /\ ch.add \cap Base = {} /\ ch.del = {}
  <2>1. <<"business", c>> \in Fact /\ <<"business", c>> \notin Base
    BY BaseFacts DEF Fact
  <2> QED
    BY <2>1 DEF Change
<1>3. /\ TxnOK(txn[c]) /\ txn[c] \in Txn /\ told[c] \in Change /\ ready[c] \in BOOLEAN
      /\ undone[c] \in {"no", "pending", "yes"} /\ IdleOK(c) /\ SchemaOK(c)
      /\ txn[c].st = "idle" => told[c] = None
      /\ txn[c].st \in {"idle", "open"}
  BY <1>1, ConnFacts
<1>4. PICK r \in BOOLEAN, n \in {"no", "pending", "yes"} :
          /\ r = ready[c] /\ n = undone[c]
          /\ undone' = [undone EXCEPT ![c] = n] /\ ready' = [ready EXCEPT ![c] = r]
  BY <1>1, <1>3 DEF JoinInv, TypeOK
<1> HIDE DEF ch
<1>5. CASE Autocommit(c)
  <2>1. db' = Apply(db, ch) /\ txn' = [txn EXCEPT ![c] = txn[c]] /\ txn[c].st = "idle"
        /\ told' = [told EXCEPT ![c] = told[c]]
    BY <1>1, <1>5 DEF Execute, Autocommit, JoinInv, TypeOK
  <2>2. db' \subseteq Fact /\ Grown(db, db')
    BY <1>2, <2>1, ConnFacts DEF Apply, Change, Grown
  <2>3. n # "pending" /\ (n = "no" /\ r => Base \subseteq db')
    BY <1>3, <1>4, <2>1, <2>2 DEF SchemaOK, Grown
  <2>4. PICK t \in Txn, u \in Change :
            /\ t = txn[c] /\ u = told[c] /\ TxnOK(t) /\ t.st = "idle" /\ u = None
            /\ txn' = [txn EXCEPT ![c] = t] /\ told' = [told EXCEPT ![c] = u]
    BY <1>3, <2>1
  <2>5. t.held \subseteq txn[c].held /\ t.st # "open"
    BY <2>4
  <2>6. /\ n = "no" /\ r => Base \subseteq db'
        /\ n = "pending" => t.st # "idle" /\ (t.st = "failed" \/ Base \subseteq Apply(db', t))
        /\ t.st = "idle" => u = None
        /\ t.st = "open" => SameRows(t, u)
        /\ Mode[c] = "pool" => t.st = "idle"
    BY <2>3, <2>4, <2>5
  <2>7. /\ pc[c] = "idle" /\ left' \in Nat
        /\ UNCHANGED <<base, block, pc, g, faults>>
    BY <1>1
  <2> QED
    BY ONLY JoinInv, c \in Conn, t \in Txn, u \in Change, r \in BOOLEAN,
            n \in {"no", "pending", "yes"},
            <1>4, <2>2, <2>4, <2>5, <2>6, <2>7, BetweenCalls
<1>6. CASE ~Autocommit(c)
  <2>1. PICK t \in Txn :
              /\ TxnOK(t) /\ txn' = [txn EXCEPT ![c] = t] /\ db' = db
              /\ SameRows(t, Then(txn[c], ch))
              /\ Base \cap View(c) \subseteq Apply(db, t)
              /\ txn[c].held \subseteq t.held /\ t.held \subseteq txn[c].held \cup {}
              /\ t.st = "open"
    <3>1. /\ {} \in SUBSET (Locks \cup Fact) /\ ch.del \cap Base = {} /\ <<"tables">> \notin {}
          /\ ~(<<"tables">> \in ch.add \/ <<"ddl">> \in {})
      BY <1>2 DEF Base
    <3> QED
      BY <1>1, <1>2, <1>6, <3>1, ExecuteFacts
  <2>2. PICK u : u = Then(told[c], ch)
    OBVIOUS
  <2>3. u \in Change /\ told' = [told EXCEPT ![c] = u]
    BY <1>1, <1>2, <1>3, <1>6, <2>2, ThenType DEF Change
  <2>4. SameRows(txn[c], told[c])
    <3>1. txn[c].st = "idle" => txn[c].add = {} /\ txn[c].del = {} /\ told[c] = None
      BY <1>3, EmptyTxn DEF TxnOK
    <3> QED
      BY <1>3, <3>1, NoneType DEF IdleOK, SameRows
  <2>5. SameRows(t, u)
    BY <2>1, <2>2, <2>4, StatementRows
  <2>6. /\ n = "pending" => Base \subseteq Apply(db', t)
        /\ n = "no" /\ r => Base \subseteq db'
        /\ db' \subseteq Fact /\ Grown(db, db') /\ t.held \subseteq txn[c].held
    BY <1>3, <1>4, <2>1, ConnFacts DEF SchemaOK, Grown
  <2>7. /\ t.st # "idle" /\ Mode[c] # "pool" /\ TxnOK(t)
        /\ txn' = [txn EXCEPT ![c] = t]
    BY <1>1, <2>1
  <2>8. /\ t.st = "idle" => u = None
        /\ t.st = "open" => SameRows(t, u)
        /\ Mode[c] = "pool" => t.st = "idle"
        /\ n = "pending" => t.st # "idle" /\ (t.st = "failed" \/ Base \subseteq Apply(db', t))
    BY <2>5, <2>6, <2>7
  <2>9. /\ pc[c] = "idle" /\ left' \in Nat
        /\ UNCHANGED <<base, block, pc, g, faults>>
    BY <1>1
  <2> QED
    BY ONLY JoinInv, c \in Conn, t \in Txn, r \in BOOLEAN,
            n \in {"no", "pending", "yes"},
            <1>4, <2>3, <2>6, <2>7, <2>8, <2>9, BetweenCalls
<1> QED
  BY <1>5, <1>6

LEMMA CallerEndsStep ==
    ASSUME JoinInv, NEW c \in Conn, NEW commits \in BOOLEAN, CallerEnds(c, commits)
    PROVE  JoinInv'
<1>1. PICK kept \in BOOLEAN : kept = (commits /\ txn[c].st = "open")
  BY ConnFacts
<1>2. PICK n : n = IF undone[c] # "pending" THEN undone[c] ELSE IF kept THEN "no" ELSE "yes"
  OBVIOUS
<1>3. /\ pc[c] = "idle" /\ Mode[c] # "pool" /\ txn[c].st # "idle" /\ left' = left
      /\ db' = (IF kept THEN View(c) ELSE db)
      /\ txn' = [txn EXCEPT ![c] = NoTxn] /\ told' = [told EXCEPT ![c] = None]
      /\ undone' = [undone EXCEPT ![c] = n]
      /\ UNCHANGED <<base, block, pc, g, ready, faults>>
  BY <1>1, <1>2 DEF CallerEnds, Idle, Same
<1>4. /\ n \in {"no", "pending", "yes"} /\ n # "pending" /\ ready[c] \in BOOLEAN
      /\ ready' = [ready EXCEPT ![c] = ready[c]] /\ left' \in Nat
  BY <1>2, <1>3, ConnFacts DEF JoinInv, TypeOK
<1>5. db' \subseteq Fact /\ Grown(db, db')
  BY <1>3, ViewFacts, ConnFacts DEF Grown
<1>6. n = "no" /\ ready[c] => Base \subseteq db'
  <2>1. SchemaOK(c)
    BY ConnFacts
  <2>2. CASE undone[c] = "no"
    BY <1>2, <1>5, <2>1, <2>2 DEF SchemaOK, Grown
  <2>3. CASE undone[c] # "no"
    BY <1>1, <1>2, <1>3, <2>1, <2>3 DEF SchemaOK
  <2> QED
    BY <2>2, <2>3
<1> QED
  BY <1>3, <1>4, <1>5, <1>6, NoneType, EmptyTxn, BetweenCalls

LEMMA FailStep ==
    ASSUME JoinInv, NEW c \in Conn, Fail(c) \/ DeadlockVictim(c)
    PROVE  JoinInv'
<1>1. /\ Raise(c, TRUE, "error")
      /\ UNCHANGED <<base, block, ready, told, undone, left>> /\ faults' \in Nat
  <2>1. faults \in Nat
    BY DEF JoinInv, TypeOK
  <2>2. CASE Fail(c)
    <3>1. faults > 0 /\ faults' = faults - 1
      BY <2>2 DEF Fail
    <3>2. faults' \in Nat
      BY <2>1, <3>1
    <3> QED
      BY <2>2, <3>2 DEF Fail
  <2>3. CASE DeadlockVictim(c)
    BY <2>1, <2>3 DEF DeadlockVictim, Quiet
  <2> QED
    BY <2>2, <2>3
<1>2. pc[c] # "idle"
  <2>1. CASE Fail(c)
    BY <2>1 DEF Fail
  <2>2. CASE DeadlockVictim(c)
    <3>1. WaitsFor(c) # {}
      BY <2>2 DEF DeadlockVictim, WaitCycle
    <3> QED
      BY <3>1 DEF WaitsFor
  <2> QED
    BY <2>1, <2>2
<1> QED
  BY <1>1, <1>2, RaiseStep

-----------------------------------------------------------------------------
(* The theorems *)

LEMMA JoinedInit == Init => JoinInv
<1> SUFFICES ASSUME Init PROVE JoinInv
  OBVIOUS
<1>1. PICK k \in Calls : k = CHOOSE x \in Calls : TRUE
  BY JoinedAssumption
<1>2. PICK q : q = [call |-> k, plan |-> None, used |-> FALSE, out |-> "none"]
  OBVIOUS
<1>3. /\ q \in [call : Call, plan : Change, used : BOOLEAN,
                out : {"none", "true", "false", "error", "collision"}]
      /\ q.out = "none"
  BY <1>1, <1>2, NoneType, JoinedAssumption
<1>4. PICK r \in {FALSE, <<"index">> \in db} : ready = [c \in Conn |-> r /\ Mode[c] # "pool"]
  BY DEF Init
<1>5. /\ db \in Dbs0 /\ txn = [c \in Conn |-> NoTxn] /\ base = [c \in Conn |-> NoTxn]
      /\ block = [c \in Conn |-> "none"] /\ pc = [c \in Conn |-> "idle"]
      /\ g = [c \in Conn |-> q] /\ told = [c \in Conn |-> None]
      /\ undone = [c \in Conn |-> "no"] /\ left = MaxSteps /\ faults = MaxFaults
  BY <1>1, <1>2 DEF Init
<1>6. db \subseteq Fact /\ (<<"index">> \in db => Base \subseteq db)
  BY <1>5, JoinedAssumption DEF Base
<1>7. TypeOK
  <2>1. "idle" \in Labels
    BY DEF Labels
  <2> QED
    BY <1>3, <1>4, <1>5, <1>6, <2>1, EmptyTxn, NoneType, JoinedAssumption DEF TypeOK
<1>8. ASSUME NEW c \in Conn PROVE ConnOK(c)
  <2>1. /\ txn[c] = NoTxn /\ base[c] = NoTxn /\ pc[c] = "idle" /\ told[c] = None
        /\ undone[c] = "no" /\ g[c].out = "none"
    BY <1>3, <1>5
  <2>2. ready[c] => Base \subseteq db
    BY <1>4, <1>6
  <2> QED
    BY <2>1, <2>2, EmptyTxn DEF ConnOK, IdleOK, SchemaOK
<1>9. OneSchema
  BY <1>5, EmptyTxn DEF OneSchema
<1> QED
  BY <1>7, <1>8, <1>9 DEF JoinInv

LEMMA JoinedNext == JoinInv /\ [Next]_vars => JoinInv'
<1> SUFFICES ASSUME JoinInv, [Next]_vars PROVE JoinInv'
  OBVIOUS
<1>1. CASE UNCHANGED vars
  <2>1. TypeOK' /\ OneSchema'
    BY <1>1 DEF vars, JoinInv, TypeOK, OneSchema
  <2>2. ASSUME NEW c \in Conn PROVE ConnOK(c)'
    <3>1. ConnOK(c)
      BY DEF JoinInv
    <3>2. Expected(c)' = Expected(c)
      BY <1>1 DEF vars, Expected, Before, Node
    <3> QED
      BY <1>1, <3>1, <3>2 DEF vars, ConnOK, TxnOK, IdleOK, CallOK, SchemaOK, SameRows,
                              View, Autocommit
  <2> QED
    BY <2>1, <2>2 DEF JoinInv
<1>2. ASSUME NEW c \in Conn, Step(c) PROVE JoinInv'
  BY <1>2, LockStep, SchemaStep, CheckStep, StatementStep, ContentStep, EndStep, FailStep
     DEF Step
<1>3. ASSUME NEW c \in Conn, Caller(c) PROVE JoinInv'
  BY <1>3, CallerBeginsStep, BusinessStep, CallerEndsStep DEF Caller
<1> QED
  BY <1>1, <1>2, <1>3, CloseStep, BeginStep DEF Next, Finished

\* JoinInv is an invariant of the providers on one database.
THEOREM JoinedStaysSound == Spec => []JoinInv
BY JoinedInit, JoinedNext, PTL DEF Spec

\* Every variable keeps its type, and a pooled connection goes back to the pool
\* without a transaction.
THEOREM JoinedTypeCorrect == Spec => []TypeOK
<1>1. JoinInv => TypeOK
  BY DEF JoinInv
<1> QED
  BY <1>1, JoinedStaysSound, PTL

\* An initialized provider, pooled or joined, sees the tables, the unique index
\* and the root, until its caller rolls back the transaction that created them.
THEOREM ReadyHasSchema == Spec => []ReadySeesRoot
<1>1. ASSUME JoinInv, NEW c \in Conn, ready[c], undone[c] # "yes"
      PROVE  Base \subseteq View(c) \/ txn[c].st = "failed"
  <2>1. SchemaOK(c) /\ undone[c] \in {"no", "pending", "yes"} /\ Grown(db, View(c))
    BY <1>1, ConnFacts, ViewFacts
  <2> QED
    BY <1>1, <2>1 DEF SchemaOK, Grown
<1>2. JoinInv => ReadySeesRoot
  BY <1>1 DEF ReadySeesRoot, Base
<1> QED
  BY <1>2, JoinedStaysSound, PTL

\* The advisory lock of _ensure_schema: no CREATE TABLE meets another, and
\* initialize calls wait in a cycle only when one of their transactions had used
\* the tables before.
THEOREM InitsAreSerial == Spec => []InitNeverCollides
<1>1. ASSUME JoinInv, NEW C \in SUBSET Conn, WaitCycle(C),
             \A c \in C : g[c].call.op = "initialize",
             \A c \in C : ~g[c].used
      PROVE  FALSE
  <2>1. \A c \in C : /\ c \in Conn /\ WaitsFor(c) \cap C # {}
                     /\ pc[c] # "idle" /\ CallOK(c) /\ TxnOK(txn[c])
    <3>1. ASSUME NEW c \in C PROVE c \in Conn /\ WaitsFor(c) \cap C # {} /\ pc[c] # "idle"
      BY <1>1 DEF WaitCycle, WaitsFor
    <3> QED
      BY <1>1, <3>1, ConnFacts
  <2>2. \A c \in C : pc[c] \in {"lock", "schema"}
    <3>1. ASSUME NEW c \in C PROVE pc[c] # "end"
      BY <2>1 DEF WaitsFor
    <3> QED
      BY <1>1, <2>1, <3>1 DEF CallOK
  \* a call at the lock waits for one at the schema ...
  <2>3. ASSUME NEW c \in C, pc[c] = "lock"
        PROVE  \E d \in C : pc[d] = "schema"
    <3>1. PICK d \in C : d \in Conn \ {c} /\ <<"schema">> \in txn[d].held
      BY <2>1, <2>3 DEF WaitsFor, LockWaits, Holders
    <3>2. pc[d] # "lock"
      <4>1. LockWaits(d) = {}
        BY <1>1, <3>1 DEF JoinInv, OneSchema, LockWaits, Holders
      <4> QED
        BY <2>1, <4>1 DEF WaitsFor
    <3> QED
      BY <2>2, <3>2
  <2>4. PICK c \in C : pc[c] = "schema"
    BY <1>1, <2>2, <2>3 DEF WaitCycle
  \* ... and that one for none of them.
  <2>5. PICK d \in C : d \in Conn \ {c} /\ txn[d].held \cap {<<"use">>, <<"ddl">>} # {}
    BY <2>1, <2>4 DEF WaitsFor, SchemaWaits, Holders
  <2>6. <<"schema">> \in txn[c].held /\ <<"schema">> \notin txn[d].held
    <3>1. <<"schema">> \in txn[c].held
      BY <2>1, <2>4 DEF CallOK
    <3> QED
      BY <1>1, <2>5, <3>1 DEF JoinInv, OneSchema
  <2>7. pc[d] = "lock" /\ <<"use">> \in txn[d].held
    BY <2>1, <2>2, <2>5, <2>6 DEF CallOK, TxnOK
  <2> QED
    BY <1>1, <2>1, <2>7 DEF CallOK
<1>2. JoinInv => InitNeverCollides
  BY <1>1, ConnFacts DEF InitNeverCollides
<1> QED
  BY <1>2, JoinedStaysSound, PTL

-----------------------------------------------------------------------------
(* How calls end *)

\* Raise leaves a failed transaction only when the call had no block.
LEMMA RaiseUsable ==
    ASSUME JoinInv, NEW d \in Conn, pc[d] # "idle", NEW sql \in BOOLEAN,
           Raise(d, sql, "error")
    PROVE  txn'[d].st = "failed" => block[d] = "none" /\ g'[d].out = "error"
<1>1. g'[d].out = "error"
  <2>1. PICK q : q = g[d]
    OBVIOUS
  <2>2. q \in [call : Call, plan : Change, used : BOOLEAN,
               out : {"none", "true", "false", "error", "collision"}]
    BY <2>1 DEF JoinInv, TypeOK
  <2>3. g' = [g EXCEPT ![d] = [q EXCEPT !.plan = None, !.used = FALSE, !.out = "error"]]
    BY <2>1 DEF Raise, Finish
  <2>4. [q EXCEPT !.plan = None, !.used = FALSE, !.out = "error"].out = "error"
    BY <2>2
  <2> QED
    BY <2>3, <2>4 DEF JoinInv, TypeOK
<1>2. txn'[d].st = "failed" => block[d] = "none"
  <2>1. CASE block[d] = "own"
    <3>1. txn' = [txn EXCEPT ![d] = NoTxn]
      BY <2>1 DEF Raise
    <3> QED
      BY <3>1, EmptyTxn DEF JoinInv, TypeOK
  <2>2. CASE block[d] = "savepoint"
    <3>1. txn' = [txn EXCEPT ![d] = base[d]]
      BY <2>2 DEF Raise
    <3>2. base[d].st = "open"
      BY <2>2, ConnFacts DEF CallOK
    <3> QED
      BY <3>1, <3>2 DEF JoinInv, TypeOK
  <2> QED
    BY <2>1, <2>2, ConnFacts
<1> QED
  BY <1>1, <1>2

\* The end of a call: it returns without a failed transaction, or it raises.
LEMMA CallEnds ==
    ASSUME JoinInv, Next, NEW c \in Conn, pc[c] # "idle", pc'[c] = "idle"
    PROVE  \/ End(c)
           \/ block[c] # "own" /\ Execute(c, Migration(c), {<<"ddl">>}) /\ Finish(c, "error")
           \/ \E sql \in BOOLEAN : Raise(c, sql, "error")
<1>1. ASSUME NEW d \in Conn,
             Lock(d) \/ Topology(d) \/ Content(d) \/ Close(d) \/ Caller(d)
             \/ (\E call \in Calls : Begin(d, call))
      PROVE  FALSE
  <2>1. CASE Lock(d) \/ Topology(d) \/ Content(d)
    <3>1. PICK l \in {"schema", "check", "end"} : pc' = [pc EXCEPT ![d] = l]
      BY <2>1 DEF Lock, Topology, Content, Await
    <3> QED
      BY <3>1 DEF JoinInv, TypeOK
  <2>2. CASE Close(d) \/ Caller(d)
    <3>1. pc' = pc
      BY <2>2 DEF Close, Caller, CallerBegins, Business, CallerEnds, Same
    <3> QED
      BY <3>1
  <2>3. ASSUME NEW call \in Calls, Begin(d, call) PROVE FALSE
    <3>1. pc' = [pc EXCEPT ![d] = First(call)] /\ First(call) # "idle"
      BY <2>3 DEF Begin, First
    <3> QED
      BY <3>1 DEF JoinInv, TypeOK
  <2> QED
    BY <1>1, <2>1, <2>2, <2>3
<1>2. ASSUME NEW d \in Conn, NEW l \in {"statement", "content", "end"}, NEW plan, NEW out,
             Await(d, l, plan, out)
      PROVE  FALSE
  BY <1>2 DEF Await, JoinInv, TypeOK
<1>3. ASSUME NEW d \in Conn, Check(d)
      PROVE  Raise(d, TRUE, "error")
  BY <1>2, <1>3 DEF Check
<1>4. ASSUME NEW d \in Conn, Statement(d)
      PROVE  Raise(d, TRUE, "error")
  BY <1>2, <1>4 DEF Statement, MoveUpdate, Answer
<1>5. ASSUME NEW d \in Conn, Schema(d)
      PROVE  \/ Raise(d, FALSE, "error")
             \/ block[d] # "own" /\ Execute(d, Migration(d), {<<"ddl">>}) /\ Finish(d, "error")
  <2>1. Rivals(d, {<<"tables">>}) = {}
    BY <1>5, NoRivals DEF Schema
  <2>2. ~Await(d, "end", None, "true")
    BY <1>2
  <2> QED
    BY <1>5, <2>1, <2>2 DEF Schema
<1>6. ASSUME NEW d \in Conn, Fail(d) \/ DeadlockVictim(d)
      PROVE  Raise(d, TRUE, "error")
  BY <1>6 DEF Fail, DeadlockVictim
<1>7. PICK d \in Conn :
         \/ End(d)
         \/ block[d] # "own" /\ Execute(d, Migration(d), {<<"ddl">>}) /\ Finish(d, "error")
         \/ \E sql \in BOOLEAN : Raise(d, sql, "error")
  <2>1. PICK d \in Conn : \/ Lock(d) \/ Topology(d) \/ Content(d) \/ Close(d) \/ Caller(d)
                          \/ \E call \in Calls : Begin(d, call)
                          \/ Check(d) \/ Statement(d) \/ Schema(d) \/ Fail(d)
                          \/ DeadlockVictim(d) \/ End(d)
    BY DEF Next, Step, Finished, vars
  <2> QED
    BY <1>1, <1>3, <1>4, <1>5, <1>6, <2>1
<1>8. d = c
  <2>1. pc' = [pc EXCEPT ![d] = "idle"]
    BY <1>7 DEF End, Finish, Raise
  <2> QED
    BY <2>1 DEF JoinInv, TypeOK
<1> QED
  BY <1>7, <1>8

\* A call that returns, even one that has lost a race, leaves the transaction of
\* its caller usable; one that raises does unless it ran directly in it.
THEOREM CallersKeepTheirTx == Spec => FalseKeepsTxUsable
<1>1. ASSUME JoinInv, [Next]_vars, NEW c \in Conn,
             pc[c] # "idle", pc'[c] = "idle", txn'[c].st = "failed"
      PROVE  g'[c].out = "error" /\ block[c] = "none"
  <2>1. Next
    BY <1>1 DEF vars
  <2>2. CallOK(c)
    BY <1>1, ConnFacts
  <2>3. ~End(c)
    <3>1. ASSUME End(c) PROVE txn'[c] = NoTxn \/ txn'[c] = txn[c]
      BY <1>1, <3>1 DEF End, JoinInv, TypeOK
    <3> QED
      BY <1>1, <2>2, <3>1, EmptyTxn DEF CallOK
  <2>4. ~Execute(c, Migration(c), {<<"ddl">>})
    <3>1. ASSUME Execute(c, Migration(c), {<<"ddl">>}) PROVE txn'[c] = txn[c] \/ txn'[c].st = "open"
      BY <1>1, <3>1 DEF Execute, JoinInv, TypeOK
    <3> QED
      BY <1>1, <2>2, <3>1 DEF CallOK
  <2>5. PICK sql \in BOOLEAN : Raise(c, sql, "error")
    BY <1>1, <2>1, <2>3, <2>4, CallEnds
  <2> QED
    BY <1>1, <2>5, RaiseUsable
<1>2. JoinInv /\ [Next]_vars =>
        [\A c \in Conn : pc[c] # "idle" /\ pc'[c] = "idle" /\ txn'[c].st = "failed" =>
              g'[c].out = "error" /\ block[c] = "none"]_vars
  BY <1>1
<1> QED
  BY <1>2, JoinedStaysSound, PTL DEF Spec, FalseKeepsTxUsable

-----------------------------------------------------------------------------
(* What the database becomes *)

\* A statement in a transaction, or one that changes nothing, leaves the
\* committed facts alone.
LEMMA ExecuteCommitsNothing ==
    ASSUME NEW c \in Conn, NEW ch, NEW locks, Autocommit(c) => ch = None,
           Execute(c, ch, locks)
    PROVE  db' = db
<1>1. Apply(db, None) = db
  BY NoneType DEF Apply
<1> QED
  BY <1>1 DEF Execute

\* The committed facts change when a block of a call's own ends, when a caller
\* commits and when his statement commits by itself.
LEMMA Commits ==
    ASSUME JoinInv, Next, db' # db
    PROVE  \E c \in Conn :
              \/ End(c) /\ block[c] = "own"
              \/ Business(c) /\ Autocommit(c)
              \/ CallerEnds(c, TRUE) /\ txn[c].st = "open"
<1>1. ASSUME NEW d \in Conn, NEW sql, NEW out, Raise(d, sql, out) PROVE FALSE
  BY <1>1 DEF Raise
<1>2. ASSUME NEW d \in Conn, pc[d] # "idle", g[d].call.op # "read", NEW ch, NEW locks,
             Execute(d, ch, locks)
      PROVE  FALSE
  <2>1. ~Autocommit(d)
    BY <1>2, ConnFacts DEF CallOK
  <2> QED
    BY <1>2, <2>1, ExecuteCommitsNothing
<1>3. ASSUME NEW d \in Conn, Lock(d) \/ Schema(d) PROVE FALSE
  <2>1. pc[d] \in {"lock", "schema"} /\ g[d].call.op = "initialize"
    BY <1>3, ConnFacts DEF Lock, Schema, CallOK
  <2>2. (\E ch, locks : Execute(d, ch, locks)) \/ (\E sql, out : Raise(d, sql, out))
    BY <1>3 DEF Lock, Schema
  <2> QED
    BY <1>1, <1>2, <2>1, <2>2
<1>4. ASSUME NEW d \in Conn, Topology(d) \/ Check(d) PROVE FALSE
  <2>1. pc[d] \in {"topology", "check"} /\ g[d].call.op = "move"
    BY <1>4, ConnFacts DEF Topology, Check, CallOK
  <2>2. (\E ch, locks : Execute(d, ch, locks)) \/ (\E sql, out : Raise(d, sql, out))
    BY <1>4 DEF Topology, Check
  <2> QED
    BY <1>1, <1>2, <2>1, <2>2
<1>5. ASSUME NEW d \in Conn, Content(d) PROVE FALSE
  <2>1. pc[d] = "content" /\ g[d].call.op = "write" /\ Execute(d, Plan(d), {<<"use">>})
    BY <1>5, ConnFacts DEF Content, CallOK
  <2> QED
    BY <1>2, <2>1
<1>6. ASSUME NEW d \in Conn, Statement(d) PROVE FALSE
  <2>1. CASE g[d].call.op = "read"
    <3>1. Execute(d, None, {<<"use">>}) \/ Raise(d, TRUE, "error")
      BY <1>6, <2>1 DEF Statement, Answer
    <3> QED
      BY <1>1, <3>1, ExecuteCommitsNothing
  <2>2. CASE g[d].call.op # "read"
    <3>1. (\E ch, locks : Execute(d, ch, locks)) \/ (\E sql, out : Raise(d, sql, out))
      BY <1>6, <2>2 DEF Statement, MoveUpdate, Answer
    <3> QED
      BY <1>1, <1>2, <1>6, <2>2, <3>1 DEF Statement
  <2> QED
    BY <2>1, <2>2
<1>7. ASSUME NEW d \in Conn,
             Fail(d) \/ DeadlockVictim(d) \/ Close(d) \/ CallerBegins(d)
             \/ (\E call \in Calls : Begin(d, call))
      PROVE  FALSE
  BY <1>1, <1>7 DEF Fail, DeadlockVictim, Close, CallerBegins, Begin
<1>8. ASSUME NEW d \in Conn, Business(d) PROVE Autocommit(d)
  BY <1>8 DEF Business, Execute
<1>9. ASSUME NEW d \in Conn, End(d) PROVE block[d] = "own"
  BY <1>9 DEF End
<1>10. ASSUME NEW d \in Conn, NEW commits \in BOOLEAN, CallerEnds(d, commits)
       PROVE  CallerEnds(d, TRUE) /\ txn[d].st = "open"
  <2>1. commits = TRUE /\ txn[d].st = "open"
    BY <1>10 DEF CallerEnds
  <2> QED
    BY <1>10, <2>1
<1> QED
  BY <1>3, <1>4, <1>5, <1>6, <1>7, <1>8, <1>9, <1>10 DEF Next, Step, Caller, Finished, vars

\* Nodes, contents and business rows become durable together: as one whole call,
\* or as the whole of what a caller's transaction was told.
THEOREM CommittedTogether == Spec => Together
<1> DEFINE whole(c) ==
             \/ /\ pc[c] = "end" /\ block[c] = "own" /\ g[c].out = "true"
                /\ Rows(db') = Rows(Apply(db, g[c].plan))
             \/ /\ txn[c].st = "open" /\ txn'[c].st = "idle" /\ Mode[c] # "pool"
                /\ Rows(db') = Rows(Apply(db, told[c]))
             \/ Mode[c] = "auto" /\ Rows(db') = Rows(db) \cup {<<"business", c>>}
<1>1. ASSUME JoinInv, Next, Rows(db') # Rows(db)
      PROVE  \E c \in Conn : whole(c)
  <2>1. PICK c \in Conn : \/ End(c) /\ block[c] = "own"
                          \/ Business(c) /\ Autocommit(c)
                          \/ CallerEnds(c, TRUE) /\ txn[c].st = "open"
    BY <1>1, Commits
  <2>2. CASE End(c) /\ block[c] = "own"
    <3>1. pc[c] = "end" /\ db' = Apply(db, txn[c])
      BY <2>2 DEF End, View
    <3>2. CallOK(c) /\ g[c].plan \in Change
      BY <1>1, <3>1, ConnFacts
    <3>3. SameRows(txn[c], g[c].plan)
      <4>1. SameRows(txn[c], Then(None, g[c].plan))
        BY <2>2, <3>1, <3>2 DEF CallOK, Expected, Before
      <4> QED
        BY <3>2, <4>1, NoneThen
    <3>4. Rows(db') = Rows(Apply(db, g[c].plan))
      BY <3>1, <3>3, ApplyRows
    <3>5. g[c].out = "true"
      <4>1. g[c].out # "true" => Rows(db') = Rows(Apply(db, None))
        BY <3>1, <3>2, <3>4 DEF CallOK
      <4>2. Apply(db, None) = db
        BY NoneType DEF Apply
      <4> QED
        BY <1>1, <4>1, <4>2
    <3> QED
      BY <2>2, <3>1, <3>4, <3>5
  <2>3. CASE Business(c) /\ Autocommit(c)
    <3>1. db' = db \cup {<<"business", c>>}
      BY <2>3 DEF Business, Execute, Apply
    <3>2. <<"business", c>>[1] = "business"
      OBVIOUS
    <3>3. Rows(db') = Rows(db) \cup {<<"business", c>>}
      BY <3>1, <3>2 DEF Rows
    <3> QED
      BY <2>3, <3>3 DEF Autocommit
  <2>4. CASE CallerEnds(c, TRUE) /\ txn[c].st = "open"
    <3>1. /\ pc[c] = "idle" /\ Mode[c] # "pool" /\ db' = Apply(db, txn[c])
          /\ txn' = [txn EXCEPT ![c] = NoTxn]
      BY <2>4 DEF CallerEnds, Idle, View
    <3>2. txn'[c].st = "idle"
      BY <1>1, <3>1, EmptyTxn DEF JoinInv, TypeOK
    <3>3. SameRows(txn[c], told[c])
      BY <1>1, <2>4, <3>1, ConnFacts DEF IdleOK
    <3>4. Rows(db') = Rows(Apply(db, told[c]))
      BY <3>1, <3>3, ApplyRows
    <3> QED
      BY <2>4, <3>1, <3>2, <3>4
  <2> HIDE DEF whole
  <2> QED
    BY <2>1, <2>2, <2>3, <2>4
<1>2. JoinInv /\ [Next]_vars =>
        [Rows(db') # Rows(db) => \E c \in Conn : whole(c)]_vars
  <2> HIDE DEF whole
  <2> QED
    BY <1>1
<1>3. Spec => [][Rows(db') # Rows(db) => \E c \in Conn : whole(c)]_vars
  <2> HIDE DEF whole
  <2> QED
    BY <1>2, JoinedStaysSound, PTL DEF Spec
<1> QED
  BY <1>3 DEF Together
=============================================================================

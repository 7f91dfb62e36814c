---------------------------- MODULE HandleProofs ----------------------------
(***************************************************************************)
(* Proofs about BufferedFile, for any set of handles, any modes, wrapped in*)
(* text handles or not, inside a transaction or not, and whether or not the*)
(* provider stages uploads.                                                *)
(***************************************************************************)
EXTENDS BufferedFile, SequenceTheorems, TLAPS

\* Record r of a handle that is over.
IsOver(r) == r.at = "none" /\ (IF r.deferred THEN r.done ELSE r.st = "closed")

\* Record r of handle h and v, what is staged for it: a block that was given is
\* in the buffer or in the upload, and an upload holds what was sent, in order.
Matches(h, r, v) ==
    /\ r.size + r.buffered = r.given
    /\ r.upload => streaming
    /\ ~streaming => v = None
    /\ r.upload /\ ~r.done => v = Blocks(h, 0, r.size)
    /\ ~r.upload /\ r.st = "open" /\ r.at = "none" /\ ~r.done =>
           v = None /\ (streaming => r.size = 0)
    /\ r.st = "unopened" => r = Unopened /\ v = None

\* A closed handle has sent everything unless it has failed; until it is over it
\* keeps its upload, and outside a transaction it commits it at once.
ClosedOK(r) ==
    /\ r.st = "closed" =>
           /\ r.upload \/ ~r.failed => r.buffered = 0
           /\ ~r.failed /\ streaming /\ r.at # "abort" /\ ~IsOver(r) => r.upload
           /\ ~r.deferred /\ r.at = "none" => ~r.upload
           /\ streaming /\ r.failed /\ ~r.deferred /\ ~r.text => r.at \in {"none", "abort"}
    /\ r.failed /\ ~r.done => r.st = "closed"

\* Where commit() or an abort is.
AtOK(r) ==
    /\ r.at # "none" => /\ ~r.done
                        /\ ~r.deferred => r.st = "closed"
                        /\ r.upload <=> r.at = "finish"
    /\ r.at = "abort" /\ ~r.failed => r.deferred
    /\ r.at \in {"exists", "cat"} => r.mode = "ab"
    /\ r.mode # "ab" => r.existing = << >>
    /\ r.done => r.deferred

\* Only an upload in progress, one about to be aborted, or one whose abort has
\* failed has something staged.
Clean(r, v) ==
    /\ ~r.upload /\ r.at # "abort" /\ ~r.stuck => v = None
    /\ r.done /\ ~r.stuck => v = None

HandleOK(h, r, v) ==
    /\ r \in HandleState /\ v \in Seq(Block) \cup {None}
    /\ Matches(h, r, v) /\ ClosedOK(r) /\ AtOK(r) /\ Clean(r, v)

\* A deferred handle makes its calls after a failed write, or when the transaction
\* completes it: one handle at a time, in their order.
Committed(h, r) ==
    r.deferred /\ r.at # "none" =>
        \/ phase = "open" /\ r.at = "abort" /\ r.failed
        \/ /\ files # << >> /\ h = Head(files)
           /\ IF r.at = "abort" THEN phase = "discard" ELSE phase = "commit"

\* transaction.files has the deferred handles that are still to be completed, in
\* the order of their turns.
FilesOK ==
    /\ files \in Seq(Handle)
    /\ \A i \in DOMAIN files : /\ hs[files[i]].deferred /\ ~hs[files[i]].done
                               /\ hs[files[i]].st # "unopened"
    /\ \A i, j \in DOMAIN files : i < j => hs[files[i]].turn < hs[files[j]].turn
    /\ \A i \in DOMAIN files, g \in Handle : hs[g].done => hs[g].turn < hs[files[i]].turn
    /\ phase = "open" => /\ \A g \in Handle : ~hs[g].done
                         /\ \A i \in DOMAIN files : hs[files[i]].turn < Len(files)

GlobalOK == /\ target \in Content \cup {None}
            /\ phase \in {"none", "open", "commit", "discard", "broken"}
            /\ streaming \in BOOLEAN /\ faults \in Nat /\ others \in Nat

\* The inductive invariant.
HandleInv == /\ hs \in [Handle -> HandleState]
             /\ staged \in [Handle -> Seq(Block) \cup {None}]
             /\ \A h \in Handle : HandleOK(h, hs[h], staged[h]) /\ Committed(h, hs[h])
             /\ FilesOK
             /\ GlobalOK

-----------------------------------------------------------------------------
(* Lemmas about blocks and records *)

LEMMA BlocksSeq ==
    ASSUME NEW h \in Handle, NEW a \in 0 .. MaxBlocks, NEW b \in 0 .. MaxBlocks, a <= b
    PROVE  /\ Blocks(h, a, b) \in Seq(Block) /\ Blocks(h, a, b) \in Content
           /\ Len(Blocks(h, a, b)) = b - a
           /\ \A i \in 1 .. b - a : Blocks(h, a, b)[i] = <<h, a + i>>
<1>0. MaxBlocks \in Nat
  BY HandleAssumption
<1>1. PICK n \in Nat : n = b - a
  BY <1>0
<1>2. \A i \in 1 .. n : <<h, a + i>> \in Block
  BY <1>0, <1>1 DEF Block
<1>3. Blocks(h, a, b) = [i \in 1 .. n |-> <<h, a + i>>]
  BY <1>1 DEF Blocks
<1>4. Blocks(h, a, b) \in [1 .. n -> Block]
  BY <1>2, <1>3
<1>5. Blocks(h, a, b) \in Seq(Block)
  BY <1>4, SeqDef
<1>6. Blocks(h, a, b) \in Content
  BY <1>5, SeqMonotonic DEF Content
<1>7. DOMAIN Blocks(h, a, b) = 1 .. n
  BY <1>3
<1>8. Len(Blocks(h, a, b)) = n
  BY <1>5, <1>7, LenProperties
<1> QED
  BY <1>1, <1>3, <1>5, <1>6, <1>8

\* x holds n blocks of h, from the (a+1)-st.
Run(x, h, a, n) == /\ x \in Seq(Block) /\ Len(x) = n
                   /\ \A i \in 1 .. n : x[i] = <<h, a + i>>

LEMMA BlocksRun ==
    ASSUME NEW h \in Handle, NEW a \in 0 .. MaxBlocks, NEW b \in 0 .. MaxBlocks, a <= b,
           NEW n, n = b - a
    PROVE  Run(Blocks(h, a, b), h, a, n)
<1>1. /\ Blocks(h, a, b) \in Seq(Block) /\ Len(Blocks(h, a, b)) = b - a
      /\ \A i \in 1 .. b - a : Blocks(h, a, b)[i] = <<h, a + i>>
  BY BlocksSeq
<1> QED
  BY <1>1 DEF Run

LEMMA RunJoin ==
    ASSUME NEW h, NEW a \in Nat, NEW k \in Nat, NEW l \in Nat, NEW x, NEW y, NEW z,
           Run(x, h, a, k), Run(y, h, a + k, l), Run(z, h, a, k + l)
    PROVE  x \o y = z
<1>1. /\ x \in Seq(Block) /\ Len(x) = k /\ y \in Seq(Block) /\ Len(y) = l
      /\ z \in Seq(Block) /\ Len(z) = k + l
  BY DEF Run
<1>2. /\ x \o y \in Seq(Block) /\ Len(x \o y) = k + l
      /\ \A i \in 1 .. k + l : (x \o y)[i] = IF i <= k THEN x[i] ELSE y[i - k]
  BY <1>1, ConcatProperties
<1>3. ASSUME NEW i \in 1 .. k + l
      PROVE  (x \o y)[i] = z[i]
  <2>1. z[i] = <<h, a + i>>
    BY DEF Run
  <2>2. CASE i <= k
    <3>1. i \in 1 .. k /\ (x \o y)[i] = x[i]
      BY <1>2, <2>2
    <3> QED
      BY <2>1, <3>1 DEF Run
  <2>3. CASE ~(i <= k)
    <3>1. i - k \in 1 .. l /\ (a + k) + (i - k) = a + i /\ (x \o y)[i] = y[i - k]
      BY <1>2, <2>3
    <3> QED
      BY <2>1, <3>1 DEF Run
  <2> QED
    BY <2>2, <2>3
<1> QED
  BY <1>1, <1>2, <1>3, SeqEqual

LEMMA BlocksJoin ==
    ASSUME NEW h \in Handle, NEW a \in 0 .. MaxBlocks, NEW b \in 0 .. MaxBlocks,
           NEW c \in 0 .. MaxBlocks, a <= b, b <= c
    PROVE  Blocks(h, a, b) \o Blocks(h, b, c) = Blocks(h, a, c)
<1>1. MaxBlocks \in Nat
  BY HandleAssumption
<1>2. PICK k \in Nat, l \in Nat :
          k = b - a /\ l = c - b /\ k + l = c - a /\ b = a + k /\ a <= c /\ a \in Nat
  BY <1>1
<1>3. /\ Run(Blocks(h, a, b), h, a, k) /\ Run(Blocks(h, b, c), h, b, l)
      /\ Run(Blocks(h, a, c), h, a, k + l)
  BY <1>2, BlocksRun
<1> QED
  BY <1>2, <1>3, RunJoin

LEMMA NoneIsNoContent == None \notin Seq(Block) /\ None \notin Content
BY SeqMonotonic, HandleAssumption DEF Content

LEMMA BlocksEmpty == ASSUME NEW h PROVE Blocks(h, 0, 0) = << >>
BY DEF Blocks

\* A handle of the invariant, and the variables that all handles share.
LEMMA HandleFacts ==
    ASSUME HandleInv, NEW h \in Handle
    PROVE  /\ hs[h] \in HandleState /\ staged[h] \in Seq(Block) \cup {None}
           /\ HandleOK(h, hs[h], staged[h]) /\ Committed(h, hs[h])
           /\ Matches(h, hs[h], staged[h]) /\ ClosedOK(hs[h]) /\ AtOK(hs[h])
           /\ Clean(hs[h], staged[h])
           /\ streaming \in BOOLEAN /\ faults \in Nat /\ GlobalOK /\ FilesOK
           /\ hs[h].size \in 0 .. MaxBlocks /\ hs[h].given \in 0 .. MaxBlocks
BY DEF HandleInv, HandleOK, GlobalOK, HandleState

LEMMA OverIs == \A h \in Handle : Over(h) <=> IsOver(hs[h])
BY DEF Over, IsOver, Is

\* What an open handle has staged when its buffer has been sent.
LEMMA StagedWhole ==
    ASSUME HandleInv, NEW h \in Handle, NEW r \in HandleState,
           r.st = "open", r.at = "none", ~r.done, Matches(h, r, staged[h])
    PROVE  StagedBy(h, r) = IF streaming THEN Blocks(h, 0, r.given) ELSE None
<1>0. MaxBlocks \in Nat /\ streaming \in BOOLEAN
  BY HandleAssumption, HandleFacts
<1>1. /\ r.size \in 0 .. MaxBlocks /\ r.given \in 0 .. MaxBlocks /\ 0 \in 0 .. MaxBlocks
      /\ 0 <= r.size /\ r.size <= r.given /\ r.size + r.buffered = r.given
  BY <1>0 DEF HandleState, Matches
<1>2. CASE streaming /\ r.upload
  <2>1. Blocks(h, 0, r.size) \in Seq(Block)
    BY <1>1, BlocksSeq
  <2>2. Blocks(h, 0, r.size) \o Blocks(h, r.size, r.given) = Blocks(h, 0, r.given)
    BY <1>1, BlocksJoin
  <2>3. staged[h] = Blocks(h, 0, r.size)
    BY <1>2 DEF Matches
  <2>4. staged[h] # None
    BY <2>1, <2>3, NoneIsNoContent
  <2> QED
    BY <1>1, <1>2, <2>2, <2>3, <2>4 DEF StagedBy, Before
<1>3. CASE streaming /\ ~r.upload
  <2>1. staged[h] = None /\ r.size = 0
    BY <1>3 DEF Matches
  <2>2. << >> \o Blocks(h, 0, r.given) = Blocks(h, 0, r.given)
    BY <1>1, BlocksSeq, ConcatEmptySeq
  <2> QED
    BY <1>1, <1>3, <2>1, <2>2 DEF StagedBy, Before
<1>4. CASE ~streaming
  BY <1>4 DEF StagedBy, Before
<1> QED
  BY <1>0, <1>2, <1>3, <1>4

-----------------------------------------------------------------------------
(* Steps of one handle *)

\* Handle h and its upload change; the others do not notice.
LEMMA HandleStep ==
    ASSUME HandleInv, NEW h \in Handle, NEW r, NEW v,
           hs' = [hs EXCEPT ![h] = r], staged' = [staged EXCEPT ![h] = v],
           streaming' = streaming, HandleOK(h, r, v)
    PROVE  /\ hs' \in [Handle -> HandleState]
           /\ staged' \in [Handle -> Seq(Block) \cup {None}]
           /\ \A g \in Handle : HandleOK(g, hs[g], staged[g])'
           /\ hs'[h] = r /\ staged'[h] = v
           /\ \A g \in Handle \ {h} : hs'[g] = hs[g] /\ staged'[g] = staged[g]
<1>1. /\ hs'[h] = r /\ staged'[h] = v
      /\ \A g \in Handle \ {h} : hs'[g] = hs[g] /\ staged'[g] = staged[g]
      /\ r \in HandleState /\ v \in Seq(Block) \cup {None}
  BY DEF HandleInv, HandleOK
<1>2. ASSUME NEW g \in Handle, NEW q, NEW w, HandleOK(g, q, w)
      PROVE  HandleOK(g, q, w)'
  BY <1>2 DEF HandleOK, Matches, ClosedOK, AtOK, Clean
<1>3. ASSUME NEW g \in Handle PROVE HandleOK(g, hs[g], staged[g])'
  <2>1. PICK q, w : q = hs'[g] /\ w = staged'[g]
    OBVIOUS
  <2>2. HandleOK(g, q, w)
    BY <1>1, <2>1 DEF HandleInv
  <2>3. HandleOK(g, q, w)'
    BY <1>2, <2>2
  <2> QED
    BY <2>1, <2>3
<1>4. /\ hs' \in [Handle -> HandleState]
      /\ staged' \in [Handle -> Seq(Block) \cup {None}]
  BY <1>1 DEF HandleInv
<1> QED
  BY <1>1, <1>3, <1>4

\* A step of one handle that leaves the transaction alone.
LEMMA OneHandle ==
    ASSUME HandleInv, NEW h \in Handle, NEW r, NEW v,
           hs' = [hs EXCEPT ![h] = r], staged' = [staged EXCEPT ![h] = v],
           streaming' = streaming, HandleOK(h, r, v), Committed(h, r),
           UNCHANGED <<files, phase>>,
           r.deferred = hs[h].deferred, r.turn = hs[h].turn, r.done = hs[h].done,
           r.st # "unopened", GlobalOK'
    PROVE  HandleInv'
<1>1. /\ hs' \in [Handle -> HandleState]
      /\ staged' \in [Handle -> Seq(Block) \cup {None}]
      /\ \A g \in Handle : HandleOK(g, hs[g], staged[g])'
      /\ hs'[h] = r
      /\ \A g \in Handle \ {h} : hs'[g] = hs[g]
  BY HandleStep
<1>2. \A g \in Handle : Committed(g, hs[g])'
  BY <1>1 DEF HandleInv, Committed
<1>3. FilesOK'
  <2>1. \A i \in DOMAIN files : files[i] \in Handle
    BY ElementOfSeq, LenProperties DEF HandleInv, FilesOK
  <2>2. \A g \in Handle : /\ hs'[g].deferred = hs[g].deferred /\ hs'[g].turn = hs[g].turn
                          /\ hs'[g].done = hs[g].done
                          /\ hs[g].st # "unopened" => hs'[g].st # "unopened"
    BY <1>1
  <2> QED
    BY <2>1, <2>2 DEF HandleInv, FilesOK
<1> QED
  BY <1>1, <1>2, <1>3 DEF HandleInv

\* The first of transaction.files.
LEMMA HeadFile ==
    ASSUME HandleInv, files # << >>
    PROVE  /\ Head(files) \in Handle /\ hs[Head(files)].deferred /\ ~hs[Head(files)].done
           /\ hs[Head(files)].st # "unopened"
           /\ Tail(files) \in Seq(Handle)
           /\ \A i \in DOMAIN Tail(files) :
                  /\ i + 1 \in DOMAIN files /\ Tail(files)[i] = files[i + 1]
                  /\ files[i + 1] \in Handle \ {Head(files)}
                  /\ hs[Head(files)].turn < hs[files[i + 1]].turn
<1>1. FilesOK /\ files \in Seq(Handle)
  BY DEF HandleInv, FilesOK
<1>2. PICK n \in Nat : n = Len(files) /\ n # 0 /\ DOMAIN files = 1 .. n
  BY <1>1, EmptySeq, LenProperties
<1>3. /\ Tail(files) \in Seq(Handle) /\ Head(files) \in Handle /\ Head(files) = files[1]
      /\ Len(Tail(files)) = n - 1
      /\ \A i \in 1 .. Len(Tail(files)) : Tail(files)[i] = files[i + 1]
  BY <1>1, <1>2, HeadTailProperties
<1>4. DOMAIN Tail(files) = 1 .. n - 1 /\ 1 \in 1 .. n
  BY <1>2, <1>3, LenProperties
<1>5. \A i \in 1 .. n - 1 : i + 1 \in 1 .. n /\ i + 1 # 1
  BY <1>2
<1>6. \A i \in 1 .. n : files[i] \in Handle
  BY <1>1, <1>2, ElementOfSeq
<1>7. \A i \in 1 .. n - 1 : hs[files[1]].turn < hs[files[i + 1]].turn
  <2>1. \A i \in 1 .. n - 1 : 1 < i + 1
    BY <1>2
  <2> QED
    BY <1>1, <1>2, <1>4, <1>5, <2>1 DEF FilesOK
<1>8. hs[files[1]].turn \in Nat
  BY <1>4, <1>6 DEF HandleInv, HandleState
<1>9. \A i \in 1 .. n - 1 : files[i + 1] # files[1]
  BY <1>7, <1>8
<1> QED
  BY <1>1, <1>2, <1>3, <1>4, <1>5, <1>6, <1>7, <1>9 DEF FilesOK

\* The transaction is through with its first handle.
LEMMA FirstHandle ==
    ASSUME HandleInv, NEW h \in Handle, NEW r, NEW v,
           hs' = [hs EXCEPT ![h] = r], staged' = [staged EXCEPT ![h] = v],
           streaming' = streaming, HandleOK(h, r, v),
           files # << >>, h = Head(files), files' = Tail(files),
           phase \in {"commit", "discard"}, phase' \in {phase, "broken"},
           r.at = "none", r.turn = hs[h].turn,
           GlobalOK'
    PROVE  HandleInv'
<1>1. /\ hs' \in [Handle -> HandleState]
      /\ staged' \in [Handle -> Seq(Block) \cup {None}]
      /\ \A g \in Handle : HandleOK(g, hs[g], staged[g])'
      /\ hs'[h] = r
      /\ \A g \in Handle \ {h} : hs'[g] = hs[g]
  BY HandleStep
<1>2. \A g \in Handle : Committed(g, hs[g])'
  <2>1. \A g \in Handle : ~(hs'[g].deferred /\ hs'[g].at # "none")
    BY <1>1 DEF HandleInv, Committed
  <2> QED
    BY <2>1 DEF Committed
<1>3. FilesOK'
  <2>1. /\ files' \in Seq(Handle)
        /\ \A i \in DOMAIN files' : /\ i + 1 \in DOMAIN files /\ files'[i] = files[i + 1]
                                    /\ files[i + 1] \in Handle \ {h}
                                    /\ hs[h].turn < hs[files[i + 1]].turn
    BY HeadFile
  <2>2. DOMAIN files' \subseteq Int
    BY <2>1, LenProperties
  <2>3. \A i, j \in DOMAIN files' : i < j => i + 1 < j + 1
    BY <2>2
  <2>4. \A i \in DOMAIN files' : /\ hs'[files'[i]].deferred /\ ~hs'[files'[i]].done
                                 /\ hs'[files'[i]].st # "unopened"
    BY <1>1, <2>1 DEF HandleInv, FilesOK
  <2>5. \A i \in DOMAIN files' : hs'[files'[i]].turn = hs[files[i + 1]].turn
    BY <1>1, <2>1
  <2>6. \A i, j \in DOMAIN files' : i < j => hs'[files'[i]].turn < hs'[files'[j]].turn
    BY <2>1, <2>3, <2>5 DEF HandleInv, FilesOK
  <2>7. ASSUME NEW i \in DOMAIN files', NEW g \in Handle, hs'[g].done
        PROVE  hs'[g].turn < hs'[files'[i]].turn
    <3>1. CASE g = h
      BY <1>1, <2>1, <2>5, <3>1
    <3>2. CASE g # h
      <4>1. hs'[g] = hs[g] /\ i + 1 \in DOMAIN files
        BY <1>1, <2>1, <3>2
      <4> QED
        BY <2>5, <2>7, <4>1 DEF HandleInv, FilesOK
    <3> QED
      BY <3>1, <3>2
  <2> QED
    BY <2>1, <2>4, <2>6, <2>7 DEF FilesOK
<1> QED
  BY <1>1, <1>2, <1>3 DEF HandleInv

\* Steps that no handle takes part in.
LEMMA NoHandle ==
    ASSUME HandleInv, UNCHANGED <<hs, staged, streaming, files>>, GlobalOK',
           phase' = "open" => phase = "open" \/ (DOMAIN files = {} /\ \A g \in Handle : ~hs[g].done),
           \A h \in Handle : Committed(h, hs[h])'
    PROVE  HandleInv'
<1>1. \A h \in Handle : HandleOK(h, hs[h], staged[h])'
  BY DEF HandleInv, HandleOK, Matches, ClosedOK, AtOK, Clean
<1>2. FilesOK'
  BY DEF HandleInv, FilesOK
<1> QED
  BY <1>1, <1>2 DEF HandleInv

-----------------------------------------------------------------------------
(* Opening and writing *)

LEMMA OpenStep ==
    ASSUME HandleInv, NEW h \in Handle, NEW mode \in Modes, NEW text \in Text,
           Open(h, mode, text)
    PROVE  HandleInv'
<1>0. /\ hs[h] = Unopened /\ staged[h] = None
      /\ UNCHANGED <<target, staged, phase, streaming, faults, others>>
      /\ phase \in {"none", "open"}
  BY HandleFacts DEF Open, Is, Matches
<1>1. PICK r : r = Opened(mode, text)
  OBVIOUS
<1>2. PICK n \in Nat : n = Len(files) /\ DOMAIN files = 1 .. n /\ files \in Seq(Handle)
  BY LenProperties DEF HandleInv, FilesOK
<1>3. /\ r \in HandleState /\ r.st = "open" /\ r.mode = mode /\ r.deferred = (phase = "open")
      /\ r.turn = n /\ r.upload = FALSE /\ r.size = 0 /\ r.buffered = 0 /\ r.given = 0
      /\ r.at = "none" /\ r.existing = << >> /\ r.failed = FALSE /\ r.done = FALSE
      /\ r.stuck = FALSE
  <2>1. PICK b \in BOOLEAN : b = (phase = "open")
    OBVIOUS
  <2>2. r = [Unopened EXCEPT !.st = "open", !.mode = mode, !.text = text,
                             !.deferred = b, !.turn = n]
    BY <1>1, <1>2, <2>1 DEF Opened
  <2>3. Unopened \in HandleState
    BY <1>0, HandleFacts
  <2>4. text \in BOOLEAN
    BY HandleAssumption
  <2>5. r \in HandleState
    BY <2>2, <2>3, <2>4 DEF HandleState
  <2>6. /\ r.st = "open" /\ r.mode = mode /\ r.turn = n /\ r.size = 0
        /\ r.buffered = 0 /\ r.given = 0 /\ r.at = "none" /\ r.existing = << >>
    BY <2>2 DEF Unopened
  <2>7. ~r.upload /\ ~r.failed /\ ~r.done /\ ~r.stuck /\ r.deferred = b
    BY <2>2 DEF Unopened
  <2>8. /\ r.upload \in BOOLEAN /\ r.failed \in BOOLEAN /\ r.done \in BOOLEAN
        /\ r.stuck \in BOOLEAN
    BY <2>5 DEF HandleState
  <2> QED
    BY <2>1, <2>5, <2>6, <2>7, <2>8
<1>4. PICK v : v = staged[h]
  OBVIOUS
<1>5. hs' = [hs EXCEPT ![h] = r] /\ staged' = [staged EXCEPT ![h] = v]
  BY <1>0, <1>1, <1>4 DEF HandleInv, Open
<1>6. HandleOK(h, r, v)
  BY <1>0, <1>3, <1>4 DEF HandleOK, Matches, ClosedOK, AtOK, Clean
<1>7. /\ hs' \in [Handle -> HandleState]
      /\ staged' \in [Handle -> Seq(Block) \cup {None}]
      /\ \A g \in Handle : HandleOK(g, hs[g], staged[g])'
      /\ hs'[h] = r
      /\ \A g \in Handle \ {h} : hs'[g] = hs[g]
  BY <1>0, <1>5, <1>6, HandleStep
<1>8. \A g \in Handle : Committed(g, hs[g])'
  <2>1. ASSUME NEW g \in Handle, hs'[g].deferred, hs'[g].at # "none"
        PROVE  phase = "open" /\ hs'[g].at = "abort" /\ hs'[g].failed
    <3>1. g # h /\ hs'[g] = hs[g]
      BY <1>3, <1>7, <2>1
    <3> QED
      BY <1>0, <2>1, <3>1, HandleFacts DEF Committed
  <2> QED
    BY <1>0, <2>1 DEF Committed
<1>9. FilesOK'
  <2>1. \A i \in DOMAIN files : files[i] \in Handle \ {h}
    <3>1. \A i \in DOMAIN files : files[i] \in Handle
      BY <1>2, ElementOfSeq
    <3> QED
      BY <1>0, <3>1 DEF HandleInv, FilesOK, Unopened
  <2>2. CASE phase # "open"
    BY <1>0, <1>3, <1>7, <2>1, <2>2 DEF HandleInv, FilesOK, Open
  <2>3. CASE phase = "open"
    <3>1. /\ files' \in Seq(Handle) /\ DOMAIN files' = 1 .. n + 1 /\ Len(files') = n + 1
          /\ files'[n + 1] = h /\ \A i \in 1 .. n : files'[i] = files[i]
      BY <1>2, <2>3, AppendProperties, LenProperties DEF Open
    <3>2. \A i \in 1 .. n + 1 : i \in 1 .. n \/ i = n + 1
      OBVIOUS
    <3>3. /\ hs'[files'[n + 1]].deferred /\ ~hs'[files'[n + 1]].done
          /\ hs'[files'[n + 1]].st # "unopened" /\ hs'[files'[n + 1]].turn = n
      BY <1>3, <1>7, <2>3, <3>1
    <3>4. \A i \in 1 .. n : /\ hs'[files'[i]] = hs[files[i]] /\ hs[files[i]].turn < n
                            /\ hs[files[i]].turn \in Nat
      BY <1>2, <1>7, <2>1, <2>3, <3>1 DEF HandleInv, FilesOK, HandleState
    <3>5. \A i \in DOMAIN files' : /\ hs'[files'[i]].deferred /\ ~hs'[files'[i]].done
                                   /\ hs'[files'[i]].st # "unopened"
      BY <1>2, <3>1, <3>2, <3>3, <3>4 DEF HandleInv, FilesOK
    <3>6. ASSUME NEW i \in DOMAIN files', NEW j \in DOMAIN files', i < j
          PROVE  hs'[files'[i]].turn < hs'[files'[j]].turn
      <4>1. i \in 1 .. n
        BY <3>1, <3>6
      <4>2. CASE j \in 1 .. n
        BY <1>2, <3>4, <3>6, <4>1, <4>2 DEF HandleInv, FilesOK
      <4>3. CASE j = n + 1
        BY <3>3, <3>4, <4>1, <4>3
      <4> QED
        BY <3>1, <3>2, <4>2, <4>3
    <3>7. \A g \in Handle : ~hs'[g].done
      BY <1>3, <1>7, <2>3 DEF HandleInv, FilesOK
    <3>8. \A i \in DOMAIN files' : hs'[files'[i]].turn < Len(files')
      <4>1. \A i \in 1 .. n : hs'[files'[i]].turn < n + 1
        BY <3>4
      <4> QED
        BY <3>1, <3>2, <3>3, <4>1
    <3> QED
      BY <3>1, <3>5, <3>6, <3>7, <3>8 DEF FilesOK
  <2> QED
    BY <2>2, <2>3
<1>10. GlobalOK'
  BY <1>0 DEF HandleInv, GlobalOK
<1> QED
  BY <1>7, <1>8, <1>9, <1>10 DEF HandleInv

\* A handle that the caller may use has no call of commit() or an abort ahead.
LEMMA UsableIs ==
    ASSUME HandleInv, NEW h \in Handle, Usable(h)
    PROVE  /\ hs[h].st = "open" /\ ~hs[h].done /\ hs[h].at = "none" /\ ~Over(h)
           /\ hs[h].deferred => phase = "open"
<1>1. /\ hs[h].st = "open" /\ ~hs[h].done /\ (hs[h].deferred => phase = "open")
  BY DEF Usable, Is
<1>2. hs[h].at = "none"
  BY <1>1, HandleFacts DEF AtOK, ClosedOK, Committed
<1> QED
  BY <1>1, <1>2 DEF Over, Is

\* One more block for an open handle.
Given(h) == [hs[h] EXCEPT !.given = @ + 1, !.buffered = @ + 1]

LEMMA GivenIs ==
    ASSUME HandleInv, NEW h \in Handle, Usable(h), hs[h].given < MaxBlocks,
           NEW r, r = Given(h)
    PROVE  /\ r \in HandleState /\ r.st = "open" /\ r.mode = hs[h].mode /\ r.text = hs[h].text
           /\ r.deferred = hs[h].deferred /\ r.turn = hs[h].turn /\ r.upload = hs[h].upload
           /\ r.size = hs[h].size /\ r.size + r.buffered = r.given
           /\ r.at = "none" /\ r.existing = hs[h].existing /\ r.failed = hs[h].failed
           /\ r.done = hs[h].done /\ ~r.done /\ r.stuck = hs[h].stuck
<1>1. /\ hs[h] \in HandleState /\ hs[h].st = "open" /\ ~hs[h].done /\ hs[h].at = "none"
      /\ hs[h].size + hs[h].buffered = hs[h].given /\ MaxBlocks \in Nat
  BY HandleFacts, HandleAssumption, UsableIs DEF Matches
<1>2. /\ hs[h].given + 1 \in 0 .. MaxBlocks /\ hs[h].buffered + 1 \in 0 .. MaxBlocks
      /\ hs[h].size + (hs[h].buffered + 1) = hs[h].given + 1
  BY <1>1 DEF HandleState
<1>3. /\ r \in HandleState /\ r.st = hs[h].st /\ r.mode = hs[h].mode /\ r.text = hs[h].text
      /\ r.deferred = hs[h].deferred /\ r.turn = hs[h].turn /\ r.upload = hs[h].upload
      /\ r.size = hs[h].size /\ r.given = hs[h].given + 1 /\ r.buffered = hs[h].buffered + 1
      /\ r.at = hs[h].at /\ r.existing = hs[h].existing /\ r.failed = hs[h].failed
      /\ r.done = hs[h].done /\ r.stuck = hs[h].stuck
  BY <1>1, <1>2 DEF HandleState, Given
<1> QED
  BY <1>1, <1>2, <1>3

\* The record and the upload of an open handle with this block or, at its close,
\* with the way its with-block ended.
Ready(h, r) ==
    /\ r \in HandleState /\ r.st = "open" /\ ~r.done /\ r.at = "none"
    /\ Matches(h, r, staged[h]) /\ AtOK(r) /\ Clean(r, staged[h])
    /\ r.deferred = hs[h].deferred /\ r.turn = hs[h].turn /\ r.done = hs[h].done

LEMMA GivenReady ==
    ASSUME HandleInv, NEW h \in Handle, Usable(h), hs[h].given < MaxBlocks,
           NEW r, r = Given(h)
    PROVE  Ready(h, r) /\ ~r.failed
<1>1. /\ r \in HandleState /\ r.st = "open" /\ r.mode = hs[h].mode /\ r.text = hs[h].text
      /\ r.deferred = hs[h].deferred /\ r.turn = hs[h].turn /\ r.upload = hs[h].upload
      /\ r.size = hs[h].size /\ r.size + r.buffered = r.given
      /\ r.at = "none" /\ r.existing = hs[h].existing /\ r.failed = hs[h].failed
      /\ r.done = hs[h].done /\ ~r.done /\ r.stuck = hs[h].stuck
  BY GivenIs
<1>2. hs[h].st = "open" /\ hs[h].at = "none" /\ ~hs[h].done
  BY UsableIs
<1>3. Matches(h, r, staged[h]) /\ AtOK(r) /\ Clean(r, staged[h])
  BY <1>1, <1>2, HandleFacts DEF Matches, AtOK, Clean
<1>4. ~r.failed
  BY <1>1, <1>2, HandleFacts DEF ClosedOK
<1> QED
  BY <1>1, <1>3, <1>4 DEF Ready

LEMMA WriteStep ==
    ASSUME HandleInv, NEW h \in Handle, Write(h)
    PROVE  HandleInv'
<1>0. /\ Usable(h) /\ hs[h].given < MaxBlocks
      /\ UNCHANGED <<target, staged, files, phase, streaming, faults, others>>
      /\ hs' = [hs EXCEPT ![h] = Given(h)]
  BY DEF Write, Given
<1>1. PICK r : r = Given(h)
  OBVIOUS
<1>2. PICK v : v = staged[h]
  OBVIOUS
<1>3. hs' = [hs EXCEPT ![h] = r] /\ staged' = [staged EXCEPT ![h] = v]
  BY <1>0, <1>1, <1>2 DEF HandleInv
<1>4. Ready(h, r) /\ ~r.failed
  BY <1>0, <1>1, GivenReady
<1>5. HandleOK(h, r, v) /\ Committed(h, r)
  BY <1>2, <1>4, HandleFacts DEF Ready, HandleOK, ClosedOK, Committed
<1>6. GlobalOK'
  BY <1>0 DEF HandleInv, GlobalOK
<1> QED
  BY <1>0, <1>3, <1>4, <1>5, <1>6, OneHandle DEF Ready

\* Sending the buffer of handle record r.
LEMMA SentFields ==
    ASSUME HandleInv, NEW h \in Handle, NEW r, Ready(h, r)
    PROVE  LET s == Sent(h, r) IN
           /\ s \in HandleState /\ s.size = r.given /\ s.buffered = 0 /\ s.upload = streaming
           /\ s.st = r.st /\ s.mode = r.mode /\ s.text = r.text /\ s.deferred = r.deferred
           /\ s.turn = r.turn /\ s.given = r.given /\ s.size + s.buffered = s.given
           /\ s.at = r.at /\ s.existing = r.existing /\ s.failed = r.failed
           /\ s.done = r.done /\ s.stuck = r.stuck
<1>1. /\ r \in HandleState /\ r.size + r.buffered = r.given
      /\ r.given \in 0 .. MaxBlocks /\ 0 \in 0 .. MaxBlocks
      /\ streaming \in BOOLEAN /\ r.given + 0 = r.given
  BY HandleFacts, HandleAssumption DEF Ready, Matches, HandleState
<1> QED
  BY <1>1 DEF Sent, HandleState

\* What it has staged then.
LEMMA SentStaged ==
    ASSUME HandleInv, NEW h \in Handle, NEW r, Ready(h, r)
    PROVE  /\ StagedBy(h, r) = IF streaming THEN Blocks(h, 0, r.given) ELSE None
           /\ StagedBy(h, r) \in Seq(Block) \cup {None}
<1>1. /\ r \in HandleState /\ r.st = "open" /\ r.at = "none" /\ ~r.done
      /\ Matches(h, r, staged[h])
  BY DEF Ready
<1>2. r.given \in 0 .. MaxBlocks /\ 0 \in 0 .. MaxBlocks /\ 0 <= r.given
  BY <1>1, HandleAssumption DEF HandleState
<1>3. StagedBy(h, r) = IF streaming THEN Blocks(h, 0, r.given) ELSE None
  BY <1>1, StagedWhole
<1>4. Blocks(h, 0, r.given) \in Seq(Block)
  BY <1>2, BlocksSeq
<1> QED
  BY <1>3, <1>4

\* A part cannot be sent.
LEMMA BreaksStep ==
    ASSUME HandleInv, NEW h \in Handle, Usable(h), NEW r, Ready(h, r), Breaks(h, r),
           UNCHANGED <<target, files, phase, streaming, others>>
    PROVE  HandleInv'
<1>1. PICK q : q = [r EXCEPT !.upload = FALSE, !.st = "closed", !.failed = TRUE]
  OBVIOUS
<1>2. r \in HandleState /\ streaming /\ Fault
  BY DEF Ready, Breaks
<1>3. /\ q \in HandleState /\ q.upload = FALSE /\ q.st = "closed" /\ q.failed = TRUE
      /\ q.mode = r.mode /\ q.text = r.text /\ q.deferred = r.deferred /\ q.turn = r.turn
      /\ q.size = r.size /\ q.buffered = r.buffered /\ q.given = r.given /\ q.at = r.at
      /\ q.existing = r.existing /\ q.done = r.done /\ q.stuck = r.stuck
  BY <1>1, <1>2 DEF HandleState
<1>4. GlobalOK'
  <2>1. faults' \in Nat
    BY <1>2, HandleFacts DEF Fault
  <2> QED
    BY <2>1 DEF HandleInv, GlobalOK
<1>5. hs[h].deferred => phase = "open"
  BY UsableIs
<1>6. /\ hs' = [hs EXCEPT ![h] = q] /\ UNCHANGED staged /\ ~r.upload
      \/ /\ hs' = [hs EXCEPT ![h] = [q EXCEPT !.at = "abort"]]
         /\ staged' = [staged EXCEPT ![h] = None] \/ staged' = [staged EXCEPT ![h] = Before(h)]
  BY <1>1 DEF Breaks
<1>7. CASE hs' = [hs EXCEPT ![h] = q] /\ UNCHANGED staged /\ ~r.upload
  <2>1. PICK v : v = staged[h]
    OBVIOUS
  <2>2. staged' = [staged EXCEPT ![h] = v]
    BY <1>7, <2>1 DEF HandleInv
  <2>3. HandleOK(h, q, v) /\ Committed(h, q)
    <3>1. v \in Seq(Block) \cup {None}
      BY <2>1, HandleFacts
    <3>2. Matches(h, q, v) /\ ClosedOK(q) /\ AtOK(q) /\ Clean(q, v) /\ Committed(h, q)
      BY <1>3, <1>7, <2>1 DEF Ready, Matches, ClosedOK, AtOK, Clean, Committed
    <3> QED
      BY <1>3, <3>1, <3>2 DEF HandleOK
  <2> QED
    BY <1>3, <1>4, <1>7, <2>2, <2>3, OneHandle DEF Ready
<1>8. CASE /\ hs' = [hs EXCEPT ![h] = [q EXCEPT !.at = "abort"]]
           /\ staged' = [staged EXCEPT ![h] = None] \/ staged' = [staged EXCEPT ![h] = Before(h)]
  <2>1. PICK s : s = [q EXCEPT !.at = "abort"]
    OBVIOUS
  <2>2. PICK v \in Seq(Block) \cup {None} : staged' = [staged EXCEPT ![h] = v]
    <3>1. Before(h) \in Seq(Block)
      BY HandleFacts, EmptySeq DEF Before
    <3> QED
      BY <1>8, <3>1
  <2>3. /\ s \in HandleState /\ s.upload = FALSE /\ s.st = "closed" /\ s.failed = TRUE
        /\ s.mode = r.mode /\ s.text = r.text /\ s.deferred = r.deferred /\ s.turn = r.turn
        /\ s.size = r.size /\ s.buffered = r.buffered /\ s.given = r.given /\ s.at = "abort"
        /\ s.existing = r.existing /\ s.done = r.done /\ s.stuck = r.stuck
    BY <1>3, <2>1 DEF HandleState
  <2>4. HandleOK(h, s, v) /\ Committed(h, s)
    <3>1. Matches(h, s, v) /\ ClosedOK(s) /\ AtOK(s) /\ Clean(s, v) /\ Committed(h, s)
      BY <1>2, <1>5, <2>3 DEF Ready, Matches, ClosedOK, AtOK, Clean, Committed
    <3> QED
      BY <2>3, <3>1 DEF HandleOK
  <2>5. hs' = [hs EXCEPT ![h] = s]
    BY <1>8, <2>1
  <2> QED
    BY <1>4, <2>2, <2>3, <2>4, <2>5, OneHandle DEF Ready
<1> QED
  BY <1>6, <1>7, <1>8

LEMMA WriteThroughStep ==
    ASSUME HandleInv, NEW h \in Handle, WriteThrough(h)
    PROVE  HandleInv'
<1>0. /\ Usable(h) /\ hs[h].given < MaxBlocks
      /\ UNCHANGED <<target, files, phase, streaming, others>>
  BY DEF WriteThrough
<1>1. PICK r : r = Given(h)
  OBVIOUS
<1>2. Ready(h, r) /\ ~r.failed
  BY <1>0, <1>1, GivenReady
<1>3. CASE /\ hs' = [hs EXCEPT ![h] = Sent(h, r)]
           /\ staged' = [staged EXCEPT ![h] = StagedBy(h, r)]
           /\ NoFault
  <2>1. PICK s : s = Sent(h, r)
    OBVIOUS
  <2>2. PICK v : v = StagedBy(h, r)
    OBVIOUS
  <2>3. v = (IF streaming THEN Blocks(h, 0, r.given) ELSE None) /\ v \in Seq(Block) \cup {None}
    BY <1>2, <2>2, SentStaged
  <2>4. /\ s \in HandleState /\ s.size = r.given /\ s.buffered = 0 /\ s.upload = streaming
        /\ s.st = r.st /\ s.mode = r.mode /\ s.text = r.text /\ s.deferred = r.deferred
        /\ s.turn = r.turn /\ s.given = r.given /\ s.size + s.buffered = s.given
        /\ s.at = r.at /\ s.existing = r.existing /\ s.failed = r.failed
        /\ s.done = r.done /\ s.stuck = r.stuck
    BY <1>2, <2>1, SentFields
  <2>5. HandleOK(h, s, v) /\ Committed(h, s)
    BY <1>2, <2>3, <2>4 DEF Ready, HandleOK, Matches, ClosedOK, AtOK, Clean, Committed
  <2>6. GlobalOK'
    BY <1>0, <1>3 DEF HandleInv, GlobalOK, NoFault
  <2>7. hs' = [hs EXCEPT ![h] = s] /\ staged' = [staged EXCEPT ![h] = v]
    BY <1>3, <2>1, <2>2
  <2> QED
    BY <1>0, <1>2, <2>4, <2>5, <2>6, <2>7, OneHandle DEF Ready
<1>4. CASE Breaks(h, r)
  BY <1>0, <1>2, <1>4, BreaksStep
<1> QED
  BY <1>1, <1>3, <1>4 DEF WriteThrough, Given

-----------------------------------------------------------------------------
(* Closing *)

LEMMA CommittingFields ==
    ASSUME NEW r \in HandleState
    PROVE  LET s == Committing(r) IN
           /\ s \in HandleState /\ s.st = r.st /\ s.mode = r.mode /\ s.text = r.text
           /\ s.deferred = r.deferred /\ s.turn = r.turn /\ s.upload = r.upload
           /\ s.size = r.size /\ s.buffered = r.buffered /\ s.given = r.given
           /\ s.existing = r.existing /\ s.failed = r.failed /\ s.done = r.done
           /\ s.stuck = r.stuck /\ s.at \in {"finish", "exists", "free", "write"}
           /\ (r.upload <=> s.at = "finish") /\ (s.at = "exists" => s.mode = "ab")
<1>1. r.mode \in {"wb", "xb", "ab"} /\ r.upload \in BOOLEAN
  BY HandleAssumption DEF HandleState
<1>2. PICK label : label = FirstCall(r)
  OBVIOUS
<1>3. /\ label \in {"finish", "exists", "free", "write"}
      /\ (r.upload <=> label = "finish") /\ (label = "exists" => r.mode = "ab")
  BY <1>1, <1>2 DEF FirstCall
<1>4. PICK s : s = [r EXCEPT !.at = label]
  OBVIOUS
<1>5. /\ s \in HandleState /\ s.st = r.st /\ s.mode = r.mode /\ s.text = r.text
      /\ s.deferred = r.deferred /\ s.turn = r.turn /\ s.upload = r.upload
      /\ s.size = r.size /\ s.buffered = r.buffered /\ s.given = r.given
      /\ s.existing = r.existing /\ s.failed = r.failed /\ s.done = r.done
      /\ s.stuck = r.stuck /\ s.at = label
  BY <1>3, <1>4 DEF HandleState
<1> QED
  BY <1>2, <1>3, <1>4, <1>5 DEF Committing

\* The record that a closing handle sends.
Left(h, failed) == [hs[h] EXCEPT !.failed = failed]

LEMMA LeftReady ==
    ASSUME HandleInv, NEW h \in Handle, Usable(h), NEW failed \in BOOLEAN,
           NEW r, r = Left(h, failed)
    PROVE  /\ Ready(h, r) /\ r.failed = failed /\ r.mode = hs[h].mode /\ r.text = hs[h].text
           /\ r.given = hs[h].given /\ r.existing = hs[h].existing /\ r.stuck = hs[h].stuck
<1>1. hs[h] \in HandleState /\ hs[h].st = "open" /\ ~hs[h].done /\ hs[h].at = "none"
  BY HandleFacts, UsableIs
<1>2. /\ r \in HandleState /\ r.st = hs[h].st /\ r.mode = hs[h].mode /\ r.text = hs[h].text
      /\ r.deferred = hs[h].deferred /\ r.turn = hs[h].turn /\ r.upload = hs[h].upload
      /\ r.size = hs[h].size /\ r.given = hs[h].given /\ r.buffered = hs[h].buffered
      /\ r.at = hs[h].at /\ r.existing = hs[h].existing /\ r.failed = failed
      /\ r.done = hs[h].done /\ r.stuck = hs[h].stuck
  BY <1>1 DEF HandleState, Left
<1>3. Matches(h, r, staged[h]) /\ AtOK(r) /\ Clean(r, staged[h])
  BY <1>1, <1>2, HandleFacts DEF Matches, AtOK, Clean
<1> QED
  BY <1>1, <1>2, <1>3 DEF Ready

LEMMA ClosingStep ==
    ASSUME HandleInv, NEW h \in Handle, NEW failed \in BOOLEAN, Closing(h, failed),
           failed => hs[h].text \/ ~streaming
    PROVE  HandleInv'
<1>0. Usable(h) /\ UNCHANGED <<target, files, phase, streaming, others>>
  BY DEF Closing
<1>1. PICK r : r = Left(h, failed)
  OBVIOUS
<1>2. /\ Ready(h, r) /\ r.failed = failed /\ r.mode = hs[h].mode /\ r.text = hs[h].text
      /\ r.stuck = hs[h].stuck
  BY <1>0, <1>1, LeftReady
<1>3. PICK q : q = Sent(h, r)
  OBVIOUS
<1>4. /\ q \in HandleState /\ q.size = r.given /\ q.buffered = 0 /\ q.upload = streaming
      /\ q.st = r.st /\ q.mode = r.mode /\ q.text = r.text /\ q.deferred = r.deferred
      /\ q.turn = r.turn /\ q.given = r.given /\ q.size + q.buffered = q.given
      /\ q.at = r.at /\ q.existing = r.existing /\ q.failed = r.failed
      /\ q.done = r.done /\ q.stuck = r.stuck
  BY <1>2, <1>3, SentFields
<1>5. PICK s : s = [q EXCEPT !.st = "closed"]
  OBVIOUS
<1>6. /\ s \in HandleState /\ s.size = r.given /\ s.buffered = 0 /\ s.upload = streaming
      /\ s.st = "closed" /\ s.mode = r.mode /\ s.text = r.text /\ s.deferred = r.deferred
      /\ s.turn = r.turn /\ s.given = r.given /\ s.size + s.buffered = s.given
      /\ s.at = "none" /\ s.existing = r.existing /\ s.failed = failed
      /\ s.done = r.done /\ ~s.done /\ s.stuck = r.stuck
  <2>1. /\ s \in HandleState /\ s.size = q.size /\ s.buffered = q.buffered
        /\ s.upload = q.upload /\ s.st = "closed" /\ s.mode = q.mode /\ s.text = q.text
        /\ s.deferred = q.deferred /\ s.turn = q.turn /\ s.given = q.given
        /\ s.at = q.at /\ s.existing = q.existing /\ s.failed = q.failed
        /\ s.done = q.done /\ s.stuck = q.stuck
    BY <1>4, <1>5 DEF HandleState
  <2> QED
    BY <1>2, <1>4, <2>1 DEF Ready
<1>7. PICK v : v = StagedBy(h, r)
  OBVIOUS
<1>8. v = (IF streaming THEN Blocks(h, 0, r.given) ELSE None) /\ v \in Seq(Block) \cup {None}
  BY <1>2, <1>7, SentStaged
<1>9. \/ /\ hs' = [hs EXCEPT ![h] = IF r.deferred THEN s ELSE Committing(s)]
         /\ staged' = [staged EXCEPT ![h] = v]
         /\ NoFault
      \/ Breaks(h, r)
  BY <1>1, <1>3, <1>5, <1>7 DEF Closing, Left
<1>10. streaming \in BOOLEAN
  BY HandleFacts
<1>11. CASE /\ hs' = [hs EXCEPT ![h] = IF r.deferred THEN s ELSE Committing(s)]
            /\ staged' = [staged EXCEPT ![h] = v]
            /\ NoFault
  <2>1. GlobalOK'
    BY <1>0, <1>11 DEF HandleInv, GlobalOK, NoFault
  <2>2. CASE r.deferred
    <3>1. HandleOK(h, s, v) /\ Committed(h, s)
      <4>1. Matches(h, s, v) /\ ClosedOK(s) /\ Clean(s, v) /\ Committed(h, s)
        BY <1>6, <1>8, <1>10, <2>2 DEF Matches, ClosedOK, Clean, Committed, IsOver
      <4>2. AtOK(s)
        BY <1>2, <1>6 DEF Ready, AtOK
      <4> QED
        BY <1>6, <1>8, <4>1, <4>2 DEF HandleOK
    <3>2. hs' = [hs EXCEPT ![h] = s]
      BY <1>11, <2>2
    <3> QED
      BY <1>0, <1>2, <1>6, <1>11, <2>1, <3>1, <3>2, OneHandle DEF Ready
  <2>3. CASE ~r.deferred
    <3>1. PICK t : t = Committing(s)
      OBVIOUS
    <3>2. /\ t \in HandleState /\ t.st = s.st /\ t.mode = s.mode /\ t.text = s.text
          /\ t.deferred = s.deferred /\ t.turn = s.turn /\ t.upload = s.upload
          /\ t.size = s.size /\ t.buffered = s.buffered /\ t.given = s.given
          /\ t.existing = s.existing /\ t.failed = s.failed /\ t.done = s.done
          /\ t.stuck = s.stuck /\ t.at \in {"finish", "exists", "free", "write"}
          /\ (s.upload <=> t.at = "finish") /\ (t.at = "exists" => t.mode = "ab")
      BY <1>6, <3>1, CommittingFields
    <3>3. Matches(h, t, v) /\ Clean(t, v) /\ Committed(h, t)
      BY <1>6, <1>8, <1>10, <2>3, <3>2 DEF Matches, Clean, Committed
    <3>4. ClosedOK(t)
      BY <1>2, <1>6, <1>10, <2>3, <3>2 DEF ClosedOK
    <3>5. AtOK(t)
      BY <1>2, <1>6, <2>3, <3>2 DEF Ready, AtOK
    <3>6. HandleOK(h, t, v)
      BY <1>8, <3>2, <3>3, <3>4, <3>5 DEF HandleOK
    <3>7. hs' = [hs EXCEPT ![h] = t]
      BY <1>11, <2>3, <3>1
    <3>8. t.deferred = hs[h].deferred /\ t.turn = hs[h].turn /\ t.done = hs[h].done
      BY <1>2, <1>6, <3>2 DEF Ready
    <3>9. t.st # "unopened"
      BY <1>6, <3>2
    <3> QED
      BY <1>0, <1>11, <2>1, <3>3, <3>6, <3>7, <3>8, <3>9, OneHandle
  <2> QED
    BY <2>2, <2>3
<1>12. CASE Breaks(h, r)
  BY <1>0, <1>2, <1>12, BreaksStep
<1> QED
  BY <1>9, <1>11, <1>12

LEMMA LeaveFailedStep ==
    ASSUME HandleInv, NEW h \in Handle, LeaveFailed(h)
    PROVE  HandleInv'
<1>1. CASE (hs[h].text \/ ~streaming) /\ Closing(h, TRUE)
  BY <1>1, ClosingStep
<1>2. CASE /\ Usable(h) /\ ~hs[h].text /\ streaming
           /\ hs' = [hs EXCEPT ![h].upload = FALSE, ![h].st = "closed", ![h].failed = TRUE,
                               ![h].at = IF hs[h].upload THEN "abort" ELSE "none"]
           /\ UNCHANGED <<target, staged, files, phase, streaming, faults, others>>
  <2>1. PICK label : label = IF hs[h].upload THEN "abort" ELSE "none"
    OBVIOUS
  <2>2. PICK q : q = [hs[h] EXCEPT !.upload = FALSE, !.st = "closed", !.failed = TRUE,
                                   !.at = label]
    OBVIOUS
  <2>3. /\ q \in HandleState /\ q.st = "closed" /\ q.mode = hs[h].mode /\ q.text = hs[h].text
        /\ q.deferred = hs[h].deferred /\ q.turn = hs[h].turn /\ q.upload = FALSE
        /\ q.size = hs[h].size /\ q.buffered = hs[h].buffered /\ q.given = hs[h].given
        /\ q.failed = TRUE /\ q.existing = hs[h].existing /\ q.done = hs[h].done
        /\ q.stuck = hs[h].stuck /\ q.at = label
    <3>1. label \in {"abort", "none"}
      BY <2>1
    <3> QED
      BY <2>2, <3>1, HandleFacts DEF HandleState
  <2>4. PICK v : v = staged[h]
    OBVIOUS
  <2>5. hs' = [hs EXCEPT ![h] = q] /\ staged' = [staged EXCEPT ![h] = v]
    BY <1>2, <2>1, <2>2, <2>4 DEF HandleInv
  <2>6. /\ hs[h].st = "open" /\ ~hs[h].done /\ hs[h].at = "none"
        /\ hs[h].deferred => phase = "open"
    BY <1>2, UsableIs
  <2>7. HandleOK(h, q, v) /\ Committed(h, q)
    <3>1. v \in Seq(Block) \cup {None}
      BY <2>4, HandleFacts
    <3>2. Matches(h, q, v) /\ ClosedOK(q) /\ AtOK(q) /\ Clean(q, v) /\ Committed(h, q)
      BY <1>2, <2>1, <2>3, <2>4, <2>6, HandleFacts
         DEF Matches, ClosedOK, AtOK, Clean, Committed
    <3> QED
      BY <2>3, <3>1, <3>2 DEF HandleOK
  <2>8. GlobalOK'
    BY <1>2 DEF HandleInv, GlobalOK
  <2> QED
    BY <1>2, <2>3, <2>5, <2>7, <2>8, OneHandle
<1> QED
  BY <1>1, <1>2 DEF LeaveFailed

-----------------------------------------------------------------------------
(* The calls of commit() and the aborts *)

\* A handle with a call ahead.
LEMMA CallingIs ==
    ASSUME HandleInv, NEW h \in Handle, hs[h].at # "none"
    PROVE  /\ hs[h].st # "unopened" /\ ~hs[h].done /\ ~Over(h)
           /\ Completing(h) => files # << >> /\ h = Head(files)
           /\ ~Completing(h) => hs[h].st = "closed" /\ (hs[h].deferred => hs[h].failed)
<1>1. hs[h].st # "unopened" /\ ~hs[h].done
  BY HandleFacts DEF Matches, AtOK, Unopened
<1>2. Completing(h) => files # << >> /\ h = Head(files)
  BY HandleFacts DEF Completing, Committed
<1>3. ~Completing(h) => hs[h].st = "closed" /\ (hs[h].deferred => hs[h].failed)
  BY HandleFacts DEF Completing, Committed, AtOK, ClosedOK
<1> QED
  BY <1>1, <1>2, <1>3 DEF Over

\* Record q of a handle whose last call is over: it has the fields of r.
AfterCall(q, r, done) ==
    /\ q \in HandleState /\ q.st = r.st /\ q.mode = r.mode /\ q.text = r.text
    /\ q.deferred = r.deferred /\ q.turn = r.turn /\ q.upload = r.upload
    /\ q.size = r.size /\ q.buffered = r.buffered /\ q.given = r.given
    /\ q.existing = r.existing /\ q.failed = r.failed /\ q.stuck = r.stuck
    /\ q.at = "none" /\ q.done = done

LEMMA AfterCallIs ==
    ASSUME NEW r \in HandleState, NEW done \in BOOLEAN,
           NEW q, q = [r EXCEPT !.at = "none", !.done = done]
    PROVE  AfterCall(q, r, done)
BY DEF HandleState, AfterCall

\* What record r of the last call keeps of handle h.
Keeps(h, r) ==
    /\ r \in HandleState /\ r.st = hs[h].st /\ r.mode = hs[h].mode /\ r.text = hs[h].text
    /\ r.deferred = hs[h].deferred /\ r.turn = hs[h].turn
    /\ r.size = hs[h].size /\ r.buffered = hs[h].buffered /\ r.given = hs[h].given
    /\ r.existing = hs[h].existing
    /\ hs[h].failed => r.failed
    /\ r.upload => hs[h].upload /\ Completing(h)

LEMMA EndedStep ==
    ASSUME HandleInv, NEW h \in Handle, NEW r, NEW v, NEW raised \in BOOLEAN,
           Ended(h, r, raised), staged' = [staged EXCEPT ![h] = v],
           Keeps(h, r), v \in {None, staged[h]}, r.stuck \/ v = None,
           \/ hs[h].at # "none"
           \/ phase = "discard" /\ files # << >> /\ h = Head(files),
           streaming' = streaming, others' = others, faults' \in Nat,
           target' \in Content \cup {None}
    PROVE  HandleInv'
<1>1. PICK done \in BOOLEAN : done = Completing(h)
  BY HandleFacts DEF Completing, HandleState
<1>2. PICK q : q = [r EXCEPT !.at = "none", !.done = done]
  OBVIOUS
<1>3. /\ hs' = [hs EXCEPT ![h] = q]
      /\ files' = IF Completing(h) THEN Tail(files) ELSE files
      /\ phase' = phase \/ (Completing(h) /\ phase' = "broken")
  BY <1>1, <1>2 DEF Ended
<1>4. AfterCall(q, r, done)
  BY <1>2, AfterCallIs DEF Keeps
<1>5. /\ q \in HandleState /\ q.st = hs[h].st /\ q.mode = hs[h].mode /\ q.text = hs[h].text
      /\ q.deferred = hs[h].deferred /\ q.turn = hs[h].turn
      /\ q.size = hs[h].size /\ q.buffered = hs[h].buffered /\ q.given = hs[h].given
      /\ q.existing = hs[h].existing /\ (hs[h].failed => q.failed)
      /\ (q.upload => hs[h].upload /\ Completing(h))
      /\ q.at = "none" /\ (q.done <=> Completing(h)) /\ (q.stuck \/ v = None)
  BY <1>1, <1>4 DEF AfterCall, Keeps
<1>6. /\ hs[h].st # "unopened" /\ ~hs[h].done
      /\ Completing(h) => files # << >> /\ h = Head(files)
      /\ ~Completing(h) => /\ hs[h].st = "closed" /\ (hs[h].deferred => hs[h].failed)
                           /\ hs[h].at # "none"
  <2>1. CASE hs[h].at # "none"
    BY <2>1, CallingIs
  <2>2. CASE phase = "discard" /\ files # << >> /\ h = Head(files)
    BY <2>2, HeadFile DEF Completing
  <2> QED
    BY <2>1, <2>2
<1>7. HandleOK(h, q, v)
  <2>1. Matches(h, q, v)
    BY <1>5, <1>6, HandleFacts DEF Matches
  <2>2. ClosedOK(q)
    BY <1>5, <1>6, HandleFacts DEF ClosedOK, IsOver, Completing
  <2>3. AtOK(q)
    BY <1>5, HandleFacts DEF AtOK, Completing
  <2>4. Clean(q, v)
    BY <1>5 DEF Clean
  <2> QED
    BY <1>5, <2>1, <2>2, <2>3, <2>4, HandleFacts DEF HandleOK
<1>8. GlobalOK'
  BY <1>3 DEF HandleInv, GlobalOK
<1>9. CASE Completing(h)
  <2>1. /\ files # << >> /\ h = Head(files) /\ files' = Tail(files)
        /\ phase \in {"commit", "discard"} /\ phase' \in {phase, "broken"}
    BY <1>3, <1>6, <1>9 DEF Completing
  <2> QED
    BY <1>3, <1>5, <1>7, <1>8, <2>1, FirstHandle
<1>10. CASE ~Completing(h)
  <2>1. UNCHANGED <<files, phase>>
    BY <1>3, <1>10
  <2>2. q.done = hs[h].done
    BY <1>1, <1>4, <1>6, <1>10, HandleFacts DEF AfterCall, HandleState
  <2>3. Committed(h, q)
    BY <1>5 DEF Committed
  <2> QED
    BY <1>3, <1>5, <1>6, <1>7, <1>8, <2>1, <2>2, <2>3, OneHandle
<1> QED
  BY <1>9, <1>10

\* Nothing of the record changes, or the call that ends has failed.
LEMMA KeepsIs ==
    ASSUME HandleInv, NEW h \in Handle
    PROVE  /\ ~hs[h].upload => Keeps(h, hs[h])
           /\ Keeps(h, [hs[h] EXCEPT !.upload = FALSE])
           /\ ~hs[h].upload => Keeps(h, [hs[h] EXCEPT !.failed = TRUE])
           /\ \A stuck \in BOOLEAN :
                  ~hs[h].upload \/ Completing(h) =>
                      Keeps(h, [hs[h] EXCEPT !.failed = TRUE, !.stuck = stuck])
<1>0. hs[h] \in HandleState
  BY HandleFacts
<1>1. ~hs[h].upload => Keeps(h, hs[h])
  BY <1>0 DEF Keeps
<1>2. Keeps(h, [hs[h] EXCEPT !.upload = FALSE])
  <2>1. PICK r : r = [hs[h] EXCEPT !.upload = FALSE]
    OBVIOUS
  <2> QED
    BY <1>0, <2>1 DEF HandleState, Keeps
<1>3. ~hs[h].upload => Keeps(h, [hs[h] EXCEPT !.failed = TRUE])
  <2>1. PICK r : r = [hs[h] EXCEPT !.failed = TRUE]
    OBVIOUS
  <2> QED
    BY <1>0, <2>1 DEF HandleState, Keeps
<1>4. ASSUME NEW stuck \in BOOLEAN, ~hs[h].upload \/ Completing(h)
      PROVE  Keeps(h, [hs[h] EXCEPT !.failed = TRUE, !.stuck = stuck])
  <2>1. PICK r : r = [hs[h] EXCEPT !.failed = TRUE, !.stuck = stuck]
    OBVIOUS
  <2> QED
    BY <1>0, <1>4, <2>1 DEF HandleState, Keeps
<1> QED
  BY <1>1, <1>2, <1>3, <1>4

\* What finish_upload and _commit put at the path.
LEMMA ContentIs ==
    ASSUME HandleInv, NEW h \in Handle
    PROVE  /\ Existing \in Content
           /\ \A x \in Content, y \in Content : x \o y \in Content
           /\ Blocks(h, 0, hs[h].size) \in Content /\ Blocks(h, 0, hs[h].size) \in Seq(Block)
           /\ << >> \in Content /\ hs[h].existing \in Content
<1>1. hs[h].size \in 0 .. MaxBlocks /\ 0 \in 0 .. MaxBlocks /\ 0 <= hs[h].size
  BY HandleFacts, HandleAssumption
<1>2. Existing \in Content
  BY EmptySeq DEF HandleInv, GlobalOK, Existing, Content
<1> QED
  BY <1>1, <1>2, BlocksSeq, ConcatProperties, EmptySeq, HandleFacts DEF Content, HandleState

LEMMA FinishUploadStep ==
    ASSUME HandleInv, NEW h \in Handle, FinishUpload(h)
    PROVE  HandleInv' /\ staged[h] = Blocks(h, 0, hs[h].size) /\ hs[h].upload /\ ~hs[h].done
<1>1. hs[h].at = "finish" /\ streaming' = streaming /\ others' = others /\ faults' = faults
  BY DEF FinishUpload, Calling, NoFault
<1>2. hs[h].upload /\ ~hs[h].done
  BY <1>1, HandleFacts DEF AtOK
<1>3. staged[h] = Blocks(h, 0, hs[h].size)
  BY <1>2, HandleFacts DEF Matches
<1>4. target' \in Content \cup {None}
  BY <1>3, ContentIs DEF FinishUpload
<1>5. PICK r : r = [hs[h] EXCEPT !.upload = FALSE]
  OBVIOUS
<1>6. PICK v : v = None
  OBVIOUS
<1>7. Ended(h, r, FALSE) /\ staged' = [staged EXCEPT ![h] = v]
  BY <1>5, <1>6 DEF FinishUpload
<1>8. Keeps(h, r)
  BY <1>5, KeepsIs
<1>9. hs[h].at # "none" /\ faults' \in Nat /\ FALSE \in BOOLEAN
      /\ v \in {None, staged[h]} /\ (r.stuck \/ v = None)
  BY <1>1, <1>6, HandleFacts
<1>10. HandleInv'
  BY <1>1, <1>4, <1>7, <1>8, <1>9, EndedStep
<1> QED
  BY <1>2, <1>3, <1>10

LEMMA FinishFailsStep ==
    ASSUME HandleInv, NEW h \in Handle, FinishFails(h)
    PROVE  HandleInv'
<1>1. /\ hs[h].at = "finish" /\ streaming' = streaming /\ others' = others
      /\ target' = target
  BY DEF FinishFails, Calling
<1>2. /\ hs[h].upload /\ ~hs[h].done /\ streaming
  BY <1>1, HandleFacts DEF AtOK, Matches
<1>3. PICK v \in {None, staged[h]} : staged' = [staged EXCEPT ![h] = v]
  BY DEF FinishFails, HandleInv
<1>4. faults' \in Nat
  <2>1. NoFault \/ Fault
    BY DEF FinishFails
  <2> QED
    BY <2>1, HandleFacts DEF Fault, NoFault
<1>5. staged'[h] = v
  BY <1>3 DEF HandleInv
<1>6. target' \in Content \cup {None}
  BY <1>1 DEF HandleInv, GlobalOK
<1>7. CASE Completing(h)
  <2>1. PICK stuck \in BOOLEAN : stuck = (v # None)
    OBVIOUS
  <2>2. PICK r : r = [hs[h] EXCEPT !.failed = TRUE, !.stuck = stuck]
    OBVIOUS
  <2>3. Ended(h, r, TRUE)
    BY <1>5, <1>7, <2>1, <2>2 DEF FinishFails
  <2>4. Keeps(h, r)
    BY <1>7, <2>2, KeepsIs
  <2>5. r.stuck \/ v = None
    BY <2>1, <2>2, HandleFacts DEF HandleState
  <2>6. hs[h].at # "none" /\ TRUE \in BOOLEAN
    BY <1>1
  <2> QED
    BY <1>1, <1>3, <1>4, <1>6, <2>3, <2>4, <2>5, <2>6, EndedStep
<1>8. CASE ~Completing(h)
  <2>1. /\ hs' = [hs EXCEPT ![h].upload = FALSE, ![h].failed = TRUE, ![h].at = "abort"]
        /\ UNCHANGED <<files, phase>>
    BY <1>8 DEF FinishFails
  <2>2. PICK q : q = [hs[h] EXCEPT !.upload = FALSE, !.failed = TRUE, !.at = "abort"]
    OBVIOUS
  <2>3. /\ q \in HandleState /\ q.st = hs[h].st /\ q.mode = hs[h].mode /\ q.text = hs[h].text
        /\ q.deferred = hs[h].deferred /\ q.turn = hs[h].turn /\ q.upload = FALSE
        /\ q.size = hs[h].size /\ q.buffered = hs[h].buffered /\ q.given = hs[h].given
        /\ q.failed = TRUE /\ q.existing = hs[h].existing /\ q.done = hs[h].done
        /\ q.stuck = hs[h].stuck /\ q.at = "abort"
    <3>1. hs[h] \in HandleState
      BY HandleFacts
    <3> QED
      BY <2>2, <3>1 DEF HandleState
  <2>4. hs' = [hs EXCEPT ![h] = q]
    BY <2>1, <2>2
  <2>5. hs[h].st = "closed" /\ ~hs[h].deferred
    BY <1>1, <1>8, CallingIs, HandleFacts DEF Completing, Committed
  <2>6. HandleOK(h, q, v) /\ Committed(h, q)
    <3>1. v \in Seq(Block) \cup {None}
      BY HandleFacts
    <3>2. Matches(h, q, v) /\ ClosedOK(q) /\ AtOK(q) /\ Clean(q, v) /\ Committed(h, q)
      BY <1>2, <2>3, <2>5, HandleFacts DEF Matches, ClosedOK, AtOK, Clean, Committed
    <3> QED
      BY <2>3, <3>1, <3>2 DEF HandleOK
  <2>7. GlobalOK'
    BY <1>1, <1>4, <2>1 DEF HandleInv, GlobalOK
  <2>8. q.st # "unopened"
    BY <2>3, <2>5
  <2> QED
    BY <1>1, <1>3, <2>1, <2>3, <2>4, <2>6, <2>7, <2>8, OneHandle
<1> QED
  BY <1>7, <1>8

LEMMA AbortUploadStep ==
    ASSUME HandleInv, NEW h \in Handle, AbortUpload(h)
    PROVE  HandleInv'
<1>1. /\ hs[h].at = "abort" /\ streaming' = streaming /\ others' = others
      /\ target' = target /\ hs[h].at # "none"
  BY DEF AbortUpload, Calling
<1>2. ~hs[h].upload
  BY <1>1, HandleFacts DEF AtOK
<1>3. target' \in Content \cup {None} /\ TRUE \in BOOLEAN /\ FALSE \in BOOLEAN
  BY <1>1 DEF HandleInv, GlobalOK
<1>4. faults' \in Nat
  <2>1. NoFault \/ Fault
    BY DEF AbortUpload
  <2> QED
    BY <2>1, HandleFacts DEF Fault, NoFault
<1>5. CASE staged' = [staged EXCEPT ![h] = None] /\ NoFault /\ Ended(h, hs[h], FALSE)
  <2>1. PICK r : r = hs[h]
    OBVIOUS
  <2>2. PICK v : v = None
    OBVIOUS
  <2>3. Keeps(h, r) /\ Ended(h, r, FALSE) /\ staged' = [staged EXCEPT ![h] = v]
    BY <1>2, <1>5, <2>1, <2>2, KeepsIs
  <2>4. v \in {None, staged[h]} /\ (r.stuck \/ v = None)
    BY <2>2
  <2> QED
    BY <1>1, <1>3, <1>4, <2>3, <2>4, EndedStep
<1>6. CASE /\ UNCHANGED staged /\ Fault
           /\ Ended(h, [hs[h] EXCEPT !.failed = TRUE, !.stuck = TRUE], TRUE)
  <2>1. PICK r : r = [hs[h] EXCEPT !.failed = TRUE, !.stuck = TRUE]
    OBVIOUS
  <2>2. PICK v : v = staged[h]
    OBVIOUS
  <2>3. Ended(h, r, TRUE) /\ staged' = [staged EXCEPT ![h] = v]
    BY <1>6, <2>1, <2>2 DEF HandleInv
  <2>4. Keeps(h, r)
    BY <1>2, <1>3, <2>1, KeepsIs
  <2>5. v \in {None, staged[h]} /\ (r.stuck \/ v = None)
    BY <2>1, <2>2, HandleFacts DEF HandleState
  <2> QED
    BY <1>1, <1>3, <1>4, <2>3, <2>4, <2>5, EndedStep
<1> QED
  BY <1>5, <1>6 DEF AbortUpload

\* The last call of commit() without an upload.
LEMMA CommittedStep ==
    ASSUME HandleInv, NEW h \in Handle, WriteParts(h) \/ CommitFails(h)
    PROVE  HandleInv'
<1>1. /\ hs[h].at \in {"exists", "cat", "free", "write"}
      /\ streaming' = streaming /\ others' = others /\ UNCHANGED staged
  BY DEF WriteParts, CommitFails, Calling
<1>2. hs[h].at # "none" /\ ~hs[h].upload /\ (hs[h].stuck \/ staged[h] = None)
  BY <1>1, HandleFacts DEF AtOK, Clean
<1>3. faults' \in Nat /\ TRUE \in BOOLEAN /\ FALSE \in BOOLEAN
  <2>1. NoFault \/ Fault
    BY DEF WriteParts, CommitFails
  <2> QED
    BY <2>1, HandleFacts DEF Fault, NoFault
<1>4. PICK v : v = staged[h]
  OBVIOUS
<1>5. staged' = [staged EXCEPT ![h] = v]
  BY <1>1, <1>4 DEF HandleInv
<1>6. CASE WriteParts(h)
  <2>1. target' \in Content \cup {None}
    <3>1. Parts(h) \in Content
      BY ContentIs DEF Parts
    <3> QED
      BY <1>6, <3>1, ContentIs DEF WriteParts
  <2>2. PICK r : r = hs[h]
    OBVIOUS
  <2>3. Keeps(h, r) /\ Ended(h, r, FALSE)
    BY <1>2, <1>6, <2>2, KeepsIs DEF WriteParts
  <2>4. v \in {None, staged[h]} /\ (r.stuck \/ v = None)
    BY <1>2, <1>4, <2>2
  <2> QED
    BY <1>1, <1>2, <1>3, <1>5, <2>1, <2>3, <2>4, EndedStep
<1>7. CASE CommitFails(h)
  <2>1. target' \in Content \cup {None}
    BY <1>7 DEF CommitFails, HandleInv, GlobalOK
  <2>2. PICK r : r = [hs[h] EXCEPT !.failed = TRUE]
    OBVIOUS
  <2>3. Keeps(h, r) /\ Ended(h, r, TRUE)
    BY <1>2, <1>7, <2>2, KeepsIs DEF CommitFails
  <2>4. v \in {None, staged[h]} /\ (r.stuck \/ v = None)
    BY <1>2, <1>4, <2>2, HandleFacts DEF HandleState
  <2> QED
    BY <1>1, <1>2, <1>3, <1>5, <2>1, <2>3, <2>4, EndedStep
<1> QED
  BY <1>6, <1>7

\* commit() without an upload goes on to its next call.
LEMMA AskStep ==
    ASSUME HandleInv, NEW h \in Handle,
           AskExisting(h) \/ ReadExisting(h) \/ AskFree(h)
    PROVE  /\ HandleInv'
           /\ hs'[h].existing \in {hs[h].existing, target}
           /\ hs'[h].existing # hs[h].existing => target # None
<1>1. PICK at \in {"cat", "write"}, existing \in Content :
          /\ hs' = [hs EXCEPT ![h] = [hs[h] EXCEPT !.at = at, !.existing = existing]]
          /\ hs[h].at \in {"exists", "cat", "free"}
          /\ existing = hs[h].existing \/ (existing = target /\ target # None)
          /\ hs[h].mode # "ab" => existing = << >>
          /\ at = "cat" => hs[h].mode = "ab"
          /\ UNCHANGED <<target, staged, streaming, files, phase, faults, others>>
  <2>1. hs[h] \in HandleState /\ hs[h].existing \in Content /\ AtOK(hs[h])
    BY HandleFacts DEF HandleState
  <2>2. ASSUME NEW at \in {"cat", "write"}, hs' = [hs EXCEPT ![h].at = at]
        PROVE  hs' = [hs EXCEPT ![h] = [hs[h] EXCEPT !.at = at, !.existing = hs[h].existing]]
    <3>1. [hs[h] EXCEPT !.at = at] = [hs[h] EXCEPT !.at = at, !.existing = hs[h].existing]
      BY <2>1 DEF HandleState
    <3> QED
      BY <2>2, <3>1
  <2>3. CASE AskExisting(h)
    <3>1. PICK at \in {"cat", "write"} : hs' = [hs EXCEPT ![h].at = at]
      BY <2>3 DEF AskExisting, Continue
    <3>2. hs[h].at = "exists"
      BY <2>3 DEF AskExisting, Calling
    <3> QED
      BY <2>1, <2>2, <2>3, <3>1, <3>2 DEF AskExisting, Calling, Continue, NoFault, AtOK
  <2>4. CASE AskFree(h)
    <3>1. hs' = [hs EXCEPT ![h].at = "write"]
      BY <2>4 DEF AskFree, Continue
    <3>2. hs[h].at = "free"
      BY <2>4 DEF AskFree, Calling
    <3> QED
      BY <2>1, <2>2, <2>4, <3>1, <3>2 DEF AskFree, Calling, Continue, NoFault, AtOK
  <2>5. CASE ReadExisting(h)
    <3>1. target \in Content /\ target # None
      BY <2>5 DEF ReadExisting, HandleInv, GlobalOK
    <3>2. hs' = [hs EXCEPT ![h] = [hs[h] EXCEPT !.at = "write", !.existing = target]]
      BY <2>5 DEF ReadExisting
    <3>3. PICK x \in Content : x = target
      BY <3>1
    <3>4. hs[h].at = "cat"
      BY <2>5 DEF ReadExisting, Calling
    <3> QED
      BY <2>1, <2>5, <3>1, <3>2, <3>3, <3>4 DEF ReadExisting, Calling, NoFault, AtOK
  <2> QED
    BY <2>3, <2>4, <2>5
<1>2. PICK r : r = [hs[h] EXCEPT !.at = at, !.existing = existing]
  OBVIOUS
<1>3. /\ r \in HandleState /\ r.st = hs[h].st /\ r.mode = hs[h].mode /\ r.text = hs[h].text
      /\ r.deferred = hs[h].deferred /\ r.turn = hs[h].turn /\ r.upload = hs[h].upload
      /\ r.size = hs[h].size /\ r.buffered = hs[h].buffered /\ r.given = hs[h].given
      /\ r.failed = hs[h].failed /\ r.done = hs[h].done /\ r.stuck = hs[h].stuck
      /\ r.at = at /\ r.existing = existing
  BY <1>1, <1>2, HandleFacts DEF HandleState
<1>4. PICK v : v = staged[h]
  OBVIOUS
<1>5. hs' = [hs EXCEPT ![h] = r] /\ staged' = [staged EXCEPT ![h] = v]
  BY <1>1, <1>2, <1>4 DEF HandleInv
<1>6. /\ hs[h].at # "none" /\ r.st # "unopened" /\ ~hs[h].upload /\ ~hs[h].done
      /\ r.at \notin {"none", "abort", "finish"}
  BY <1>1, <1>3, CallingIs, HandleFacts DEF AtOK
<1>7. HandleOK(h, r, v) /\ Committed(h, r)
  <2>1. v \in Seq(Block) \cup {None}
    BY <1>4, HandleFacts
  <2>2. Matches(h, r, v)
    BY <1>3, <1>4, <1>6, HandleFacts DEF Matches
  <2>3. ClosedOK(r)
    BY <1>1, <1>3, <1>6, HandleFacts DEF ClosedOK, IsOver
  <2>4. AtOK(r) /\ Clean(r, v) /\ Committed(h, r)
    BY <1>1, <1>3, <1>4, <1>6, HandleFacts DEF AtOK, Clean, Committed
  <2> QED
    BY <1>3, <2>1, <2>2, <2>3, <2>4 DEF HandleOK
<1>8. GlobalOK'
  BY <1>1 DEF HandleInv, GlobalOK
<1>9. HandleInv'
  BY <1>1, <1>3, <1>5, <1>6, <1>7, <1>8, OneHandle
<1>10. hs'[h] = r
  BY <1>5 DEF HandleInv
<1> QED
  BY <1>1, <1>3, <1>9, <1>10

-----------------------------------------------------------------------------
(* The transaction *)

LEMMA NextFileIs ==
    ASSUME HandleInv, files # << >>
    PROVE  /\ NextFile \in Handle /\ NextFile = Head(files)
           /\ hs[NextFile].deferred /\ ~hs[NextFile].done
           /\ hs[NextFile].st # "unopened" /\ ~Over(NextFile)
BY HeadFile DEF NextFile, Over

LEMMA TransCommitStep ==
    ASSUME HandleInv, TransCommit
    PROVE  HandleInv'
<1>1. PICK h \in Handle :
          /\ h = NextFile /\ h = Head(files) /\ hs[h].deferred /\ ~hs[h].done
          /\ hs[h].st # "unopened"
  BY NextFileIs DEF TransCommit
<1>2. /\ phase = "commit" /\ files # << >> /\ hs[h].at = "none"
      /\ hs' = [hs EXCEPT ![h] = Committing(hs[h])]
      /\ UNCHANGED <<target, staged, files, phase, streaming, faults, others>>
  BY <1>1 DEF TransCommit
<1>3. PICK r : r = Committing(hs[h])
  OBVIOUS
<1>4. PICK s : s = hs[h]
  OBVIOUS
<1>5. /\ r \in HandleState /\ r.st = s.st /\ r.mode = s.mode /\ r.text = s.text
      /\ r.deferred = s.deferred /\ r.turn = s.turn /\ r.upload = s.upload
      /\ r.size = s.size /\ r.buffered = s.buffered /\ r.given = s.given
      /\ r.existing = s.existing /\ r.failed = s.failed /\ r.done = s.done
      /\ r.stuck = s.stuck /\ r.at \in {"finish", "exists", "free", "write"}
      /\ (s.upload <=> r.at = "finish") /\ (r.at = "exists" => r.mode = "ab")
  BY <1>3, <1>4, HandleFacts, CommittingFields
<1>6. PICK v : v = staged[h]
  OBVIOUS
<1>7. hs' = [hs EXCEPT ![h] = r] /\ staged' = [staged EXCEPT ![h] = v]
  BY <1>2, <1>3, <1>6 DEF HandleInv
<1>8. HandleOK(h, r, v) /\ Committed(h, r)
  <2>1. s.deferred /\ ~s.done /\ s.st # "unopened" /\ s.at = "none"
    BY <1>1, <1>2, <1>4
  <2>2. Matches(h, s, v) /\ ClosedOK(s) /\ AtOK(s) /\ Clean(s, v) /\ v \in Seq(Block) \cup {None}
    BY <1>4, <1>6, HandleFacts
  <2>3. Matches(h, r, v) /\ Clean(r, v)
    BY <1>5, <2>1, <2>2 DEF Matches, Clean
  <2>4. ClosedOK(r)
    BY <1>5, <2>1, <2>2 DEF ClosedOK, IsOver
  <2>5. AtOK(r)
    <3>1. r.at # "none" /\ r.at # "abort" /\ r.at # "cat" /\ r.deferred /\ ~r.done
      BY <1>5, <2>1
    <3> QED
      BY <1>5, <2>1, <2>2, <3>1 DEF AtOK
  <2>6. Committed(h, r)
    BY <1>1, <1>2, <1>5 DEF Committed
  <2> QED
    BY <1>5, <2>2, <2>3, <2>4, <2>5, <2>6 DEF HandleOK
<1>9. GlobalOK'
  BY <1>2 DEF HandleInv, GlobalOK
<1>10. /\ r.deferred = hs[h].deferred /\ r.turn = hs[h].turn /\ r.done = hs[h].done
       /\ r.st # "unopened"
  BY <1>1, <1>4, <1>5
<1> QED
  BY <1>2, <1>7, <1>8, <1>9, <1>10, OneHandle

LEMMA TransDiscardStep ==
    ASSUME HandleInv, TransDiscard
    PROVE  HandleInv'
<1>1. PICK h \in Handle :
          /\ h = NextFile /\ h = Head(files) /\ hs[h].deferred /\ ~hs[h].done
          /\ hs[h].st # "unopened"
  BY NextFileIs DEF TransDiscard
<1>2. /\ phase = "discard" /\ files # << >> /\ hs[h].at = "none"
      /\ UNCHANGED <<target, staged, streaming, faults, others>>
  BY <1>1 DEF TransDiscard
<1>3. PICK v : v = staged[h]
  OBVIOUS
<1>4. staged' = [staged EXCEPT ![h] = v]
  BY <1>2, <1>3 DEF HandleInv
<1>5. faults' \in Nat /\ target' \in Content \cup {None} /\ FALSE \in BOOLEAN
  BY <1>2 DEF HandleInv, GlobalOK
<1>6. CASE hs[h].upload
  <2>1. /\ hs' = [hs EXCEPT ![h].upload = FALSE, ![h].at = "abort"]
        /\ UNCHANGED <<files, phase>>
    BY <1>1, <1>6 DEF TransDiscard
  <2>2. PICK q : q = [hs[h] EXCEPT !.upload = FALSE, !.at = "abort"]
    OBVIOUS
  <2>3. /\ q \in HandleState /\ q.st = hs[h].st /\ q.mode = hs[h].mode /\ q.text = hs[h].text
        /\ q.deferred = hs[h].deferred /\ q.turn = hs[h].turn /\ q.upload = FALSE
        /\ q.size = hs[h].size /\ q.buffered = hs[h].buffered /\ q.given = hs[h].given
        /\ q.failed = hs[h].failed /\ q.existing = hs[h].existing /\ q.done = hs[h].done
        /\ q.stuck = hs[h].stuck /\ q.at = "abort"
    <3>1. hs[h] \in HandleState
      BY HandleFacts
    <3> QED
      BY <2>2, <3>1 DEF HandleState
  <2>4. hs' = [hs EXCEPT ![h] = q]
    BY <2>1, <2>2
  <2>5. HandleOK(h, q, v) /\ Committed(h, q)
    <3>1. v \in Seq(Block) \cup {None}
      BY <1>3, HandleFacts
    <3>2. Matches(h, q, v)
      BY <1>1, <1>3, <1>6, <2>3, HandleFacts DEF Matches
    <3>3. ClosedOK(q)
      BY <1>1, <1>6, <2>3, HandleFacts DEF ClosedOK
    <3>4. AtOK(q) /\ Clean(q, v) /\ Committed(h, q)
      BY <1>1, <1>2, <2>3, HandleFacts DEF AtOK, Clean, Committed
    <3> QED
      BY <2>3, <3>1, <3>2, <3>3, <3>4 DEF HandleOK
  <2>6. GlobalOK'
    BY <1>2, <2>1 DEF HandleInv, GlobalOK
  <2> QED
    BY <1>1, <1>2, <1>4, <2>1, <2>3, <2>4, <2>5, <2>6, OneHandle
<1>7. CASE ~hs[h].upload
  <2>1. PICK r : r = hs[h]
    OBVIOUS
  <2>2. Ended(h, r, FALSE) /\ Keeps(h, r)
    BY <1>1, <1>7, <2>1, KeepsIs DEF TransDiscard
  <2>3. v \in {None, staged[h]} /\ (r.stuck \/ v = None)
    BY <1>2, <1>3, <1>7, <2>1, HandleFacts DEF Clean
  <2>4. phase = "discard" /\ files # << >> /\ h = Head(files)
    BY <1>1, <1>2
  <2> QED
    BY <1>2, <1>4, <1>5, <2>2, <2>3, <2>4, EndedStep
<1> QED
  BY <1>6, <1>7

LEMMA TransStep ==
    ASSUME HandleInv,
           TransBegin \/ (\E how \in {"commit", "discard"} : TransEnd(how)) \/ TransDone \/ OtherWrites
    PROVE  HandleInv'
<1>1. UNCHANGED <<hs, staged, streaming, faults, files>>
  BY DEF TransBegin, TransEnd, TransDone, OtherWrites
<1>2. GlobalOK'
  <2>1. <<<<"other", 0>>>> \in Content
    BY DEF Content
  <2> QED
    BY <2>1 DEF TransBegin, TransEnd, TransDone, OtherWrites, HandleInv, GlobalOK
<1>3. CASE TransBegin
  <2>1. \A h \in Handle : hs[h] = Unopened
    BY <1>3, HandleFacts DEF TransBegin, Is, Matches
  <2>2. \A h \in Handle : hs[h].at = "none" /\ ~hs[h].done /\ hs[h].st = "unopened"
    BY <2>1 DEF Unopened
  <2>3. DOMAIN files = {}
    <3>1. \A i \in DOMAIN files : files[i] \in Handle /\ hs[files[i]].st # "unopened"
      BY ElementOfSeq, LenProperties DEF HandleInv, FilesOK
    <3> QED
      BY <2>2, <3>1
  <2>4. \A h \in Handle : Committed(h, hs[h])'
    BY <1>1, <2>2 DEF Committed
  <2>5. \A h \in Handle : ~hs[h].done
    BY <2>2
  <2> QED
    BY <1>1, <1>2, <2>3, <2>4, <2>5, NoHandle
<1>4. CASE TransDone \/ \E how \in {"commit", "discard"} : TransEnd(how)
  <2>1. ASSUME NEW h \in Handle, hs[h].deferred PROVE hs[h].at = "none"
    BY <1>4, <2>1, HandleFacts DEF TransDone, TransEnd, Committed
  <2>2. \A h \in Handle : Committed(h, hs[h])'
    BY <1>1, <2>1 DEF Committed
  <2>3. phase' # "open"
    BY <1>4 DEF TransDone, TransEnd
  <2> QED
    BY <1>1, <1>2, <2>2, <2>3, NoHandle
<1>5. CASE OtherWrites
  <2>1. phase' = phase
    BY <1>5 DEF OtherWrites
  <2>2. \A h \in Handle : Committed(h, hs[h])'
    BY <1>1, <2>1, HandleFacts DEF Committed
  <2>3. phase' = "open" => phase = "open" \/ (DOMAIN files = {} /\ \A g \in Handle : ~hs[g].done)
    BY <2>1
  <2> QED
    BY <1>1, <1>2, <2>2, <2>3, NoHandle
<1> QED
  BY <1>3, <1>4, <1>5

-----------------------------------------------------------------------------
(* The theorems *)

LEMMA HandlesInit == Init => HandleInv
<1> SUFFICES ASSUME Init PROVE HandleInv
  OBVIOUS
<1>1. /\ << >> \in Content /\ << >> \in Seq(Handle) /\ DOMAIN << >> = {}
      /\ 0 \in 0 .. MaxBlocks /\ <<<<"other", 0>>>> \in Content
  BY EmptySeq, HandleAssumption DEF Content
<1>2. Unopened \in HandleState
  BY <1>1 DEF Unopened, HandleState
<1>3. GlobalOK
  BY <1>1, HandleAssumption DEF Init, GlobalOK
<1>4. FilesOK
  BY <1>1 DEF Init, FilesOK
<1>5. ASSUME NEW h \in Handle PROVE HandleOK(h, hs[h], staged[h]) /\ Committed(h, hs[h])
  <2>1. hs[h] = Unopened /\ staged[h] = None
    BY DEF Init
  <2> QED
    BY <1>2, <2>1 DEF Unopened, HandleOK, Matches, ClosedOK, AtOK, Clean, Committed
<1> QED
  BY <1>2, <1>3, <1>4, <1>5 DEF Init, HandleInv

LEMMA HandlesNext == HandleInv /\ [Next]_vars => HandleInv'
<1> SUFFICES ASSUME HandleInv, [Next]_vars PROVE HandleInv'
  OBVIOUS
<1>1. CASE UNCHANGED vars
  <2>1. UNCHANGED <<hs, staged, streaming, faults, files, phase>> /\ GlobalOK'
    BY <1>1 DEF vars, HandleInv, GlobalOK
  <2>2. \A h \in Handle : Committed(h, hs[h])'
    BY <1>1 DEF vars, HandleInv, Committed
  <2>3. phase' = "open" => phase = "open" \/ (DOMAIN files = {} /\ \A g \in Handle : ~hs[g].done)
    BY <2>1
  <2> QED
    BY <2>1, <2>2, <2>3, NoHandle
<1>2. ASSUME NEW h \in Handle,
             \/ \E mode \in Modes, text \in Text : Open(h, mode, text)
             \/ Write(h) \/ WriteThrough(h) \/ Close(h) \/ LeaveFailed(h)
      PROVE  HandleInv'
  <2>1. Close(h) => HandleInv'
    BY ClosingStep DEF Close
  <2> QED
    BY <1>2, <2>1, OpenStep, WriteStep, WriteThroughStep, LeaveFailedStep
<1>3. ASSUME NEW h \in Handle,
             \/ FinishUpload(h) \/ FinishFails(h) \/ AbortUpload(h)
             \/ AskExisting(h) \/ ReadExisting(h) \/ AskFree(h)
             \/ WriteParts(h) \/ CommitFails(h)
      PROVE  HandleInv'
  BY <1>3, FinishUploadStep, FinishFailsStep, AbortUploadStep, AskStep, CommittedStep
<1> QED
  BY <1>1, <1>2, <1>3, TransStep, TransCommitStep, TransDiscardStep DEF Next

\* HandleInv is an invariant of the write handles.
THEOREM HandlesStaySound == Spec => []HandleInv
BY HandlesInit, HandlesNext, PTL DEF Spec

\* Every variable keeps its type: the buffer, the parts and transaction.files
\* never hold more than the caller gave, and no completion finds the list empty.
THEOREM HandlesTypeCorrect == Spec => []TypeOK
<1>1. HandleInv => TypeOK
  BY DEF HandleInv, GlobalOK, FilesOK, TypeOK
<1> QED
  BY <1>1, HandlesStaySound, PTL

\* However many provider calls fail, a handle that is over has left an upload
\* behind only if the call that should have given it up is one of them.
THEOREM HandlesCleanUp == Spec => []NothingStaged
<1>1. ASSUME HandleInv, NEW h \in Handle, Over(h), ~hs[h].stuck
      PROVE  staged[h] = None
  BY <1>1, HandleFacts DEF Over, Is, ClosedOK, Clean
<1>2. HandleInv => NothingStaged
  BY <1>1 DEF NothingStaged
<1> QED
  BY <1>2, HandlesStaySound, PTL

-----------------------------------------------------------------------------
(* What a step may do *)

\* A step of handle h: it was not over, and the others, those that are over among
\* them, keep their records.  Only the last calls of commit() change the target,
\* and without them a handle ends with an error or is discarded.
Moves(h) ==
    /\ ~Over(h)
    /\ \A g \in Handle \ {h} : hs'[g] = hs[g]
    /\ hs[h].st # "unopened" => hs'[h].deferred = hs[h].deferred /\ hs'[h].turn = hs[h].turn
    /\ \/ hs'[h].existing \in {hs[h].existing, << >>}
       \/ target # None /\ hs'[h].existing = target
    /\ \/ FinishUpload(h) \/ WriteParts(h)
       \/ /\ target' = target
          /\ Over(h)' => hs'[h].failed \/ phase = "discard"

LEMMA QuietMove ==
    ASSUME HandleInv, NEW h \in Handle, ~Over(h), NEW r,
           hs' = [hs EXCEPT ![h] = r], target' = target,
           r.deferred = hs[h].deferred, r.turn = hs[h].turn, r.existing = hs[h].existing,
           IsOver(r) => r.failed \/ phase = "discard"
    PROVE  Moves(h)
<1>1. hs'[h] = r /\ \A g \in Handle \ {h} : hs'[g] = hs[g]
  BY DEF HandleInv
<1>2. Over(h)' <=> IsOver(r)
  BY <1>1 DEF Over, IsOver, Is
<1> QED
  BY <1>1, <1>2 DEF Moves

LEMMA BreaksMoves ==
    ASSUME HandleInv, NEW h \in Handle, ~Over(h), NEW r, Ready(h, r),
           r.existing = hs[h].existing, Breaks(h, r), target' = target
    PROVE  Moves(h)
<1>1. PICK q : q = [r EXCEPT !.upload = FALSE, !.st = "closed", !.failed = TRUE]
  OBVIOUS
<1>2. PICK s : s = [q EXCEPT !.at = "abort"]
  OBVIOUS
<1>3. r \in HandleState /\ r.deferred = hs[h].deferred /\ r.turn = hs[h].turn
  BY DEF Ready
<1>4. /\ q \in HandleState /\ q.failed /\ q.deferred = r.deferred /\ q.turn = r.turn
      /\ q.existing = r.existing
  BY <1>1, <1>3 DEF HandleState
<1>5. /\ s.failed /\ s.deferred = r.deferred /\ s.turn = r.turn
      /\ s.existing = r.existing
  BY <1>2, <1>4 DEF HandleState
<1>6. hs' = [hs EXCEPT ![h] = q] \/ hs' = [hs EXCEPT ![h] = s]
  BY <1>1, <1>2 DEF Breaks
<1>7. ASSUME NEW t, hs' = [hs EXCEPT ![h] = t], t.failed, t.deferred = r.deferred,
             t.turn = r.turn, t.existing = r.existing
      PROVE  Moves(h)
  <2>1. t.deferred = hs[h].deferred /\ t.turn = hs[h].turn /\ t.existing = hs[h].existing
    BY <1>3, <1>7
  <2>2. IsOver(t) => t.failed \/ phase = "discard"
    BY <1>7
  <2> QED
    BY <1>7, <2>1, <2>2, QuietMove
<1> QED
  BY <1>4, <1>5, <1>6, <1>7

LEMMA OpenMoves ==
    ASSUME HandleInv, NEW h \in Handle, NEW mode \in Modes, NEW text \in Text,
           Open(h, mode, text)
    PROVE  Moves(h)
<1>1. hs[h] = Unopened /\ target' = target
  BY HandleFacts DEF Open, Is, Matches
<1>2. PICK r : r = Opened(mode, text)
  OBVIOUS
<1>3. r.existing = << >> /\ r.st = "open" /\ ~r.done
  BY <1>2 DEF Opened, Unopened
<1>4. hs'[h] = r /\ \A g \in Handle \ {h} : hs'[g] = hs[g]
  BY <1>2 DEF Open, HandleInv
<1>5. ~Over(h) /\ hs[h].st = "unopened"
  BY <1>1 DEF Over, Is, Unopened
<1>6. ~Over(h)'
  BY <1>3, <1>4 DEF Over, Is
<1> QED
  BY <1>1, <1>3, <1>4, <1>5, <1>6 DEF Moves

LEMMA WriteMoves ==
    ASSUME HandleInv, NEW h \in Handle, Write(h) \/ WriteThrough(h)
    PROVE  Moves(h)
<1>1. Usable(h) /\ hs[h].given < MaxBlocks /\ target' = target /\ ~Over(h)
  BY UsableIs DEF Write, WriteThrough
<1>2. PICK r : r = Given(h)
  OBVIOUS
<1>3. /\ Ready(h, r) /\ r \in HandleState /\ r.existing = hs[h].existing
      /\ r.deferred = hs[h].deferred /\ r.turn = hs[h].turn /\ ~r.done /\ r.st = "open"
  BY <1>1, <1>2, GivenReady, GivenIs
<1>4. CASE hs' = [hs EXCEPT ![h] = r]
  BY <1>1, <1>3, <1>4, QuietMove DEF IsOver
<1>5. CASE hs' = [hs EXCEPT ![h] = Sent(h, r)]
  <2>1. PICK s : s = Sent(h, r)
    OBVIOUS
  <2>2. /\ s.st = r.st /\ s.deferred = r.deferred /\ s.turn = r.turn
        /\ s.existing = r.existing /\ s.done = r.done
    BY <1>3, <2>1, SentFields
  <2>3. hs' = [hs EXCEPT ![h] = s]
    BY <1>5, <2>1
  <2>4. s.deferred = hs[h].deferred /\ s.turn = hs[h].turn /\ s.existing = hs[h].existing
    BY <1>3, <2>2
  <2>5. ~IsOver(s)
    BY <1>3, <2>2 DEF IsOver
  <2> QED
    BY <1>1, <2>3, <2>4, <2>5, QuietMove
<1>6. CASE Breaks(h, r)
  BY <1>1, <1>3, <1>6, BreaksMoves
<1> QED
  BY <1>2, <1>4, <1>5, <1>6 DEF Write, WriteThrough, Given

LEMMA ClosingMoves ==
    ASSUME HandleInv, NEW h \in Handle, NEW failed \in BOOLEAN, Closing(h, failed)
    PROVE  Moves(h)
<1>1. Usable(h) /\ target' = target /\ ~Over(h)
  BY UsableIs DEF Closing
<1>2. PICK r : r = Left(h, failed)
  OBVIOUS
<1>3. /\ Ready(h, r) /\ r \in HandleState /\ r.existing = hs[h].existing
      /\ r.deferred = hs[h].deferred /\ r.turn = hs[h].turn /\ ~r.done
  BY <1>1, <1>2, LeftReady DEF Ready
<1>4. PICK q : q = Sent(h, r)
  OBVIOUS
<1>5. /\ q \in HandleState /\ q.deferred = r.deferred /\ q.turn = r.turn
      /\ q.existing = r.existing /\ q.done = r.done
  BY <1>3, <1>4, SentFields
<1>6. PICK s : s = [q EXCEPT !.st = "closed"]
  OBVIOUS
<1>7. /\ s \in HandleState /\ s.deferred = r.deferred /\ s.turn = r.turn
      /\ s.existing = r.existing /\ s.done = r.done
  BY <1>5, <1>6 DEF HandleState
<1>8. \/ hs' = [hs EXCEPT ![h] = IF r.deferred THEN s ELSE Committing(s)]
      \/ Breaks(h, r)
  BY <1>2, <1>4, <1>6 DEF Closing, Left
<1>9. CASE r.deferred /\ hs' = [hs EXCEPT ![h] = s]
  <2>1. ~IsOver(s)
    BY <1>3, <1>7, <1>9 DEF IsOver
  <2>2. s.deferred = hs[h].deferred /\ s.turn = hs[h].turn /\ s.existing = hs[h].existing
    BY <1>3, <1>7
  <2> QED
    BY <1>1, <1>9, <2>1, <2>2, QuietMove
<1>10. CASE hs' = [hs EXCEPT ![h] = Committing(s)]
  <2>1. PICK t : t = Committing(s)
    OBVIOUS
  <2>2. /\ t.deferred = s.deferred /\ t.turn = s.turn /\ t.existing = s.existing
        /\ t.at # "none"
    BY <1>7, <2>1, CommittingFields
  <2>3. hs' = [hs EXCEPT ![h] = t] /\ ~IsOver(t)
    BY <1>10, <2>1, <2>2 DEF IsOver
  <2>4. t.deferred = hs[h].deferred /\ t.turn = hs[h].turn /\ t.existing = hs[h].existing
    BY <1>3, <1>7, <2>2
  <2> QED
    BY <1>1, <2>3, <2>4, QuietMove
<1>11. CASE Breaks(h, r)
  BY <1>1, <1>3, <1>11, BreaksMoves
<1> QED
  BY <1>8, <1>9, <1>10, <1>11

LEMMA LeaveFailedMoves ==
    ASSUME HandleInv, NEW h \in Handle, LeaveFailed(h)
    PROVE  Moves(h)
<1>1. CASE Closing(h, TRUE)
  BY <1>1, ClosingMoves
<1>2. CASE ~Closing(h, TRUE)
  <2>1. PICK label : label = IF hs[h].upload THEN "abort" ELSE "none"
    OBVIOUS
  <2>2. PICK q : q = [hs[h] EXCEPT !.upload = FALSE, !.st = "closed", !.failed = TRUE,
                                   !.at = label]
    OBVIOUS
  <2>3. Usable(h) /\ hs' = [hs EXCEPT ![h] = q] /\ target' = target
    BY <1>2, <2>1, <2>2 DEF LeaveFailed
  <2>4. /\ q.deferred = hs[h].deferred /\ q.turn = hs[h].turn
        /\ q.existing = hs[h].existing /\ q.failed
    BY <2>2, HandleFacts DEF HandleState
  <2> QED
    BY <2>3, <2>4, UsableIs, QuietMove
<1> QED
  BY <1>1, <1>2

\* The last call of handle h, with or without an error.
LEMMA EndedFields ==
    ASSUME HandleInv, NEW h \in Handle, NEW r, NEW raised \in BOOLEAN,
           Ended(h, r, raised), Keeps(h, r)
    PROVE  /\ \A g \in Handle \ {h} : hs'[g] = hs[g]
           /\ hs'[h].st = hs[h].st /\ hs'[h].deferred = hs[h].deferred
           /\ hs'[h].turn = hs[h].turn /\ hs'[h].existing = hs[h].existing
           /\ hs'[h].failed = r.failed
           /\ hs'[h].at = "none" /\ (hs'[h].done <=> Completing(h))
<1>1. PICK done \in BOOLEAN : done = Completing(h)
  BY HandleFacts DEF Completing, HandleState
<1>2. PICK q : q = [r EXCEPT !.at = "none", !.done = done]
  OBVIOUS
<1>3. hs' = [hs EXCEPT ![h] = q]
  BY <1>1, <1>2 DEF Ended
<1>4. AfterCall(q, r, done)
  BY <1>2, AfterCallIs DEF Keeps
<1>5. hs'[h] = q /\ \A g \in Handle \ {h} : hs'[g] = hs[g]
  BY <1>3 DEF HandleInv
<1> QED
  BY <1>1, <1>4, <1>5 DEF AfterCall, Keeps

\* What the last call of a commit() puts at the path, and what becomes of the handle.
LEMMA Publication ==
    ASSUME HandleInv, NEW h \in Handle, FinishUpload(h) \/ WriteParts(h)
    PROVE  /\ ~Over(h) /\ Over(h)' /\ \A g \in Handle \ {h} : hs'[g] = hs[g]
           /\ hs'[h].st = hs[h].st /\ hs'[h].deferred = hs[h].deferred
           /\ hs'[h].turn = hs[h].turn /\ hs'[h].existing = hs[h].existing
           /\ hs'[h].failed = hs[h].failed
           /\ hs[h].deferred => phase = "commit" /\ files # << >> /\ h = Head(files)
           /\ ~hs[h].deferred => hs[h].st = "closed"
           /\ FinishUpload(h) =>
                  /\ hs[h].upload
                  /\ target' = (IF Appending(h) THEN Existing ELSE << >>)
                                   \o Blocks(h, 0, hs[h].size)
           /\ WriteParts(h) =>
                  ~hs[h].upload /\ target' = hs[h].existing \o Parts(h)
<1>1. hs[h].at \in {"finish", "write"}
  BY DEF FinishUpload, WriteParts, Calling
<1>2. /\ ~Over(h) /\ hs[h].st # "unopened" /\ ~hs[h].done
      /\ ~Completing(h) => hs[h].st = "closed"
  BY <1>1, CallingIs
<1>3. hs[h].deferred => phase = "commit" /\ files # << >> /\ h = Head(files)
  BY <1>1, HandleFacts DEF Committed
<1>4. hs[h].deferred => Completing(h)
  BY <1>3 DEF Completing
<1>5. PICK r : /\ Ended(h, r, FALSE) /\ Keeps(h, r) /\ r.failed = hs[h].failed
  <2>1. CASE FinishUpload(h)
    <3>1. PICK r : r = [hs[h] EXCEPT !.upload = FALSE]
      OBVIOUS
    <3>2. r.failed = hs[h].failed
      BY <3>1, HandleFacts DEF HandleState
    <3> QED
      BY <2>1, <3>1, <3>2, KeepsIs DEF FinishUpload
  <2>2. CASE WriteParts(h)
    <3>1. ~hs[h].upload
      BY <2>2, HandleFacts DEF WriteParts, Calling, AtOK
    <3> QED
      BY <2>2, <3>1, KeepsIs DEF WriteParts
  <2> QED
    BY <2>1, <2>2
<1>6. /\ \A g \in Handle \ {h} : hs'[g] = hs[g]
      /\ hs'[h].st = hs[h].st /\ hs'[h].deferred = hs[h].deferred
      /\ hs'[h].turn = hs[h].turn /\ hs'[h].existing = hs[h].existing
      /\ hs'[h].failed = r.failed
      /\ hs'[h].at = "none" /\ (hs'[h].done <=> Completing(h))
  <2>1. FALSE \in BOOLEAN
    OBVIOUS
  <2> QED
    BY <1>5, <2>1, EndedFields
<1>7. ~hs[h].deferred => hs[h].st = "closed"
  BY <1>2 DEF Completing
<1>8. Over(h)'
  BY <1>4, <1>6, <1>7 DEF Over, Is
<1>9. FinishUpload(h) =>
          /\ hs[h].upload
          /\ target' = (IF Appending(h) THEN Existing ELSE << >>) \o Blocks(h, 0, hs[h].size)
  <2>1. ASSUME FinishUpload(h)
        PROVE  hs[h].upload /\ staged[h] = Blocks(h, 0, hs[h].size)
    BY <2>1, FinishUploadStep
  <2> QED
    BY <2>1 DEF FinishUpload
<1>10. WriteParts(h) => ~hs[h].upload /\ target' = hs[h].existing \o Parts(h)
  BY HandleFacts DEF WriteParts, Calling, AtOK
<1> QED
  BY <1>2, <1>3, <1>5, <1>6, <1>7, <1>8, <1>9, <1>10

LEMMA CallMoves ==
    ASSUME HandleInv, NEW h \in Handle,
           \/ FinishUpload(h) \/ FinishFails(h) \/ AbortUpload(h)
           \/ AskExisting(h) \/ ReadExisting(h) \/ AskFree(h)
           \/ WriteParts(h) \/ CommitFails(h)
    PROVE  Moves(h)
<1>1. CASE FinishUpload(h) \/ WriteParts(h)
  BY <1>1, Publication DEF Moves
<1>2. CASE FinishFails(h)
  <2>1. hs[h].at = "finish" /\ target' = target
    BY <1>2 DEF FinishFails, Calling
  <2>2. ~Over(h)
    BY <2>1 DEF Over
  <2>3. CASE Completing(h)
    <3>1. PICK stuck \in BOOLEAN : stuck = (staged'[h] # None)
      OBVIOUS
    <3>2. PICK r : r = [hs[h] EXCEPT !.failed = TRUE, !.stuck = stuck]
      OBVIOUS
    <3>3. Ended(h, r, TRUE) /\ Keeps(h, r) /\ r.failed /\ TRUE \in BOOLEAN
      <4>1. r.failed
        BY <3>2, HandleFacts DEF HandleState
      <4> QED
        BY <1>2, <2>3, <3>1, <3>2, <4>1, KeepsIs DEF FinishFails
    <3>4. /\ \A g \in Handle \ {h} : hs'[g] = hs[g]
          /\ hs'[h].deferred = hs[h].deferred /\ hs'[h].turn = hs[h].turn
          /\ hs'[h].existing = hs[h].existing /\ hs'[h].failed = r.failed
      BY <3>3, EndedFields
    <3> QED
      BY <2>1, <2>2, <3>3, <3>4 DEF Moves
  <2>4. CASE ~Completing(h)
    <3>1. PICK q : q = [hs[h] EXCEPT !.upload = FALSE, !.failed = TRUE, !.at = "abort"]
      OBVIOUS
    <3>2. hs' = [hs EXCEPT ![h] = q]
      BY <1>2, <2>4, <3>1 DEF FinishFails
    <3>3. /\ q.deferred = hs[h].deferred /\ q.turn = hs[h].turn
          /\ q.existing = hs[h].existing /\ q.failed
      BY <3>1, HandleFacts DEF HandleState
    <3> QED
      BY <2>1, <2>2, <3>2, <3>3, QuietMove
  <2> QED
    BY <2>3, <2>4
<1>3. CASE AbortUpload(h)
  <2>1. hs[h].at = "abort" /\ target' = target
    BY <1>3 DEF AbortUpload, Calling
  <2>2. ~Over(h) /\ ~hs[h].upload
    BY <2>1, HandleFacts DEF Over, AtOK
  <2>3. hs[h].failed \/ phase = "discard"
    BY <2>1, HandleFacts DEF AtOK, Committed
  <2>4. PICK r \in HandleState, raised \in BOOLEAN :
            Ended(h, r, raised) /\ Keeps(h, r) /\ (r.failed \/ phase = "discard")
    <3>1. CASE Ended(h, hs[h], FALSE)
      <4>1. Keeps(h, hs[h]) /\ hs[h] \in HandleState /\ FALSE \in BOOLEAN
        BY <2>2, KeepsIs, HandleFacts
      <4> QED
        BY <2>3, <3>1, <4>1
    <3>2. CASE Ended(h, [hs[h] EXCEPT !.failed = TRUE, !.stuck = TRUE], TRUE)
      <4>1. PICK r : r = [hs[h] EXCEPT !.failed = TRUE, !.stuck = TRUE]
        OBVIOUS
      <4>2. r.failed
        BY <4>1, HandleFacts DEF HandleState
      <4>3. Keeps(h, r) /\ r \in HandleState /\ TRUE \in BOOLEAN
        BY <2>2, <4>1, KeepsIs DEF Keeps
      <4> QED
        BY <3>2, <4>1, <4>2, <4>3
    <3> QED
      BY <1>3, <3>1, <3>2 DEF AbortUpload
  <2>5. /\ \A g \in Handle \ {h} : hs'[g] = hs[g]
        /\ hs'[h].deferred = hs[h].deferred /\ hs'[h].turn = hs[h].turn
        /\ hs'[h].existing = hs[h].existing /\ hs'[h].failed = r.failed
    BY <2>4, EndedFields
  <2> QED
    BY <2>1, <2>2, <2>4, <2>5 DEF Moves
<1>4. CASE CommitFails(h)
  <2>1. hs[h].at \in {"exists", "cat", "free", "write"} /\ target' = target
    BY <1>4 DEF CommitFails, Calling
  <2>2. ~Over(h) /\ ~hs[h].upload
    BY <2>1, HandleFacts DEF Over, AtOK
  <2>3. PICK r : r = [hs[h] EXCEPT !.failed = TRUE]
    OBVIOUS
  <2>4. Ended(h, r, TRUE) /\ Keeps(h, r) /\ TRUE \in BOOLEAN
    BY <1>4, <2>2, <2>3, KeepsIs DEF CommitFails
  <2>5. r.failed
    BY <2>3, HandleFacts DEF HandleState
  <2>6. /\ \A g \in Handle \ {h} : hs'[g] = hs[g]
        /\ hs'[h].deferred = hs[h].deferred /\ hs'[h].turn = hs[h].turn
        /\ hs'[h].existing = hs[h].existing /\ hs'[h].failed = r.failed
    BY <2>4, EndedFields
  <2> QED
    BY <2>1, <2>2, <2>5, <2>6 DEF Moves
<1>5. CASE AskExisting(h) \/ ReadExisting(h) \/ AskFree(h)
  <2>1. PICK at \in {"cat", "write"} :
            \/ hs' = [hs EXCEPT ![h] = [hs[h] EXCEPT !.at = at]]
            \/ /\ hs' = [hs EXCEPT ![h] = [hs[h] EXCEPT !.at = at, !.existing = target]]
               /\ target # None
    BY <1>5 DEF AskExisting, ReadExisting, AskFree, Continue
  <2>2. hs[h].at # "none" /\ target' = target
    BY <1>5 DEF AskExisting, ReadExisting, AskFree, Continue, Calling
  <2>3. /\ hs'[h].deferred = hs[h].deferred /\ hs'[h].turn = hs[h].turn /\ hs'[h].at = at
        /\ hs'[h].existing = hs[h].existing \/ (target # None /\ hs'[h].existing = target)
        /\ \A g \in Handle \ {h} : hs'[g] = hs[g]
    <3>1. hs[h] \in HandleState /\ hs \in [Handle -> HandleState]
      BY HandleFacts DEF HandleInv
    <3>2. CASE hs' = [hs EXCEPT ![h] = [hs[h] EXCEPT !.at = at]]
      BY <3>1, <3>2 DEF HandleState
    <3>3. CASE /\ hs' = [hs EXCEPT ![h] = [hs[h] EXCEPT !.at = at, !.existing = target]]
               /\ target # None
      BY <3>1, <3>3 DEF HandleState
    <3> QED
      BY <2>1, <3>2, <3>3
  <2>4. ~Over(h) /\ ~Over(h)'
    BY <2>1, <2>2, <2>3 DEF Over
  <2> QED
    BY <2>2, <2>3, <2>4 DEF Moves
<1> QED
  BY <1>1, <1>2, <1>3, <1>4, <1>5

LEMMA TransMoves ==
    ASSUME HandleInv, TransCommit \/ TransDiscard
    PROVE  \E h \in Handle : Moves(h)
<1>1. files # << >> /\ target' = target
  BY DEF TransCommit, TransDiscard
<1>2. PICK h \in Handle : h = NextFile /\ ~Over(h)
  BY <1>1, NextFileIs
<1>3. CASE TransCommit
  <2>1. PICK r : r = Committing(hs[h])
    OBVIOUS
  <2>2. /\ r.deferred = hs[h].deferred /\ r.turn = hs[h].turn
        /\ r.existing = hs[h].existing /\ r.at # "none"
    BY <2>1, HandleFacts, CommittingFields
  <2>3. hs' = [hs EXCEPT ![h] = r] /\ ~IsOver(r)
    BY <1>2, <1>3, <2>1, <2>2 DEF TransCommit, IsOver
  <2> QED
    BY <1>1, <1>2, <2>2, <2>3, QuietMove
<1>4. CASE TransDiscard
  <2>1. phase = "discard"
    BY <1>4 DEF TransDiscard
  <2>2. CASE hs[h].upload
    <3>1. PICK q : q = [hs[h] EXCEPT !.upload = FALSE, !.at = "abort"]
      OBVIOUS
    <3>2. hs' = [hs EXCEPT ![h] = q]
      BY <1>2, <1>4, <2>2, <3>1 DEF TransDiscard
    <3>3. /\ q.deferred = hs[h].deferred /\ q.turn = hs[h].turn
          /\ q.existing = hs[h].existing
      BY <3>1, HandleFacts DEF HandleState
    <3> QED
      BY <1>1, <1>2, <2>1, <3>2, <3>3, QuietMove
  <2>3. CASE ~hs[h].upload
    <3>1. Ended(h, hs[h], FALSE) /\ Keeps(h, hs[h]) /\ FALSE \in BOOLEAN
      BY <1>2, <1>4, <2>3, KeepsIs DEF TransDiscard
    <3>2. /\ \A g \in Handle \ {h} : hs'[g] = hs[g]
          /\ hs'[h].deferred = hs[h].deferred /\ hs'[h].turn = hs[h].turn
          /\ hs'[h].existing = hs[h].existing
      BY <3>1, EndedFields
    <3> QED
      BY <1>1, <1>2, <2>1, <3>2 DEF Moves
  <2> QED
    BY <2>2, <2>3
<1> QED
  BY <1>3, <1>4

\* Every step is one of these, or leaves the handles alone.
LEMMA StepMoves ==
    ASSUME HandleInv, [Next]_vars
    PROVE  \/ \E h \in Handle : Moves(h)
           \/ hs' = hs /\ target' \in {target, None, <<<<"other", 0>>>>}
<1>1. ASSUME NEW h \in Handle,
             \/ \E mode \in Modes, text \in Text : Open(h, mode, text)
             \/ Write(h) \/ WriteThrough(h) \/ Close(h) \/ LeaveFailed(h)
      PROVE  Moves(h)
  <2>1. Close(h) => Moves(h)
    BY ClosingMoves DEF Close
  <2> QED
    BY <1>1, <2>1, OpenMoves, WriteMoves, LeaveFailedMoves
<1>2. ASSUME TransBegin \/ (\E how \in {"commit", "discard"} : TransEnd(how))
             \/ TransDone \/ OtherWrites
      PROVE  hs' = hs /\ target' \in {target, None, <<<<"other", 0>>>>}
  BY <1>2 DEF TransBegin, TransEnd, TransDone, OtherWrites
<1>3. CASE UNCHANGED vars
  BY <1>3 DEF vars
<1> QED
  BY <1>1, <1>2, <1>3, CallMoves, TransMoves DEF Next

-----------------------------------------------------------------------------
(* Publishing *)

\* A step that changes the target for handle h is the last call of its commit().
LEMMA Publishers ==
    ASSUME HandleInv, [Next]_vars, NEW h \in Handle, Publishes(h)
    PROVE  FinishUpload(h) \/ WriteParts(h)
<1>1. hs'[h] # hs[h] /\ target' # target
  BY DEF Publishes
<1>2. PICK g \in Handle : Moves(g)
  BY <1>1, StepMoves
<1>3. g = h
  BY <1>1, <1>2 DEF Moves
<1> QED
  BY <1>1, <1>2, <1>3 DEF Moves

LEMMA OverStays ==
    ASSUME HandleInv, [Next]_vars, NEW h \in Handle, Over(h)
    PROVE  hs'[h] = hs[h] /\ Over(h)'
<1>1. hs'[h] = hs[h]
  BY StepMoves DEF Moves
<1> QED
  BY <1>1 DEF Over, Is

\* Nothing that was opened inside a transaction is visible before its end.
THEOREM DeferredWaits == Spec => DeferredUntilEnd
<1>1. ASSUME HandleInv, [Next]_vars, NEW h \in Handle, Publishes(h), hs[h].deferred
      PROVE  phase = "commit"
  BY <1>1, Publishers, Publication
<1>2. HandleInv /\ [Next]_vars =>
        [\A h \in Handle : Publishes(h) /\ hs[h].deferred => phase = "commit"]_vars
  BY <1>1
<1> QED
  BY <1>2, HandlesStaySound, PTL DEF Spec, DeferredUntilEnd

\* What a handle that was closed puts at the path is everything it was given,
\* once and in order, behind what it appends to.
LEMMA WholePublished ==
    ASSUME HandleInv, NEW h \in Handle, FinishUpload(h) \/ WriteParts(h),
           hs[h].st = "closed", hs[h].upload \/ ~hs[h].failed
    PROVE  target' = Whole(h)
<1>1. hs[h].buffered = 0
  BY HandleFacts DEF ClosedOK
<1>2. hs[h].size = hs[h].given
  <2>1. hs[h].size + hs[h].buffered = hs[h].given /\ hs[h].size \in Nat /\ hs[h].given \in Nat
    BY HandleFacts, HandleAssumption DEF Matches
  <2> QED
    BY <1>1, <2>1
<1>3. CASE FinishUpload(h)
  BY <1>2, <1>3, Publication DEF Whole
<1>4. CASE WriteParts(h)
  <2>1. ~hs[h].upload /\ target' = hs[h].existing \o Parts(h)
    BY <1>4, Publication
  <2>2. hs[h].at = "write"
    BY <1>4 DEF WriteParts, Calling
  <2>3. ~streaming
    <3>1. ~IsOver(hs[h])
      BY <2>2 DEF IsOver
    <3> QED
      BY <2>1, <2>2, <3>1, HandleFacts DEF ClosedOK
  <2>4. hs[h].mode # "ab" => hs[h].existing = << >>
    BY HandleFacts DEF AtOK
  <2> QED
    BY <1>2, <2>1, <2>3, <2>4 DEF Parts, Whole, Appending
<1> QED
  BY <1>3, <1>4

\* A handle publishes in the step that ends it or not at all; what it publishes
\* is everything it was given; a handle that ends without an error has published;
\* and a failed one outside a transaction publishes nothing that was staged.
THEOREM WholeFilesOnly == Spec => WholeOrNothing
<1> DEFINE Part(h) ==
             /\ Over(h) => Over(h)'
             /\ Publishes(h) => Ends(h)
             /\ hs[h].upload /\ Publishes(h) /\ Is(h, "closed") => target' = Whole(h)
             /\ Ends(h) /\ phase # "discard" /\ hs'[h].st = "closed" /\ ~hs'[h].failed
                   => target' = Whole(h)
             /\ streaming /\ hs'[h].failed /\ ~hs[h].deferred /\ ~hs[h].text => ~Publishes(h)
<1>1. ASSUME HandleInv, [Next]_vars, NEW h \in Handle
      PROVE  Part(h)
  <2>1. Over(h) => Over(h)'
    BY <1>1, OverStays
  <2>2. ASSUME Publishes(h) PROVE Ends(h)
    BY <1>1, <2>2, Publishers, Publication DEF Ends
  <2>3. ASSUME hs[h].upload, Publishes(h), Is(h, "closed") PROVE target' = Whole(h)
    <3>1. FinishUpload(h) \/ WriteParts(h)
      BY <1>1, <2>3, Publishers
    <3> QED
      BY <1>1, <2>3, <3>1, WholePublished DEF Is
  <2>4. ASSUME Ends(h), phase # "discard", hs'[h].st = "closed", ~hs'[h].failed
        PROVE  target' = Whole(h)
    <3>1. ~Over(h) /\ Over(h)'
      BY <2>4 DEF Ends
    <3>2. hs'[h] # hs[h]
      BY <3>1 DEF Over, Is
    <3>3. PICK g \in Handle : Moves(g)
      BY <1>1, <3>2, StepMoves
    <3>4. g = h
      BY <3>2, <3>3 DEF Moves
    <3>5. FinishUpload(h) \/ WriteParts(h)
      BY <2>4, <3>1, <3>3, <3>4 DEF Moves
    <3>6. hs[h].st = "closed" /\ ~hs[h].failed
      BY <1>1, <2>4, <3>5, Publication
    <3> QED
      BY <1>1, <3>5, <3>6, WholePublished
  <2>5. ASSUME streaming, hs'[h].failed, ~hs[h].deferred, ~hs[h].text, Publishes(h)
        PROVE  FALSE
    <3>1. FinishUpload(h) \/ WriteParts(h)
      BY <1>1, <2>5, Publishers
    <3>2. hs[h].st = "closed" /\ hs[h].failed
      BY <1>1, <2>5, <3>1, Publication
    <3>3. hs[h].at \in {"none", "abort"}
      BY <1>1, <2>5, <3>2, HandleFacts DEF ClosedOK
    <3> QED
      BY <3>1, <3>3 DEF FinishUpload, WriteParts, Calling
  <2> QED
    BY <2>1, <2>2, <2>3, <2>4, <2>5
<1>2. HandleInv /\ [Next]_vars => [\A h \in Handle : Part(h)]_vars
  <2> HIDE DEF Part
  <2> QED
    BY <1>1
<1>3. Spec => [][\A h \in Handle : Part(h)]_vars
  <2> HIDE DEF Part
  <2> QED
    BY <1>2, HandlesStaySound, PTL DEF Spec
<1> QED
  BY <1>3 DEF WholeOrNothing

-----------------------------------------------------------------------------
(* The order of the handles of a transaction *)

\* Block b may lie before block c.
MayPrecede(b, c) ==
    \/ b[1] = c[1] /\ b[2] < c[2]
    \/ b[1] # c[1] /\ (hs[b[1]].deferred /\ hs[c[1]].deferred => hs[b[1]].turn < hs[c[1]].turn)

\* The blocks of content x are in order, and their handles over.
Ordered(x) ==
    /\ \A i \in DOMAIN x : x[i] \in Block => Over(x[i][1])
    /\ \A i, j \in DOMAIN x : i < j /\ x[i] \in Block /\ x[j] \in Block => MayPrecede(x[i], x[j])

\* What is at the path, and what the handles have read there.
OrderInv == /\ target # None => Ordered(target)
            /\ \A h \in Handle : Ordered(hs[h].existing)

LEMMA BlockIs == \A b \in Block : b[1] \in Handle /\ b[2] \in Nat
BY HandleAssumption DEF Block

\* A handle that is over stays as it is, and so does what it has published.
LEMMA OrderedStays ==
    ASSUME NEW x, Ordered(x), \A g \in Handle : Over(g) => hs'[g] = hs[g]
    PROVE  Ordered(x)'
<1>1. ASSUME NEW g \in Handle, Over(g) PROVE Over(g)' /\ hs'[g] = hs[g]
  BY <1>1 DEF Over, Is
<1>2. ASSUME NEW i \in DOMAIN x, x[i] \in Block
      PROVE  Over(x[i][1])' /\ hs'[x[i][1]] = hs[x[i][1]]
  BY <1>1, <1>2, BlockIs DEF Ordered
<1>3. ASSUME NEW i \in DOMAIN x, NEW j \in DOMAIN x, i < j, x[i] \in Block, x[j] \in Block
      PROVE  MayPrecede(x[i], x[j])'
  <2>1. PICK b, c : b = x[i] /\ c = x[j]
    OBVIOUS
  <2>2. MayPrecede(b, c) /\ hs'[b[1]] = hs[b[1]] /\ hs'[c[1]] = hs[c[1]]
    BY <1>2, <1>3, <2>1 DEF Ordered
  <2> QED
    BY <2>1, <2>2 DEF MayPrecede
<1> QED
  BY <1>2, <1>3 DEF Ordered

\* A handle publishes behind what it appends to.
LEMMA OrderedJoin ==
    ASSUME HandleInv, NEW h \in Handle, NEW x \in Content, Ordered(x),
           NEW n \in 0 .. MaxBlocks, ~Over(h), Over(h)',
           \A g \in Handle \ {h} : hs'[g] = hs[g],
           hs'[h].deferred = hs[h].deferred, hs'[h].turn = hs[h].turn,
           \A g \in Handle : Over(g) /\ hs[g].deferred /\ hs[h].deferred =>
               hs[g].turn < hs[h].turn
    PROVE  Ordered(x \o Blocks(h, 0, n))'
<1>1. PICK y : y = Blocks(h, 0, n)
  OBVIOUS
<1>2. /\ y \in Content /\ Len(y) = n /\ \A i \in 1 .. n : y[i] = <<h, i>>
  <2>1. /\ 0 \in 0 .. MaxBlocks /\ 0 <= n /\ n - 0 = n /\ \A i \in 1 .. n : 0 + i = i
        /\ n \in Nat
    BY HandleAssumption
  <2>2. /\ Blocks(h, 0, n) \in Content
        /\ Len(Blocks(h, 0, n)) = n - 0
        /\ \A i \in 1 .. n - 0 : Blocks(h, 0, n)[i] = <<h, 0 + i>>
    BY <2>1, BlocksSeq
  <2> QED
    BY <1>1, <2>1, <2>2
<1>3. PICK k \in Nat : k = Len(x) /\ DOMAIN x = 1 .. k
  BY LenProperties DEF Content
<1>4. PICK z : z = x \o y
  OBVIOUS
<1>5. /\ DOMAIN z = 1 .. k + n
      /\ \A i \in 1 .. k : z[i] = x[i]
      /\ \A i \in k + 1 .. k + n : z[i] = <<h, i - k>>
  <2>1. /\ x \o y \in Content /\ Len(x \o y) = k + n
        /\ \A i \in 1 .. k + n : (x \o y)[i] = IF i <= k THEN x[i] ELSE y[i - k]
    BY <1>2, <1>3, ConcatProperties DEF Content
  <2>2. DOMAIN z = 1 .. k + n
    BY <1>4, <2>1, LenProperties DEF Content
  <2>3. n \in Nat
    BY HandleAssumption
  <2>4. \A i \in 1 .. k : i \in 1 .. k + n /\ i <= k
    BY <2>3
  <2>5. \A i \in k + 1 .. k + n : i \in 1 .. k + n /\ ~(i <= k) /\ i - k \in 1 .. n
    BY <2>3
  <2> QED
    BY <1>2, <1>4, <2>1, <2>2, <2>4, <2>5
<1>6. \A i \in 1 .. k + n : i \in 1 .. k \/ i \in k + 1 .. k + n
  BY HandleAssumption
<1>7. ASSUME NEW i \in 1 .. k, z[i] \in Block
      PROVE  /\ z[i][1] \in Handle \ {h} /\ Over(z[i][1]) /\ Over(z[i][1])'
             /\ hs'[z[i][1]] = hs[z[i][1]]
  <2>1. PICK g : g = z[i][1]
    OBVIOUS
  <2>2. g \in Handle /\ Over(g)
    BY <1>3, <1>5, <1>7, <2>1, BlockIs DEF Ordered
  <2>3. g # h
    BY <2>2
  <2>4. hs'[g] = hs[g] /\ Over(g)'
    BY <2>2, <2>3 DEF Over, Is
  <2> QED
    BY <2>1, <2>2, <2>3, <2>4
<1>8. ASSUME NEW i \in DOMAIN z, z[i] \in Block PROVE Over(z[i][1])'
  <2>1. CASE i \in 1 .. k
    BY <1>7, <1>8, <2>1
  <2>2. CASE i \in k + 1 .. k + n
    BY <1>5, <2>2
  <2> QED
    BY <1>5, <1>6, <2>1, <2>2
<1>9. ASSUME NEW i \in DOMAIN z, NEW j \in DOMAIN z, i < j, z[i] \in Block, z[j] \in Block
      PROVE  MayPrecede(z[i], z[j])'
  <2>0. i \in Int /\ j \in Int /\ k \in Int
    BY <1>5, HandleAssumption
  <2>1. CASE j \in 1 .. k
    <3>1. i \in 1 .. k
      BY <1>5, <1>9, <2>0, <2>1
    <3>2. PICK b, c : b = z[i] /\ c = z[j]
      OBVIOUS
    <3>3. MayPrecede(b, c)
      BY <1>3, <1>5, <1>9, <2>1, <3>1, <3>2 DEF Ordered
    <3>4. hs'[b[1]] = hs[b[1]] /\ hs'[c[1]] = hs[c[1]]
      BY <1>7, <1>9, <2>1, <3>1, <3>2
    <3> QED
      BY <3>2, <3>3, <3>4 DEF MayPrecede
  <2>2. CASE i \in 1 .. k /\ j \in k + 1 .. k + n
    <3>1. PICK b, c : b = z[i] /\ c = z[j]
      OBVIOUS
    <3>2. c[1] = h /\ b[1] \in Handle \ {h} /\ Over(b[1]) /\ hs'[b[1]] = hs[b[1]]
      BY <1>5, <1>7, <1>9, <2>2, <3>1
    <3>3. hs[b[1]].deferred /\ hs[h].deferred => hs[b[1]].turn < hs[h].turn
      BY <3>2
    <3> QED
      BY <3>1, <3>2, <3>3 DEF MayPrecede
  <2>3. CASE i \in k + 1 .. k + n
    <3>1. j \in k + 1 .. k + n /\ i - k < j - k
      BY <1>5, <1>9, <2>0, <2>3
    <3>2. z[i] = <<h, i - k>> /\ z[j] = <<h, j - k>>
      BY <1>5, <2>3, <3>1
    <3> QED
      BY <3>1, <3>2 DEF MayPrecede
  <2> QED
    BY <1>5, <1>6, <2>1, <2>2, <2>3
<1>10. Ordered(z)'
  BY <1>8, <1>9 DEF Ordered
<1> QED
  BY <1>1, <1>4, <1>10

LEMMA OrderStays ==
    ASSUME HandleInv, OrderInv, [Next]_vars
    PROVE  OrderInv'
<1>1. \A g \in Handle : Over(g) => hs'[g] = hs[g]
  BY OverStays
<1>2. ASSUME NEW x, Ordered(x) PROVE Ordered(x)'
  BY <1>1, <1>2, OrderedStays
<1>3. Ordered(<< >>)
  BY DEF Ordered
<1>4. Ordered(<<<<"other", 0>>>>)
  <2>1. <<"other", 0>> \notin Block
    BY HandleAssumption DEF Block
  <2> QED
    BY <2>1 DEF Ordered
<1>5. \A h \in Handle : Ordered(hs[h].existing)
  BY DEF OrderInv
<1>6. CASE hs' = hs /\ target' \in {target, None, <<<<"other", 0>>>>}
  <2>1. ASSUME NEW h \in Handle PROVE Ordered(hs[h].existing)'
    <3>1. PICK x : x = hs[h].existing
      OBVIOUS
    <3>2. Ordered(x)'
      BY <1>2, <1>5, <3>1
    <3> QED
      BY <1>6, <3>1, <3>2
  <2>2. ASSUME target' # None PROVE Ordered(target)'
    <3>1. PICK x : x = target'
      OBVIOUS
    <3>2. Ordered(x)
      BY <1>4, <1>6, <2>2, <3>1 DEF OrderInv
    <3> QED
      BY <1>2, <3>1, <3>2
  <2> QED
    BY <2>1, <2>2 DEF OrderInv
<1>7. ASSUME NEW h \in Handle, Moves(h) PROVE OrderInv'
  <2>1. ASSUME NEW g \in Handle PROVE Ordered(hs[g].existing)'
    <3>1. PICK x : x = hs'[g].existing
      OBVIOUS
    <3>2. Ordered(x)
      BY <1>3, <1>5, <1>7, <3>1 DEF Moves, OrderInv
    <3> QED
      BY <1>2, <3>1, <3>2
  <2>2. ASSUME target' # None PROVE Ordered(target)'
    <3>1. CASE target' = target
      <4>1. PICK x : x = target
        OBVIOUS
      <4>2. Ordered(x)'
        BY <1>2, <2>2, <3>1, <4>1 DEF OrderInv
      <4> QED
        BY <3>1, <4>1, <4>2
    <3>2. CASE FinishUpload(h) \/ WriteParts(h)
      <4>1. PICK x \in Content, n \in 0 .. MaxBlocks :
                target' = x \o Blocks(h, 0, n) /\ Ordered(x)
        <5>1. hs[h].size \in 0 .. MaxBlocks /\ 0 \in 0 .. MaxBlocks
          BY HandleFacts, HandleAssumption
        <5>2. CASE FinishUpload(h)
          <6>1. PICK x : x = IF Appending(h) THEN Existing ELSE << >>
            OBVIOUS
          <6>2. x \in Content
            BY <6>1, ContentIs
          <6>3. Ordered(x)
            BY <1>3, <6>1 DEF Existing, OrderInv
          <6> QED
            BY <5>1, <5>2, <6>1, <6>2, <6>3, Publication
        <5>3. CASE WriteParts(h)
          <6>1. hs[h].existing \in Content /\ Ordered(hs[h].existing)
            BY <1>5, ContentIs
          <6>2. \E n \in 0 .. MaxBlocks : Parts(h) = Blocks(h, 0, n)
            BY <5>1, BlocksEmpty DEF Parts
          <6>3. target' = hs[h].existing \o Parts(h)
            BY <5>3, Publication
          <6> QED
            BY <6>1, <6>2, <6>3
        <5> QED
          BY <3>2, <5>2, <5>3
      <4>2. /\ ~Over(h) /\ Over(h)' /\ \A g \in Handle \ {h} : hs'[g] = hs[g]
            /\ hs'[h].deferred = hs[h].deferred /\ hs'[h].turn = hs[h].turn
            /\ hs[h].deferred => files # << >> /\ h = Head(files)
        BY <3>2, Publication
      <4>3. ASSUME NEW g \in Handle, Over(g), hs[g].deferred, hs[h].deferred
            PROVE  hs[g].turn < hs[h].turn
        <5>1. files # << >> /\ h = Head(files) /\ files \in Seq(Handle)
          BY <4>2, <4>3 DEF HandleInv, FilesOK
        <5>2. 1 \in DOMAIN files /\ files[1] = h
          BY <5>1, EmptySeq, LenProperties, HeadTailProperties
        <5>3. hs[g].done
          BY <4>3 DEF Over
        <5> QED
          BY <5>2, <5>3 DEF HandleInv, FilesOK
      <4>4. Ordered(x \o Blocks(h, 0, n))'
        BY <4>1, <4>2, <4>3, OrderedJoin
      <4> QED
        BY <4>1, <4>4
    <3> QED
      BY <1>7, <3>1, <3>2 DEF Moves
  <2> QED
    BY <2>1, <2>2 DEF OrderInv
<1> QED
  BY <1>6, <1>7, StepMoves

LEMMA OrderInit == Init => OrderInv
<1> SUFFICES ASSUME Init PROVE OrderInv
  OBVIOUS
<1>1. <<"other", 0>> \notin Block
  BY HandleAssumption DEF Block
<1>2. Ordered(<<<<"other", 0>>>>) /\ Ordered(<< >>)
  BY <1>1 DEF Ordered
<1>3. \A h \in Handle : hs[h].existing = << >>
  BY DEF Init, Unopened
<1> QED
  BY <1>2, <1>3 DEF Init, OrderInv

\* The handles of a transaction are published in the order in which they were
\* opened, whoever writes the path between two of their calls.
THEOREM PublishedInOrder == Spec => []InOrderOfOpening
<1>1. ASSUME OrderInv PROVE InOrderOfOpening
  BY <1>1 DEF OrderInv, Ordered, MayPrecede, InOrderOfOpening
<1>2. HandleInv /\ OrderInv /\ [Next]_vars => OrderInv'
  BY OrderStays
<1> QED
  BY <1>1, <1>2, OrderInit, HandlesStaySound, PTL DEF Spec
=============================================================================

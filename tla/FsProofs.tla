------------------------------ MODULE FsProofs ------------------------------
(***************************************************************************)
(* Proofs about FsOperations, for any set of clients, any paths, any tree  *)
(* to start from and any calls.                                            *)
(*                                                                         *)
(* An operation holds nothing between two of its calls.  What it has found *)
(* out stays true up to what other clients did meanwhile, which touched    *)
(* records; the invariant (Knows) says for each awaited call what that is. *)
(***************************************************************************)
EXTENDS FsOperations, SequenceTheorems, WellFoundedInduction, TLAPS

Looping == {"exists", "is_dir", "mkdir", "lost", "lost_dir"}
Putting == {"preflight", "write"}
Removing == {"rm_info", "rm_ls", "rm"}
Copies == {"cp", "rename"}

\* The directory chain that a call makes.
Aimed(fr) == CASE fr.call.op = "mkdir" -> fr.goal = fr.call.path
               [] fr.call.op = "pipe" -> fr.goal = Parent(fr.call.path)
               [] OTHER -> fr.goal = Parent(fr.call.dst) \/ (fr.copydir /\ fr.goal = fr.call.dst)

\* What the awaited call says of the operation and its local variables.
Local(label, fr) ==
    LET op == fr.call.op
        path == fr.call.path IN
    /\ label \in Looping => /\ op \in {"mkdir", "pipe"} \cup Copies
                            /\ Aimed(fr) /\ fr.k \in 1 .. Len(fr.goal)
    /\ label \in Putting => /\ op \in {"pipe"} \cup Copies /\ ~fr.copydir
                            /\ Aimed(fr) /\ fr.k = Len(fr.goal)
    /\ label = "parent" => op = "mkdir" /\ ~fr.call.flag /\ path # << >>
    /\ label \in {"lost", "lost_dir"} => op # "mkdir"
    /\ label = "preflight" => op = "pipe" /\ fr.call.flag
    /\ label \in {"info", "read"} => op \in Copies /\ ~fr.copydir
    /\ label \in {"mv_exists", "mv"} => op = "mv"
    /\ label = "walk" => op = "rm" /\ fr.call.flag /\ fr.ok /\ fr.todo \subseteq Path
    /\ label \in Removing => /\ op \in {"rm", "rename"} /\ fr.todo # {}
                             /\ op = "rename" \/ ~fr.call.flag => fr.todo = {path}
                             /\ << >> \in fr.todo => path = << >>
    /\ label \in {"get_info", "range", "whole"} => op = "get"
    /\ label \in {"ls_exists", "ls_names", "ls_info"} => op = "ls"
    /\ label = "ls_info" => fr.todo \subseteq Path
    /\ label \notin {"range", "idle"} => fr.got = << >>
    /\ label = "range" => Len(fr.got) < fr.size
    /\ fr.copydir => op \in Copies
    /\ label \in {"mv_isdir", "mv_into"} =>
           op = "rename" /\ ~fr.copydir /\ (path # << >> => Into(path, fr.call.dst) \in Path)
    /\ label = "mv_isdir" => fr.todo = {path}
    /\ label = "mv_into" => path # << >>

-----------------------------------------------------------------------------
(* What an operation knows of the tree, up to what others did *)

Prefix(fr, i) == SubSeq(fr.goal, 1, i)
Deepest(todo) == CHOOSE p \in todo : \A q \in todo : ~Below(p, q)

\* The chain is there up to component k, and that one as far as was asked.
KnowsChain(c, label, fr) ==
    /\ label \in Looping \cup Putting /\ Others(c) = {} =>
           \A i \in 1 .. Len(fr.goal) :
               i < fr.k \/ label \in Putting => tree[Prefix(fr, i)] = Dir
    /\ label \in {"is_dir", "lost", "lost_dir"} /\ Others(c) = {} => Exists(Prefix(fr, fr.k))
    /\ label = "mkdir" /\ fr.call.op = "mkdir" /\ Meddled(c) = {} => ~Exists(Prefix(fr, fr.k))

\* The source of a copy is what was read, and later the target too.  A rename
\* comes to copy a directory only when another client put it there.
KnowsSource(c, label, fr) ==
    LET p == fr.call.path
        q == fr.call.dst IN
    fr.call.op \in Copies =>
        /\ label \in {"read"} \cup Looping \cup Putting /\ p \notin Others(c) =>
               /\ IF fr.copydir THEN IsDir(p) ELSE IsFile(p)
               /\ label # "read" /\ ~fr.copydir => At(p) = File(fr.data)
        /\ label \in Removing /\ {p, q} \cap Others(c) = {} =>
               IF fr.copydir THEN IsDir(p) ELSE At(p) = File(fr.data) /\ At(q) = File(fr.data)
        /\ label \in {"mv_into", "info"} /\ fr.call.op = "rename" /\ Meddled(c) = {} => ~IsDir(p)
        /\ label \in Looping /\ fr.call.op = "rename" /\ fr.copydir => Meddled(c) # {}

\* Nothing is left at or below p, but what others put there.
Cleared(c, p) == \A q \in Path : q = p \/ Below(p, q) => tree[q] = Absent \/ q \in Meddled(c)

\* Everything below the path of rm is still to be listed, to be removed, or gone.
KnowsRemoved(c, label, fr) ==
    LET path == fr.call.path
        last == Deepest(fr.todo) IN
    fr.call.op = "rm" =>
        /\ label = "walk" /\ Meddled(c) = {} =>
               /\ \A p \in fr.todo : Exists(p)
               /\ \A p \in fr.todo \cup {path} : p \in fr.dirs \/ ChildrenOf(p) \subseteq fr.todo
        /\ label \in Removing /\ fr.ok => path \in fr.todo \/ Cleared(c, path)
        /\ label \in Removing /\ Meddled(c) = {} =>
               /\ fr.ok \/ path = << >>
               /\ fr.call.flag => \A p \in fr.todo : Exists(p) /\ ChildrenOf(p) \subseteq fr.todo
        /\ label \in {"rm_ls", "rm"} /\ Meddled(c) = {} => Exists(last)
        /\ label = "rm" /\ Meddled(c) = {} => ChildrenOf(last) = {}

\* What was exported is the beginning of the file, and what was listed is there.
KnowsRead(c, label, fr) ==
    LET p == fr.call.path IN
    /\ label \in {"range", "whole"} /\ p \notin Others(c) =>
           /\ IsFile(p) /\ Len(At(p).data) = fr.size
           /\ fr.got = SubSeq(At(p).data, 1, Len(fr.got))
    /\ label = "ls_info" /\ Meddled(c) = {} => \A q \in fr.todo : Exists(q)

Knows(c, label, fr) == /\ KnowsChain(c, label, fr) /\ KnowsSource(c, label, fr)
                       /\ KnowsRemoved(c, label, fr) /\ KnowsRead(c, label, fr)

\* An entry is below directories only.
TreeOK == \A p, q \in Path : Below(q, p) /\ tree[p] # Absent => tree[q] = Dir

\* The inductive invariant.
FsInv == /\ TypeOK /\ TreeOK
         /\ \A c \in Client : Local(pc[c], g[c]) /\ Knows(c, pc[c], g[c])

-----------------------------------------------------------------------------
(* Lemmas about paths *)

Parts == UNION {{p[i] : i \in DOMAIN p} : p \in Path}

LEMMA PathSeq ==
    ASSUME NEW p \in Path \cup {<< >>}
    PROVE  p \in Seq(Parts) /\ Len(p) \in Nat /\ (p \in Path <=> Len(p) > 0)
<1>1. CASE p = << >>
  BY <1>1, PathAssumption
<1>2. CASE p \in Path
  <2>1. PICK S : S = {p[i] : i \in DOMAIN p}
    OBVIOUS
  <2>2. p \in Seq(S) /\ p # << >>
    BY <1>2, <2>1, PathAssumption
  <2>3. S \subseteq Parts
    BY <1>2, <2>1 DEF Parts
  <2>4. Len(p) \in Nat /\ p \in [1 .. Len(p) -> S]
    BY <2>2, LenProperties
  <2>5. p \in Seq(Parts)
    BY <2>2, <2>3
  <2> QED
    BY <1>2, <2>2, <2>4, <2>5, EmptySeq
<1> QED
  BY <1>1, <1>2

LEMMA SubPath ==
    ASSUME NEW p \in Path \cup {<< >>}, NEW i \in 0 .. Len(p)
    PROVE  /\ SubSeq(p, 1, i) \in Path \cup {<< >>} /\ Len(SubSeq(p, 1, i)) = i
           /\ i > 0 => SubSeq(p, 1, i) \in Path /\ p \in Path
           /\ \A j \in 1 .. i : SubSeq(p, 1, i)[j] = p[j]
           /\ SubSeq(p, 1, Len(p)) = p
<1>1. p \in Seq(Parts) /\ Len(p) \in Nat /\ i \in Nat
  BY PathSeq
<1>2. \A j \in 1 .. Len(p) : p[j] \in Parts
  BY <1>1, LenProperties
<1>3. /\ Len(SubSeq(p, 1, i)) = i
      /\ \A j \in 1 .. i : SubSeq(p, 1, i)[j] = p[j]
  BY <1>1, <1>2, SubSeqProperties, SMTT(30)
<1>4. SubSeq(p, 1, Len(p)) = p
  BY <1>1, SubSeqFull
<1>5. i > 0 => p \in Path /\ SubSeq(p, 1, i) \in Prefixes(p)
  BY <1>1, PathSeq DEF Prefixes
<1>6. i = 0 => SubSeq(p, 1, i) = << >>
  BY <1>1, SubSeqEmpty
<1>7. SubSeq(p, 1, i) \in Path \cup {<< >>} /\ (i > 0 => SubSeq(p, 1, i) \in Path /\ p \in Path)
  <2>1. CASE i = 0
    BY <1>6, <2>1
  <2>2. CASE i > 0
    BY <1>5, <2>2, PathAssumption
  <2> QED
    BY <1>1, <2>1, <2>2
<1> QED
  BY <1>3, <1>4, <1>7

\* Two paths are the same when they agree on every part.
LEMMA SamePath ==
    ASSUME NEW p \in Path \cup {<< >>}, NEW q \in Path \cup {<< >>}, Len(p) = Len(q),
           \A i \in 1 .. Len(p) : p[i] = q[i]
    PROVE  p = q
BY PathSeq, SeqEqual

LEMMA PrefixOfPrefix ==
    ASSUME NEW p \in Path \cup {<< >>}, NEW i \in 0 .. Len(p), NEW j \in 0 .. i
    PROVE  SubSeq(SubSeq(p, 1, i), 1, j) = SubSeq(p, 1, j)
<1>1. PICK q \in Path \cup {<< >>} : q = SubSeq(p, 1, i)
  BY SubPath
<1>2. Len(p) \in Nat /\ j \in 0 .. Len(p) /\ j \in 0 .. Len(q)
  BY <1>1, PathSeq, SubPath
<1>3. PICK a \in Path \cup {<< >>} : a = SubSeq(q, 1, j) /\ Len(a) = j
  BY <1>2, SubPath
<1>4. PICK b \in Path \cup {<< >>} : b = SubSeq(p, 1, j) /\ Len(b) = j
  BY <1>2, SubPath
<1>5. \A k \in 1 .. j : a[k] = b[k]
  <2> SUFFICES ASSUME NEW k \in 1 .. j PROVE a[k] = b[k]
    OBVIOUS
  <2>1. a[k] = q[k] /\ b[k] = p[k]
    BY <1>2, <1>3, <1>4, SubPath
  <2>2. q[k] = p[k]
    BY <1>1, <1>2, SubPath
  <2> QED
    BY <2>1, <2>2
<1> QED
  BY <1>1, <1>3, <1>4, <1>5, SamePath

\* Below, by parts.
LEMMA BelowParts ==
    ASSUME NEW p \in Path \cup {<< >>}, NEW q \in Path \cup {<< >>}
    PROVE  Below(p, q) <=> Len(p) < Len(q) /\ \A i \in 1 .. Len(p) : p[i] = q[i]
<1>1. Len(p) \in Nat /\ Len(q) \in Nat
  BY PathSeq
<1>2. CASE Len(p) < Len(q)
  <2>1. PICK r \in Path \cup {<< >>} : /\ r = SubSeq(q, 1, Len(p)) /\ Len(r) = Len(p)
                                        /\ \A i \in 1 .. Len(p) : r[i] = q[i]
    <3>1. Len(p) \in 0 .. Len(q)
      BY <1>1, <1>2
    <3> QED
      BY <3>1, SubPath
  <2>2. r = p <=> \A i \in 1 .. Len(p) : p[i] = r[i]
    BY <2>1, SamePath
  <2> QED
    BY <1>2, <2>1, <2>2 DEF Below
<1> QED
  BY <1>1, <1>2 DEF Below

LEMMA BelowOrder ==
    ASSUME NEW p \in Path \cup {<< >>}, NEW q \in Path \cup {<< >>}, NEW r \in Path \cup {<< >>}
    PROVE  /\ ~Below(p, p) /\ ~(Below(p, q) /\ Below(q, p))
           /\ Below(p, q) /\ Below(q, r) => Below(p, r)
           /\ Below(p, r) /\ Below(q, r) => p = q \/ Below(p, q) \/ Below(q, p)
<1>1. Len(p) \in Nat /\ Len(q) \in Nat /\ Len(r) \in Nat
  BY PathSeq
<1>2. ~Below(p, p) /\ ~(Below(p, q) /\ Below(q, p))
  BY <1>1 DEF Below
<1>3. ASSUME Below(p, q), Below(q, r) PROVE Below(p, r)
  BY <1>1, <1>3, BelowParts
<1>4. ASSUME Below(p, r), Below(q, r) PROVE p = q \/ Below(p, q) \/ Below(q, p)
  <2>1. \A i \in 1 .. Len(r) : (i <= Len(p) => p[i] = r[i]) /\ (i <= Len(q) => q[i] = r[i])
    BY <1>1, <1>4, BelowParts
  <2>2. CASE Len(p) = Len(q)
    BY <1>1, <1>4, <2>1, <2>2, SamePath, BelowParts
  <2>3. CASE Len(p) < Len(q)
    BY <1>1, <1>4, <2>1, <2>3, BelowParts
  <2>4. CASE Len(q) < Len(p)
    BY <1>1, <1>4, <2>1, <2>4, BelowParts
  <2> QED
    BY <1>1, <2>2, <2>3, <2>4
<1> QED
  BY <1>2, <1>3, <1>4

LEMMA PrefixBelow ==
    ASSUME NEW p \in Path \cup {<< >>}, NEW i \in 0 .. Len(p)
    PROVE  /\ i < Len(p) => Below(SubSeq(p, 1, i), p)
           /\ \A j \in 0 .. i : j < i => Below(SubSeq(p, 1, j), SubSeq(p, 1, i))
<1>1. Len(p) \in Nat
  BY PathSeq
<1> QED
  BY <1>1, SubPath, PrefixOfPrefix DEF Below

LEMMA ParentPath ==
    ASSUME NEW p \in Path \cup {<< >>}
    PROVE  /\ Parent(p) \in Path \cup {<< >>} /\ (Parent(p) \in Path => p \in Path)
           /\ Parent(<< >>) = << >>
           /\ p \in Path => /\ Len(Parent(p)) = Len(p) - 1 /\ Parent(p) # p /\ Below(Parent(p), p)
                            /\ \A i \in 0 .. Len(p) - 1 : SubSeq(Parent(p), 1, i) = SubSeq(p, 1, i)
<1>1. Len(p) \in Nat /\ Len(<< >>) = 0
  BY PathSeq
<1>2. Parent(<< >>) = << >>
  BY <1>1, SubSeqEmpty DEF Parent
<1>3. CASE p = << >>
  BY <1>2, <1>3, PathAssumption
<1>4. CASE p \in Path
  <2>1. Len(p) - 1 \in 0 .. Len(p) /\ Len(p) - 1 < Len(p)
    BY <1>1, <1>4, PathSeq
  <2>2. PICK q, k : q = SubSeq(p, 1, k) /\ k = Len(p) - 1
    OBVIOUS
  <2>3. Parent(p) = q /\ k = Len(p) - 1 /\ k \in 0 .. Len(p) /\ k < Len(p)
    BY <2>1, <2>2 DEF Parent
  <2>4. q \in Path \cup {<< >>} /\ Len(q) = k /\ Below(q, p)
    BY <2>2, <2>3, SubPath, PrefixBelow
  <2>5. \A i \in 0 .. k : SubSeq(q, 1, i) = SubSeq(p, 1, i)
    BY <2>2, <2>3, PrefixOfPrefix
  <2>6. /\ Parent(p) \in Path \cup {<< >>} /\ Len(Parent(p)) = Len(p) - 1
        /\ Below(Parent(p), p) /\ Parent(p) # p
    BY <1>1, <2>3, <2>4
  <2>7. \A i \in 0 .. Len(p) - 1 : SubSeq(Parent(p), 1, i) = SubSeq(p, 1, i)
    BY <2>3, <2>5
  <2> QED
    BY <1>2, <1>4, <2>6, <2>7
<1> QED
  BY <1>3, <1>4

LEMMA BelowParent ==
    ASSUME NEW p \in Path, NEW q \in Path \cup {<< >>}, Below(q, p)
    PROVE  q = Parent(p) \/ Below(q, Parent(p))
<1>1. PICK r \in Path \cup {<< >>} : r = Parent(p) /\ Len(r) = Len(p) - 1 /\ Below(r, p)
  BY ParentPath
<1>2. q = r \/ Below(q, r) \/ Below(r, q)
  BY <1>1, BelowOrder
<1>3. ~Below(r, q)
  BY <1>1, PathSeq, BelowParts
<1> QED
  BY <1>1, <1>2, <1>3

-----------------------------------------------------------------------------
(* Lemmas about the tree *)

LEMMA EntryFacts ==
    ASSUME TypeOK, NEW p \in Path \cup {<< >>}
    PROVE  /\ At(p) \in Entry
           /\ Exists(p) <=> At(p) # Absent
           /\ IsDir(p) <=> At(p) = Dir
           /\ IsFile(p) => Exists(p) /\ ~IsDir(p) /\ At(p).data \in Seq(Nat) /\ At(p) = File(At(p).data)
           /\ Exists(p) /\ ~IsDir(p) => IsFile(p)
           /\ IsDir(p) => Exists(p)
<1>1. At(p) \in Entry
  BY EmptySeq DEF TypeOK, At, Entry
<1>2. \A e \in Entry : /\ e.kind # "none" <=> e # Absent
                       /\ e.kind = "dir" <=> e = Dir
                       /\ e.kind = "file" => e.data \in Seq(Nat) /\ e = File(e.data)
                       /\ e.kind \in {"none", "dir", "file"}
  BY DEF Entry, Absent, Dir, File
<1> QED
  BY <1>1, <1>2 DEF Exists, IsDir, IsFile

LEMMA AtPath == (\A p \in Path : At(p) = tree[p]) /\ At(<< >>) = Dir
BY PathAssumption DEF At

LEMMA AboveDir ==
    ASSUME TypeOK, TreeOK, NEW p \in Path \cup {<< >>}, NEW q \in Path \cup {<< >>},
           Below(q, p), Exists(p)
    PROVE  IsDir(q)
<1>1. p \in Path
  BY PathSeq DEF Below
<1> QED
  BY <1>1, EntryFacts, AtPath DEF TreeOK

LEMMA ChildFacts ==
    ASSUME TypeOK, TreeOK, NEW p \in Path \cup {<< >>}
    PROVE  /\ \A q \in ChildrenOf(p) : q \in Path /\ Exists(q) /\ Below(p, q)
           /\ ~IsDir(p) => ChildrenOf(p) = {} /\ \A q \in Path : Below(p, q) => ~Exists(q)
           /\ ChildrenOf(p) = {} => \A q \in Path : Below(p, q) => ~Exists(q)
<1>1. \A q \in ChildrenOf(p) : q \in Path /\ Exists(q) /\ Below(p, q)
  BY ParentPath DEF ChildrenOf
<1>2. ~IsDir(p) => \A q \in Path : Below(p, q) => ~Exists(q)
  BY AboveDir
<1>3. ASSUME ChildrenOf(p) = {}, NEW q \in Path, Below(p, q), Exists(q) PROVE FALSE
  <2>1. Len(p) \in Nat /\ Len(q) \in Nat /\ Len(p) < Len(q)
    BY <1>3, PathSeq, BelowParts
  <2>2. PICK n : n = Len(p) + 1
    OBVIOUS
  <2>3. n \in 0 .. Len(q) /\ n > 0 /\ n - 1 = Len(p) /\ Len(p) \in 0 .. n
    BY <2>1, <2>2
  <2>4. PICK r \in Path : r = SubSeq(q, 1, n) /\ Len(r) = n
    <3>1. SubSeq(q, 1, n) \in Path /\ Len(SubSeq(q, 1, n)) = n
      BY <2>3, SubPath
    <3> QED
      BY <3>1, Zenon
  <2>5. r = q \/ Below(r, q)
    <3>1. CASE n = Len(q)
      BY <2>4, <3>1, SubPath
    <3>2. CASE n < Len(q)
      BY <2>3, <2>4, <3>2, PrefixBelow
    <3> QED
      BY <2>1, <2>3, <3>1, <3>2
  <2>6. Exists(r)
    BY <1>3, <2>5, AboveDir, EntryFacts
  <2>7. Parent(r) = p
    <3>1. Parent(r) = SubSeq(r, 1, Len(p))
      BY <2>3, <2>4 DEF Parent
    <3>2. SubSeq(r, 1, Len(p)) = SubSeq(q, 1, Len(p))
      BY <2>3, <2>4, PrefixOfPrefix
    <3> QED
      BY <1>3, <3>1, <3>2 DEF Below
  <2> QED
    BY <1>3, <2>6, <2>7 DEF ChildrenOf
<1> QED
  BY <1>1, <1>2, <1>3

LEMMA ParentDir ==
    ASSUME TypeOK, TreeOK, NEW p \in Path, Exists(p)
    PROVE  IsDir(Parent(p))
BY AboveDir, ParentPath

-----------------------------------------------------------------------------
(* What the calls of the virtual filesystem do to the tree *)

\* t is a tree whose entries are below directories only.
Rooted(t) == t \in [Path -> Entry] /\ \A p, q \in Path : Below(q, p) /\ t[p] # Absent => t[q] = Dir

LEMMA MadeTree ==
    ASSUME TypeOK, TreeOK, NEW p \in Path \cup {<< >>}, CanMake(p)
    PROVE  Rooted([tree EXCEPT ![p] = Dir])
<1>1. /\ p \in Path /\ Parent(p) \in Path \cup {<< >>}
      /\ tree[p] = Absent /\ IsDir(Parent(p)) /\ Exists(Parent(p))
  BY ParentPath, EntryFacts, AtPath DEF CanMake
<1>2. ASSUME NEW q \in Path, Below(q, p) PROVE tree[q] = Dir /\ q # p
  <2>1. q = Parent(p) \/ Below(q, Parent(p))
    BY <1>1, <1>2, BelowParent
  <2> QED
    BY <1>1, <1>2, <2>1, AboveDir, EntryFacts, AtPath, BelowOrder
<1>3. PICK t : t = [tree EXCEPT ![p] = Dir]
  OBVIOUS
<1>4. t \in [Path -> Entry] /\ t[p] = Dir /\ \A q \in Path \ {p} : t[q] = tree[q]
  BY <1>1, <1>3 DEF TypeOK, Entry
<1>5. ASSUME NEW q \in Path, NEW r \in Path, Below(q, r), t[r] # Absent PROVE t[q] = Dir
  BY <1>1, <1>2, <1>4, <1>5 DEF TreeOK
<1> QED
  BY <1>3, <1>4, <1>5 DEF Rooted

LEMMA PutTree ==
    ASSUME TypeOK, TreeOK, NEW p \in Path \cup {<< >>}, NEW excl \in BOOLEAN, CanPut(p, excl),
           NEW d \in Seq(Nat)
    PROVE  Rooted([tree EXCEPT ![p] = File(d)])
<1>1. /\ p \in Path /\ Parent(p) \in Path \cup {<< >>} /\ ~IsDir(p)
      /\ IsDir(Parent(p)) /\ Exists(Parent(p))
  BY ParentPath, EntryFacts DEF CanPut
<1>2. ASSUME NEW q \in Path, Below(q, p) PROVE tree[q] = Dir /\ q # p
  <2>1. q = Parent(p) \/ Below(q, Parent(p))
    BY <1>1, <1>2, BelowParent
  <2> QED
    BY <1>1, <1>2, <2>1, AboveDir, EntryFacts, AtPath, BelowOrder
<1>3. PICK t : t = [tree EXCEPT ![p] = File(d)]
  OBVIOUS
<1>4. t \in [Path -> Entry] /\ \A q \in Path \ {p} : t[q] = tree[q]
  BY <1>1, <1>3 DEF TypeOK, Entry, File
<1>5. ASSUME NEW q \in Path, NEW r \in Path, Below(q, r), t[r] # Absent PROVE t[q] = Dir
  <2>1. q # p
    BY <1>1, <1>4, <1>5, ChildFacts, EntryFacts, AtPath, BelowOrder
  <2> QED
    BY <1>2, <1>4, <1>5, <2>1 DEF TreeOK
<1> QED
  BY <1>3, <1>4, <1>5 DEF Rooted

LEMMA RemovedTree ==
    ASSUME TypeOK, TreeOK, NEW p \in Path \cup {<< >>}, CanRemove(p)
    PROVE  Rooted([tree EXCEPT ![p] = Absent])
<1>1. p \in Path /\ \A q \in Path : Below(p, q) => tree[q] = Absent
  BY ChildFacts, EntryFacts, AtPath DEF CanRemove
<1>2. PICK t : t = [tree EXCEPT ![p] = Absent]
  OBVIOUS
<1>3. t \in [Path -> Entry] /\ t[p] = Absent /\ \A q \in Path \ {p} : t[q] = tree[q]
  BY <1>1, <1>2 DEF TypeOK, Entry
<1>4. ASSUME NEW q \in Path, NEW r \in Path, Below(q, r), t[r] # Absent PROVE t[q] = Dir
  BY <1>1, <1>3, <1>4 DEF TreeOK
<1> QED
  BY <1>2, <1>3, <1>4 DEF Rooted

\* The name, before p became q, of what is now r.
Old(p, q, r) == p \o SubSeq(r, Len(q) + 1, Len(r))

\* Old(p, q, r) is p and then the last l parts of r.
IsOld(o, p, q, r, a, b, l) == /\ Len(p) = a /\ Len(q) = b /\ Len(r) = b + l /\ Len(o) = a + l
                              /\ \A i \in 1 .. a : o[i] = p[i]
                              /\ \A i \in 1 .. l : o[a + i] = r[b + i]

HasOld(p, q, r) == \E a, b, l \in Nat : /\ IsOld(Old(p, q, r), p, q, r, a, b, l)
                                        /\ a > 0 /\ (r = q <=> l = 0)

LEMMA OldParts ==
    ASSUME NEW p \in Path, NEW q \in Path, NEW r \in Path, r = q \/ Below(q, r)
    PROVE  Old(p, q, r) \in Seq(Parts) /\ HasOld(p, q, r)
<1>1. PICK a, b, l \in Nat : Len(p) = a /\ Len(q) = b /\ Len(r) = b + l /\ a > 0 /\ (r = q <=> l = 0)
  <2>1. PICK a, b, c \in Nat : Len(p) = a /\ Len(q) = b /\ Len(r) = c /\ a > 0
    BY PathSeq
  <2>2. b < c \/ r = q
    BY <2>1, BelowParts
  <2>3. PICK l \in Nat : l = c - b
    BY <2>1, <2>2
  <2> QED
    BY <2>1, <2>2, <2>3
<1>2. p \in Seq(Parts) /\ \A i \in 1 .. b + l : r[i] \in Parts
  BY <1>1, PathSeq, LenProperties
<1>3. PICK e, m, n : e = SubSeq(r, m, n) /\ m = b + 1 /\ n = b + l
  OBVIOUS
<1>4. /\ e \in Seq(Parts) /\ Len(e) = l
      /\ \A i \in 1 .. l : e[i] = r[b + i]
  <2>1. m \in Int /\ n \in Int /\ (\A i \in m .. n : r[i] \in Parts) /\ m = b + 1 /\ n = b + l
    BY <1>2, <1>3
  <2>2. /\ e \in Seq(Parts) /\ Len(e) = IF m <= n THEN n - m + 1 ELSE 0
        /\ \A i \in 1 .. n - m + 1 : e[i] = r[m + i - 1]
    <3>1. /\ SubSeq(r, m, n) \in Seq(Parts) /\ Len(SubSeq(r, m, n)) = IF m <= n THEN n - m + 1 ELSE 0
          /\ \A i \in 1 .. n - m + 1 : SubSeq(r, m, n)[i] = r[m + i - 1]
      BY <2>1, SubSeqProperties
    <3> QED
      BY <1>3, <3>1, Zenon
  <2> QED
    BY <2>1, <2>2
<1>5. Old(p, q, r) = p \o e
  BY <1>1, <1>3 DEF Old
<1>6. PICK o : o = p \o e
  OBVIOUS
<1>7. /\ o \in Seq(Parts) /\ Len(o) = a + l
      /\ \A i \in 1 .. a + l : o[i] = IF i <= a THEN p[i] ELSE e[i - a]
  BY <1>1, <1>2, <1>4, <1>6, ConcatProperties
<1>8. \A i \in 1 .. l : o[a + i] = r[b + i]
  BY <1>4, <1>7
<1>9. IsOld(o, p, q, r, a, b, l)
  BY <1>1, <1>7, <1>8 DEF IsOld
<1> QED
  BY <1>1, <1>5, <1>6, <1>7, <1>9 DEF HasOld

LEMMA OldOrder ==
    ASSUME NEW p \in Path, NEW q \in Path, NEW r \in Path, r = q \/ Below(q, r)
    PROVE  /\ Old(p, q, q) = p /\ Old(q, q, r) = r
           /\ Below(q, r) /\ Old(p, q, r) \in Path => Below(p, Old(p, q, r))
           /\ \A s \in Path : Below(q, s) /\ Below(s, r) /\ Old(p, q, r) \in Path =>
                  Old(p, q, s) \in Path /\ Below(Old(p, q, s), Old(p, q, r))
<1>1. Old(p, q, q) = p
  <2>1. PICK o, a, b, l : o = Old(p, q, q) /\ o \in Seq(Parts) /\ a \in Nat /\ b \in Nat
                          /\ IsOld(o, p, q, q, a, b, l) /\ l = 0
    <3>1. Old(p, q, q) \in Seq(Parts) /\ HasOld(p, q, q)
      BY OldParts
    <3> QED
      BY <3>1, Zenon DEF HasOld
  <2>2. Len(o) = a /\ Len(p) = a /\ \A i \in 1 .. a : o[i] = p[i]
    BY <2>1 DEF IsOld
  <2> QED
    BY <2>1, <2>2, PathSeq, SeqEqual
<1>2. Old(q, q, r) = r
  <2>1. PICK o, a, b, l : /\ o = Old(q, q, r) /\ o \in Seq(Parts)
                          /\ a \in Nat /\ b \in Nat /\ l \in Nat /\ IsOld(o, q, q, r, a, b, l)
    <3>1. Old(q, q, r) \in Seq(Parts) /\ HasOld(q, q, r)
      BY OldParts
    <3> QED
      BY <3>1, Zenon DEF HasOld
  <2>2. /\ Len(o) = a + l /\ Len(r) = a + l /\ Len(q) = a /\ \A i \in 1 .. a : o[i] = q[i]
        /\ \A i \in 1 .. l : o[a + i] = r[a + i]
    BY <2>1 DEF IsOld
  <2>3. \A i \in 1 .. a : q[i] = r[i]
    BY <2>2, BelowParts
  <2>4. \A i \in 1 .. a + l : o[i] = r[i]
    <3> SUFFICES ASSUME NEW i \in 1 .. a + l PROVE o[i] = r[i]
      OBVIOUS
    <3>1. CASE i <= a
      BY <2>1, <2>2, <2>3, <3>1
    <3>2. CASE i > a
      <4>1. PICK j \in 1 .. l : i = a + j
        <5>1. i - a \in 1 .. l /\ i = a + (i - a)
          BY <2>1, <3>2
        <5> QED
          BY <5>1
      <4> QED
        BY <2>2, <4>1
    <3> QED
      BY <2>1, <3>1, <3>2
  <2> QED
    BY <2>1, <2>2, <2>4, PathSeq, SeqEqual
<1>3. ASSUME Below(q, r), Old(p, q, r) \in Path PROVE Below(p, Old(p, q, r))
  <2>1. PICK o \in Path, a, b, l \in Nat : o = Old(p, q, r) /\ IsOld(o, p, q, r, a, b, l) /\ l # 0
    <3>1. r # q
      BY <1>3, BelowOrder
    <3> QED
      BY <1>3, <3>1, OldParts, Zenon DEF HasOld
  <2>2. Len(p) < Len(o) /\ \A i \in 1 .. Len(p) : p[i] = o[i]
    BY <2>1 DEF IsOld
  <2> QED
    BY <2>1, <2>2, BelowParts
<1>4. ASSUME NEW s \in Path, Below(q, s), Below(s, r), Old(p, q, r) \in Path
      PROVE  Old(p, q, s) \in Path /\ Below(Old(p, q, s), Old(p, q, r))
  <2>1. PICK o \in Path, a, b, l \in Nat : o = Old(p, q, r) /\ IsOld(o, p, q, r, a, b, l)
    <3>1. HasOld(p, q, r)
      BY OldParts
    <3> QED
      BY <1>4, <3>1, Zenon DEF HasOld
  <2>2. PICK x \in Seq(Parts), c, d, k \in Nat :
            x = Old(p, q, s) /\ IsOld(x, p, q, s, c, d, k) /\ c > 0
    <3>1. Old(p, q, s) \in Seq(Parts) /\ HasOld(p, q, s)
      BY <1>4, OldParts
    <3> QED
      BY <3>1, Zenon DEF HasOld
  <2>3. Len(s) < Len(r) /\ \A i \in 1 .. Len(s) : s[i] = r[i]
    BY <1>4, BelowParts
  <2>4. c = a /\ d = b /\ k < l /\ Len(x) = a + k /\ Len(o) = a + l
    BY <2>1, <2>2, <2>3 DEF IsOld
  <2>5. PICK n : n = a + k
    OBVIOUS
  <2>6. n \in 0 .. Len(o) /\ n > 0 /\ n < Len(o) /\ Len(x) = n
    BY <2>1, <2>2, <2>4, <2>5
  <2>7. PICK y \in Path : y = SubSeq(o, 1, n) /\ Len(y) = n /\ \A i \in 1 .. n : y[i] = o[i]
    <3>1. /\ SubSeq(o, 1, n) \in Path /\ Len(SubSeq(o, 1, n)) = n
          /\ \A i \in 1 .. n : SubSeq(o, 1, n)[i] = o[i]
      BY <2>6, SubPath
    <3> QED
      BY <3>1, Zenon
  <2>8. \A i \in 1 .. a : x[i] = o[i]
    BY <2>1, <2>2, <2>4 DEF IsOld
  <2>9. ASSUME NEW i \in 1 .. k PROVE x[a + i] = o[a + i]
    <3>1. i \in 1 .. l /\ b + i \in 1 .. Len(s)
      BY <2>2, <2>4 DEF IsOld
    <3>2. x[a + i] = s[b + i] /\ o[a + i] = r[b + i]
      BY <2>1, <2>2, <2>4, <3>1 DEF IsOld
    <3> QED
      BY <2>3, <3>1, <3>2
  <2>10. \A i \in 1 .. n : x[i] = y[i]
    <3> SUFFICES ASSUME NEW i \in 1 .. n PROVE x[i] = o[i]
      BY <2>7
    <3>1. CASE i <= a
      BY <2>1, <2>5, <2>8, <3>1
    <3>2. CASE i > a
      <4>1. PICK j \in 1 .. k : i = a + j
        <5>1. i - a \in 1 .. k /\ i = a + (i - a)
          BY <2>1, <2>2, <2>5, <3>2
        <5> QED
          BY <5>1
      <4> QED
        BY <2>9, <4>1
    <3> QED
      BY <2>1, <3>1, <3>2
  <2>11. x = y
    BY <2>6, <2>7, <2>10, PathSeq, SeqEqual
  <2>12. Below(y, o)
    BY <2>6, <2>7, BelowParts
  <2> QED
    BY <2>1, <2>2, <2>11, <2>12
<1> QED
  BY <1>1, <1>2, <1>3, <1>4

LEMMA MovedTree ==
    ASSUME TypeOK, TreeOK, NEW p \in Path \cup {<< >>}, NEW q \in Path \cup {<< >>}, CanMove(p, q)
    PROVE  Rooted([r \in Path |-> MovedEntry(p, q, r)])
<1>1. p \in Path /\ q \in Path /\ Exists(p)
  BY DEF CanMove
<1>2. PICK t : t = [r \in Path |-> MovedEntry(p, q, r)]
  OBVIOUS
<1>3. \A r \in Path :
          /\ (r = q \/ Below(q, r)) /\ Old(p, q, r) \in Path => t[r] = tree[Old(p, q, r)]
          /\ (r = q \/ Below(q, r)) /\ Old(p, q, r) \notin Path => t[r] = Absent
          /\ r # q /\ ~Below(q, r) /\ (r = p \/ Below(p, r)) => t[r] = Absent
          /\ r # q /\ ~Below(q, r) /\ r # p /\ ~Below(p, r) => t[r] = tree[r]
  BY <1>2 DEF MovedEntry, Old
<1>4. ASSUME NEW r \in Path PROVE t[r] \in Entry
  BY <1>3 DEF TypeOK, Entry
<1>5. t \in [Path -> Entry]
  BY <1>2, <1>4
<1>6. CASE p = q
  <2>1. \A r \in Path : t[r] = tree[r]
    BY <1>1, <1>3, <1>6, OldOrder
  <2> QED
    BY <1>2, <1>5, <2>1 DEF Rooted, TreeOK
<1>7. CASE p # q
  <2>1. /\ tree[q] = Absent /\ tree[p] # Absent /\ ~Below(p, q)
        /\ \A s \in Path : Below(s, q) => tree[s] = Dir
    <3>1. ~Exists(q) /\ IsDir(Parent(q)) /\ ~Below(p, q)
      BY <1>7 DEF CanMove
    <3>2. \A s \in Path : Below(s, q) => s = Parent(q) \/ Below(s, Parent(q))
      BY <1>1, BelowParent
    <3> QED
      BY <1>1, <3>1, <3>2, ParentPath, AboveDir, EntryFacts, AtPath
  <2>2. Dir # Absent
    BY DEF Dir, Absent
  <2>3. \A s \in Path : Below(s, q) => t[s] = Dir
    BY <1>1, <1>3, <2>1, BelowOrder
  <2>4. ASSUME NEW r \in Path, NEW s \in Path, Below(s, r), t[r] # Absent PROVE t[s] = Dir
    <3>1. CASE r = q
      BY <2>3, <2>4, <3>1
    <3>2. CASE Below(q, r)
      <4>1. Old(p, q, r) \in Path /\ tree[Old(p, q, r)] # Absent
        BY <1>3, <2>4, <3>2
      <4>2. s = q \/ Below(s, q) \/ Below(q, s)
        BY <1>1, <2>4, <3>2, BelowOrder
      <4>3. CASE s = q
        BY <1>1, <1>3, <3>2, <4>1, <4>3, OldOrder DEF TreeOK
      <4>4. CASE Below(q, s)
        <5>1. Old(p, q, s) \in Path /\ Below(Old(p, q, s), Old(p, q, r))
          BY <1>1, <2>4, <3>2, <4>1, <4>4, OldOrder
        <5> QED
          BY <1>3, <4>1, <4>4, <5>1 DEF TreeOK
      <4> QED
        BY <2>3, <4>2, <4>3, <4>4
    <3>3. CASE r # q /\ ~Below(q, r)
      <4>1. r # p /\ ~Below(p, r) /\ t[r] = tree[r] /\ tree[s] = Dir
        BY <1>3, <2>4, <3>3 DEF TreeOK
      <4>2. s # p /\ ~Below(p, s)
        BY <1>1, <2>4, <4>1, BelowOrder
      <4>3. s # q /\ ~Below(q, s)
        BY <1>1, <2>1, <2>2, <4>1 DEF TreeOK
      <4> QED
        BY <1>3, <4>1, <4>2, <4>3
    <3> QED
      BY <3>1, <3>2, <3>3
  <2> QED
    BY <1>2, <1>5, <2>4 DEF Rooted
<1> QED
  BY <1>6, <1>7

-----------------------------------------------------------------------------
(* What an operation notices of a step of another client *)

Noticed(c) ==
    /\ touched[c] \subseteq touched'[c]
    /\ \A p \in Path : tree'[p] = tree[p] \/ p \in Meddled(c)'
    /\ \A p \in Path : tree'[p] = tree[p] \/ p \in Others(c)' \/ (tree[p] = Absent /\ tree'[p] = Dir)

\* The step changes nothing of c but that.
Bystands(c) == /\ Noticed(c) \/ pc[c] = "idle"
               /\ pc'[c] = pc[c] /\ g'[c] = g[c]

LEMMA ChangeNoticed ==
    ASSUME TypeOK, NEW c \in Client, NEW t \in [Path -> Entry], Change(c, t)
    PROVE  /\ tree' = t /\ touched'[c] = touched[c]
           /\ touched' \in [Client -> SUBSET ({"made", "other"} \X Path)]
           /\ \A d \in Client \ {c} : Noticed(d) \/ pc[d] = "idle"
<1> DEFINE how(p) == IF tree[p] = Absent /\ t[p] = Dir THEN "made" ELSE "other"
           news == {<<how(p), p>> : p \in {q \in Path : t[q] # tree[q]}}
<1>1. /\ tree' = t
      /\ touched' = [d \in Client |-> IF d = c \/ pc[d] = "idle" THEN touched[d]
                                      ELSE touched[d] \cup news]
  BY DEF Change
<1>2. news \in SUBSET ({"made", "other"} \X Path)
  OBVIOUS
<1>3. touched' \in [Client -> SUBSET ({"made", "other"} \X Path)]
  BY <1>1, <1>2 DEF TypeOK
<1>4. ASSUME NEW d \in Client \ {c}, pc[d] # "idle" PROVE Noticed(d)
  <2>1. touched'[d] = touched[d] \cup news
    BY <1>1, <1>4
  <2>2. ASSUME NEW p \in Path, t[p] # tree[p]
        PROVE  /\ p \in Meddled(d)'
               /\ p \in Others(d)' \/ (tree[p] = Absent /\ t[p] = Dir)
    <3>1. PICK h : h = how(p)
      OBVIOUS
    <3>2. <<h, p>> \in touched'[d] /\ <<h, p>>[1] = h /\ <<h, p>>[2] = p
      BY <2>1, <2>2, <3>1
    <3>3. h = "other" => <<h, p>> \in {y \in touched'[d] : y[1] = "other"}
      BY <3>2
    <3> QED
      BY <3>1, <3>2, <3>3 DEF Meddled, Others
  <2> QED
    BY <1>1, <2>1, <2>2 DEF Noticed
<1> QED
  BY <1>1, <1>3, <1>4

LEMMA SameNoticed ==
    ASSUME TypeOK, NEW c \in Client, Same
    PROVE  /\ tree' = tree /\ touched' = touched
           /\ \A d \in Client \ {c} : Noticed(d) \/ pc[d] = "idle"
BY DEF Same, Noticed

LEMMA NoticedFacts ==
    ASSUME TypeOK, tree' \in [Path -> Entry], NEW c \in Client, Noticed(c)
    PROVE  /\ Others(c) \subseteq Others(c)' /\ Meddled(c) \subseteq Meddled(c)'
           /\ \A p \in Path \cup {<< >>} : At(p)' = At(p) \/ p \in Others(c)'
                                           \/ (At(p) = Absent /\ At(p)' = Dir)
           /\ Meddled(c)' = {} => tree' = tree
<1>1. Others(c) \subseteq Others(c)' /\ Meddled(c) \subseteq Meddled(c)'
  BY DEF Noticed, Others, Meddled
<1>2. \A p \in Path \cup {<< >>} : At(p)' = At(p) \/ p \in Others(c)'
                                   \/ (At(p) = Absent /\ At(p)' = Dir)
  BY DEF Noticed, At
<1>3. Meddled(c)' = {} => tree' = tree
  BY DEF Noticed, TypeOK
<1> QED
  BY <1>1, <1>2, <1>3

LEMMA FramePaths ==
    ASSUME NEW fr \in Frame
    PROVE  /\ fr.goal \in Path \cup {<< >>} /\ fr.call.path \in Path \cup {<< >>}
           /\ fr.call.dst \in Path \cup {<< >>} /\ fr.call \in Call /\ fr.call.op \in Ops
           /\ \A i \in 1 .. Len(fr.goal) : Prefix(fr, i) \in Path /\ i \in 0 .. Len(fr.goal)
<1>1. /\ fr.goal \in Path \cup {<< >>} /\ fr.call.path \in Path \cup {<< >>}
      /\ fr.call.dst \in Path \cup {<< >>} /\ fr.call \in Call /\ fr.call.op \in Ops
  BY DEF Frame, Call
<1>2. ASSUME NEW i \in 1 .. Len(fr.goal) PROVE Prefix(fr, i) \in Path /\ i \in 0 .. Len(fr.goal)
  <2>1. i \in 0 .. Len(fr.goal) /\ i > 0
    BY <1>1, PathSeq
  <2> QED
    BY <1>1, <2>1, SubPath DEF Prefix
<1> QED
  BY <1>1, <1>2

LEMMA KeepsChain ==
    ASSUME TypeOK, tree' \in [Path -> Entry], NEW c \in Client, Noticed(c),
           NEW label, NEW fr \in Frame, Local(label, fr), KnowsChain(c, label, fr)
    PROVE  KnowsChain(c, label, fr)'
<1>1. Dir # Absent /\ label \in Looping => fr.k \in 1 .. Len(fr.goal)
  BY DEF Dir, Absent, Local
<1>2. \A p \in Path : Exists(p) /\ p \notin Others(c)' => Exists(p)'
  BY NoticedFacts DEF Exists, Dir, Absent
<1>3. Meddled(c)' = {} => Meddled(c) = {} /\ \A p \in Path : Exists(p)' <=> Exists(p)
  BY NoticedFacts DEF Exists, At
<1>4. ASSUME label \in Looping \cup Putting, Others(c)' = {}, NEW i \in 1 .. Len(fr.goal),
             i < fr.k \/ label \in Putting
      PROVE  tree'[Prefix(fr, i)] = Dir
  <2>1. tree[Prefix(fr, i)] = Dir /\ Prefix(fr, i) \in Path
    BY <1>4, NoticedFacts, FramePaths DEF KnowsChain
  <2> QED
    BY <1>1, <1>4, <2>1 DEF Noticed
<1>5. ASSUME label \in {"is_dir", "lost", "lost_dir"}, Others(c)' = {}
      PROVE  Exists(Prefix(fr, fr.k))'
  <2>1. Exists(Prefix(fr, fr.k)) /\ Prefix(fr, fr.k) \in Path
    BY <1>1, <1>5, NoticedFacts, FramePaths DEF KnowsChain, Looping, Dir, Absent
  <2> QED
    BY <1>2, <1>5, <2>1
<1>6. ASSUME label = "mkdir", fr.call.op = "mkdir", Meddled(c)' = {}
      PROVE  ~Exists(Prefix(fr, fr.k))'
  <2>1. ~Exists(Prefix(fr, fr.k)) /\ Prefix(fr, fr.k) \in Path
    BY <1>1, <1>3, <1>6, FramePaths DEF KnowsChain, Looping, Dir, Absent
  <2> QED
    BY <1>3, <1>6, <2>1
<1> QED
  BY <1>4, <1>5, <1>6 DEF KnowsChain

LEMMA KeepsSource ==
    ASSUME TypeOK, tree' \in [Path -> Entry], NEW c \in Client, Noticed(c),
           NEW label, NEW fr \in Frame, KnowsSource(c, label, fr)
    PROVE  KnowsSource(c, label, fr)'
<1>1. \A p \in Path \cup {<< >>} :
          p \notin Others(c)' /\ Exists(p) => p \notin Others(c) /\ At(p)' = At(p) /\ Exists(p)'
  BY NoticedFacts, EntryFacts DEF Exists
<1>2. PICK p, q \in Path \cup {<< >>} : p = fr.call.path /\ q = fr.call.dst
  BY FramePaths
<1>3. \A d : File(d).kind = "file"
  BY DEF File
<1>4. ASSUME fr.call.op \in Copies, label \in {"read"} \cup Looping \cup Putting, p \notin Others(c)'
      PROVE  /\ IF fr.copydir THEN IsDir(p)' ELSE IsFile(p)'
             /\ label # "read" /\ ~fr.copydir => At(p)' = File(fr.data)
  <2>1. /\ IF fr.copydir THEN IsDir(p) ELSE IsFile(p)
        /\ label # "read" /\ ~fr.copydir => At(p) = File(fr.data)
    BY <1>2, <1>4, NoticedFacts DEF KnowsSource
  <2>2. At(p)' = At(p)
    BY <1>1, <1>2, <1>4, <2>1, EntryFacts
  <2> QED
    BY <2>1, <2>2 DEF IsDir, IsFile
<1>5. ASSUME fr.call.op \in Copies, label \in Removing, {p, q} \cap Others(c)' = {}
      PROVE  IF fr.copydir THEN IsDir(p)' ELSE At(p)' = File(fr.data) /\ At(q)' = File(fr.data)
  <2>1. IF fr.copydir THEN IsDir(p) ELSE At(p) = File(fr.data) /\ At(q) = File(fr.data)
    BY <1>2, <1>5, NoticedFacts DEF KnowsSource
  <2>2. CASE fr.copydir
    BY <1>1, <1>2, <1>5, <2>1, <2>2, EntryFacts DEF IsDir
  <2>3. CASE ~fr.copydir
    <3>1. Exists(p) /\ Exists(q)
      BY <1>3, <2>1, <2>3 DEF Exists
    <3> QED
      BY <1>1, <1>2, <1>5, <2>1, <2>3, <3>1
  <2> QED
    BY <2>2, <2>3
<1>6. Meddled(c)' = {} => Meddled(c) = {} /\ (IsDir(p)' <=> IsDir(p))
  BY NoticedFacts DEF IsDir, At
<1> QED
  BY <1>2, <1>4, <1>5, <1>6 DEF KnowsSource

LEMMA KeepsCleared ==
    ASSUME TypeOK, tree' \in [Path -> Entry], NEW c \in Client, Noticed(c), NEW p, Cleared(c, p)
    PROVE  Cleared(c, p)'
BY NoticedFacts DEF Cleared, Noticed

LEMMA KeepsRemoved ==
    ASSUME TypeOK, tree' \in [Path -> Entry], NEW c \in Client, Noticed(c),
           NEW label, NEW fr \in Frame, KnowsRemoved(c, label, fr)
    PROVE  KnowsRemoved(c, label, fr)'
<1>1. Cleared(c, fr.call.path) => Cleared(c, fr.call.path)'
  BY KeepsCleared
<1>2. Meddled(c)' = {} => /\ Meddled(c) = {}
                          /\ \A p : (Exists(p)' <=> Exists(p)) /\ ChildrenOf(p)' = ChildrenOf(p)
  BY NoticedFacts DEF Exists, At, ChildrenOf
<1> QED
  BY <1>1, <1>2 DEF KnowsRemoved

LEMMA KeepsRead ==
    ASSUME TypeOK, tree' \in [Path -> Entry], NEW c \in Client, Noticed(c),
           NEW label, NEW fr \in Frame, KnowsRead(c, label, fr)
    PROVE  KnowsRead(c, label, fr)'
<1>1. PICK p \in Path \cup {<< >>} : p = fr.call.path
  BY FramePaths
<1>2. p \notin Others(c)' /\ Exists(p) => p \notin Others(c) /\ At(p)' = At(p)
  BY NoticedFacts, EntryFacts
<1>3. ASSUME label \in {"range", "whole"}, p \notin Others(c)'
      PROVE  /\ IsFile(p)' /\ Len(At(p)'.data) = fr.size
             /\ fr.got = SubSeq(At(p)'.data, 1, Len(fr.got))
  <2>1. IsFile(p) /\ Len(At(p).data) = fr.size /\ fr.got = SubSeq(At(p).data, 1, Len(fr.got))
    BY <1>1, <1>3, NoticedFacts DEF KnowsRead
  <2>2. At(p)' = At(p)
    BY <1>1, <1>2, <1>3, <2>1, EntryFacts
  <2> QED
    BY <2>1, <2>2 DEF IsFile
<1>4. Meddled(c)' = {} => Meddled(c) = {} /\ \A q : Exists(q)' <=> Exists(q)
  BY NoticedFacts DEF Exists, At
<1> QED
  BY <1>1, <1>3, <1>4 DEF KnowsRead

\* Nobody knows anything between two operations.
LEMMA IdleKnows == \A c \in Client : \A fr : Knows(c, "idle", fr) /\ Knows(c, "idle", fr)'
BY DEF Knows, KnowsChain, KnowsSource, KnowsRemoved, KnowsRead, Looping, Putting, Removing

LEMMA Bystanders ==
    ASSUME FsInv, tree' \in [Path -> Entry], NEW c \in Client, Bystands(c)
    PROVE  Local(pc[c], g[c])' /\ Knows(c, pc[c], g[c])'
<1>1. PICK label, fr : label = pc[c] /\ fr = g[c]
  OBVIOUS
<1>2. /\ TypeOK /\ fr \in Frame /\ Local(label, fr) /\ Knows(c, label, fr)
      /\ pc'[c] = label /\ g'[c] = fr
  BY <1>1 DEF FsInv, TypeOK, Bystands
<1>3. Knows(c, label, fr)'
  BY <1>1, <1>2, IdleKnows, KeepsChain, KeepsSource, KeepsRemoved, KeepsRead DEF Knows, Bystands
<1> QED
  BY <1>2, <1>3

-----------------------------------------------------------------------------
(* A step of one operation *)

\* Of the entries of a set of paths, one is the deepest.
LEMMA DeepestIn ==
    ASSUME NEW todo, todo \subseteq Path \cup {<< >>}, todo # {}
    PROVE  Deepest(todo) \in todo /\ \A q \in todo : ~Below(Deepest(todo), q)
<1>1. PICK top \in Path \cup {<< >>} : \A q \in Path : Len(q) <= Len(top)
  BY PathAssumption
<1>2. PICK n \in Nat : \A q \in todo : Len(q) \in Nat /\ Len(q) <= n
  BY <1>1, PathSeq
<1>3. PICK R : R = {ss \in Nat \X Nat : ss[1] < ss[2]}
  OBVIOUS
<1>4. IsWellFoundedOn(R, Nat)
  <2>1. OpToRel(<, Nat) = R
    BY <1>3 DEF OpToRel
  <2> QED
    BY <2>1, NatLessThanWellFounded
<1>5. PICK T : T = {n - Len(q) : q \in todo}
  OBVIOUS
<1>6. T \subseteq Nat /\ T # {}
  BY <1>2, <1>5
<1>7. PICK x \in T : \A y \in T : ~(<<y, x>> \in R)
  BY <1>4, <1>6, WFMin
<1>8. PICK p \in todo : x = n - Len(p)
  BY <1>5, <1>7
<1>9. \A q \in todo : ~Below(p, q)
  <2> SUFFICES ASSUME NEW q \in todo, Below(p, q) PROVE FALSE
    OBVIOUS
  <2>1. Len(p) \in Nat /\ Len(q) \in Nat /\ Len(p) < Len(q) /\ Len(q) <= n
    BY <1>2 DEF Below
  <2>2. PICK y \in T : y = n - Len(q)
    BY <1>5
  <2>3. <<y, x>> \in R
    <3>1. y \in Nat /\ x \in Nat /\ y < x
      BY <1>6, <1>8, <2>1, <2>2
    <3> QED
      BY <1>3, <3>1
  <2> QED
    BY <1>7, <2>2, <2>3
<1> QED
  BY <1>8, <1>9 DEF Deepest

Fits(label, fr) == fr.k <= Len(fr.goal) /\ Len(fr.got) <= fr.size /\ Local(label, fr)

\* The step leaves the filesystem as the other clients may find it.
Moves(c) == /\ tree' \in [Path -> Entry] /\ TreeOK'
            /\ touched' \in [Client -> SUBSET ({"made", "other"} \X Path)]
            /\ \A d \in Client \ {c} : Noticed(d) \/ pc[d] = "idle"

\* The step leaves the operation of c as the invariant wants it.
Lands(c) == /\ pc' \in [Client -> Labels] /\ g' \in [Client -> Frame]
            /\ \A d \in Client \ {c} : pc'[d] = pc[d] /\ g'[d] = g[d]
            /\ Fits(pc'[c], g'[c]) /\ Knows(c, pc[c], g[c])'

LEMMA StepInv ==
    ASSUME FsInv, NEW c \in Client, Moves(c), Lands(c), generic' \in BOOLEAN, left' \in Nat
    PROVE  FsInv'
<1>1. \A d \in Client \ {c} : Bystands(d)
  BY DEF Moves, Lands, Bystands
<1>2. \A d \in Client \ {c} : Local(pc[d], g[d])' /\ Knows(d, pc[d], g[d])'
  BY <1>1, Bystanders DEF Moves
<1>3. Local(pc[c], g[c])' /\ Knows(c, pc[c], g[c])'
  BY DEF Lands, Fits
<1>4. \A d \in Client : g'[d].k <= Len(g'[d].goal) /\ Len(g'[d].got) <= g'[d].size
  BY DEF Lands, Fits, FsInv, TypeOK
<1>5. TypeOK'
  BY <1>4 DEF Moves, Lands, TypeOK
<1> QED
  BY <1>2, <1>3, <1>5 DEF FsInv, Moves

LEMMA SameMoves ==
    ASSUME FsInv, NEW c \in Client, Same
    PROVE  /\ Moves(c) /\ tree' = tree /\ touched' = touched
           /\ Others(c)' = Others(c) /\ Meddled(c)' = Meddled(c)
           /\ \A p : At(p)' = At(p) /\ ChildrenOf(p)' = ChildrenOf(p)
                     /\ (Exists(p)' <=> Exists(p)) /\ (IsDir(p)' <=> IsDir(p))
                     /\ (IsFile(p)' <=> IsFile(p))
<1>1. tree' = tree /\ touched' = touched
  BY DEF Same
<1>2. Moves(c)
  BY <1>1, SameNoticed DEF Moves, FsInv, TypeOK, TreeOK
<1>3. Others(c)' = Others(c) /\ Meddled(c)' = Meddled(c)
  BY <1>1 DEF Others, Meddled
<1>4. \A p : At(p)' = At(p)
  BY <1>1 DEF At
<1> QED
  BY <1>1, <1>2, <1>3, <1>4 DEF Exists, IsDir, IsFile, ChildrenOf

LEMMA ChangeMoves ==
    ASSUME FsInv, NEW c \in Client, NEW t, Rooted(t), Change(c, t)
    PROVE  /\ Moves(c) /\ tree' = t /\ TypeOK /\ TreeOK
           /\ Others(c)' = Others(c) /\ Meddled(c)' = Meddled(c)
<1>1. t \in [Path -> Entry] /\ TypeOK /\ TreeOK
  BY DEF Rooted, FsInv
<1>2. /\ tree' = t /\ touched'[c] = touched[c]
      /\ touched' \in [Client -> SUBSET ({"made", "other"} \X Path)]
      /\ \A d \in Client \ {c} : Noticed(d) \/ pc[d] = "idle"
  BY <1>1, ChangeNoticed
<1>3. TreeOK'
  BY <1>2 DEF Rooted, TreeOK
<1>4. Others(c)' = Others(c) /\ Meddled(c)' = Meddled(c)
  BY <1>2 DEF Others, Meddled
<1> QED
  BY <1>1, <1>2, <1>3, <1>4 DEF Moves

\* What is known of the frame of an operation under way.
LEMMA FrameFacts ==
    ASSUME FsInv, NEW c \in Client
    PROVE  /\ g[c] \in Frame /\ pc[c] \in Labels /\ Fits(pc[c], g[c]) /\ Knows(c, pc[c], g[c])
           /\ TypeOK /\ TreeOK /\ generic \in BOOLEAN /\ left \in Nat
BY DEF FsInv, TypeOK, Fits

LEMMA GotoLands ==
    ASSUME FsInv, NEW c \in Client, NEW label \in Labels, NEW fr \in Frame, Goto(c, label, fr),
           Fits(label, fr), Knows(c, label, fr)'
    PROVE  Lands(c)
<1>1. /\ pc' \in [Client -> Labels] /\ g' \in [Client -> Frame] /\ pc'[c] = label /\ g'[c] = fr
      /\ \A d \in Client \ {c} : pc'[d] = pc[d] /\ g'[d] = g[d]
  BY DEF Goto, FsInv, TypeOK
<1> QED
  BY <1>1 DEF Lands

LEMMA EndFrame ==
    ASSUME NEW fr \in Frame, NEW out \in {"true", "false", "raised"}, NEW nx,
           nx = [fr EXCEPT !.out = out]
    PROVE  /\ nx \in Frame /\ nx.call = fr.call /\ nx.goal = fr.goal /\ nx.k = fr.k
           /\ nx.got = fr.got /\ nx.copydir = fr.copydir /\ nx.size = fr.size
           /\ nx.todo = fr.todo /\ nx.ok = fr.ok /\ nx.out = out
BY DEF Frame

\* An operation may end at any time: nothing is known of one that is over.
LEMMA EndLands ==
    ASSUME FsInv, NEW c \in Client, NEW fr \in Frame, Goto(c, "idle", fr),
           fr.k <= Len(fr.goal), Len(fr.got) <= fr.size, fr.copydir => fr.call.op \in Copies
    PROVE  Lands(c)
<1>1. Fits("idle", fr)
  BY DEF Fits, Local, Looping, Putting, Removing
<1>2. Knows(c, "idle", fr)'
  BY IdleKnows
<1> QED
  BY <1>1, <1>2, GotoLands DEF Labels

LEMMA ReturnLands ==
    ASSUME FsInv, NEW c \in Client, NEW out \in {"true", "false", "raised"}, End(c, out)
    PROVE  Lands(c)
<1>1. PICK fr : fr = [g[c] EXCEPT !.out = out]
  OBVIOUS
<1>2. g[c] \in Frame /\ Fits(pc[c], g[c])
  BY FrameFacts
<1>3. /\ fr \in Frame /\ fr.k = g[c].k /\ fr.goal = g[c].goal /\ fr.got = g[c].got
      /\ fr.size = g[c].size /\ fr.copydir = g[c].copydir /\ fr.call = g[c].call
  BY <1>1, <1>2, EndFrame
<1> QED
  BY <1>1, <1>2, <1>3, EndLands DEF End, Fits, Local

LEMMA AwaitLands ==
    ASSUME FsInv, NEW c \in Client, NEW label \in Labels, Await(c, label),
           Local(label, g[c]), \A fr : fr = g[c] => Knows(c, label, fr)'
    PROVE  Lands(c)
<1>1. PICK fr : fr = g[c]
  OBVIOUS
<1>2. fr \in Frame /\ Fits(label, fr) /\ Knows(c, label, fr)' /\ Goto(c, label, fr)
  BY <1>1, FrameFacts DEF Await, Fits
<1> QED
  BY <1>2, GotoLands

\* The chain is there up to k, and the source is what was read.
Reached(c, fr) == Others(c) = {} => \A i \in 1 .. fr.k : tree[Prefix(fr, i)] = Dir

SourceRead(c, fr) ==
    fr.call.op \in Copies =>
        /\ fr.call.path \notin Others(c) =>
               IF fr.copydir THEN IsDir(fr.call.path) ELSE At(fr.call.path) = File(fr.data)
        /\ fr.call.op = "rename" /\ fr.copydir => Meddled(c) # {}

\* The frame of an operation that is making a chain, up to k.
Chaining(fr) == /\ fr.call.op \in {"mkdir", "pipe"} \cup Copies
                /\ Aimed(fr) /\ fr.k \in 0 .. Len(fr.goal) /\ fr.got = << >>
                /\ fr.copydir => fr.call.op \in Copies

LEMMA EmptyFits ==
    ASSUME NEW fr \in Frame, fr.got = << >>
    PROVE  Len(fr.got) = 0 /\ Len(fr.got) <= fr.size /\ fr.size \in Nat /\ fr.k \in Nat
BY DEF Frame

\* The loop goes on to the next component.
LEMMA NextLands ==
    ASSUME FsInv, NEW c \in Client, NEW fr \in Frame, NEW nx \in Frame, Chaining(fr),
           nx = [fr EXCEPT !.k = @ + 1], fr.k < Len(fr.goal),
           Goto(c, "exists", nx), Reached(c, fr)', SourceRead(c, fr)'
    PROVE  Lands(c)
<1>1. /\ nx.call = fr.call /\ nx.goal = fr.goal /\ nx.k = fr.k + 1 /\ nx.got = fr.got
      /\ nx.copydir = fr.copydir /\ nx.data = fr.data /\ nx.size = fr.size /\ fr.k \in Nat
  BY DEF Frame
<1>2. Len(fr.goal) \in Nat /\ fr.k + 1 \in 1 .. Len(fr.goal) /\ fr.goal \in Path \cup {<< >>}
  BY <1>1, FramePaths, PathSeq
<1>3. Fits("exists", nx)
  BY <1>1, <1>2, EmptyFits DEF Fits, Local, Chaining, Aimed, Looping, Putting, Removing
<1>4. KnowsChain(c, "exists", nx)'
  <2>1. \A i \in 1 .. Len(fr.goal) : i < fr.k + 1 => i \in 1 .. fr.k /\ Prefix(nx, i) = Prefix(fr, i)
    BY <1>1, <1>2 DEF Prefix
  <2> QED
    BY <1>1, <2>1 DEF KnowsChain, Reached, Looping, Putting
<1>5. KnowsSource(c, "exists", nx)'
  BY <1>1 DEF KnowsSource, SourceRead, Looping, Putting, Removing, IsFile, File
<1>6. KnowsRemoved(c, "exists", nx)' /\ KnowsRead(c, "exists", nx)'
  BY DEF KnowsRemoved, KnowsRead, Removing
<1> QED
  BY <1>3, <1>4, <1>5, <1>6, GotoLands DEF Knows, Labels

\* A copied directory makes its target last.
LEMMA TargetLands ==
    ASSUME FsInv, NEW c \in Client, NEW fr \in Frame, NEW nx \in Frame, Chaining(fr),
           nx = [fr EXCEPT !.goal = fr.call.dst, !.k = Len(fr.call.dst)], fr.k = Len(fr.goal),
           fr.copydir, fr.goal # fr.call.dst,
           Goto(c, "mkdir", nx), Reached(c, fr)', SourceRead(c, fr)'
    PROVE  Lands(c)
<1>1. PICK q \in Path \cup {<< >>} : q = fr.call.dst
  BY FramePaths
<1>2. /\ nx.call = fr.call /\ nx.goal = q /\ nx.k = Len(q) /\ nx.got = fr.got
      /\ nx.copydir = fr.copydir /\ nx.data = fr.data /\ nx.size = fr.size
  BY <1>1 DEF Frame
<1>3. fr.call.op \in Copies /\ fr.goal = Parent(q) /\ fr.goal # q
  BY <1>1 DEF Chaining, Aimed, Copies
<1>4. q \in Path /\ Len(q) \in Nat /\ Len(q) > 0 /\ Len(fr.goal) = Len(q) - 1
  BY <1>3, ParentPath, PathSeq
<1>5. Fits("mkdir", nx)
  BY <1>1, <1>2, <1>3, <1>4, EmptyFits
     DEF Fits, Local, Chaining, Aimed, Looping, Putting, Removing, Copies
<1>6. KnowsChain(c, "mkdir", nx)'
  <2>1. ASSUME NEW i \in 1 .. Len(q), i < Len(q)
        PROVE  i \in 1 .. fr.k /\ Prefix(nx, i) = Prefix(fr, i)
    BY <1>2, <1>3, <1>4, <2>1, ParentPath DEF Prefix
  <2> QED
    BY <1>2, <1>3, <2>1 DEF KnowsChain, Reached, Looping, Putting, Copies
<1>7. KnowsSource(c, "mkdir", nx)'
  BY <1>2 DEF KnowsSource, SourceRead, Looping, Putting, Removing
<1>8. KnowsRemoved(c, "mkdir", nx)' /\ KnowsRead(c, "mkdir", nx)'
  BY DEF KnowsRemoved, KnowsRead, Removing
<1> QED
  BY <1>5, <1>6, <1>7, <1>8, GotoLands DEF Knows, Labels

\* The source of a rename goes on to be removed.
LEMMA CopiedLands ==
    ASSUME FsInv, NEW c \in Client, NEW fr \in Frame, fr.call.op \in {"pipe"} \cup Copies,
           fr.k <= Len(fr.goal), fr.got = << >>, fr.copydir => fr.call.op \in Copies,
           Copied(c, fr),
           fr.call.op = "rename" /\ {fr.call.path, fr.call.dst} \cap Others(c)' = {} =>
               IF fr.copydir THEN IsDir(fr.call.path)'
               ELSE At(fr.call.path)' = File(fr.data) /\ At(fr.call.dst)' = File(fr.data)
    PROVE  Lands(c)
<1>1. CASE fr.call.op = "rename"
  <2>1. PICK nx : nx = [fr EXCEPT !.todo = {fr.call.path}]
    OBVIOUS
  <2>2. PICK p, q \in Path \cup {<< >>} : p = fr.call.path /\ q = fr.call.dst
    BY FramePaths
  <2>3. /\ nx \in Frame /\ nx.call = fr.call /\ nx.goal = fr.goal /\ nx.k = fr.k /\ nx.got = fr.got
        /\ nx.copydir = fr.copydir /\ nx.data = fr.data /\ nx.size = fr.size /\ nx.todo = {p}
    BY <2>1, <2>2 DEF Frame
  <2>4. Goto(c, "rm_info", nx)
    BY <1>1, <2>1 DEF Copied
  <2>5. Fits("rm_info", nx)
    BY <1>1, <2>2, <2>3, EmptyFits DEF Fits, Local, Looping, Putting, Removing, Copies
  <2>6. KnowsSource(c, "rm_info", nx)'
    BY <1>1, <2>3 DEF KnowsSource, Looping, Putting, Removing
  <2>7. KnowsChain(c, "rm_info", nx)' /\ KnowsRemoved(c, "rm_info", nx)' /\ KnowsRead(c, "rm_info", nx)'
    BY <1>1, <2>3 DEF KnowsChain, KnowsRemoved, KnowsRead, Looping, Putting
  <2> QED
    BY <2>3, <2>4, <2>5, <2>6, <2>7, GotoLands DEF Knows, Labels
<1>2. CASE fr.call.op # "rename"
  <2>1. PICK nx : nx = [fr EXCEPT !.out = "true"]
    OBVIOUS
  <2>2. /\ nx \in Frame /\ nx.call = fr.call /\ nx.goal = fr.goal /\ nx.k = fr.k /\ nx.got = fr.got
        /\ nx.copydir = fr.copydir /\ nx.size = fr.size
    BY <2>1, EndFrame
  <2> QED
    BY <1>2, <2>1, <2>2, EmptyFits, EndLands DEF Copied
<1> QED
  BY <1>1, <1>2

\* The chain is complete, and the content may be written.
LEMMA PutLands ==
    ASSUME FsInv, NEW c \in Client, NEW fr \in Frame, Chaining(fr), fr.k = Len(fr.goal),
           fr.call.op # "mkdir", ~fr.copydir,
           NEW label \in Putting, label = "preflight" => Exclusive(fr),
           Goto(c, label, fr), Reached(c, fr)', SourceRead(c, fr)'
    PROVE  Lands(c)
<1>1. Fits(label, fr)
  BY EmptyFits DEF Fits, Local, Chaining, Aimed, Looping, Putting, Removing, Copies, Exclusive
<1>2. KnowsChain(c, label, fr)'
  BY DEF KnowsChain, Reached, Looping, Putting
<1>3. KnowsSource(c, label, fr)'
  BY DEF KnowsSource, SourceRead, Looping, Putting, Removing, IsFile, File
<1>4. KnowsRemoved(c, label, fr)' /\ KnowsRead(c, label, fr)'
  BY DEF KnowsRemoved, KnowsRead, Removing, Putting
<1> QED
  BY <1>1, <1>2, <1>3, <1>4, GotoLands DEF Knows, Labels, Putting

LEMMA ComponentLands ==
    ASSUME FsInv, NEW c \in Client, NEW fr \in Frame, Chaining(fr), Component(c, fr),
           Reached(c, fr)', SourceRead(c, fr)'
    PROVE  Lands(c)
<1>1. /\ fr.goal \in Path \cup {<< >>} /\ fr.call.dst \in Path \cup {<< >>}
      /\ Len(fr.goal) \in Nat /\ Len(fr.call.dst) \in Nat /\ fr.k \in Nat /\ fr.k <= Len(fr.goal)
  BY FramePaths, PathSeq DEF Chaining
<1>2. CASE fr.k < Len(fr.goal)
  <2>1. PICK nx : nx = [fr EXCEPT !.k = @ + 1]
    OBVIOUS
  <2>2. PICK n \in Nat : n = fr.k + 1
    BY <1>1
  <2>3. nx = [fr EXCEPT !.k = n]
    BY <2>1, <2>2
  <2>4. nx \in Frame
    BY <2>3 DEF Frame
  <2> QED
    BY <1>2, <2>1, <2>4, NextLands DEF Component
<1>3. CASE fr.k = Len(fr.goal)
  <2>1. Ensured(c, fr)
    BY <1>1, <1>3 DEF Component
  <2>2. CASE fr.call.op = "mkdir"
    <3>1. PICK nx : nx = [fr EXCEPT !.out = "true"]
      OBVIOUS
    <3>2. /\ nx \in Frame /\ nx.call = fr.call /\ nx.goal = fr.goal /\ nx.k = fr.k /\ nx.got = fr.got
          /\ nx.copydir = fr.copydir /\ nx.size = fr.size
      BY <3>1, EndFrame
    <3>3. Goto(c, "idle", nx)
      <4>1. ~fr.copydir
        BY <2>2 DEF Chaining, Copies
      <4> QED
        BY <2>1, <2>2, <3>1, <4>1 DEF Ensured
    <3>4. nx.k <= Len(nx.goal) /\ Len(nx.got) <= nx.size /\ (nx.copydir => nx.call.op \in Copies)
      <4>1. fr.got = << >> /\ (fr.copydir => fr.call.op \in Copies)
        BY DEF Chaining
      <4> QED
        BY <1>1, <3>2, <4>1, EmptyFits
    <3> QED
      BY <3>2, <3>3, <3>4, EndLands
  <2>3. CASE fr.call.op # "mkdir" /\ fr.copydir /\ fr.goal # fr.call.dst
    <3>1. PICK nx : nx = [fr EXCEPT !.goal = fr.call.dst, !.k = Len(fr.call.dst)]
      OBVIOUS
    <3>2. nx \in Frame
      BY <1>1, <3>1 DEF Frame
    <3>3. Goto(c, "mkdir", nx)
      BY <2>1, <2>3, <3>1 DEF Ensured
    <3> QED
      BY <1>3, <2>3, <3>1, <3>2, <3>3, TargetLands
  <2>4. CASE fr.call.op # "mkdir" /\ fr.copydir /\ fr.goal = fr.call.dst
    <3>1. Copied(c, fr)
      BY <2>1, <2>4 DEF Ensured
    <3> QED
      BY <1>1, <2>4, <3>1, CopiedLands DEF Chaining, SourceRead, Copies
  <2>5. CASE fr.call.op # "mkdir" /\ ~fr.copydir
    <3>1. PICK label : label = IF generic /\ Exclusive(fr) THEN "preflight" ELSE "write"
      OBVIOUS
    <3>2. Goto(c, label, fr)
      BY <2>1, <2>5, <3>1 DEF Ensured
    <3> QED
      BY <1>3, <2>5, <3>1, <3>2, PutLands DEF Putting
  <2> QED
    BY <2>2, <2>3, <2>4, <2>5
<1> QED
  BY <1>1, <1>2, <1>3

-----------------------------------------------------------------------------
(* The loop over the components *)

LEMMA LoopFacts ==
    ASSUME FsInv, NEW c \in Client, NEW fr, fr = g[c], pc[c] \in Looping
    PROVE  /\ fr \in Frame /\ Chaining(fr) /\ fr.k \in 1 .. Len(fr.goal) /\ fr.k \in Nat
           /\ Cur(c) = Prefix(fr, fr.k) /\ Cur(c) \in Path
           /\ Parent(Cur(c)) = Prefix(fr, fr.k - 1)
           /\ Others(c) = {} => \A i \in 1 .. fr.k : i < fr.k => tree[Prefix(fr, i)] = Dir
           /\ Others(c) = {} => IsDir(Parent(Cur(c)))
           /\ SourceRead(c, fr)
<1>1. /\ fr \in Frame /\ Local(pc[c], fr) /\ KnowsChain(c, pc[c], fr) /\ KnowsSource(c, pc[c], fr)
  BY FrameFacts DEF Knows, Fits
<1>2. fr.goal \in Path \cup {<< >>} /\ Len(fr.goal) \in Nat /\ fr.k \in Nat
  BY <1>1, FramePaths, PathSeq DEF Frame
<1>3. fr.k \in 1 .. Len(fr.goal) /\ fr.k \in 0 .. Len(fr.goal)
  BY <1>1, <1>2 DEF Local
<1>4. Chaining(fr)
  BY <1>1, <1>3 DEF Local, Chaining, Looping
<1>5. Cur(c) = Prefix(fr, fr.k) /\ Cur(c) \in Path
  BY <1>1, <1>3, FramePaths DEF Cur, Prefix
<1>6. Parent(Cur(c)) = Prefix(fr, fr.k - 1)
  <2>1. PICK j : j = fr.k - 1
    OBVIOUS
  <2>2. j \in 0 .. fr.k /\ j = fr.k - 1
    BY <1>2, <1>3, <2>1
  <2>3. Len(Cur(c)) = fr.k
    BY <1>2, <1>3, <1>5, SubPath DEF Prefix
  <2>4. SubSeq(SubSeq(fr.goal, 1, fr.k), 1, j) = SubSeq(fr.goal, 1, j)
    BY <1>2, <1>3, <2>2, PrefixOfPrefix
  <2> QED
    BY <1>5, <2>2, <2>3, <2>4 DEF Parent, Prefix
<1>7. ASSUME Others(c) = {} PROVE \A i \in 1 .. fr.k : i < fr.k => tree[Prefix(fr, i)] = Dir
  BY <1>1, <1>2, <1>3, <1>7 DEF KnowsChain
<1>8. ASSUME Others(c) = {} PROVE IsDir(Parent(Cur(c)))
  <2>1. CASE fr.k = 1
    <3>1. Len(Cur(c)) = 1
      BY <1>2, <1>3, <1>5, <2>1, SubPath DEF Prefix
    <3>2. PICK r \in Path \cup {<< >>} : r = Parent(Cur(c)) /\ Len(r) = 0
      <4>1. PICK p \in Path : p = Cur(c) /\ Len(p) = 1
        BY <1>5, <3>1, Zenon
      <4>2. Parent(p) \in Path \cup {<< >>} /\ Len(Parent(p)) = Len(p) - 1
        BY ParentPath
      <4> QED
        BY <4>1, <4>2
    <3>3. r \notin Path
      BY <3>2, PathSeq
    <3>4. IsDir(<< >>)
      BY AtPath DEF IsDir, Dir
    <3> QED
      BY <3>2, <3>3, <3>4
  <2>2. CASE fr.k > 1
    <3>1. PICK j \in 1 .. fr.k : j = fr.k - 1 /\ j < fr.k
      <4>1. fr.k - 1 \in 1 .. fr.k /\ fr.k - 1 < fr.k
        BY <1>2, <2>2
      <4> QED
        BY <4>1
    <3>2. tree[Prefix(fr, j)] = Dir /\ Parent(Cur(c)) = Prefix(fr, j)
      BY <1>6, <1>7, <1>8, <3>1
    <3>3. Prefix(fr, j) \in Path
      BY <1>1, <1>2, <1>3, <3>1, FramePaths
    <3> QED
      BY <3>2, <3>3, AtPath DEF IsDir, Dir
  <2> QED
    BY <1>2, <1>3, <2>1, <2>2
<1>9. SourceRead(c, fr)
  BY <1>1 DEF KnowsSource, SourceRead, Looping
<1> QED
  BY <1>1, <1>2, <1>3, <1>4, <1>5, <1>6, <1>7, <1>8, <1>9

\* The next question about the same component.
LEMMA LoopAwait ==
    ASSUME FsInv, NEW c \in Client, pc[c] \in Looping, Same,
           NEW label \in Looping, Await(c, label),
           label \in {"lost", "lost_dir"} => Op(c) # "mkdir",
           label \in {"is_dir", "lost", "lost_dir"} /\ Others(c) = {} => Exists(Cur(c)),
           label = "mkdir" /\ Op(c) = "mkdir" /\ Meddled(c) = {} => ~Exists(Cur(c))
    PROVE  Moves(c) /\ Lands(c)
<1>1. PICK fr : fr = g[c]
  OBVIOUS
<1>2. /\ fr \in Frame /\ Chaining(fr) /\ fr.k \in 1 .. Len(fr.goal) /\ fr.k \in Nat
      /\ Cur(c) = Prefix(fr, fr.k) /\ SourceRead(c, fr)
      /\ Others(c) = {} => \A i \in 1 .. fr.k : i < fr.k => tree[Prefix(fr, i)] = Dir
  BY <1>1, LoopFacts
<1>3. /\ Moves(c) /\ tree' = tree /\ Others(c)' = Others(c) /\ Meddled(c)' = Meddled(c)
      /\ \A p : At(p)' = At(p) /\ (Exists(p)' <=> Exists(p)) /\ (IsDir(p)' <=> IsDir(p))
                /\ (IsFile(p)' <=> IsFile(p))
  BY SameMoves
<1>4. Local(label, fr)
  BY <1>1, <1>2 DEF Local, Looping, Putting, Removing, Chaining, Op
<1>5. KnowsChain(c, label, fr)'
  <2>1. \A i \in 1 .. Len(fr.goal) : i < fr.k => i \in 1 .. fr.k
    BY <1>2, FramePaths, PathSeq
  <2> QED
    BY <1>1, <1>2, <1>3, <2>1 DEF KnowsChain, Looping, Putting, Op
<1>6. KnowsSource(c, label, fr)'
  BY <1>2, <1>3 DEF KnowsSource, SourceRead, Looping, Putting, Removing, IsFile, File
<1>7. KnowsRemoved(c, label, fr)' /\ KnowsRead(c, label, fr)'
  BY DEF KnowsRemoved, KnowsRead, Removing, Looping
<1>8. Fits(label, fr) /\ Goto(c, label, fr) /\ label \in Labels
  BY <1>1, <1>2, <1>4, FrameFacts DEF Fits, Await, Looping, Labels
<1> QED
  BY <1>2, <1>3, <1>5, <1>6, <1>7, <1>8, GotoLands DEF Knows

\* The component is a directory now; the loop goes on.
LEMMA LoopReaches ==
    ASSUME FsInv, NEW c \in Client, pc[c] \in Looping, NEW fr, fr = g[c],
           tree' = tree \/ (tree' = [tree EXCEPT ![Cur(c)] = Dir] /\ ~Exists(Cur(c))),
           tree'[Cur(c)] = Dir, Others(c)' = Others(c), Meddled(c)' = Meddled(c)
    PROVE  Reached(c, fr)' /\ SourceRead(c, fr)'
<1>1. /\ fr \in Frame /\ Chaining(fr) /\ fr.k \in 1 .. Len(fr.goal) /\ fr.k \in Nat
      /\ Cur(c) = Prefix(fr, fr.k) /\ Cur(c) \in Path /\ SourceRead(c, fr)
      /\ Others(c) = {} => \A i \in 1 .. fr.k : i < fr.k => tree[Prefix(fr, i)] = Dir
  BY LoopFacts
<1>2. \A p \in Path : tree'[p] = tree[p] \/ (p = Cur(c) /\ ~Exists(p) /\ tree'[p] = Dir)
  BY <1>1 DEF FsInv, TypeOK
<1>3. Reached(c, fr)'
  <2> SUFFICES ASSUME Others(c)' = {}, NEW i \in 1 .. fr.k PROVE tree'[Prefix(fr, i)] = Dir
    BY DEF Reached
  <2>1. CASE i = fr.k
    BY <1>1, <2>1
  <2>2. CASE i < fr.k
    <3>1. tree[Prefix(fr, i)] = Dir /\ Prefix(fr, i) \in Path
      <4>1. i \in 1 .. Len(fr.goal)
        BY <1>1, FramePaths, PathSeq
      <4> QED
        BY <1>1, <2>2, <4>1, FramePaths
    <3> QED
      BY <1>2, <3>1
  <2> QED
    BY <1>1, <2>1, <2>2
<1>4. SourceRead(c, fr)'
  <2>1. PICK p \in Path \cup {<< >>} : p = fr.call.path
    BY <1>1, FramePaths
  <2>2. Exists(p) => At(p)' = At(p)
    BY <1>2 DEF At
  <2>3. fr.call.op \in Copies /\ p \notin Others(c) => Exists(p)
    BY <1>1, <2>1 DEF SourceRead, Exists, IsDir, File
  <2> QED
    BY <1>1, <2>1, <2>2, <2>3 DEF SourceRead, IsDir
<1> QED
  BY <1>3, <1>4

LEMMA LoopPass ==
    ASSUME FsInv, NEW c \in Client, pc[c] \in Looping, Component(c, g[c]),
           tree' = tree \/ (tree' = [tree EXCEPT ![Cur(c)] = Dir] /\ ~Exists(Cur(c))),
           tree'[Cur(c)] = Dir, Others(c)' = Others(c), Meddled(c)' = Meddled(c)
    PROVE  Lands(c)
<1>1. PICK fr : fr = g[c]
  OBVIOUS
<1>2. fr \in Frame /\ Chaining(fr)
  BY <1>1, LoopFacts
<1>3. Reached(c, fr)' /\ SourceRead(c, fr)'
  BY <1>1, LoopReaches
<1> QED
  BY <1>1, <1>2, <1>3, ComponentLands

LEMMA AskExistsStep == ASSUME FsInv, NEW c \in Client, AskExists(c) PROVE Moves(c) /\ Lands(c)
BY LoopAwait DEF AskExists, Looping

LEMMA AskIsDirStep == ASSUME FsInv, NEW c \in Client, AskIsDir(c) PROVE Moves(c) /\ Lands(c)
<1>1. pc[c] \in Looping /\ Same
  BY DEF AskIsDir, Looping
<1>2. Moves(c) /\ tree' = tree /\ Others(c)' = Others(c) /\ Meddled(c)' = Meddled(c)
  BY <1>1, SameMoves
<1>3. CASE IsDir(Cur(c))
  <2>1. tree'[Cur(c)] = Dir
    BY <1>1, <1>2, <1>3, LoopFacts, FrameFacts, EntryFacts, AtPath
  <2> QED
    BY <1>1, <1>2, <1>3, <2>1, LoopPass DEF AskIsDir
<1>4. CASE ~IsDir(Cur(c))
  BY <1>2, <1>4, ReturnLands DEF AskIsDir, Raise
<1> QED
  BY <1>3, <1>4

LEMMA LostStep == ASSUME FsInv, NEW c \in Client, Lost(c) PROVE Moves(c) /\ Lands(c)
<1>1. pc[c] \in {"lost", "lost_dir"} /\ pc[c] \in Looping /\ Same /\ Op(c) # "mkdir"
  BY FrameFacts DEF Lost, Looping, Fits, Local, Op
<1>2. Moves(c) /\ tree' = tree /\ Others(c)' = Others(c) /\ Meddled(c)' = Meddled(c)
  BY <1>1, SameMoves
<1>3. CASE Raise(c)
  BY <1>2, <1>3, ReturnLands DEF Raise
<1>4. CASE pc[c] = "lost" /\ Exists(Cur(c))
  BY <1>1, <1>4, LoopAwait DEF Lost, Looping
<1>5. CASE pc[c] = "lost_dir" /\ IsDir(Cur(c))
  <2>1. tree'[Cur(c)] = Dir
    BY <1>1, <1>2, <1>5, LoopFacts, FrameFacts, EntryFacts, AtPath
  <2> QED
    BY <1>1, <1>2, <1>5, <2>1, LoopPass DEF Lost
<1> QED
  BY <1>3, <1>4, <1>5 DEF Lost

\* What Make does to the tree.
LEMMA MakeMoves ==
    ASSUME FsInv, NEW c \in Client, Make(c), CanMake(Cur(c))
    PROVE  /\ Moves(c) /\ Component(c, g[c]) /\ Others(c)' = Others(c) /\ Meddled(c)' = Meddled(c)
           /\ tree' = [tree EXCEPT ![Cur(c)] = Dir] /\ tree'[Cur(c)] = Dir /\ ~Exists(Cur(c))
<1>1. Cur(c) \in Path
  BY LoopFacts DEF Make, Looping
<1>2. PICK t : t = [tree EXCEPT ![Cur(c)] = Dir]
  OBVIOUS
<1>3. Change(c, t) /\ Component(c, g[c])
  BY <1>2 DEF Make
<1>4. Rooted(t)
  BY <1>1, <1>2, MadeTree, FrameFacts
<1>5. Moves(c) /\ tree' = t /\ Others(c)' = Others(c) /\ Meddled(c)' = Meddled(c)
  BY <1>3, <1>4, ChangeMoves
<1>6. tree'[Cur(c)] = Dir /\ ~Exists(Cur(c))
  BY <1>1, <1>2, <1>5, FrameFacts DEF CanMake, TypeOK
<1> QED
  BY <1>2, <1>3, <1>5, <1>6

LEMMA MakeStep == ASSUME FsInv, NEW c \in Client, Make(c) PROVE Moves(c) /\ Lands(c)
<1>1. pc[c] = "mkdir" /\ pc[c] \in Looping
  BY DEF Make, Looping
<1>2. Cur(c) \in Path /\ Cur(c) # << >> /\ (Others(c) = {} => IsDir(Parent(Cur(c))))
  BY <1>1, LoopFacts, PathAssumption
<1>3. CASE CanMake(Cur(c))
  BY <1>1, <1>3, MakeMoves, LoopPass
<1>4. CASE ~CanMake(Cur(c))
  <2>1. Same /\ IF Op(c) = "mkdir" THEN Return(c, FALSE) ELSE Await(c, "lost")
    BY <1>4 DEF Make
  <2>2. CASE Op(c) = "mkdir"
    BY <2>1, <2>2, SameMoves, ReturnLands DEF Return
  <2>3. CASE Op(c) # "mkdir"
    BY <1>1, <1>2, <1>4, <2>1, <2>3, LoopAwait DEF Looping, CanMake
  <2> QED
    BY <2>2, <2>3
<1> QED
  BY <1>3, <1>4

-----------------------------------------------------------------------------
(* The beginning of an operation, of a chain and of a copy *)

LEMMA EnsureLands ==
    ASSUME FsInv, NEW c \in Client, NEW fr \in Frame, NEW path \in Path \cup {<< >>},
           Ensure(c, fr, path), fr.got = << >>, fr.copydir => fr.call.op \in Copies,
           \/ fr.call.op = "mkdir" /\ path = fr.call.path
           \/ fr.call.op = "pipe" /\ path = Parent(fr.call.path)
           \/ fr.call.op \in Copies /\ path = Parent(fr.call.dst),
           SourceRead(c, fr)'
    PROVE  Lands(c)
<1>1. PICK nx : nx = [fr EXCEPT !.goal = path, !.k = 0]
  OBVIOUS
<1>2. /\ nx \in Frame /\ nx.goal = path /\ nx.k = 0 /\ nx.call = fr.call /\ nx.got = fr.got
      /\ nx.copydir = fr.copydir /\ nx.data = fr.data
  BY <1>1 DEF Frame
<1>3. Aimed(nx)
  BY <1>2 DEF Aimed, Copies
<1>4. Chaining(nx)
  <2>1. 0 \in 0 .. Len(path)
    BY PathSeq
  <2> QED
    BY <1>2, <1>3, <2>1 DEF Chaining
<1>5. Reached(c, nx)' /\ SourceRead(c, nx)'
  BY <1>2 DEF Reached, SourceRead
<1> QED
  BY <1>1, <1>2, <1>4, <1>5, ComponentLands DEF Ensure

LEMMA FreshFacts ==
    ASSUME NEW call \in Call, NEW data \in Seq(Nat), NEW fr, fr = Fresh(call, data)
    PROVE  /\ fr \in Frame /\ fr.call = call /\ fr.k = 0 /\ fr.got = << >> /\ ~fr.copydir
           /\ fr.goal = << >> /\ fr.ok /\ fr.todo = {call.path} /\ fr.dirs = {call.path}
           /\ fr.k <= Len(fr.goal) /\ Len(fr.got) <= fr.size
<1>1. << >> \in Seq(Nat) /\ Len(<< >>) = 0
  BY EmptySeq
<1>2. call.path \in Path \cup {<< >>}
  BY DEF Call
<1> QED
  BY <1>1, <1>2 DEF Fresh, Frame

\* A label at which nothing is known yet.
Asking == {"parent", "mv_isdir", "info", "mv_exists", "mv", "get_info", "ls_exists", "ls_names"}

LEMMA AskingKnows ==
    ASSUME NEW c \in Client, NEW label \in Asking, NEW fr, label = "info" => fr.call.op # "rename"
    PROVE  Knows(c, label, fr)'
BY DEF Knows, KnowsChain, KnowsSource, KnowsRemoved, KnowsRead, Asking, Looping, Putting, Removing

LEMMA BeginMoves ==
    ASSUME FsInv, NEW c \in Client, NEW call \in Calls, Begin(c, call)
    PROVE  /\ Moves(c) /\ tree' = tree /\ Others(c)' = {} /\ Meddled(c)' = {}
           /\ generic' \in BOOLEAN /\ left' \in Nat
<1>1. /\ tree' = tree /\ touched' = [touched EXCEPT ![c] = {}]
      /\ generic' = generic /\ left > 0 /\ left' = left - 1
  BY DEF Begin
<1>2. touched \in [Client -> SUBSET ({"made", "other"} \X Path)] /\ TypeOK /\ TreeOK
  BY DEF FsInv, TypeOK
<1>3. \A d \in Client \ {c} : touched'[d] = touched[d]
  BY <1>1, <1>2
<1>4. \A d \in Client \ {c} : Noticed(d)
  BY <1>1, <1>3 DEF Noticed
<1>5. touched'[c] = {}
  BY <1>1, <1>2
<1>6. Moves(c)
  BY <1>1, <1>2, <1>4 DEF Moves, TypeOK, TreeOK
<1>7. Others(c)' = {} /\ Meddled(c)' = {}
  BY <1>5 DEF Others, Meddled
<1>8. left' \in Nat
  BY <1>1, <1>2 DEF TypeOK
<1> QED
  BY <1>1, <1>2, <1>6, <1>7, <1>8 DEF TypeOK

LEMMA BeginStep ==
    ASSUME FsInv, NEW c \in Client, NEW call \in Calls, Begin(c, call)
    PROVE  Moves(c) /\ Lands(c)
<1>1. call \in Call /\ left \in Nat
  BY FsAssumption DEF FsInv, TypeOK
<1>2. PICK data : data = IF call.op = "pipe" THEN [i \in 1 .. call.size |-> left] ELSE << >>
  OBVIOUS
<1>3. data \in Seq(Nat)
  <2>1. call.size \in Nat
    BY <1>1 DEF Call
  <2> QED
    BY <1>1, <1>2, <2>1, EmptySeq
<1>4. PICK fr : fr = Fresh(call, data)
  OBVIOUS
<1>5. /\ fr \in Frame /\ fr.call = call /\ fr.k = 0 /\ fr.got = << >> /\ ~fr.copydir
      /\ fr.goal = << >> /\ fr.ok /\ fr.todo = {call.path} /\ fr.dirs = {call.path}
      /\ fr.k <= Len(fr.goal) /\ Len(fr.got) <= fr.size
  BY <1>1, <1>3, <1>4, FreshFacts
<1>6. Moves(c) /\ tree' = tree /\ Others(c)' = {} /\ Meddled(c)' = {}
  BY BeginMoves
<1>7. /\ call.path \in Path \cup {<< >>} /\ Parent(call.path) \in Path \cup {<< >>}
      /\ call.op \in Ops /\ call.flag \in BOOLEAN
  BY <1>1, ParentPath DEF Call
<1>8. CASE call.op \in {"mkdir", "pipe"}
  <2>1. SourceRead(c, fr)'
    BY <1>5, <1>8 DEF SourceRead, Copies
  <2>2. CASE Goto(c, "parent", fr) /\ call.op = "mkdir" /\ ~call.flag /\ call.path # << >>
    <3>1. Fits("parent", fr)
      BY <1>5, <2>2 DEF Fits, Local, Looping, Putting, Removing
    <3> QED
      BY <1>5, <1>6, <2>2, <3>1, AskingKnows, GotoLands DEF Asking, Labels
  <2>3. CASE call.op = "mkdir" /\ Ensure(c, fr, call.path)
    BY <1>5, <1>6, <1>7, <2>1, <2>3, EnsureLands
  <2>4. CASE call.op = "pipe" /\ Ensure(c, fr, Parent(call.path))
    BY <1>5, <1>6, <1>7, <2>1, <2>4, EnsureLands
  <2>5. \/ call.op = "mkdir" /\ ~call.flag /\ call.path # << >> /\ Goto(c, "parent", fr)
        \/ call.op = "mkdir" /\ Ensure(c, fr, call.path)
        \/ call.op = "pipe" /\ Ensure(c, fr, Parent(call.path))
    <3>1. CASE call.op = "pipe"
      BY <1>2, <1>4, <3>1 DEF Begin
    <3>2. CASE call.op = "mkdir" /\ ~call.flag /\ Len(call.path) > 1
      <4>1. call.path # << >>
        BY <3>2
      <4> QED
        BY <1>2, <1>4, <3>2, <4>1 DEF Begin
    <3>3. CASE call.op = "mkdir" /\ (call.flag \/ Len(call.path) <= 1)
      <4>1. ~(~call.flag /\ Len(call.path) > 1)
        BY <1>7, <3>3, PathSeq
      <4> QED
        BY <1>2, <1>4, <3>3, <4>1 DEF Begin
    <3>4. Len(call.path) > 1 \/ Len(call.path) <= 1
      BY <1>7, PathSeq
    <3> QED
      BY <1>8, <3>1, <3>2, <3>3, <3>4
  <2> QED
    BY <2>2, <2>3, <2>4, <2>5
<1>9. CASE call.op = "rename" /\ call.path = call.dst
  <2>1. PICK nx : nx = [fr EXCEPT !.out = "true"]
    OBVIOUS
  <2>2. Goto(c, "idle", nx)
    BY <1>2, <1>4, <1>9, <2>1 DEF Begin
  <2>3. /\ nx \in Frame /\ nx.call = fr.call /\ nx.goal = fr.goal /\ nx.k = fr.k /\ nx.got = fr.got
        /\ nx.copydir = fr.copydir /\ nx.size = fr.size
    BY <1>5, <2>1, EndFrame
  <2> QED
    BY <1>5, <1>6, <2>2, <2>3, EndLands
<1>10. CASE \/ call.op \in {"cp", "mv", "get", "ls"}
            \/ call.op = "rename" /\ call.path # call.dst
  <2>1. PICK label : label = CASE call.op = "cp" -> "info" [] call.op = "rename" -> "mv_isdir"
                               [] call.op = "mv" -> "mv_exists" [] call.op = "get" -> "get_info"
                               [] call.op = "ls" -> "ls_exists"
    OBVIOUS
  <2>2. Goto(c, label, fr)
    <3>1. CASE call.op = "cp"
      BY <1>2, <1>4, <1>10, <2>1, <3>1 DEF Begin
    <3>5. CASE call.op = "rename"
      BY <1>2, <1>4, <1>10, <2>1, <3>5 DEF Begin
    <3>2. CASE call.op = "mv"
      BY <1>2, <1>4, <2>1, <3>2 DEF Begin, Copies
    <3>3. CASE call.op = "get"
      BY <1>2, <1>4, <2>1, <3>3 DEF Begin, Copies
    <3>4. CASE call.op = "ls"
      BY <1>2, <1>4, <2>1, <3>4 DEF Begin, Copies
    <3> QED
      BY <1>10, <3>1, <3>2, <3>3, <3>4, <3>5
  <2>3. label \in Asking \cap Labels
    BY <1>10, <2>1 DEF Asking, Labels, Copies
  <2>4. Fits(label, fr)
    <3>1. call.op = "rename" /\ call.path # << >> => Into(call.path, call.dst) \in Path
      BY <1>10, FsAssumption
    <3> QED
      BY <1>5, <1>10, <2>1, <3>1 DEF Fits, Local, Looping, Putting, Removing, Copies
  <2>5. label = "info" => fr.call.op # "rename"
    BY <1>5, <1>10, <2>1
  <2> QED
    BY <1>5, <1>6, <2>2, <2>3, <2>4, <2>5, AskingKnows, GotoLands
<1>11. CASE call.op = "rm" /\ call.flag
  <2>1. PICK nx : nx = [fr EXCEPT !.todo = {}]
    OBVIOUS
  <2>2. Goto(c, "walk", nx)
    BY <1>2, <1>4, <1>11, <2>1 DEF Begin
  <2>3. /\ nx \in Frame /\ nx.call = call /\ nx.goal = fr.goal /\ nx.k = fr.k /\ nx.got = fr.got
        /\ nx.copydir = fr.copydir /\ nx.size = fr.size /\ nx.todo = {} /\ nx.ok = fr.ok
        /\ nx.dirs = {call.path}
    BY <1>5, <2>1 DEF Frame
  <2>4. Fits("walk", nx)
    BY <1>5, <1>11, <2>3 DEF Fits, Local, Looping, Putting, Removing, Copies
  <2>5. KnowsRemoved(c, "walk", nx)'
    BY <2>3 DEF KnowsRemoved, Removing
  <2>6. KnowsChain(c, "walk", nx)' /\ KnowsSource(c, "walk", nx)' /\ KnowsRead(c, "walk", nx)'
    BY DEF KnowsChain, KnowsSource, KnowsRead, Looping, Putting, Removing
  <2> QED
    BY <1>6, <2>2, <2>3, <2>4, <2>5, <2>6, GotoLands DEF Knows, Labels
<1>12. CASE call.op = "rm" /\ ~call.flag
  <2>1. Goto(c, "rm_info", fr)
    BY <1>2, <1>4, <1>12 DEF Begin
  <2>2. Fits("rm_info", fr)
    BY <1>5, <1>12 DEF Fits, Local, Looping, Putting, Removing, Copies
  <2>3. KnowsRemoved(c, "rm_info", fr)'
    BY <1>5, <1>12 DEF KnowsRemoved, Removing
  <2>4. /\ KnowsChain(c, "rm_info", fr)' /\ KnowsSource(c, "rm_info", fr)'
        /\ KnowsRead(c, "rm_info", fr)'
    BY <1>5, <1>12 DEF KnowsChain, KnowsSource, KnowsRead, Looping, Putting, Copies
  <2> QED
    BY <1>5, <1>6, <2>1, <2>2, <2>3, <2>4, GotoLands DEF Knows, Labels
<1> QED
  BY <1>7, <1>8, <1>9, <1>10, <1>11, <1>12 DEF Ops

LEMMA NeedParentStep == ASSUME FsInv, NEW c \in Client, NeedParent(c) PROVE Moves(c) /\ Lands(c)
<1>1. pc[c] = "parent" /\ Same
  BY DEF NeedParent
<1>2. Moves(c)
  BY <1>1, SameMoves
<1>3. PICK fr : fr = g[c]
  OBVIOUS
<1>4. /\ fr \in Frame /\ fr.call.op = "mkdir" /\ fr.got = << >>
      /\ fr.copydir => fr.call.op \in Copies
      /\ fr.call.path \in Path \cup {<< >>}
  BY <1>1, <1>3, FrameFacts, FramePaths DEF Fits, Local
<1>5. CASE Exists(Parent(Path1(c)))
  <2>1. Ensure(c, fr, fr.call.path)
    BY <1>3, <1>5 DEF NeedParent, Path1
  <2>2. SourceRead(c, fr)'
    BY <1>4 DEF SourceRead, Copies
  <2> QED
    BY <1>2, <1>4, <2>1, <2>2, EnsureLands
<1>6. CASE ~Exists(Parent(Path1(c)))
  BY <1>2, <1>6, ReturnLands DEF NeedParent, Raise
<1> QED
  BY <1>5, <1>6

LEMMA ResolveStep == ASSUME FsInv, NEW c \in Client, Resolve(c) PROVE Moves(c) /\ Lands(c)
<1>1. pc[c] \in {"mv_isdir", "mv_into"} /\ Same
  BY DEF Resolve
<1>2. /\ Moves(c) /\ Others(c)' = Others(c) /\ Meddled(c)' = Meddled(c)
      /\ \A p : IsDir(p)' <=> IsDir(p)
  BY <1>1, SameMoves
<1>3. PICK fr : fr = g[c]
  OBVIOUS
<1>4. /\ fr \in Frame /\ Local(pc[c], fr) /\ KnowsSource(c, pc[c], fr)
      /\ fr.k <= Len(fr.goal) /\ Len(fr.got) <= fr.size
  BY <1>3, FrameFacts DEF Fits, Knows
<1>5. /\ fr.call.op = "rename" /\ ~fr.copydir /\ fr.got = << >>
      /\ fr.call.path # << >> => Into(fr.call.path, fr.call.dst) \in Path
  BY <1>1, <1>4 DEF Local
<1>6. PICK p, q \in Path \cup {<< >>} : p = fr.call.path /\ q = fr.call.dst /\ p = Path1(c)
  BY <1>3, <1>4, FramePaths DEF Path1
<1>7. CASE pc[c] = "mv_isdir" /\ IsDir(p)
  <2>1. PICK nx : nx = [fr EXCEPT !.copydir = TRUE]
    OBVIOUS
  <2>2. Goto(c, "rm_info", nx)
    BY <1>3, <1>6, <1>7, <2>1 DEF Resolve
  <2>3. /\ nx \in Frame /\ nx.call = fr.call /\ nx.goal = fr.goal /\ nx.k = fr.k /\ nx.got = fr.got
        /\ nx.size = fr.size /\ nx.copydir /\ nx.todo = fr.todo
    BY <1>4, <2>1 DEF Frame
  <2>4. fr.todo = {fr.call.path}
    BY <1>4, <1>7 DEF Local
  <2>5. Fits("rm_info", nx)
    BY <1>4, <1>5, <2>3, <2>4 DEF Fits, Local, Looping, Putting, Removing, Copies
  <2>6. Knows(c, "rm_info", nx)'
    BY <1>2, <1>5, <1>6, <1>7, <2>3
       DEF Knows, KnowsChain, KnowsSource, KnowsRemoved, KnowsRead, Looping, Putting
  <2> QED
    BY <1>2, <2>2, <2>3, <2>5, <2>6, GotoLands DEF Labels
<1>8. CASE pc[c] = "mv_isdir" /\ ~IsDir(p)
  <2>1. Await(c, "mv_into")
    BY <1>6, <1>8 DEF Resolve
  <2>2. p # << >>
    BY <1>8, AtPath DEF IsDir, Dir
  <2>3. Local("mv_into", fr)
    BY <1>4, <1>5, <1>6, <2>2 DEF Local, Looping, Putting, Removing
  <2>4. Knows(c, "mv_into", fr)'
    BY <1>2, <1>5, <1>6, <1>8
       DEF Knows, KnowsChain, KnowsSource, KnowsRemoved, KnowsRead, Looping, Putting, Removing
  <2> QED
    BY <1>2, <1>3, <2>1, <2>3, <2>4, AwaitLands DEF Labels
<1>9. ASSUME pc[c] = "mv_into", NEW nx \in Frame, nx.got = fr.got, nx.size = fr.size, nx.k = fr.k,
             nx.goal = fr.goal, nx.copydir = fr.copydir, nx.call.op = "rename", nx.call.path = p,
             Goto(c, "info", nx)
      PROVE  Lands(c)
  <2>1. Fits("info", nx)
    BY <1>4, <1>5, <1>9 DEF Fits, Local, Looping, Putting, Removing, Copies
  <2>2. Meddled(c) = {} => ~IsDir(p)
    BY <1>4, <1>5, <1>6, <1>9 DEF KnowsSource, Copies
  <2>3. Knows(c, "info", nx)'
    BY <1>2, <1>9, <2>2
       DEF Knows, KnowsChain, KnowsSource, KnowsRemoved, KnowsRead, Looping, Putting, Removing
  <2> QED
    BY <1>9, <2>1, <2>3, GotoLands DEF Labels
<1>10. CASE pc[c] = "mv_into" /\ IsDir(q)
  <2>1. PICK dst : dst = Into(p, q)
    OBVIOUS
  <2>2. PICK nx : nx = [fr EXCEPT !.call.dst = dst]
    OBVIOUS
  <2>3. Goto(c, "info", nx)
    BY <1>3, <1>6, <1>10, <2>1, <2>2 DEF Resolve
  <2>4. dst \in Path
    BY <1>4, <1>5, <1>6, <1>10, <2>1 DEF Local
  <2>5. PICK call : call = [fr.call EXCEPT !.dst = dst]
    OBVIOUS
  <2>6. call \in Call /\ call.op = "rename" /\ call.path = p
    BY <1>4, <1>5, <1>6, <2>4, <2>5, FramePaths DEF Call
  <2>7. nx = [fr EXCEPT !.call = call]
    BY <2>2, <2>5
  <2>8. /\ nx \in Frame /\ nx.call = call /\ nx.goal = fr.goal /\ nx.k = fr.k /\ nx.got = fr.got
        /\ nx.size = fr.size /\ nx.copydir = fr.copydir
    BY <1>4, <2>6, <2>7 DEF Frame
  <2> QED
    BY <1>2, <1>9, <1>10, <2>3, <2>6, <2>8
<1>11. CASE pc[c] = "mv_into" /\ ~IsDir(q)
  <2>1. Goto(c, "info", fr)
    BY <1>3, <1>6, <1>11 DEF Resolve, Await
  <2> QED
    BY <1>2, <1>4, <1>5, <1>6, <1>9, <1>11, <2>1
<1> QED
  BY <1>1, <1>7, <1>8, <1>10, <1>11

LEMMA CopyInfoStep == ASSUME FsInv, NEW c \in Client, CopyInfo(c) PROVE Moves(c) /\ Lands(c)
<1>1. pc[c] = "info" /\ Same
  BY DEF CopyInfo
<1>2. /\ Moves(c) /\ Others(c)' = Others(c) /\ Meddled(c)' = Meddled(c)
      /\ \A p : (IsDir(p)' <=> IsDir(p)) /\ (IsFile(p)' <=> IsFile(p))
  BY <1>1, SameMoves
<1>3. PICK fr : fr = g[c]
  OBVIOUS
<1>4. /\ fr \in Frame /\ fr.call.op \in Copies /\ fr.got = << >> /\ ~fr.copydir
      /\ Local("info", fr) /\ fr.k <= Len(fr.goal) /\ Len(fr.got) <= fr.size
      /\ fr.call.path \in Path \cup {<< >>} /\ Path1(c) = fr.call.path
      /\ Parent(fr.call.dst) \in Path \cup {<< >>}
      /\ KnowsSource(c, "info", fr)
  BY <1>1, <1>3, FrameFacts, FramePaths, ParentPath DEF Fits, Local, Path1, Knows
<1>5. PICK p \in Path \cup {<< >>} : p = fr.call.path
  BY <1>4
<1>6. /\ Exists(p) <=> IsDir(p) \/ IsFile(p)
      /\ ~(IsDir(p) /\ IsFile(p))
  BY FrameFacts, EntryFacts
<1>7. CASE ~Exists(p)
  <2>1. Raise(c)
    BY <1>4, <1>5, <1>6, <1>7 DEF CopyInfo
  <2> QED
    BY <1>2, <2>1, ReturnLands DEF Raise
<1>8. CASE IsDir(p)
  <2>1. PICK nx : nx = [fr EXCEPT !.copydir = TRUE]
    OBVIOUS
  <2>2. Ensure(c, nx, Parent(fr.call.dst))
    BY <1>3, <1>4, <1>5, <1>6, <1>8, <2>1 DEF CopyInfo
  <2>3. nx \in Frame /\ nx.call = fr.call /\ nx.got = fr.got /\ nx.copydir
    BY <1>4, <2>1 DEF Frame
  <2>4. SourceRead(c, nx)'
    <3>1. fr.call.op = "rename" => Meddled(c) # {}
      BY <1>4, <1>5, <1>8 DEF KnowsSource
    <3> QED
      BY <1>2, <1>5, <1>8, <2>3, <3>1 DEF SourceRead
  <2> QED
    BY <1>2, <1>4, <2>2, <2>3, <2>4, EnsureLands
<1>9. CASE IsFile(p)
  <2>1. Await(c, "read")
    BY <1>4, <1>5, <1>6, <1>9 DEF CopyInfo
  <2>2. Local("read", fr)
    BY <1>4 DEF Local, Looping, Putting, Removing
  <2>3. Knows(c, "read", fr)'
    BY <1>2, <1>4, <1>5, <1>9
       DEF Knows, KnowsChain, KnowsSource, KnowsRemoved, KnowsRead, Looping, Putting, Removing
  <2> QED
    BY <1>2, <1>3, <2>1, <2>2, <2>3, AwaitLands DEF Labels
<1> QED
  BY <1>6, <1>7, <1>8, <1>9

LEMMA CopyReadStep == ASSUME FsInv, NEW c \in Client, CopyRead(c) PROVE Moves(c) /\ Lands(c)
<1>1. pc[c] = "read" /\ Same
  BY DEF CopyRead
<1>2. Moves(c) /\ \A p : At(p)' = At(p)
  BY <1>1, SameMoves
<1>3. PICK fr : fr = g[c]
  OBVIOUS
<1>4. /\ fr \in Frame /\ fr.call.op \in Copies /\ fr.got = << >> /\ ~fr.copydir
      /\ fr.call.path \in Path \cup {<< >>} /\ Path1(c) = fr.call.path
      /\ Parent(fr.call.dst) \in Path \cup {<< >>}
  BY <1>1, <1>3, FrameFacts, FramePaths, ParentPath DEF Fits, Local, Path1
<1>5. PICK p \in Path \cup {<< >>} : p = fr.call.path
  BY <1>4
<1>6. CASE IsFile(p)
  <2>1. PICK d \in Seq(Nat) : d = At(p).data /\ At(p) = File(d)
    BY <1>6, FrameFacts, EntryFacts
  <2>2. PICK nx : nx = [fr EXCEPT !.data = d]
    OBVIOUS
  <2>3. Ensure(c, nx, Parent(fr.call.dst))
    BY <1>3, <1>4, <1>5, <1>6, <2>1, <2>2 DEF CopyRead
  <2>4. nx \in Frame /\ nx.call = fr.call /\ nx.got = fr.got /\ nx.data = d /\ ~nx.copydir
    BY <1>4, <2>2 DEF Frame
  <2>5. SourceRead(c, nx)'
    BY <1>2, <1>5, <2>1, <2>4 DEF SourceRead
  <2> QED
    BY <1>2, <1>4, <2>3, <2>4, <2>5, EnsureLands
<1>7. CASE ~IsFile(p)
  BY <1>2, <1>4, <1>5, <1>7, ReturnLands DEF CopyRead, Raise
<1> QED
  BY <1>6, <1>7

-----------------------------------------------------------------------------
(* Writing *)

LEMMA PutFacts ==
    ASSUME FsInv, NEW c \in Client, NEW fr, fr = g[c], pc[c] \in Putting
    PROVE  /\ fr \in Frame /\ fr.call.op \in {"pipe"} \cup Copies /\ ~fr.copydir
           /\ Aimed(fr) /\ fr.k = Len(fr.goal) /\ fr.got = << >>
                /\ Target(c) \in Path \cup {<< >>} /\ fr.goal = Parent(Target(c))
           /\ Target(c) = IF fr.call.op = "pipe" THEN fr.call.path ELSE fr.call.dst
           /\ KnowsChain(c, pc[c], fr) /\ SourceRead(c, fr)
           /\ Others(c) = {} => IsDir(Parent(Target(c)))
<1>1. /\ fr \in Frame /\ Local(pc[c], fr) /\ KnowsChain(c, pc[c], fr) /\ KnowsSource(c, pc[c], fr)
  BY FrameFacts DEF Knows, Fits
<1>2. /\ fr.call.op \in {"pipe"} \cup Copies /\ ~fr.copydir /\ Aimed(fr)
      /\ fr.k = Len(fr.goal) /\ fr.got = << >>
  BY <1>1 DEF Local, Putting
<1>3. Target(c) = IF fr.call.op = "pipe" THEN fr.call.path ELSE fr.call.dst
  BY DEF Target, Op, Path1
<1>4. Target(c) \in Path \cup {<< >>}
  BY <1>1, <1>3, FramePaths
<1>5. fr.goal = Parent(Target(c))
  BY <1>2, <1>3 DEF Aimed, Copies
<1>6. SourceRead(c, fr)
  BY <1>1, <1>2 DEF KnowsSource, SourceRead, Putting
<1>7. ASSUME Others(c) = {} PROVE IsDir(Parent(Target(c)))
  <2>1. PICK r \in Path \cup {<< >>} : r = fr.goal
    BY <1>1, FramePaths
  <2>2. CASE r = << >>
    BY <1>5, <2>1, <2>2, AtPath DEF IsDir, Dir
  <2>3. CASE r \in Path
    <3>1. Len(r) \in 1 .. Len(r) /\ Prefix(fr, Len(r)) = r
      BY <2>1, <2>3, PathSeq, SubPath DEF Prefix
    <3>2. tree[r] = Dir
      BY <1>1, <1>7, <2>1, <3>1 DEF KnowsChain
    <3> QED
      BY <1>5, <2>1, <2>3, <3>2, AtPath DEF IsDir, Dir
  <2> QED
    BY <2>1, <2>2, <2>3
<1> QED
  BY <1>1, <1>2, <1>3, <1>4, <1>5, <1>6, <1>7

LEMMA PreflightStep == ASSUME FsInv, NEW c \in Client, Preflight(c) PROVE Moves(c) /\ Lands(c)
<1>1. pc[c] = "preflight" /\ pc[c] \in Putting /\ Same
  BY DEF Preflight, Putting
<1>2. Moves(c) /\ tree' = tree /\ Others(c)' = Others(c)
  BY <1>1, SameMoves
<1>3. PICK fr : fr = g[c]
  OBVIOUS
<1>4. fr \in Frame /\ Local("preflight", fr) /\ KnowsChain(c, "preflight", fr) /\ fr.call.op = "pipe"
  BY <1>1, <1>3, FrameFacts DEF Fits, Knows, Local
<1>5. CASE Exists(Path1(c))
  BY <1>2, <1>5, ReturnLands DEF Preflight, Raise
<1>6. CASE ~Exists(Path1(c))
  <2>1. Local("write", fr)
    BY <1>4 DEF Local, Looping, Putting, Removing
  <2>2. KnowsChain(c, "write", fr)'
    BY <1>2, <1>4 DEF KnowsChain, Looping, Putting
  <2>3. KnowsSource(c, "write", fr)' /\ KnowsRemoved(c, "write", fr)' /\ KnowsRead(c, "write", fr)'
    BY <1>4 DEF KnowsSource, KnowsRemoved, KnowsRead, Copies
  <2> QED
    BY <1>2, <1>3, <1>6, <2>1, <2>2, <2>3, AwaitLands DEF Preflight, Knows, Labels
<1> QED
  BY <1>5, <1>6

LEMMA WriteStep == ASSUME FsInv, NEW c \in Client, Write(c) PROVE Moves(c) /\ Lands(c)
<1>1. pc[c] = "write" /\ pc[c] \in Putting
  BY DEF Write, Putting
<1>2. PICK fr : fr = g[c]
  OBVIOUS
<1>3. PICK p \in Path \cup {<< >>} : p = Target(c)
  BY <1>1, PutFacts
<1>4. /\ fr \in Frame /\ fr.call.op \in {"pipe"} \cup Copies /\ ~fr.copydir
      /\ fr.k = Len(fr.goal) /\ fr.got = << >>
      /\ p = IF fr.call.op = "pipe" THEN fr.call.path ELSE fr.call.dst
      /\ SourceRead(c, fr)
  BY <1>1, <1>2, <1>3, PutFacts
<1>5. PICK excl \in BOOLEAN : excl = (Exclusive(g[c]) /\ ~generic)
  <2>1. (Exclusive(g[c]) /\ ~generic) \in BOOLEAN
    OBVIOUS
  <2> QED
    BY <2>1
<1>6. CASE CanPut(p, excl)
  <2>1. PICK d \in Seq(Nat) : d = fr.data
    BY <1>4 DEF Frame
  <2>2. PICK t : t = [tree EXCEPT ![p] = File(d)]
    OBVIOUS
  <2>3. Change(c, t) /\ Copied(c, fr)
    BY <1>2, <1>3, <1>5, <1>6, <2>1, <2>2 DEF Write
  <2>4. Rooted(t)
    BY <1>6, <2>2, PutTree, FrameFacts
  <2>5. Moves(c) /\ tree' = t /\ Others(c)' = Others(c)
    BY <2>3, <2>4, ChangeMoves
  <2>6. p \in Path /\ tree \in [Path -> Entry]
    BY <1>6, FrameFacts DEF CanPut, TypeOK
  <2>7. ASSUME fr.call.op = "rename", {fr.call.path, fr.call.dst} \cap Others(c)' = {}
        PROVE  At(fr.call.path)' = File(fr.data) /\ At(fr.call.dst)' = File(fr.data)
    <3>1. PICK q \in Path \cup {<< >>} : q = fr.call.path /\ fr.call.dst = p
      BY <1>4, <2>7, FramePaths
    <3>2. At(q) = File(fr.data)
      BY <1>4, <2>5, <2>7, <3>1 DEF SourceRead, Copies
    <3>3. At(p)' = File(fr.data)
      <4>1. tree'[p] = File(fr.data) /\ p # << >>
        BY <2>1, <2>2, <2>5, <2>6, PathAssumption
      <4> QED
        BY <4>1 DEF At
    <3>4. q # p => At(q)' = At(q)
      BY <2>2, <2>5, <2>6, <3>1 DEF At
    <3> QED
      BY <3>1, <3>2, <3>3, <3>4
  <2> QED
    BY <1>4, <2>3, <2>5, <2>7, CopiedLands
<1>7. CASE ~CanPut(p, excl)
  <2>1. Same /\ Raise(c)
    BY <1>3, <1>5, <1>7 DEF Write
  <2> QED
    BY <2>1, SameMoves, ReturnLands DEF Raise
<1> QED
  BY <1>6, <1>7

-----------------------------------------------------------------------------
(* Moving and removing *)

LEMMA MoveExistsStep == ASSUME FsInv, NEW c \in Client, MoveExists(c) PROVE Moves(c) /\ Lands(c)
<1>1. pc[c] = "mv_exists" /\ Same
  BY DEF MoveExists
<1>2. Moves(c)
  BY <1>1, SameMoves
<1>3. CASE Exists(Path1(c))
  <2>1. Local("mv", g[c])
    BY <1>1, FrameFacts DEF Fits, Local, Looping, Putting, Removing
  <2> QED
    BY <1>2, <1>3, <2>1, AskingKnows, AwaitLands DEF MoveExists, Asking, Labels
<1>4. CASE ~Exists(Path1(c))
  BY <1>2, <1>4, ReturnLands DEF MoveExists, Raise
<1> QED
  BY <1>3, <1>4

LEMMA MoveStep == ASSUME FsInv, NEW c \in Client, Move(c) PROVE Moves(c) /\ Lands(c)
<1>1. PICK p, q \in Path \cup {<< >>} : p = Path1(c) /\ q = g[c].call.dst
  BY FrameFacts, FramePaths DEF Path1
<1>2. Lands(c)
  BY ReturnLands DEF Move, Return
<1>3. CASE CanMove(p, q)
  <2>1. PICK t : t = [r \in Path |-> MovedEntry(p, q, r)]
    OBVIOUS
  <2>2. Change(c, t)
    BY <1>1, <1>3, <2>1 DEF Move
  <2>3. Rooted(t)
    BY <1>3, <2>1, MovedTree, FrameFacts
  <2> QED
    BY <1>2, <2>2, <2>3, ChangeMoves
<1>4. CASE ~CanMove(p, q)
  BY <1>1, <1>2, <1>4, SameMoves DEF Move
<1> QED
  BY <1>3, <1>4

LEMMA ListStep ==
    ASSUME FsInv, NEW c \in Client, Walk(c), g[c].dirs # {}
    PROVE  Moves(c) /\ Lands(c)
<1>1. pc[c] = "walk" /\ Same
  BY DEF Walk
<1>2. /\ Moves(c) /\ tree' = tree /\ Meddled(c)' = Meddled(c) /\ TypeOK /\ TreeOK
      /\ \A p : (Exists(p)' <=> Exists(p)) /\ ChildrenOf(p)' = ChildrenOf(p)
  BY <1>1, SameMoves, FrameFacts
<1>3. PICK fr : fr = g[c]
  OBVIOUS
<1>4. /\ fr \in Frame /\ Local("walk", fr) /\ KnowsRemoved(c, "walk", fr)
      /\ fr.k <= Len(fr.goal) /\ Len(fr.got) <= fr.size
      /\ fr.call.path \in Path \cup {<< >>} /\ fr.dirs \subseteq Path \cup {<< >>}
  BY <1>1, <1>3, FrameFacts, FramePaths DEF Fits, Knows, Frame
<1>5. PICK d \in fr.dirs, listed \in {TRUE} \cup (IF touched[c] # {} THEN {FALSE} ELSE {}) :
          Goto(c, "walk",
               [fr EXCEPT !.dirs = (@ \ {d}) \cup {q \in (IF listed /\ IsDir(d) THEN ChildrenOf(d) ELSE {}) : IsDir(q)},
                          !.todo = @ \cup (IF listed /\ IsDir(d) THEN ChildrenOf(d) ELSE {})])
  BY <1>3 DEF Walk
<1>6. PICK found : found = IF listed /\ IsDir(d) THEN ChildrenOf(d) ELSE {}
  OBVIOUS
<1>7. d \in Path \cup {<< >>} /\ found \subseteq Path /\ \A q \in found : Exists(q)
  BY <1>4, <1>6 DEF ChildrenOf
<1>8. Meddled(c) = {} => found = ChildrenOf(d)
  <2> SUFFICES ASSUME Meddled(c) = {} PROVE found = ChildrenOf(d)
    OBVIOUS
  <2>1. touched[c] = {}
    BY DEF Meddled
  <2>2. listed = TRUE
    BY <1>5, <2>1
  <2>3. ~IsDir(d) => ChildrenOf(d) = {}
    BY <1>2, <1>7, ChildFacts
  <2> QED
    BY <1>6, <2>2, <2>3
<1>9. PICK nx : nx = [fr EXCEPT !.dirs = (@ \ {d}) \cup {q \in found : IsDir(q)}, !.todo = @ \cup found]
  OBVIOUS
<1>10. Goto(c, "walk", nx)
  BY <1>5, <1>6, <1>9
<1>11. /\ nx \in Frame /\ nx.call = fr.call /\ nx.goal = fr.goal /\ nx.k = fr.k /\ nx.got = fr.got
       /\ nx.size = fr.size /\ nx.copydir = fr.copydir /\ nx.ok = fr.ok
       /\ nx.dirs = (fr.dirs \ {d}) \cup {q \in found : IsDir(q)} /\ nx.todo = fr.todo \cup found
  BY <1>4, <1>7, <1>9 DEF Frame
<1>12. Fits("walk", nx)
  BY <1>4, <1>7, <1>11 DEF Fits, Local, Looping, Putting, Removing
<1>13. KnowsRemoved(c, "walk", nx)'
  <2> SUFFICES ASSUME fr.call.op = "rm", Meddled(c) = {}
      PROVE  /\ \A p \in nx.todo : Exists(p)
             /\ \A p \in nx.todo \cup {fr.call.path} : p \in nx.dirs \/ ChildrenOf(p) \subseteq nx.todo
    BY <1>2, <1>11 DEF KnowsRemoved, Removing
  <2>1. /\ \A p \in fr.todo : Exists(p)
        /\ \A p \in fr.todo \cup {fr.call.path} : p \in fr.dirs \/ ChildrenOf(p) \subseteq fr.todo
    BY <1>4 DEF KnowsRemoved
  <2>2. \A p \in found : p \in nx.dirs \/ ChildrenOf(p) = {}
    BY <1>2, <1>7, <1>11, ChildFacts
  <2> QED
    BY <1>7, <1>8, <1>11, <2>1, <2>2
<1>14. KnowsChain(c, "walk", nx)' /\ KnowsSource(c, "walk", nx)' /\ KnowsRead(c, "walk", nx)'
  BY DEF KnowsChain, KnowsSource, KnowsRead, Looping, Putting, Removing
<1> QED
  BY <1>2, <1>10, <1>11, <1>12, <1>13, <1>14, GotoLands DEF Knows, Labels

LEMMA ListedStep ==
    ASSUME FsInv, NEW c \in Client, Walk(c), g[c].dirs = {}
    PROVE  Moves(c) /\ Lands(c)
<1>1. pc[c] = "walk" /\ Same
  BY DEF Walk
<1>2. /\ Moves(c) /\ tree' = tree /\ Meddled(c)' = Meddled(c) /\ TypeOK /\ TreeOK
      /\ \A p : (Exists(p)' <=> Exists(p)) /\ ChildrenOf(p)' = ChildrenOf(p)
  BY <1>1, SameMoves, FrameFacts
<1>3. PICK fr : fr = g[c]
  OBVIOUS
<1>4. /\ fr \in Frame /\ Local("walk", fr) /\ KnowsRemoved(c, "walk", fr) /\ fr.dirs = {}
      /\ fr.k <= Len(fr.goal) /\ Len(fr.got) <= fr.size
  BY <1>1, <1>3, FrameFacts DEF Fits, Knows
<1>5. PICK p \in Path \cup {<< >>} : p = fr.call.path /\ p = Path1(c)
  BY <1>3, <1>4, FramePaths DEF Path1
<1>6. PICK all : all = fr.todo \cup (IF Exists(p) THEN {p} ELSE {})
  OBVIOUS
<1>7. CASE all = {}
  <2>1. Raise(c)
    BY <1>3, <1>4, <1>5, <1>6, <1>7 DEF Walk
  <2> QED
    BY <1>2, <2>1, ReturnLands DEF Raise
<1>8. CASE all # {}
  <2>1. PICK nx : nx = [fr EXCEPT !.todo = all]
    OBVIOUS
  <2>2. Goto(c, "rm_info", nx)
    BY <1>3, <1>4, <1>5, <1>6, <1>8, <2>1 DEF Walk
  <2>3. fr.todo \subseteq Path /\ fr.call.op = "rm" /\ fr.call.flag /\ fr.ok
    BY <1>4 DEF Local
  <2>4. /\ nx \in Frame /\ nx.call = fr.call /\ nx.goal = fr.goal /\ nx.k = fr.k /\ nx.got = fr.got
        /\ nx.size = fr.size /\ nx.copydir = fr.copydir /\ nx.ok = fr.ok /\ nx.todo = all
    BY <1>4, <1>5, <1>6, <2>1, <2>3 DEF Frame
  <2>5. Fits("rm_info", nx)
    BY <1>4, <1>5, <1>6, <1>8, <2>3, <2>4, PathAssumption DEF Fits, Local, Looping, Putting, Removing
  <2>6. p \in all \/ Cleared(c, p)'
    <3> SUFFICES ASSUME ~Exists(p) PROVE Cleared(c, p)'
      BY <1>6
    <3>1. \A q \in Path : q = p \/ Below(p, q) => tree[q] = Absent
      BY <1>2, ChildFacts, EntryFacts, AtPath
    <3> QED
      BY <1>2, <3>1 DEF Cleared
  <2>7. Meddled(c) = {} => \A q \in all : Exists(q) /\ ChildrenOf(q) \subseteq all
    BY <1>4, <1>5, <1>6, <2>3 DEF KnowsRemoved
  <2>8. KnowsRemoved(c, "rm_info", nx)'
    BY <1>2, <1>5, <2>3, <2>4, <2>6, <2>7 DEF KnowsRemoved
  <2>9. KnowsChain(c, "rm_info", nx)' /\ KnowsSource(c, "rm_info", nx)' /\ KnowsRead(c, "rm_info", nx)'
    BY <2>3, <2>4 DEF KnowsChain, KnowsSource, KnowsRead, Looping, Putting, Copies
  <2> QED
    BY <1>2, <2>2, <2>4, <2>5, <2>8, <2>9, GotoLands DEF Knows, Labels
<1> QED
  BY <1>7, <1>8

LEMMA WalkStep == ASSUME FsInv, NEW c \in Client, Walk(c) PROVE Moves(c) /\ Lands(c)
BY ListStep, ListedStep

\* The entry to remove next, the deepest of those left.
LEMMA RemovingFacts ==
    ASSUME FsInv, NEW c \in Client, NEW fr, fr = g[c], pc[c] \in Removing
    PROVE  /\ fr \in Frame /\ fr.call.op \in {"rm", "rename"} /\ fr.todo # {} /\ fr.got = << >>
           /\ Local(pc[c], fr) /\ Knows(c, pc[c], fr) /\ Path1(c) = fr.call.path
           /\ fr.k <= Len(fr.goal) /\ Len(fr.got) <= fr.size
           /\ Victim(c) = Deepest(fr.todo) /\ Victim(c) \in fr.todo
           /\ Victim(c) \in Path \cup {<< >>} /\ fr.todo \subseteq Path \cup {<< >>}
           /\ fr.call.path \in Path \cup {<< >>}
           /\ fr.call.op = "rename" \/ ~fr.call.flag => Victim(c) = fr.call.path
<1>1. /\ fr \in Frame /\ Local(pc[c], fr) /\ Knows(c, pc[c], fr)
      /\ fr.k <= Len(fr.goal) /\ Len(fr.got) <= fr.size
  BY FrameFacts DEF Fits
<1>2. /\ fr.call.op \in {"rm", "rename"} /\ fr.todo # {} /\ fr.got = << >>
      /\ fr.call.op = "rename" \/ ~fr.call.flag => fr.todo = {fr.call.path}
  BY <1>1 DEF Local, Removing
<1>3. fr.todo \subseteq Path \cup {<< >>} /\ fr.call.path \in Path \cup {<< >>}
  BY <1>1, FramePaths DEF Frame
<1>4. Victim(c) = Deepest(fr.todo)
  BY DEF Victim, Deepest
<1>5. Victim(c) \in fr.todo
  BY <1>2, <1>3, <1>4, DeepestIn
<1> QED
  BY <1>1, <1>2, <1>3, <1>4, <1>5 DEF Path1

\* The next question about the same entry.
LEMMA RemovingAwait ==
    ASSUME FsInv, NEW c \in Client, pc[c] \in Removing, Same, NEW label \in Removing,
           Await(c, label), Op(c) = "rm" /\ Meddled(c) = {} /\ label # "rm_info" => Exists(Victim(c)),
           label = "rm" => ChildrenOf(Victim(c)) = {}
    PROVE  Moves(c) /\ Lands(c)
<1>1. PICK fr : fr = g[c]
  OBVIOUS
<1>2. /\ fr \in Frame /\ Local(pc[c], fr) /\ Knows(c, pc[c], fr) /\ Victim(c) = Deepest(fr.todo)
      /\ fr.call.op \in {"rm", "rename"} /\ fr.got = << >>
  BY <1>1, RemovingFacts
<1>3. /\ Moves(c) /\ tree' = tree /\ Others(c)' = Others(c) /\ Meddled(c)' = Meddled(c)
      /\ \A p : /\ At(p)' = At(p) /\ ChildrenOf(p)' = ChildrenOf(p)
                /\ (Exists(p)' <=> Exists(p)) /\ (IsDir(p)' <=> IsDir(p))
  BY <1>1, SameMoves
<1>4. Local(label, fr)
  BY <1>2 DEF Local, Looping, Putting, Removing
<1>5. KnowsRemoved(c, label, fr)'
  <2>1. Cleared(c, fr.call.path)' <=> Cleared(c, fr.call.path)
    BY <1>3 DEF Cleared
  <2>2. KnowsRemoved(c, pc[c], fr)
    BY <1>2 DEF Knows
  <2>3. label # "walk"
    BY DEF Removing
  <2>4. fr.call.op = "rm" /\ Meddled(c) = {} /\ label # "rm_info" => Exists(Deepest(fr.todo))
    BY <1>1, <1>2 DEF Op
  <2>5. label = "rm" => ChildrenOf(Deepest(fr.todo)) = {}
    BY <1>2
  <2> QED
    BY <1>2, <1>3, <2>1, <2>2, <2>3, <2>4, <2>5 DEF KnowsRemoved
<1>6. KnowsSource(c, label, fr)'
  <2>1. KnowsSource(c, pc[c], fr)
    BY <1>2 DEF Knows
  <2> QED
    BY <1>3, <2>1 DEF KnowsSource, Looping, Putting, Removing
<1>7. KnowsChain(c, label, fr)' /\ KnowsRead(c, label, fr)'
  BY DEF KnowsChain, KnowsRead, Looping, Putting, Removing
<1> QED
  BY <1>1, <1>3, <1>4, <1>5, <1>6, <1>7, AwaitLands DEF Knows, Removing, Labels

LEMMA RmInfoStep == ASSUME FsInv, NEW c \in Client, RmInfo(c) PROVE Moves(c) /\ Lands(c)
<1>1. pc[c] \in Removing /\ Same
  BY DEF RmInfo, Removing
<1>2. PICK p \in Path \cup {<< >>} : p = Victim(c)
  BY <1>1, RemovingFacts
<1>3. /\ Exists(p) <=> IsDir(p) \/ IsFile(p)
      /\ ~(IsDir(p) /\ IsFile(p))
      /\ ~IsDir(p) => ChildrenOf(p) = {}
  BY FrameFacts, EntryFacts, ChildFacts
<1>4. CASE ~Exists(p)
  <2>1. Raise(c)
    BY <1>2, <1>3, <1>4 DEF RmInfo
  <2> QED
    BY <1>1, <2>1, SameMoves, ReturnLands DEF Raise
<1>5. CASE IsDir(p)
  <2>1. Await(c, "rm_ls")
    BY <1>2, <1>3, <1>5 DEF RmInfo
  <2> QED
    BY <1>1, <1>2, <1>3, <1>5, <2>1, RemovingAwait DEF Removing
<1>6. CASE IsFile(p)
  <2>1. Await(c, "rm")
    BY <1>2, <1>3, <1>6 DEF RmInfo
  <2> QED
    BY <1>1, <1>2, <1>3, <1>6, <2>1, RemovingAwait DEF Removing
<1> QED
  BY <1>3, <1>4, <1>5, <1>6

LEMMA RmListStep == ASSUME FsInv, NEW c \in Client, RmList(c) PROVE Moves(c) /\ Lands(c)
<1>1. pc[c] = "rm_ls" /\ pc[c] \in Removing /\ Same
  BY DEF RmList, Removing
<1>2. CASE ChildrenOf(Victim(c)) = {}
  <2>1. Op(c) = "rm" /\ Meddled(c) = {} => Exists(Victim(c))
    BY <1>1, RemovingFacts DEF Knows, KnowsRemoved, Op
  <2> QED
    BY <1>1, <1>2, <2>1, RemovingAwait DEF RmList, Removing
<1>3. CASE ChildrenOf(Victim(c)) # {}
  BY <1>1, <1>3, SameMoves, ReturnLands DEF RmList, Raise
<1> QED
  BY <1>2, <1>3

\* What Rm does to the tree.
LEMMA RmMoves ==
    ASSUME FsInv, NEW c \in Client, Rm(c), NEW v, v = Victim(c)
    PROVE  /\ Moves(c) /\ Others(c)' = Others(c) /\ Meddled(c)' = Meddled(c)
           /\ \A p \in Path : tree'[p] = IF p = v /\ CanRemove(v) THEN Absent ELSE tree[p]
<1>1. pc[c] \in Removing
  BY DEF Rm, Removing
<1>2. v \in Path \cup {<< >>}
  BY <1>1, RemovingFacts
<1>3. CASE CanRemove(v)
  <2>1. PICK t : t = [tree EXCEPT ![v] = Absent]
    OBVIOUS
  <2>2. Change(c, t)
    BY <1>3, <2>1 DEF Rm
  <2>3. Rooted(t)
    BY <1>2, <1>3, <2>1, RemovedTree, FrameFacts
  <2>4. Moves(c) /\ tree' = t /\ Others(c)' = Others(c) /\ Meddled(c)' = Meddled(c)
    BY <2>2, <2>3, ChangeMoves
  <2>5. v \in Path /\ tree \in [Path -> Entry]
    BY <1>2, <1>3, FrameFacts DEF CanRemove, TypeOK
  <2>6. \A p \in Path : tree'[p] = IF p = v /\ CanRemove(v) THEN Absent ELSE tree[p]
    BY <1>3, <2>1, <2>4, <2>5
  <2> QED
    BY <2>4, <2>6
<1>4. CASE ~CanRemove(v)
  <2>1. Same
    BY <1>4 DEF Rm
  <2> QED
    BY <1>4, <2>1, SameMoves
<1> QED
  BY <1>3, <1>4

\* The path of rm is still to be removed, or all of it is gone.
LEMMA RmClears ==
    ASSUME FsInv, NEW c \in Client, Rm(c), NEW fr, fr = g[c], fr.call.op = "rm",
           NEW v, v = Victim(c), fr.ok, CanRemove(v)
    PROVE  fr.call.path \in fr.todo \ {v} \/ Cleared(c, fr.call.path)'
<1>1. pc[c] \in Removing
  BY DEF Rm, Removing
<1>2. v \in Path \cup {<< >>} /\ KnowsRemoved(c, pc[c], fr) /\ TypeOK /\ TreeOK
  BY <1>1, RemovingFacts, FrameFacts DEF Knows
<1>3. /\ Meddled(c)' = Meddled(c)
      /\ \A p \in Path : tree'[p] = IF p = v THEN Absent ELSE tree[p]
  BY RmMoves
<1>4. PICK path \in Path \cup {<< >>} : path = fr.call.path
  BY <1>1, RemovingFacts
<1>5. path \in fr.todo \/ Cleared(c, path)
  BY <1>1, <1>2, <1>4 DEF KnowsRemoved
<1>6. CASE path = v
  <2>1. \A q \in Path : Below(v, q) => tree[q] = Absent
    BY <1>2, ChildFacts, EntryFacts, AtPath DEF CanRemove
  <2> QED
    BY <1>3, <1>4, <1>6, <2>1 DEF Cleared
<1>7. CASE path # v /\ Cleared(c, path)
  BY <1>3, <1>4, <1>7 DEF Cleared
<1> QED
  BY <1>4, <1>5, <1>6, <1>7

\* Undisturbed, rm removes what it comes to, the root excepted.
LEMMA RmSucceeds ==
    ASSUME FsInv, NEW c \in Client, pc[c] = "rm", Op(c) = "rm", Meddled(c) = {}
    PROVE  CanRemove(Victim(c)) \/ Path1(c) = << >>
<1>1. PICK fr : fr = g[c]
  OBVIOUS
<1>2. Local("rm", fr) /\ KnowsRemoved(c, "rm", fr) /\ Victim(c) = Deepest(fr.todo) /\ Victim(c) \in fr.todo
  BY <1>1, RemovingFacts DEF Knows, Removing
<1>3. Exists(Victim(c)) /\ ChildrenOf(Victim(c)) = {}
  BY <1>1, <1>2 DEF KnowsRemoved, Op
<1>4. Victim(c) = << >> => Path1(c) = << >>
  BY <1>1, <1>2 DEF Local, Removing, Path1
<1> QED
  BY <1>3, <1>4 DEF CanRemove

LEMMA RmStep == ASSUME FsInv, NEW c \in Client, Rm(c) PROVE Moves(c) /\ Lands(c)
<1>1. PICK fr, v : fr = g[c] /\ v = Victim(c)
  OBVIOUS
<1>2. pc[c] = "rm" /\ pc[c] \in Removing
  BY DEF Rm, Removing
<1>3. /\ fr \in Frame /\ fr.call.op \in {"rm", "rename"} /\ fr.got = << >>
      /\ Local("rm", fr) /\ Knows(c, "rm", fr) /\ Path1(c) = fr.call.path
      /\ fr.k <= Len(fr.goal) /\ Len(fr.got) <= fr.size /\ v \in fr.todo
  BY <1>1, <1>2, RemovingFacts
<1>4. /\ Moves(c) /\ Meddled(c)' = Meddled(c) /\ TypeOK /\ TreeOK
      /\ \A p \in Path : tree'[p] = IF p = v /\ CanRemove(v) THEN Absent ELSE tree[p]
  BY <1>1, RmMoves, FrameFacts
<1>5. PICK rest : rest = fr.todo \ {v}
  OBVIOUS
<1>6. PICK ok \in BOOLEAN : ok = (fr.ok /\ CanRemove(v))
  <2>1. (fr.ok /\ CanRemove(v)) \in BOOLEAN
    OBVIOUS
  <2> QED
    BY <2>1
<1>7. PICK nx : nx = [fr EXCEPT !.ok = ok]
  OBVIOUS
<1>8. /\ nx \in Frame /\ nx.call = fr.call /\ nx.goal = fr.goal /\ nx.k = fr.k /\ nx.got = fr.got
      /\ nx.size = fr.size /\ nx.copydir = fr.copydir /\ nx.ok = ok /\ nx.todo = fr.todo
  BY <1>3, <1>7 DEF Frame
<1>9. Removed(c, nx)
  BY <1>1, <1>6, <1>7 DEF Rm
<1>10. CASE rest = {}
  <2>1. PICK out : out = IF nx.ok \/ Op(c) = "rename" THEN "true" ELSE "false"
    OBVIOUS
  <2>2. PICK last : last = [nx EXCEPT !.out = out]
    OBVIOUS
  <2>3. Goto(c, "idle", last)
    BY <1>1, <1>5, <1>8, <1>9, <1>10, <2>1, <2>2 DEF Removed
  <2>4. /\ last \in Frame /\ last.call = fr.call /\ last.goal = fr.goal /\ last.k = fr.k
        /\ last.got = fr.got /\ last.size = fr.size /\ last.copydir = fr.copydir
    BY <1>8, <2>1, <2>2, EndFrame
  <2>5. fr.copydir => fr.call.op \in Copies
    BY <1>3 DEF Local
  <2> QED
    BY <1>3, <1>4, <2>3, <2>4, <2>5, EndLands
<1>11. CASE rest # {}
  <2>1. PICK last : last = [nx EXCEPT !.todo = rest]
    OBVIOUS
  <2>2. Goto(c, "rm_info", last)
    BY <1>1, <1>5, <1>8, <1>9, <1>11, <2>1 DEF Removed
  <2>3. /\ last \in Frame /\ last.call = fr.call /\ last.goal = fr.goal /\ last.k = fr.k
        /\ last.got = fr.got /\ last.size = fr.size /\ last.copydir = fr.copydir
        /\ last.ok = ok /\ last.todo = rest
    <3>1. rest \subseteq Path \cup {<< >>}
      BY <1>3, <1>5 DEF Frame
    <3> QED
      BY <1>8, <2>1, <3>1 DEF Frame
  <2>4. fr.call.op = "rm" /\ fr.call.flag
    BY <1>3, <1>5, <1>11 DEF Local, Removing
  <2>5. Fits("rm_info", last)
    BY <1>3, <1>5, <1>11, <2>3, <2>4 DEF Fits, Local, Looping, Putting, Removing
  <2>6. ok => fr.call.path \in rest \/ Cleared(c, fr.call.path)'
    BY <1>1, <1>5, <1>6, <2>4, RmClears
  <2>7. ASSUME Meddled(c) = {}
        PROVE  /\ ok \/ fr.call.path = << >>
               /\ \A p \in rest : Exists(p)' /\ ChildrenOf(p)' \subseteq rest
    <3>1. KnowsRemoved(c, "rm", fr)
      BY <1>3 DEF Knows
    <3>2. /\ fr.ok \/ fr.call.path = << >>
          /\ \A p \in fr.todo : Exists(p) /\ ChildrenOf(p) \subseteq fr.todo
      BY <2>4, <2>7, <3>1 DEF KnowsRemoved, Removing
    <3>3. CanRemove(v) \/ fr.call.path = << >>
      BY <1>1, <1>2, <1>3, <2>4, <2>7, RmSucceeds DEF Op
    <3>4. \A p \in Path \cup {<< >>} : /\ p # v /\ Exists(p) => Exists(p)'
                                        /\ ChildrenOf(p)' \subseteq ChildrenOf(p)
      BY <1>4 DEF Exists, At, ChildrenOf, Absent
    <3>5. CanRemove(v) => \A p : v \notin ChildrenOf(p)'
      BY <1>4, PathAssumption DEF Exists, At, ChildrenOf, Absent
    <3>6. ~CanRemove(v) => \A p : v \notin ChildrenOf(p)
      <4>1. /\ Exists(v) /\ ChildrenOf(v) = {}
        BY <1>1, <1>3, <2>4, <2>7, <3>1, <1>2, RemovingFacts DEF KnowsRemoved
      <4> QED
        BY <4>1, PathAssumption DEF CanRemove, ChildrenOf
    <3>7. rest \subseteq Path \cup {<< >>} /\ rest \subseteq fr.todo /\ v \notin rest
      BY <1>3, <1>5 DEF Frame
    <3> QED
      BY <1>5, <1>6, <3>2, <3>3, <3>4, <3>5, <3>6, <3>7
  <2>8. KnowsRemoved(c, "rm_info", last)'
    BY <1>4, <2>3, <2>4, <2>6, <2>7 DEF KnowsRemoved
  <2>9. KnowsChain(c, "rm_info", last)' /\ KnowsSource(c, "rm_info", last)' /\ KnowsRead(c, "rm_info", last)'
    BY <2>3, <2>4 DEF KnowsChain, KnowsSource, KnowsRead, Looping, Putting, Copies
  <2> QED
    BY <1>4, <2>2, <2>3, <2>5, <2>8, <2>9, GotoLands DEF Knows, Labels
<1> QED
  BY <1>10, <1>11

-----------------------------------------------------------------------------
(* Reading *)

LEMMA PrefixGrows ==
    ASSUME NEW d \in Seq(Nat), NEW n \in Nat, n < Len(d)
    PROVE  SubSeq(d, 1, n) \o <<d[n + 1]>> = SubSeq(d, 1, n + 1) /\ d[n + 1] \in Nat
<1>1. PICK m : m = n + 1
  OBVIOUS
<1>2. 1 \in 1 .. Len(d) /\ m \in 1 .. Len(d) /\ m - 1 = n
  BY <1>1
<1>3. SubSeq(d, 1, m) = SubSeq(d, 1, m - 1) \o <<d[m]>>
  BY <1>2, SubSeqRecursiveSecond
<1>4. d[m] \in Nat
  BY <1>2, LenProperties
<1> QED
  BY <1>1, <1>2, <1>3, <1>4

\* An export whose blocks so far are the beginning of the file goes on or ends.
LEMMA BlocksLands ==
    ASSUME FsInv, NEW c \in Client, NEW fr \in Frame, Blocks(c, fr), fr.call.op = "get",
           fr.k <= Len(fr.goal), Len(fr.got) <= fr.size, ~fr.copydir,
           fr.call.path \notin Others(c)' =>
               /\ IsFile(fr.call.path)' /\ Len(At(fr.call.path)'.data) = fr.size
               /\ fr.got = SubSeq(At(fr.call.path)'.data, 1, Len(fr.got))
    PROVE  Lands(c)
<1>1. CASE Len(fr.got) < fr.size
  <2>1. Goto(c, "range", fr)
    BY <1>1 DEF Blocks
  <2>2. Fits("range", fr)
    BY <1>1 DEF Fits, Local, Looping, Putting, Removing
  <2>3. Knows(c, "range", fr)'
    BY DEF Knows, KnowsChain, KnowsSource, KnowsRemoved, KnowsRead, Looping, Putting, Removing, Copies
  <2> QED
    BY <2>1, <2>2, <2>3, GotoLands DEF Labels
<1>2. CASE ~(Len(fr.got) < fr.size)
  <2>1. PICK nx : nx = [fr EXCEPT !.out = "true"]
    OBVIOUS
  <2>2. Goto(c, "idle", nx)
    BY <1>2, <2>1 DEF Blocks
  <2>3. /\ nx \in Frame /\ nx.call = fr.call /\ nx.goal = fr.goal /\ nx.k = fr.k /\ nx.got = fr.got
        /\ nx.copydir = fr.copydir /\ nx.size = fr.size
    BY <2>1, EndFrame
  <2> QED
    BY <2>2, <2>3, EndLands
<1> QED
  BY <1>1, <1>2

\* What is known of a call that reads.
LEMMA GettingFacts ==
    ASSUME FsInv, NEW c \in Client, NEW fr, fr = g[c], pc[c] \in {"get_info", "range", "whole"}
    PROVE  /\ fr \in Frame /\ fr.call.op = "get" /\ ~fr.copydir
           /\ fr.k <= Len(fr.goal) /\ Len(fr.got) <= fr.size /\ KnowsRead(c, pc[c], fr)
           /\ pc[c] # "range" => fr.got = << >>
           /\ pc[c] = "range" => Len(fr.got) < fr.size
           /\ Len(fr.got) \in Nat /\ fr.size \in Nat /\ fr.got \in Seq(Nat)
           /\ fr.call.path \in Path \cup {<< >>} /\ Path1(c) = fr.call.path
<1>1. /\ fr \in Frame /\ Local(pc[c], fr) /\ Knows(c, pc[c], fr)
      /\ fr.k <= Len(fr.goal) /\ Len(fr.got) <= fr.size
  BY FrameFacts DEF Fits
<1>2. fr.call.op = "get" /\ (pc[c] # "range" => fr.got = << >>) /\ (pc[c] = "range" => Len(fr.got) < fr.size)
  BY <1>1 DEF Local
<1>3. ~fr.copydir
  BY <1>1, <1>2 DEF Local, Copies
<1>4. Len(fr.got) \in Nat /\ fr.size \in Nat /\ fr.got \in Seq(Nat)
  BY <1>1 DEF Frame
<1> QED
  BY <1>1, <1>2, <1>3, <1>4, FramePaths DEF Knows, Path1

LEMMA GetInfoStep == ASSUME FsInv, NEW c \in Client, GetInfo(c) PROVE Moves(c) /\ Lands(c)
<1>1. pc[c] = "get_info" /\ Same
  BY DEF GetInfo
<1>2. Moves(c) /\ \A p : At(p)' = At(p) /\ (IsFile(p)' <=> IsFile(p))
  BY <1>1, SameMoves
<1>3. PICK fr : fr = g[c]
  OBVIOUS
<1>4. PICK p \in Path \cup {<< >>} : p = fr.call.path /\ p = Path1(c)
  BY <1>1, <1>3, GettingFacts
<1>5. /\ fr \in Frame /\ fr.call.op = "get" /\ ~fr.copydir /\ fr.got = << >> /\ fr.k <= Len(fr.goal)
  BY <1>1, <1>3, GettingFacts
<1>6. /\ Exists(p) <=> IsDir(p) \/ IsFile(p)
      /\ ~(IsDir(p) /\ IsFile(p))
      /\ IsFile(p) => At(p).data \in Seq(Nat)
  BY FrameFacts, EntryFacts
<1>7. CASE ~IsFile(p)
  <2>1. End(c, "raised") \/ End(c, "true")
    <3>1. CASE IsDir(p)
      BY <1>4, <1>6, <1>7, <3>1 DEF GetInfo, Return
    <3>2. CASE ~IsDir(p)
      BY <1>4, <1>6, <1>7, <3>2 DEF GetInfo, Raise
    <3> QED
      BY <3>1, <3>2
  <2> QED
    BY <1>2, <2>1, ReturnLands
<1>8. CASE IsFile(p)
  <2>1. PICK d \in Seq(Nat), n \in Nat : d = At(p).data /\ n = Len(d)
    BY <1>6, <1>8
  <2>2. PICK nx : nx = [fr EXCEPT !.size = n]
    OBVIOUS
  <2>3. IF generic THEN Goto(c, "whole", nx) ELSE Blocks(c, nx)
    BY <1>3, <1>4, <1>6, <1>8, <2>1, <2>2 DEF GetInfo
  <2>4. /\ nx \in Frame /\ nx.call = fr.call /\ nx.goal = fr.goal /\ nx.k = fr.k /\ nx.got = << >>
        /\ nx.copydir = fr.copydir /\ nx.size = n /\ Len(nx.got) = 0 /\ Len(nx.got) <= nx.size
    <3>1. /\ nx \in Frame /\ nx.call = fr.call /\ nx.goal = fr.goal /\ nx.k = fr.k
          /\ nx.got = fr.got /\ nx.copydir = fr.copydir /\ nx.size = n
      BY <1>5, <2>2 DEF Frame
    <3> QED
      BY <1>5, <3>1
  <2>5. /\ IsFile(p)' /\ Len(At(p)'.data) = nx.size
        /\ nx.got = SubSeq(At(p)'.data, 1, Len(nx.got))
    <3>1. SubSeq(d, 1, 0) = << >>
      BY SubSeqEmpty
    <3> QED
      BY <1>2, <1>8, <2>1, <2>4, <3>1
  <2>6. CASE Blocks(c, nx)
    BY <1>2, <1>4, <1>5, <2>4, <2>5, <2>6, BlocksLands
  <2>7. CASE Goto(c, "whole", nx)
    <3>1. Fits("whole", nx)
      BY <1>5, <2>4 DEF Fits, Local, Looping, Putting, Removing
    <3>2. Knows(c, "whole", nx)'
      BY <1>4, <1>5, <2>4, <2>5
         DEF Knows, KnowsChain, KnowsSource, KnowsRemoved, KnowsRead, Looping, Putting, Removing, Copies
    <3> QED
      BY <1>2, <2>4, <2>7, <3>1, <3>2, GotoLands DEF Labels
  <2> QED
    BY <2>3, <2>6, <2>7
<1> QED
  BY <1>7, <1>8

\* nx is the frame fr with another block.
Appends(nx, fr, block) == nx = [fr EXCEPT !.got = @ \o block]

LEMMA NextBlock ==
    ASSUME FsInv, NEW c \in Client, pc[c] = "range", NEW fr, fr = g[c],
           NEW p \in Path \cup {<< >>}, p = fr.call.path, IsFile(p), Block(c) # << >>,
           NEW nx, Appends(nx, fr, Block(c))
    PROVE  /\ nx \in Frame /\ nx.call = fr.call /\ nx.goal = fr.goal /\ nx.k = fr.k
           /\ nx.copydir = fr.copydir /\ nx.size = fr.size /\ Len(nx.got) <= nx.size
           /\ p \notin Others(c) => /\ Len(At(p).data) = nx.size
                                    /\ nx.got = SubSeq(At(p).data, 1, Len(nx.got))
<1>1. /\ fr \in Frame /\ KnowsRead(c, "range", fr) /\ Len(fr.got) < fr.size /\ p = Path1(c)
      /\ Len(fr.got) \in Nat /\ fr.size \in Nat /\ fr.got \in Seq(Nat)
  BY GettingFacts
<1>2. PICK d \in Seq(Nat), n \in Nat : d = At(p).data /\ n = Len(fr.got)
  BY <1>1, FrameFacts, EntryFacts
<1>3. n < Len(d) /\ Block(c) = <<d[n + 1]>>
  BY <1>1, <1>2 DEF Block
<1>4. /\ SubSeq(d, 1, n) \o <<d[n + 1]>> = SubSeq(d, 1, n + 1) /\ d[n + 1] \in Nat
  BY <1>3, PrefixGrows
<1>5. PICK got : got = fr.got \o <<d[n + 1]>>
  OBVIOUS
<1>6. got \in Seq(Nat) /\ Len(got) = n + 1
  <2>1. <<d[n + 1]>> \in Seq(Nat) /\ Len(<<d[n + 1]>>) = 1
    BY <1>4
  <2> QED
    BY <1>1, <1>2, <1>5, <2>1, ConcatProperties
<1>7. nx = [fr EXCEPT !.got = got]
  BY <1>3, <1>5 DEF Appends
<1>8. /\ nx \in Frame /\ nx.call = fr.call /\ nx.goal = fr.goal /\ nx.k = fr.k
      /\ nx.copydir = fr.copydir /\ nx.size = fr.size /\ nx.got = got
  BY <1>1, <1>6, <1>7 DEF Frame
<1>9. ASSUME p \notin Others(c)
      PROVE  Len(At(p).data) = nx.size /\ nx.got = SubSeq(At(p).data, 1, Len(nx.got))
  <2>1. Len(d) = fr.size /\ got = SubSeq(d, 1, n + 1)
    BY <1>1, <1>2, <1>4, <1>5, <1>9 DEF KnowsRead
  <2> QED
    BY <1>2, <1>6, <1>8, <2>1
<1>10. Len(nx.got) <= nx.size
  BY <1>1, <1>2, <1>6, <1>8
<1> QED
  BY <1>8, <1>9, <1>10

LEMMA ReadRangeStep == ASSUME FsInv, NEW c \in Client, ReadRange(c) PROVE Moves(c) /\ Lands(c)
<1>1. pc[c] = "range" /\ Same
  BY DEF ReadRange
<1>2. Moves(c) /\ Others(c)' = Others(c) /\ \A p : At(p)' = At(p) /\ (IsFile(p)' <=> IsFile(p))
  BY <1>1, SameMoves
<1>3. PICK fr : fr = g[c]
  OBVIOUS
<1>4. PICK p \in Path \cup {<< >>} : p = fr.call.path /\ p = Path1(c)
  BY <1>1, <1>3, GettingFacts
<1>5. fr.call.op = "get" /\ ~fr.copydir /\ fr.k <= Len(fr.goal)
  BY <1>1, <1>3, GettingFacts
<1>6. CASE IsFile(p) /\ Block(c) # << >>
  <2>1. PICK nx : nx = [fr EXCEPT !.got = @ \o Block(c)]
    OBVIOUS
  <2>2. Blocks(c, nx)
    BY <1>3, <1>4, <1>6, <2>1 DEF ReadRange
  <2>3. /\ nx \in Frame /\ nx.call = fr.call /\ nx.goal = fr.goal /\ nx.k = fr.k
        /\ nx.copydir = fr.copydir /\ nx.size = fr.size /\ Len(nx.got) <= nx.size
        /\ p \notin Others(c) => /\ Len(At(p).data) = nx.size
                                 /\ nx.got = SubSeq(At(p).data, 1, Len(nx.got))
    <3>1. IsFile(p) /\ Block(c) # << >> /\ pc[c] = "range" /\ p = fr.call.path
      BY <1>1, <1>4, <1>6
    <3>2. Appends(nx, fr, Block(c))
      BY <2>1 DEF Appends
    <3> QED
      BY <1>3, <3>1, <3>2, NextBlock
  <2> QED
    BY <1>2, <1>4, <1>5, <1>6, <2>2, <2>3, BlocksLands
<1>7. CASE ~(IsFile(p) /\ Block(c) # << >>)
  BY <1>2, <1>4, <1>7, ReturnLands DEF ReadRange, Raise
<1> QED
  BY <1>6, <1>7

LEMMA WholeStep == ASSUME FsInv, NEW c \in Client, Whole(c) PROVE Moves(c) /\ Lands(c)
<1>1. pc[c] = "whole" /\ Same
  BY DEF Whole
<1>2. Moves(c)
  BY <1>1, SameMoves
<1>3. PICK fr : fr = g[c]
  OBVIOUS
<1>4. PICK p \in Path \cup {<< >>} : p = fr.call.path /\ p = Path1(c)
  BY <1>1, <1>3, GettingFacts
<1>5. fr \in Frame /\ ~fr.copydir /\ fr.k <= Len(fr.goal) /\ fr.size \in Nat
  BY <1>1, <1>3, GettingFacts
<1>6. CASE IsFile(p) /\ Len(At(p).data) = fr.size
  <2>1. PICK d \in Seq(Nat) : d = At(p).data
    BY <1>6, FrameFacts, EntryFacts
  <2>2. PICK nx : nx = [fr EXCEPT !.got = d, !.out = "true"]
    OBVIOUS
  <2>3. Goto(c, "idle", nx)
    BY <1>3, <1>4, <1>6, <2>1, <2>2 DEF Whole
  <2>4. /\ nx \in Frame /\ nx.call = fr.call /\ nx.goal = fr.goal /\ nx.k = fr.k
        /\ nx.copydir = fr.copydir /\ nx.size = fr.size /\ nx.got = d
    BY <1>5, <2>2 DEF Frame
  <2> QED
    BY <1>2, <1>5, <1>6, <2>1, <2>3, <2>4, EndLands
<1>7. CASE ~(IsFile(p) /\ Len(At(p).data) = fr.size)
  BY <1>2, <1>3, <1>4, <1>7, ReturnLands DEF Whole, Raise
<1> QED
  BY <1>6, <1>7

LEMMA ListingLands ==
    ASSUME FsInv, NEW c \in Client, pc[c] \in {"ls_names", "ls_info"}, Same,
           NEW todo, todo \subseteq Path, Goto(c, "ls_info", [g[c] EXCEPT !.todo = todo]),
           Meddled(c) = {} => \A q \in todo : Exists(q)
    PROVE  Moves(c) /\ Lands(c)
<1>1. Moves(c) /\ Meddled(c)' = Meddled(c) /\ \A p : Exists(p)' <=> Exists(p)
  BY SameMoves
<1>2. PICK fr : fr = g[c]
  OBVIOUS
<1>3. /\ fr \in Frame /\ fr.call.op = "ls" /\ ~fr.copydir /\ fr.got = << >>
      /\ fr.k <= Len(fr.goal) /\ Len(fr.got) <= fr.size
  BY <1>2, FrameFacts DEF Fits, Local, Copies
<1>4. PICK nx : nx = [fr EXCEPT !.todo = todo]
  OBVIOUS
<1>5. /\ nx \in Frame /\ nx.call = fr.call /\ nx.goal = fr.goal /\ nx.k = fr.k /\ nx.got = fr.got
      /\ nx.copydir = fr.copydir /\ nx.size = fr.size /\ nx.todo = todo
  BY <1>3, <1>4 DEF Frame
<1>6. Fits("ls_info", nx)
  BY <1>3, <1>5 DEF Fits, Local, Looping, Putting, Removing
<1>7. Knows(c, "ls_info", nx)'
  BY <1>1, <1>3, <1>5
     DEF Knows, KnowsChain, KnowsSource, KnowsRemoved, KnowsRead, Looping, Putting, Removing, Copies
<1> QED
  BY <1>1, <1>2, <1>4, <1>5, <1>6, <1>7, GotoLands DEF Labels

LEMMA LsBeginStep == ASSUME FsInv, NEW c \in Client, LsBegin(c) PROVE Moves(c) /\ Lands(c)
<1>1. Same
  BY DEF LsBegin
<1>2. Moves(c)
  BY <1>1, SameMoves
<1>3. PICK p : p = Path1(c)
  OBVIOUS
<1>4. CASE pc[c] = "ls_exists"
  <2>1. CASE Exists(p)
    <3>1. Local("ls_names", g[c])
      BY <1>4, FrameFacts DEF Fits, Local, Looping, Putting, Removing
    <3> QED
      BY <1>2, <1>3, <1>4, <2>1, <3>1, AskingKnows, AwaitLands DEF LsBegin, Asking, Labels
  <2>2. CASE ~Exists(p)
    BY <1>2, <1>3, <1>4, <2>2, ReturnLands DEF LsBegin, Raise
  <2> QED
    BY <2>1, <2>2
<1>5. CASE pc[c] = "ls_names"
  <2>1. PICK names : names = IF IsDir(p) THEN ChildrenOf(p) ELSE {}
    OBVIOUS
  <2>2. IF names = {} THEN Return(c, TRUE) ELSE Goto(c, "ls_info", [g[c] EXCEPT !.todo = names])
    BY <1>3, <1>5, <2>1 DEF LsBegin
  <2>3. names \subseteq Path /\ \A q \in names : Exists(q)
    BY <2>1 DEF ChildrenOf
  <2> QED
    BY <1>1, <1>2, <1>5, <2>2, <2>3, ReturnLands, ListingLands DEF Return
<1> QED
  BY <1>4, <1>5 DEF LsBegin

LEMMA LsInfoStep == ASSUME FsInv, NEW c \in Client, LsInfo(c) PROVE Moves(c) /\ Lands(c)
<1>1. pc[c] = "ls_info" /\ Same
  BY DEF LsInfo
<1>2. PICK todo : todo = g[c].todo
  OBVIOUS
<1>3. todo \subseteq Path /\ (Meddled(c) = {} => \A q \in todo : Exists(q))
  BY <1>1, <1>2, FrameFacts DEF Fits, Local, Knows, KnowsRead
<1>4. PICK p \in todo : CASE ~Exists(p) -> Raise(c)
                          [] Exists(p) /\ todo = {p} -> Return(c, TRUE)
                          [] OTHER -> Goto(c, "ls_info", [g[c] EXCEPT !.todo = @ \ {p}])
  BY <1>2 DEF LsInfo
<1>5. CASE ~Exists(p) \/ todo = {p}
  <2>1. Raise(c) \/ Return(c, TRUE)
    BY <1>4, <1>5
  <2> QED
    BY <1>1, <2>1, SameMoves, ReturnLands DEF Raise, Return
<1>6. CASE Exists(p) /\ todo # {p}
  <2>1. Goto(c, "ls_info", [g[c] EXCEPT !.todo = todo \ {p}])
    BY <1>2, <1>4, <1>6
  <2> QED
    BY <1>1, <1>3, <2>1, ListingLands
<1> QED
  BY <1>5, <1>6

-----------------------------------------------------------------------------
(* The invariant *)

LEMMA InitInv == ASSUME Init PROVE FsInv
<1>1. PICK fr : fr = Fresh(NoCall, << >>)
  OBVIOUS
<1>2. NoCall \in Call /\ << >> \in Seq(Nat)
  BY EmptySeq DEF NoCall, Call, Ops
<1>3. /\ fr \in Frame /\ fr.k <= Len(fr.goal) /\ Len(fr.got) <= fr.size /\ ~fr.copydir
  BY <1>1, <1>2, FreshFacts
<1>4. TypeOK
  BY <1>1, <1>3, FsAssumption DEF Init, TypeOK, Labels
<1>5. TreeOK
  BY FsAssumption DEF Init, TreeOK
<1>6. Local("idle", fr)
  BY <1>3 DEF Local, Looping, Putting, Removing
<1>7. \A c \in Client : pc[c] = "idle" /\ g[c] = fr
  BY <1>1 DEF Init
<1> QED
  BY <1>4, <1>5, <1>6, <1>7, IdleKnows DEF FsInv

LEMMA StepsLand == ASSUME FsInv, NEW c \in Client, Step(c) PROVE Moves(c) /\ Lands(c)
BY NeedParentStep, AskExistsStep, AskIsDirStep, MakeStep, LostStep, PreflightStep, WriteStep,
   CopyInfoStep, CopyReadStep, MoveExistsStep, MoveStep, WalkStep, RmInfoStep, RmListStep, RmStep,
   GetInfoStep, ReadRangeStep, WholeStep, LsBeginStep, LsInfoStep, ResolveStep, Zenon DEF Step

LEMMA StayInv == ASSUME FsInv, UNCHANGED vars PROVE FsInv'
<1>1. tree' = tree /\ generic' = generic /\ pc' = pc /\ g' = g /\ touched' = touched /\ left' = left
  BY DEF vars
<1>2. TypeOK' /\ TreeOK'
  BY <1>1 DEF FsInv, TypeOK, TreeOK
<1>3. \A c \in Client : Bystands(c)
  BY <1>1 DEF Bystands, Noticed
<1>4. tree' \in [Path -> Entry]
  BY <1>1 DEF FsInv, TypeOK
<1>5. \A c \in Client : Local(pc[c], g[c])' /\ Knows(c, pc[c], g[c])'
  BY <1>3, <1>4, Bystanders
<1> QED
  BY <1>2, <1>5 DEF FsInv

LEMMA NextInv == ASSUME FsInv, [Next]_vars PROVE FsInv'
<1>1. ASSUME NEW c \in Client, Step(c) PROVE FsInv'
  <2>1. Moves(c) /\ Lands(c)
    BY <1>1, StepsLand
  <2>2. generic' \in BOOLEAN /\ left' \in Nat
    BY <1>1, FrameFacts DEF Step, Keep
  <2> QED
    BY <2>1, <2>2, StepInv
<1>2. ASSUME NEW c \in Client, NEW call \in Calls, Begin(c, call) PROVE FsInv'
  BY <1>2, BeginMoves, BeginStep, StepInv
<1>3. CASE UNCHANGED vars
  BY <1>3, StayInv
<1>4. CASE Finished
  BY <1>4, StayInv DEF Finished
<1> QED
  BY <1>1, <1>2, <1>3, <1>4 DEF Next

\* Every operation, between two of its calls, knows what FsInv says it knows:
\* the directories it found or made are there, a source is what was read, what
\* rm has yet to list or to remove holds everything that is left, and an export
\* is a beginning of its file, each unless another client interfered.
THEOREM FsSafe == Spec => []FsInv
<1>1. Init => FsInv
  BY InitInv
<1>2. FsInv /\ [Next]_vars => FsInv'
  BY NextInv
<1> QED
  BY <1>1, <1>2, PTL DEF Spec

\* The tree, the frames and the marks of interference keep their types.
THEOREM FsTyped == Spec => []TypeOK
<1>1. FsInv => TypeOK
  BY DEF FsInv
<1> QED
  BY <1>1, FsSafe, PTL

\* No call of a client leaves an entry anywhere but below directories.
THEOREM FsRooted == Spec => []TreeOK
<1>1. FsInv => TreeOK
  BY DEF FsInv
<1> QED
  BY <1>1, FsSafe, PTL

-----------------------------------------------------------------------------
(* How operations end *)

LEMMA GotoOut ==
    ASSUME FsInv, NEW c \in Client, NEW label, NEW fr, Goto(c, label, fr)
    PROVE  pc'[c] = label /\ g'[c] = fr /\ Out(c) = fr.out
BY DEF Goto, FsInv, TypeOK, Out

LEMMA AwaitOut ==
    ASSUME FsInv, NEW c \in Client, NEW label, Await(c, label)
    PROVE  pc'[c] = label
BY DEF Await, Goto, FsInv, TypeOK

LEMMA EndOut ==
    ASSUME FsInv, NEW c \in Client, NEW out \in {"true", "false", "raised"}, End(c, out)
    PROVE  pc'[c] = "idle" /\ Out(c) = out
<1>1. PICK fr : fr = [g[c] EXCEPT !.out = out]
  OBVIOUS
<1>2. fr.out = out
  <2>1. g[c] \in Frame
    BY FrameFacts
  <2> QED
    BY <1>1, <2>1, EndFrame
<1>3. Goto(c, "idle", fr)
  BY <1>1 DEF End
<1> QED
  BY <1>2, <1>3, GotoOut

\* A loop, and a copy, end with success.
LEMMA CopiedOut ==
    ASSUME FsInv, NEW c \in Client, NEW fr \in Frame, Copied(c, fr), pc'[c] = "idle"
    PROVE  Out(c) = "true"
<1>1. CASE fr.call.op = "rename"
  BY <1>1, GotoOut DEF Copied
<1>2. CASE fr.call.op # "rename"
  <2>1. PICK nx : nx = [fr EXCEPT !.out = "true"]
    OBVIOUS
  <2>2. nx.out = "true"
    BY <2>1, EndFrame
  <2> QED
    BY <1>2, <2>1, <2>2, GotoOut DEF Copied
<1> QED
  BY <1>1, <1>2

LEMMA ComponentOut ==
    ASSUME FsInv, NEW c \in Client, NEW fr \in Frame, Chaining(fr), Component(c, fr), pc'[c] = "idle"
    PROVE  Out(c) = "true" /\ fr.k = Len(fr.goal) /\ (fr.copydir => fr.goal = fr.call.dst)
<1>1. fr.k \in Nat /\ Len(fr.goal) \in Nat /\ fr.k <= Len(fr.goal)
  BY FramePaths, PathSeq DEF Chaining
<1>2. fr.k = Len(fr.goal) /\ Ensured(c, fr)
  <2>1. ~(fr.k < Len(fr.goal))
    <3> SUFFICES ASSUME fr.k < Len(fr.goal) PROVE FALSE
      OBVIOUS
    <3>1. pc'[c] = "exists"
      BY GotoOut DEF Component
    <3> QED
      BY <3>1
  <2> QED
    BY <1>1, <2>1 DEF Component
<1>3. fr.copydir => fr.call.op # "mkdir"
  BY DEF Chaining, Copies
<1>4. CASE fr.call.op = "mkdir"
  <2>1. PICK nx : nx = [fr EXCEPT !.out = "true"]
    OBVIOUS
  <2>2. nx.out = "true"
    BY <2>1, EndFrame
  <2>3. Goto(c, "idle", nx)
    BY <1>2, <1>3, <1>4, <2>1 DEF Ensured
  <2> QED
    BY <1>2, <1>3, <1>4, <2>2, <2>3, GotoOut
<1>5. CASE fr.call.op # "mkdir" /\ fr.copydir /\ fr.goal # fr.call.dst
  <2>1. pc'[c] = "mkdir"
    BY <1>2, <1>5, GotoOut DEF Ensured
  <2> QED
    BY <2>1
<1>6. CASE fr.call.op # "mkdir" /\ fr.copydir /\ fr.goal = fr.call.dst
  <2>1. Copied(c, fr)
    BY <1>2, <1>6 DEF Ensured
  <2> QED
    BY <1>2, <1>6, <2>1, CopiedOut
<1>7. CASE fr.call.op # "mkdir" /\ ~fr.copydir
  <2>1. PICK label : label = IF generic /\ Exclusive(fr) THEN "preflight" ELSE "write"
    OBVIOUS
  <2>2. pc'[c] = label
    BY <1>2, <1>7, <2>1, GotoOut DEF Ensured
  <2> QED
    BY <2>1, <2>2
<1> QED
  BY <1>4, <1>5, <1>6, <1>7

LEMMA EnsureOut ==
    ASSUME FsInv, NEW c \in Client, NEW fr \in Frame, NEW path \in Path \cup {<< >>},
           Ensure(c, fr, path), fr.got = << >>, fr.copydir => fr.call.op \in Copies,
           \/ fr.call.op = "mkdir" /\ path = fr.call.path
           \/ fr.call.op = "pipe" /\ path = Parent(fr.call.path)
           \/ fr.call.op \in Copies /\ path = Parent(fr.call.dst),
           pc'[c] = "idle"
    PROVE  Out(c) = "true" /\ path = << >>
<1>1. PICK nx : nx = [fr EXCEPT !.goal = path, !.k = 0]
  OBVIOUS
<1>2. /\ nx \in Frame /\ nx.goal = path /\ nx.k = 0 /\ nx.call = fr.call /\ nx.got = fr.got
      /\ nx.copydir = fr.copydir
  BY <1>1 DEF Frame
<1>3. Aimed(nx)
  BY <1>2 DEF Aimed, Copies
<1>4. Chaining(nx)
  <2>1. 0 \in 0 .. Len(path)
    BY PathSeq
  <2> QED
    BY <1>2, <1>3, <2>1 DEF Chaining
<1>5. Out(c) = "true" /\ Len(path) = 0
  BY <1>1, <1>2, <1>4, ComponentOut DEF Ensure
<1> QED
  BY <1>5, PathSeq

\* Which call is awaited, by the label.
LEMMA StepLabel ==
    ASSUME NEW c \in Client, Step(c)
    PROVE  \/ pc[c] = "parent" /\ NeedParent(c)
           \/ pc[c] \in Looping /\ (AskExists(c) \/ AskIsDir(c) \/ Make(c) \/ Lost(c))
           \/ pc[c] \in Putting /\ (Preflight(c) \/ Write(c))
           \/ pc[c] \in {"mv_isdir", "mv_into"} /\ Resolve(c)
           \/ pc[c] \in {"info", "read"} /\ (CopyInfo(c) \/ CopyRead(c))
           \/ pc[c] \in {"mv_exists", "mv"} /\ (MoveExists(c) \/ Move(c))
           \/ pc[c] = "walk" /\ Walk(c)
           \/ pc[c] \in Removing /\ (RmInfo(c) \/ RmList(c) \/ Rm(c))
           \/ pc[c] \in {"get_info", "range", "whole"} /\ (GetInfo(c) \/ ReadRange(c) \/ Whole(c))
           \/ pc[c] \in {"ls_exists", "ls_names", "ls_info"} /\ (LsBegin(c) \/ LsInfo(c))
<1>1. NeedParent(c) => pc[c] = "parent"
  BY DEF NeedParent
<1>2. AskExists(c) \/ AskIsDir(c) \/ Make(c) \/ Lost(c) => pc[c] \in Looping
  BY DEF AskExists, AskIsDir, Make, Lost, Looping
<1>3. Preflight(c) \/ Write(c) => pc[c] \in Putting
  BY DEF Preflight, Write, Putting
<1>4. CopyInfo(c) \/ CopyRead(c) => pc[c] \in {"info", "read"}
  BY DEF CopyInfo, CopyRead
<1>5. MoveExists(c) \/ Move(c) => pc[c] \in {"mv_exists", "mv"}
  BY DEF MoveExists, Move
<1>6. Walk(c) => pc[c] = "walk"
  BY DEF Walk
<1>7. RmInfo(c) \/ RmList(c) \/ Rm(c) => pc[c] \in Removing
  BY DEF RmInfo, RmList, Rm, Removing
<1>8. GetInfo(c) \/ ReadRange(c) \/ Whole(c) => pc[c] \in {"get_info", "range", "whole"}
  BY DEF GetInfo, ReadRange, Whole
<1>9. LsBegin(c) \/ LsInfo(c) => pc[c] \in {"ls_exists", "ls_names", "ls_info"}
  BY DEF LsBegin, LsInfo
<1>10. Resolve(c) => pc[c] \in {"mv_isdir", "mv_into"}
  BY DEF Resolve
<1> QED
  BY <1>1, <1>2, <1>3, <1>4, <1>5, <1>6, <1>7, <1>8, <1>9, <1>10, Zenon DEF Step

\* A rename does not end before it has copied anything.
LEMMA ResolveGoesOn ==
    ASSUME FsInv, NEW c \in Client, Resolve(c)
    PROVE  pc'[c] # "idle"
<1>1. PICK label, fr : label \in {"rm_info", "mv_into", "info"} /\ Goto(c, label, fr)
  BY DEF Resolve, Await
<1> QED
  BY <1>1, GotoOut

\* Nobody else ends the operation, and a beginning does not.
LEMMA EndedStep ==
    ASSUME FsInv, [Next]_vars, NEW c \in Client, Ended(c)
    PROVE  Step(c)
<1>1. pc'[c] # pc[c] /\ pc[c] # "idle"
  BY DEF Ended
<1>2. ASSUME NEW d \in Client \ {c}, Step(d) \/ \E call \in Calls : Begin(d, call) PROVE FALSE
  <2>1. Lands(d)
    BY <1>2, StepsLand, BeginStep
  <2> QED
    BY <1>1, <2>1 DEF Lands
<1>3. ~(UNCHANGED vars) /\ ~Finished
  BY <1>1 DEF vars, Finished
<1>4. \A call : ~Begin(c, call)
  BY <1>1 DEF Begin
<1> QED
  BY <1>2, <1>3, <1>4 DEF Next

\* How the loop over the components ends.
LEMMA LoopOut ==
    ASSUME FsInv, NEW c \in Client, AskExists(c) \/ AskIsDir(c) \/ Make(c) \/ Lost(c), Ended(c),
           NEW fr, fr = g[c]
    PROVE  \/ Out(c) = "true" /\ Reached(c, fr)' /\ Others(c)' = Others(c) /\ fr.k = Len(fr.goal)
           \/ Out(c) = "false" /\ Op(c) = "mkdir" /\ pc[c] = "mkdir" /\ ~CanMake(Cur(c))
           \/ Out(c) = "raised" /\ pc[c] \in {"is_dir", "lost_dir"} /\ ~IsDir(Cur(c))
           \/ Out(c) = "raised" /\ pc[c] = "lost" /\ ~Exists(Cur(c))
<1>1. pc'[c] = "idle" /\ pc[c] \in Looping
  BY DEF Ended, AskExists, AskIsDir, Make, Lost, Looping
<1>2. fr \in Frame /\ Chaining(fr) /\ Cur(c) \in Path
  BY <1>1, LoopFacts
<1>3. ASSUME Component(c, g[c]), Others(c)' = Others(c), Meddled(c)' = Meddled(c), tree'[Cur(c)] = Dir,
             tree' = tree \/ (tree' = [tree EXCEPT ![Cur(c)] = Dir] /\ ~Exists(Cur(c)))
      PROVE  Out(c) = "true" /\ Reached(c, fr)' /\ Others(c)' = Others(c) /\ fr.k = Len(fr.goal)
  BY <1>1, <1>2, <1>3, LoopReaches, ComponentOut
<1>4. ASSUME Same, IsDir(Cur(c)), Component(c, g[c])
      PROVE  Out(c) = "true" /\ Reached(c, fr)' /\ Others(c)' = Others(c) /\ fr.k = Len(fr.goal)
  <2>1. tree' = tree /\ Others(c)' = Others(c) /\ Meddled(c)' = Meddled(c)
    BY <1>4, SameMoves
  <2>2. tree'[Cur(c)] = Dir
    BY <1>2, <1>4, <2>1, FrameFacts, EntryFacts, AtPath
  <2> QED
    BY <1>3, <1>4, <2>1, <2>2
<1>5. CASE AskExists(c)
  BY <1>1, <1>5, AwaitOut DEF AskExists
<1>6. CASE AskIsDir(c)
  BY <1>4, <1>6, EndOut DEF AskIsDir, Raise
<1>7. CASE Make(c)
  <2>1. CASE CanMake(Cur(c))
    BY <1>3, <1>7, <2>1, MakeMoves
  <2>2. CASE ~CanMake(Cur(c))
    <3>1. pc[c] = "mkdir" /\ IF Op(c) = "mkdir" THEN Return(c, FALSE) ELSE Await(c, "lost")
      BY <1>7, <2>2 DEF Make
    <3> QED
      BY <1>1, <2>2, <3>1, EndOut, AwaitOut DEF Return
  <2> QED
    BY <2>1, <2>2
<1>8. CASE Lost(c)
  <2>1. CASE pc[c] = "lost"
    BY <1>1, <1>8, <2>1, EndOut, AwaitOut DEF Lost, Raise
  <2>2. CASE pc[c] = "lost_dir"
    <3>1. Same /\ IF IsDir(Cur(c)) THEN Component(c, g[c]) ELSE Raise(c)
      BY <1>8, <2>2 DEF Lost
    <3> QED
      BY <1>4, <2>2, <3>1, EndOut DEF Raise
  <2> QED
    BY <1>8, <2>1, <2>2 DEF Lost
<1> QED
  BY <1>5, <1>6, <1>7, <1>8

\* A walk ends only where there is nothing.
LEMMA WalkOut ==
    ASSUME FsInv, NEW c \in Client, Walk(c), pc'[c] = "idle"
    PROVE  Out(c) = "raised" /\ ~Exists(Path1(c))
<1>1. CASE g[c].dirs # {}
  <2>1. PICK nx : Goto(c, "walk", nx)
    BY <1>1 DEF Walk
  <2> QED
    BY <2>1, GotoOut
<1>2. CASE g[c].dirs = {}
  <2>1. PICK all : all = g[c].todo \cup (IF Exists(Path1(c)) THEN {Path1(c)} ELSE {})
    OBVIOUS
  <2>2. IF all = {} THEN Raise(c) ELSE Goto(c, "rm_info", [g[c] EXCEPT !.todo = all])
    BY <1>2, <2>1 DEF Walk
  <2>3. all = {}
    BY <2>2, GotoOut
  <2> QED
    BY <2>1, <2>2, <2>3, EndOut DEF Raise
<1> QED
  BY <1>1, <1>2

\* How a removal ends.
LEMMA RmOut ==
    ASSUME FsInv, NEW c \in Client, Rm(c), Ended(c), NEW fr, fr = g[c], NEW v, v = Victim(c)
    PROVE  /\ fr.todo \ {v} = {}
           /\ Out(c) = IF (fr.ok /\ CanRemove(v)) \/ Op(c) = "rename" THEN "true" ELSE "false"
<1>1. pc'[c] = "idle" /\ pc[c] \in Removing
  BY DEF Ended, Rm, Removing
<1>2. fr \in Frame
  BY <1>1, RemovingFacts
<1>3. PICK ok \in BOOLEAN : ok = (fr.ok /\ CanRemove(v))
  <2>1. (fr.ok /\ CanRemove(v)) \in BOOLEAN
    OBVIOUS
  <2> QED
    BY <2>1
<1>4. PICK nx : nx = [fr EXCEPT !.ok = ok]
  OBVIOUS
<1>5. nx \in Frame /\ nx.todo = fr.todo /\ nx.ok = ok
  BY <1>2, <1>4 DEF Frame
<1>6. Removed(c, nx)
  BY <1>3, <1>4 DEF Rm
<1>7. fr.todo \ {v} = {}
  <2> SUFFICES ASSUME fr.todo \ {v} # {} PROVE FALSE
    OBVIOUS
  <2>1. Goto(c, "rm_info", [nx EXCEPT !.todo = fr.todo \ {v}])
    BY <1>5, <1>6 DEF Removed
  <2> QED
    BY <1>1, <2>1, GotoOut
<1>8. PICK out : out = IF ok \/ Op(c) = "rename" THEN "true" ELSE "false"
  OBVIOUS
<1>9. PICK last : last = [nx EXCEPT !.out = out]
  OBVIOUS
<1>10. last.out = out
  BY <1>5, <1>8, <1>9, EndFrame
<1>11. Goto(c, "idle", last)
  BY <1>5, <1>6, <1>7, <1>8, <1>9 DEF Removed
<1> QED
  BY <1>3, <1>7, <1>8, <1>10, <1>11, GotoOut

-----------------------------------------------------------------------------
(* What a returned success says *)

LEMMA DoneStep ==
    ASSUME FsInv, NEW c \in Client, Step(c), Ended(c), Out(c) = "true"
    PROVE  /\ Op(c) = "mkdir" \/ (Op(c) = "cp" /\ g[c].copydir) =>
                \A p \in Prefixes(g[c].goal) : tree'[p] = Dir \/ Others(c) # {}
           /\ Op(c) = "rm" =>
                \A p \in Path : p = Path1(c) \/ Below(Path1(c), p) =>
                    tree'[p] = Absent \/ p \in Meddled(c)
<1>1. PICK fr : fr = g[c] /\ fr.call.op = Op(c) /\ fr.call.path = Path1(c)
  BY DEF Op, Path1
<1>2. fr \in Frame /\ Local(pc[c], fr) /\ pc[c] # "idle" /\ pc'[c] = "idle"
  BY <1>1, FrameFacts DEF Fits, Ended
<1>3. ASSUME Op(c) = "mkdir" \/ (Op(c) = "cp" /\ fr.copydir)
      PROVE  \A p \in Prefixes(fr.goal) : tree'[p] = Dir \/ Others(c) # {}
  <2>1. \/ pc[c] = "parent" /\ NeedParent(c)
        \/ pc[c] \in Looping /\ (AskExists(c) \/ AskIsDir(c) \/ Make(c) \/ Lost(c))
    <3>1. pc[c] \notin Putting \cup Removing \cup {"mv_isdir", "mv_into", "info", "read",
               "mv_exists", "mv", "walk",
               "get_info", "range", "whole", "ls_exists", "ls_names", "ls_info"}
      BY <1>1, <1>2, <1>3 DEF Local, Putting, Copies
    <3> QED
      BY <3>1, StepLabel
  <2>2. CASE pc[c] = "parent" /\ NeedParent(c)
    <3>1. fr.call.op = "mkdir" /\ fr.call.path # << >> /\ fr.got = << >>
          /\ (fr.copydir => fr.call.op \in Copies) /\ fr.call.path \in Path \cup {<< >>}
      BY <1>2, <2>2, FramePaths DEF Local
    <3>2. CASE Exists(Parent(Path1(c)))
      <4>1. Ensure(c, fr, fr.call.path)
        BY <1>1, <2>2, <3>2 DEF NeedParent
      <4> QED
        BY <1>2, <3>1, <4>1, EnsureOut
    <3>3. CASE ~Exists(Parent(Path1(c)))
      BY <2>2, <3>3, EndOut DEF NeedParent, Raise
    <3> QED
      BY <3>2, <3>3
  <2>3. CASE pc[c] \in Looping /\ (AskExists(c) \/ AskIsDir(c) \/ Make(c) \/ Lost(c))
    <3>1. Reached(c, fr)' /\ Others(c)' = Others(c) /\ fr.k = Len(fr.goal)
      BY <1>1, <2>3, LoopOut
    <3> QED
      BY <3>1 DEF Reached, Prefixes, Prefix
  <2> QED
    BY <2>1, <2>2, <2>3
<1>4. ASSUME Op(c) = "rm", NEW p \in Path, p = Path1(c) \/ Below(Path1(c), p)
      PROVE  tree'[p] = Absent \/ p \in Meddled(c)
  <2>1. \/ pc[c] = "walk" /\ Walk(c)
        \/ pc[c] \in Removing /\ (RmInfo(c) \/ RmList(c) \/ Rm(c))
    <3>1. pc[c] \notin Looping \cup Putting \cup {"parent", "mv_isdir", "mv_into", "info", "read",
               "mv_exists", "mv",
               "get_info", "range", "whole", "ls_exists", "ls_names", "ls_info"}
      BY <1>1, <1>2, <1>4 DEF Local, Copies
    <3> QED
      BY <3>1, StepLabel
  <2>2. CASE Rm(c)
    <3>1. PICK v : v = Victim(c)
      OBVIOUS
    <3>2. fr.todo \ {v} = {} /\ fr.ok /\ CanRemove(v)
      BY <1>1, <1>4, <2>2, <3>1, RmOut
    <3>3. Cleared(c, fr.call.path)' /\ Meddled(c)' = Meddled(c)
      BY <1>1, <1>4, <2>2, <3>1, <3>2, RmClears, RmMoves
    <3> QED
      BY <1>1, <1>4, <3>3 DEF Cleared
  <2>3. CASE Walk(c)
    BY <1>2, <2>3, WalkOut
  <2>4. CASE RmInfo(c)
    <3>1. Raise(c) \/ Await(c, "rm_ls") \/ Await(c, "rm")
      <4>1. PICK q \in Path \cup {<< >>} : q = Victim(c)
        BY <2>1, <2>4, RemovingFacts DEF RmInfo, Removing
      <4>2. /\ Exists(q) <=> IsDir(q) \/ IsFile(q)
            /\ ~(IsDir(q) /\ IsFile(q))
        BY FrameFacts, EntryFacts
      <4> QED
        BY <2>4, <4>1, <4>2 DEF RmInfo
    <3> QED
      BY <1>2, <3>1, AwaitOut, EndOut DEF Raise
  <2>5. CASE RmList(c)
    BY <1>2, <2>5, AwaitOut, EndOut DEF RmList, Raise
  <2> QED
    BY <2>1, <2>2, <2>3, <2>4, <2>5
<1> QED
  BY <1>1, <1>3, <1>4

\* What a returned success says is so, up to what others did meanwhile
\* (_mkdir, _cp_file, _rm).
THEOREM SuccessIsTrue == Spec => TrueMeansDone
<1>1. FsInv /\ [Next]_vars =>
          \A c \in Client : Ended(c) /\ Out(c) = "true" =>
              /\ Op(c) = "mkdir" \/ (Op(c) = "cp" /\ g[c].copydir) =>
                    \A p \in Prefixes(g[c].goal) : tree'[p] = Dir \/ Others(c) # {}
              /\ Op(c) = "rm" =>
                    \A p \in Path : p = Path1(c) \/ Below(Path1(c), p) =>
                        tree'[p] = Absent \/ p \in Meddled(c)
  BY EndedStep, DoneStep
<1> QED
  BY <1>1, FsSafe, PTL DEF Spec, TrueMeansDone

-----------------------------------------------------------------------------
(* Exports and renames *)

LEMMA BlocksOut ==
    ASSUME FsInv, NEW c \in Client, NEW fr \in Frame, Blocks(c, fr), Len(fr.got) <= fr.size,
           pc'[c] = "idle"
    PROVE  g'[c].got = fr.got /\ g'[c].size = fr.size /\ Len(fr.got) = fr.size /\ Out(c) = "true"
<1>1. Len(fr.got) \in Nat /\ fr.size \in Nat
  BY DEF Frame
<1>2. ~(Len(fr.got) < fr.size)
  <2> SUFFICES ASSUME Len(fr.got) < fr.size PROVE FALSE
    OBVIOUS
  <2>1. pc'[c] = "range"
    BY GotoOut DEF Blocks
  <2> QED
    BY <2>1
<1>3. PICK nx : nx = [fr EXCEPT !.out = "true"]
  OBVIOUS
<1>4. Goto(c, "idle", nx)
  BY <1>2, <1>3 DEF Blocks
<1>5. nx.got = fr.got /\ nx.size = fr.size /\ nx.out = "true"
  BY <1>3, EndFrame
<1>6. g'[c] = nx /\ Out(c) = "true"
  BY <1>4, <1>5, GotoOut
<1> QED
  BY <1>1, <1>2, <1>5, <1>6

\* What a call finds that reads a file.
LEMMA GetInfoOut ==
    ASSUME FsInv, NEW c \in Client, GetInfo(c), pc'[c] = "idle", NEW p, p = Path1(c), IsFile(p)
    PROVE  g'[c].got = At(p).data /\ Len(g'[c].got) = g'[c].size /\ Out(c) = "true"
<1>1. pc[c] = "get_info" /\ p \in Path \cup {<< >>} /\ g[c] \in Frame /\ g[c].got = << >>
  BY GettingFacts DEF GetInfo
<1>2. Exists(p) /\ ~IsDir(p) /\ At(p).data \in Seq(Nat)
  BY <1>1, FrameFacts, EntryFacts
<1>a. PICK fr : fr = g[c]
  OBVIOUS
<1>b. PICK d \in Seq(Nat) : d = At(p).data
  BY <1>2
<1>c. PICK n \in Nat : n = Len(d)
  BY LenProperties
<1>3. fr = g[c] /\ d = At(p).data /\ n = Len(d)
  BY <1>a, <1>b, <1>c
<1>4. PICK nx : nx = [fr EXCEPT !.size = n]
  OBVIOUS
<1>5. nx \in Frame /\ nx.got = << >> /\ nx.size = n /\ Len(nx.got) = 0
  <2>1. nx \in Frame /\ nx.got = fr.got /\ nx.size = n
    BY <1>1, <1>3, <1>4 DEF Frame
  <2> QED
    BY <1>1, <1>3, <2>1
<1>6. IF generic THEN Goto(c, "whole", nx) ELSE Blocks(c, nx)
  BY <1>2, <1>3, <1>4 DEF GetInfo
<1>7. Blocks(c, nx)
  BY <1>6, GotoOut
<1>8. g'[c].got = << >> /\ g'[c].size = n /\ n = 0 /\ Out(c) = "true"
  BY <1>5, <1>7, BlocksOut
<1>9. d = << >>
  <2>1. Len(d) = 0
    BY <1>3, <1>8
  <2> QED
    BY <2>1, EmptySeq
<1> QED
  BY <1>3, <1>8, <1>9

LEMMA ReadRangeOut ==
    ASSUME FsInv, NEW c \in Client, ReadRange(c), pc'[c] = "idle", Out(c) = "true",
           NEW p, p = Path1(c), IsFile(p)
    PROVE  /\ Len(g'[c].got) = g'[c].size
           /\ g'[c].got = At(p).data \/ p \in Others(c)
<1>1. PICK fr : fr = g[c]
  OBVIOUS
<1>2. pc[c] = "range" /\ p \in Path \cup {<< >>} /\ fr \in Frame /\ p = fr.call.path
  BY <1>1, GettingFacts DEF ReadRange
<1>3. Block(c) # << >>
  <2> SUFFICES ASSUME Block(c) = << >> PROVE FALSE
    OBVIOUS
  <2>1. Raise(c)
    BY DEF ReadRange
  <2> QED
    BY <2>1, EndOut DEF Raise
<1>4. PICK nx : nx = [fr EXCEPT !.got = @ \o Block(c)]
  OBVIOUS
<1>5. Appends(nx, fr, Block(c))
  BY <1>4 DEF Appends
<1>6. /\ nx \in Frame /\ Len(nx.got) <= nx.size
      /\ p \notin Others(c) => /\ Len(At(p).data) = nx.size
                               /\ nx.got = SubSeq(At(p).data, 1, Len(nx.got))
  BY <1>1, <1>2, <1>3, <1>5, NextBlock
<1>7. Blocks(c, nx)
  BY <1>1, <1>3, <1>4 DEF ReadRange
<1>8. g'[c].got = nx.got /\ g'[c].size = nx.size /\ Len(nx.got) = nx.size
  BY <1>6, <1>7, BlocksOut
<1>9. ASSUME p \notin Others(c) PROVE nx.got = At(p).data
  <2>1. PICK d \in Seq(Nat) : d = At(p).data
    BY <1>2, FrameFacts, EntryFacts
  <2>2. nx.got = SubSeq(d, 1, Len(d))
    BY <1>6, <1>8, <1>9, <2>1
  <2>3. SubSeq(d, 1, Len(d)) = d
    BY SubSeqFull
  <2> QED
    BY <2>1, <2>2, <2>3
<1> QED
  BY <1>8, <1>9

LEMMA WholeOut ==
    ASSUME FsInv, NEW c \in Client, Whole(c), Out(c) = "true", NEW p, p = Path1(c)
    PROVE  g'[c].got = At(p).data /\ Len(g'[c].got) = g'[c].size
<1>1. PICK fr : fr = g[c]
  OBVIOUS
<1>2. fr \in Frame /\ p \in Path \cup {<< >>}
  BY <1>1, GettingFacts DEF Whole
<1>3. CASE IsFile(p) /\ Len(At(p).data) = fr.size
  <2>1. PICK d \in Seq(Nat) : d = At(p).data
    BY <1>2, <1>3, FrameFacts, EntryFacts
  <2>2. PICK nx : nx = [fr EXCEPT !.got = d, !.out = "true"]
    OBVIOUS
  <2>3. Goto(c, "idle", nx)
    BY <1>1, <1>3, <2>1, <2>2 DEF Whole
  <2>4. nx.got = d /\ nx.size = fr.size
    BY <1>2, <2>2 DEF Frame
  <2> QED
    BY <1>3, <2>1, <2>3, <2>4, GotoOut
<1>4. CASE ~(IsFile(p) /\ Len(At(p).data) = fr.size)
  <2>1. Raise(c)
    BY <1>1, <1>4 DEF Whole
  <2> QED
    BY <2>1, EndOut DEF Raise
<1> QED
  BY <1>3, <1>4

LEMMA ExportStep ==
    ASSUME FsInv, NEW c \in Client, Step(c), Ended(c), Out(c) = "true", Op(c) = "get", IsFile(Path1(c))
    PROVE  /\ Len(g'[c].got) = g'[c].size
           /\ g'[c].got = At(Path1(c)).data \/ Path1(c) \in Others(c)
<1>1. PICK fr : fr = g[c] /\ fr.call.op = "get"
  BY DEF Op
<1>2. Local(pc[c], fr) /\ pc[c] # "idle" /\ pc'[c] = "idle"
  BY <1>1, FrameFacts DEF Fits, Ended
<1>3. pc[c] \notin Looping \cup Putting \cup Removing \cup {"parent", "mv_isdir", "mv_into", "info", "read",
           "mv_exists", "mv", "walk", "ls_exists", "ls_names", "ls_info"}
  BY <1>1, <1>2 DEF Local, Copies
<1>4. GetInfo(c) \/ ReadRange(c) \/ Whole(c)
  BY <1>3, StepLabel
<1> QED
  BY <1>2, <1>4, GetInfoOut, ReadRangeOut, WholeOut

\* A finished export has the size it announced, and is the file's content
\* unless the file was replaced or moved between the blocks (_get_file).
THEOREM ExportIsExact == Spec => ExportExact
<1>1. FsInv /\ [Next]_vars =>
          \A c \in Client : Ended(c) /\ Out(c) = "true" /\ Op(c) = "get" /\ IsFile(Path1(c)) =>
              /\ Len(g'[c].got) = g'[c].size
              /\ g'[c].got = At(Path1(c)).data \/ Path1(c) \in Others(c)
  BY EndedStep, ExportStep
<1> QED
  BY <1>1, FsSafe, PTL DEF Spec, ExportExact

\* The removal of a file that mv has copied.
LEMMA MovedStep ==
    ASSUME FsInv, [Next]_vars, NEW c \in Client, Op(c) = "rename", pc[c] = "rm", pc'[c] # "rm",
           IsFile(Path1(c)), NEW p, p = Path1(c), NEW q, q = g[c].call.dst
    PROVE  (q \in Path /\ tree'[q] = tree[p]) \/ {p, q} \cap Others(c) # {} \/ q = p
<1> SUFFICES ASSUME {p, q} \cap Others(c) = {}, q # p
             PROVE  q \in Path /\ tree'[q] = tree[p]
  OBVIOUS
<1>1. PICK fr : fr = g[c]
  OBVIOUS
<1>2. /\ fr \in Frame /\ fr.call.op = "rename" /\ fr.call.path = p /\ fr.call.dst = q
      /\ KnowsSource(c, "rm", fr) /\ Victim(c) = p
      /\ p \in Path \cup {<< >>} /\ q \in Path \cup {<< >>}
  BY <1>1, RemovingFacts, FramePaths DEF Knows, Op, Path1, Removing
<1>3. ~IsDir(p)
  BY DEF IsFile, IsDir
<1>4. At(p) = File(fr.data) /\ At(q) = File(fr.data)
  BY <1>2, <1>3 DEF KnowsSource, Copies, Removing
<1>5. p \in Path /\ q \in Path
  BY <1>2, <1>4, AtPath DEF Dir, File
<1>6. tree[q] = tree[p]
  BY <1>4, <1>5, AtPath
<1>7. Rm(c)
  <2>1. ASSUME NEW d \in Client \ {c}, Step(d) \/ \E call \in Calls : Begin(d, call) PROVE FALSE
    <3>1. Lands(d)
      BY <2>1, StepsLand, BeginStep
    <3> QED
      BY <3>1 DEF Lands
  <2>2. ~(UNCHANGED vars) /\ ~Finished
    BY DEF vars, Finished
  <2>3. \A call : ~Begin(c, call)
    BY DEF Begin
  <2>4. Step(c)
    BY <2>1, <2>2, <2>3 DEF Next
  <2>5. ~RmInfo(c) /\ ~RmList(c)
    BY DEF RmInfo, RmList
  <2> QED
    BY <2>4, <2>5, StepLabel DEF Looping, Putting
<1>8. tree'[q] = tree[q]
  BY <1>2, <1>5, <1>7, RmMoves
<1> QED
  BY <1>5, <1>6, <1>8

\* The content of the file that mv removes is at the destination afterwards,
\* unless another client changed one of the two paths between the copy and the
\* removal, or the destination was the file itself (mv, _cp_file, _rm_file).
THEOREM MoveLosesNothing == Spec => MoveLosesOnlyRaced
<1>1. FsInv /\ [Next]_vars =>
          \A c \in Client : Op(c) = "rename" /\ pc[c] = "rm" /\ pc'[c] # "rm" /\ IsFile(Path1(c)) =>
              LET p == Path1(c)
                  q == g[c].call.dst IN
              \/ q \in Path /\ tree'[q] = tree[p]
              \/ {p, q} \cap Others(c) # {}
              \/ q = p
  BY MovedStep
<1> QED
  BY <1>1, FsSafe, PTL DEF Spec, MoveLosesOnlyRaced

-----------------------------------------------------------------------------
(* Why a call fails.  Undisturbed is the case in which nobody is to blame:   *)
(* then the call is Hopeless.                                                *)

Undisturbed(c) == IF Op(c) \in {"pipe", "cp"} THEN Others(c) = {} ELSE Meddled(c) = {}

LEMMA Alone ==
    ASSUME NEW c \in Client, Undisturbed(c)
    PROVE  Others(c) = {} /\ (Op(c) \notin {"pipe", "cp"} => Meddled(c) = {})
BY DEF Undisturbed, Others, Meddled

\* A file among the prefixes of a path stands in the way.
LEMMA FileInWay ==
    ASSUME NEW p \in Path \cup {<< >>}, NEW i \in 1 .. Len(p), IsFile(SubSeq(p, 1, i))
    PROVE  IsFile(p) \/ FileAbove(p)
<1>1. SubSeq(p, 1, i) \in Prefixes(p)
  BY DEF Prefixes
<1> QED
  BY <1>1 DEF FileAbove

LEMMA FileInParent ==
    ASSUME NEW p \in Path \cup {<< >>}, NEW q, q = Parent(p), NEW i \in 1 .. Len(q),
           IsFile(SubSeq(q, 1, i))
    PROVE  FileAbove(p)
<1>1. q \in Path \cup {<< >>} /\ Len(q) \in Nat /\ Len(p) \in Nat
  BY ParentPath, PathSeq
<1>2. i \in Nat /\ i > 0 /\ i <= Len(q) /\ q \in Path
  BY <1>1, PathSeq
<1>3. p \in Path
  BY <1>2, ParentPath
<1>4. Len(q) = Len(p) - 1
  BY <1>3, ParentPath
<1>5. i \in 0 .. Len(p) - 1 /\ i \in 0 .. Len(p) /\ i \in 1 .. Len(p) /\ i < Len(p)
  BY <1>1, <1>2, <1>4
<1>6. SubSeq(q, 1, i) = SubSeq(p, 1, i)
  BY <1>3, <1>5, ParentPath
<1>7. SubSeq(p, 1, i) \in Prefixes(p)
  BY <1>5 DEF Prefixes
<1>8. SubSeq(p, 1, i) # p
  <2>1. Len(SubSeq(p, 1, i)) = i
    BY <1>5, SubPath
  <2> QED
    BY <1>1, <1>5, <2>1
<1> QED
  BY <1>6, <1>7, <1>8 DEF FileAbove

\* A component that is not a directory cannot be passed.
LEMMA BlockedReason ==
    ASSUME FsInv, NEW c \in Client, pc[c] \in Looping, Undisturbed(c), IsFile(Cur(c))
    PROVE  Hopeless(g[c].call)
<1>1. PICK fr : fr = g[c]
  OBVIOUS
<1>2. /\ fr \in Frame /\ Chaining(fr) /\ fr.k \in 1 .. Len(fr.goal) /\ Cur(c) = Prefix(fr, fr.k)
      /\ SourceRead(c, fr)
  BY <1>1, LoopFacts
<1>3. PICK p, q \in Path \cup {<< >>} : p = fr.call.path /\ q = fr.call.dst
  BY <1>2, FramePaths
<1>4. PICK goal \in Path \cup {<< >>} : goal = fr.goal
  BY <1>2, FramePaths
<1>5. PICK k \in 1 .. Len(goal) : IsFile(SubSeq(goal, 1, k))
  BY <1>2, <1>4 DEF Prefix
<1>6. CASE fr.call.op = "mkdir"
  <2>1. goal = p
    BY <1>2, <1>3, <1>4, <1>6 DEF Chaining, Aimed
  <2>2. IsFile(p) \/ FileAbove(p)
    BY <1>5, <2>1, FileInWay
  <2> QED
    BY <1>1, <1>3, <1>6, <2>2 DEF Hopeless
<1>7. CASE fr.call.op = "pipe"
  <2>1. goal = Parent(p)
    BY <1>2, <1>3, <1>4, <1>7 DEF Chaining, Aimed
  <2>2. FileAbove(p)
    BY <1>5, <2>1, FileInParent
  <2> QED
    BY <1>1, <1>3, <1>7, <2>2 DEF Hopeless
<1>8. CASE fr.call.op \in Copies
  <2>1. goal = Parent(q) \/ (fr.copydir /\ goal = q)
    BY <1>2, <1>3, <1>4, <1>8 DEF Chaining, Aimed, Copies
  <2>2. FileAbove(q) \/ (fr.copydir /\ IsFile(q))
    BY <1>5, <2>1, FileInParent, FileInWay
  <2>3. IF fr.copydir THEN IsDir(p) ELSE IsFile(p)
    BY <1>2, <1>3, <1>8, Alone DEF SourceRead, IsFile, File
  <2>4. CASE fr.call.op = "cp"
    BY <1>1, <1>3, <2>2, <2>3, <2>4 DEF Hopeless
  <2>5. CASE fr.call.op = "rename"
    <3>1. ~fr.copydir
      BY <1>1, <1>2, <1>8, <2>5, Alone DEF SourceRead, Op
    <3> QED
      BY <1>1, <1>3, <2>2, <2>3, <2>5, <3>1 DEF Hopeless
  <2> QED
    BY <1>8, <2>4, <2>5 DEF Copies
<1> QED
  BY <1>2, <1>6, <1>7, <1>8 DEF Chaining

LEMMA LoopReason ==
    ASSUME FsInv, NEW c \in Client, AskExists(c) \/ AskIsDir(c) \/ Make(c) \/ Lost(c), Ended(c),
           Out(c) # "true", Undisturbed(c)
    PROVE  Hopeless(g[c].call)
<1>1. PICK fr : fr = g[c]
  OBVIOUS
<1>2. pc[c] \in Looping
  BY DEF AskExists, AskIsDir, Make, Lost, Looping
<1>3. /\ fr \in Frame /\ Cur(c) \in Path /\ Cur(c) = Prefix(fr, fr.k) /\ IsDir(Parent(Cur(c)))
      /\ KnowsChain(c, pc[c], fr)
  BY <1>1, <1>2, Alone, LoopFacts, FrameFacts DEF Knows
<1>4. \/ Op(c) = "mkdir" /\ pc[c] = "mkdir" /\ ~CanMake(Cur(c))
      \/ pc[c] \in {"is_dir", "lost_dir"} /\ ~IsDir(Cur(c))
      \/ pc[c] = "lost" /\ ~Exists(Cur(c))
  BY <1>1, LoopOut
<1>5. ~(Op(c) = "mkdir" /\ pc[c] = "mkdir" /\ ~CanMake(Cur(c)))
  <2> SUFFICES ASSUME Op(c) = "mkdir", pc[c] = "mkdir", ~CanMake(Cur(c)) PROVE FALSE
    OBVIOUS
  <2>1. ~Exists(Cur(c))
    BY <1>1, <1>3, Alone DEF KnowsChain, Op
  <2>2. Cur(c) # << >>
    BY <1>3, PathAssumption
  <2> QED
    BY <1>3, <2>1, <2>2 DEF CanMake
<1>6. pc[c] \in {"is_dir", "lost", "lost_dir"} => Exists(Cur(c))
  BY <1>3, Alone DEF KnowsChain
<1>7. IsFile(Cur(c))
  BY <1>3, <1>4, <1>5, <1>6, FrameFacts, EntryFacts
<1> QED
  BY <1>2, <1>7, BlockedReason

LEMMA NeedParentReason ==
    ASSUME FsInv, NEW c \in Client, NeedParent(c), pc'[c] = "idle", Out(c) # "true"
    PROVE  Hopeless(g[c].call)
<1>1. PICK fr : fr = g[c]
  OBVIOUS
<1>2. /\ fr \in Frame /\ fr.call.op = "mkdir" /\ ~fr.call.flag /\ fr.got = << >>
      /\ fr.copydir => fr.call.op \in Copies
      /\ fr.call.path \in Path \cup {<< >>}
  BY <1>1, FrameFacts, FramePaths DEF NeedParent, Fits, Local
<1>3. ~Exists(Parent(fr.call.path))
  <2> SUFFICES ASSUME Exists(Parent(fr.call.path)) PROVE FALSE
    OBVIOUS
  <2>1. Ensure(c, fr, fr.call.path)
    BY <1>1 DEF NeedParent, Path1
  <2> QED
    BY <1>2, <2>1, EnsureOut
<1> QED
  BY <1>1, <1>2, <1>3 DEF Hopeless

\* Between the chain and the write nothing else can fail.
LEMMA PreflightReason ==
    ASSUME FsInv, NEW c \in Client, Preflight(c), pc'[c] = "idle"
    PROVE  Hopeless(g[c].call)
<1>1. PICK fr : fr = g[c]
  OBVIOUS
<1>2. fr.call.op = "pipe" /\ fr.call.flag
  BY <1>1, FrameFacts DEF Preflight, Fits, Local
<1>3. Exists(fr.call.path)
  <2> SUFFICES ASSUME ~Exists(fr.call.path) PROVE FALSE
    OBVIOUS
  <2>1. Await(c, "write")
    BY <1>1 DEF Preflight, Path1
  <2> QED
    BY <2>1, AwaitOut
<1> QED
  BY <1>1, <1>2, <1>3 DEF Hopeless

LEMMA WriteReason ==
    ASSUME FsInv, NEW c \in Client, Write(c), pc'[c] = "idle", Out(c) # "true", Undisturbed(c)
    PROVE  Hopeless(g[c].call)
<1>1. PICK fr : fr = g[c]
  OBVIOUS
<1>2. pc[c] = "write" /\ pc[c] \in Putting
  BY DEF Write, Putting
<1>3. PICK t \in Path \cup {<< >>} : t = Target(c)
  BY <1>1, <1>2, PutFacts
<1>4. /\ fr \in Frame /\ fr.call.op \in {"pipe"} \cup Copies /\ ~fr.copydir
      /\ t = IF fr.call.op = "pipe" THEN fr.call.path ELSE fr.call.dst
      /\ IsDir(Parent(t)) /\ SourceRead(c, fr)
  BY <1>1, <1>2, <1>3, Alone, PutFacts
<1>5. ~CanPut(t, Exclusive(fr) /\ ~generic)
  <2> SUFFICES ASSUME CanPut(t, Exclusive(fr) /\ ~generic) PROVE FALSE
    OBVIOUS
  <2>1. Copied(c, fr)
    BY <1>1, <1>3 DEF Write
  <2> QED
    BY <1>4, <2>1, CopiedOut
<1>6. IsDir(<< >>)
  BY AtPath DEF IsDir, Dir
<1>7. IsDir(t) \/ (Exclusive(fr) /\ Exists(t))
  BY <1>4, <1>5, <1>6 DEF CanPut
<1>8. CASE fr.call.op = "pipe"
  BY <1>1, <1>4, <1>7, <1>8 DEF Hopeless, Exclusive
<1>9. CASE fr.call.op \in Copies
  <2>1. fr.call.op # "pipe" /\ fr.call.op \in {"cp", "rename"}
    BY <1>9 DEF Copies
  <2>2. IsDir(fr.call.dst)
    BY <1>4, <1>7, <2>1 DEF Exclusive
  <2>3. IsFile(fr.call.path)
    BY <1>4, <1>9, Alone DEF SourceRead, IsFile, File
  <2> QED
    BY <1>1, <2>1, <2>2, <2>3 DEF Hopeless
<1> QED
  BY <1>4, <1>8, <1>9

LEMMA CopyReason ==
    ASSUME FsInv, NEW c \in Client, CopyInfo(c) \/ CopyRead(c), pc'[c] = "idle", Out(c) # "true",
           Undisturbed(c)
    PROVE  Hopeless(g[c].call)
<1>1. PICK fr : fr = g[c]
  OBVIOUS
<1>2. pc[c] \in {"info", "read"}
  BY DEF CopyInfo, CopyRead
<1>3. /\ fr \in Frame /\ fr.call.op \in Copies /\ fr.got = << >> /\ ~fr.copydir
      /\ Parent(fr.call.dst) \in Path \cup {<< >>}
      /\ KnowsSource(c, pc[c], fr)
  BY <1>1, <1>2, FrameFacts, FramePaths, ParentPath DEF Fits, Knows, Local
<1>4. PICK p \in Path \cup {<< >>} : p = fr.call.path /\ p = Path1(c)
  BY <1>1, <1>3, FramePaths DEF Path1
<1>5. /\ Exists(p) <=> IsDir(p) \/ IsFile(p)
      /\ ~(IsDir(p) /\ IsFile(p))
  BY FrameFacts, EntryFacts
<1>6. ASSUME NEW nx \in Frame, nx.call = fr.call, nx.got = << >>, Ensure(c, nx, Parent(fr.call.dst))
      PROVE  FALSE
  BY <1>3, <1>6, EnsureOut
<1>7. CASE CopyInfo(c)
  <2>1. ~IsFile(p)
    <3> SUFFICES ASSUME IsFile(p) PROVE FALSE
      OBVIOUS
    <3>1. Await(c, "read")
      BY <1>4, <1>5, <1>7 DEF CopyInfo
    <3> QED
      BY <3>1, AwaitOut
  <2>2. ~IsDir(p)
    <3> SUFFICES ASSUME IsDir(p) PROVE FALSE
      OBVIOUS
    <3>1. PICK nx : nx = [fr EXCEPT !.copydir = TRUE]
      OBVIOUS
    <3>2. Ensure(c, nx, Parent(fr.call.dst))
      BY <1>1, <1>4, <1>5, <1>7, <3>1 DEF CopyInfo
    <3>3. nx \in Frame /\ nx.call = fr.call /\ nx.got = << >>
      BY <1>3, <3>1 DEF Frame
    <3> QED
      BY <1>6, <3>2, <3>3
  <2> QED
    BY <1>1, <1>3, <1>4, <1>5, <2>1, <2>2 DEF Hopeless, Copies
<1>8. CASE CopyRead(c)
  <2>1. IsFile(p)
    BY <1>3, <1>4, <1>8, Alone DEF CopyRead, KnowsSource
  <2>2. PICK d \in Seq(Nat) : d = At(p).data
    BY <2>1, FrameFacts, EntryFacts
  <2>3. PICK nx : nx = [fr EXCEPT !.data = d]
    OBVIOUS
  <2>4. Ensure(c, nx, Parent(fr.call.dst))
    BY <1>1, <1>4, <1>8, <2>1, <2>2, <2>3 DEF CopyRead
  <2>5. nx \in Frame /\ nx.call = fr.call /\ nx.got = << >>
    BY <1>3, <2>3 DEF Frame
  <2> QED
    BY <1>6, <2>4, <2>5
<1> QED
  BY <1>7, <1>8

LEMMA MoveReason ==
    ASSUME FsInv, NEW c \in Client, MoveExists(c) \/ Move(c), pc'[c] = "idle", Out(c) # "true"
    PROVE  Hopeless(g[c].call)
<1>1. PICK fr : fr = g[c]
  OBVIOUS
<1>2. fr.call.op = "mv" /\ Path1(c) = fr.call.path
  BY <1>1, FrameFacts DEF MoveExists, Move, Fits, Local, Path1
<1>3. ~CanMove(fr.call.path, fr.call.dst)
  <2>1. CASE MoveExists(c)
    <3>1. ~Exists(fr.call.path)
      BY <1>2, <2>1, AwaitOut DEF MoveExists
    <3> QED
      BY <3>1 DEF CanMove
  <2>2. CASE Move(c)
    <3>1. Return(c, CanMove(fr.call.path, fr.call.dst))
      BY <1>1, <1>2, <2>2 DEF Move
    <3> QED
      BY <3>1, EndOut DEF Return
  <2> QED
    BY <2>1, <2>2
<1> QED
  BY <1>1, <1>2, <1>3 DEF Hopeless

\* What an undisturbed rm or rename finds amiss was so before it began.
LEMMA RmInfoReason ==
    ASSUME FsInv, NEW c \in Client, RmInfo(c), pc'[c] = "idle", Undisturbed(c)
    PROVE  Hopeless(g[c].call)
<1>1. PICK fr : fr = g[c]
  OBVIOUS
<1>2. pc[c] = "rm_info" /\ pc[c] \in Removing
  BY DEF RmInfo, Removing
<1>3. PICK v \in Path \cup {<< >>} : v = Victim(c)
  BY <1>2, RemovingFacts
<1>4. /\ fr.call.op \in {"rm", "rename"} /\ v \in fr.todo /\ KnowsRemoved(c, pc[c], fr)
      /\ fr.call.op = "rename" \/ ~fr.call.flag => v = fr.call.path
  BY <1>1, <1>2, <1>3, RemovingFacts DEF Knows
<1>5. /\ Exists(v) <=> IsDir(v) \/ IsFile(v)
      /\ ~(IsDir(v) /\ IsFile(v))
  BY FrameFacts, EntryFacts
<1>6. ~Exists(v)
  BY <1>3, <1>5, AwaitOut DEF RmInfo
<1>7. Meddled(c) = {}
  BY <1>1, <1>4, Alone DEF Op
<1>8. v = fr.call.path
  BY <1>2, <1>4, <1>6, <1>7 DEF KnowsRemoved
<1> QED
  BY <1>1, <1>4, <1>6, <1>8 DEF Hopeless

LEMMA RmListReason ==
    ASSUME FsInv, NEW c \in Client, RmList(c), pc'[c] = "idle", Undisturbed(c)
    PROVE  Hopeless(g[c].call)
<1>1. PICK fr : fr = g[c]
  OBVIOUS
<1>2. pc[c] = "rm_ls" /\ pc[c] \in Removing
  BY DEF RmList, Removing
<1>3. PICK v \in Path \cup {<< >>} : v = Victim(c)
  BY <1>2, RemovingFacts
<1>4. /\ fr.call.op \in {"rm", "rename"} /\ v \in fr.todo /\ KnowsRemoved(c, pc[c], fr)
      /\ fr.todo # {} /\ fr.todo \subseteq Path \cup {<< >>} /\ v = Deepest(fr.todo)
      /\ fr.call.op = "rename" \/ ~fr.call.flag => v = fr.call.path
  BY <1>1, <1>2, <1>3, RemovingFacts DEF Knows
<1>5. PICK q \in ChildrenOf(v) : TRUE
  <2>1. ChildrenOf(v) # {}
    BY <1>3, AwaitOut DEF RmList
  <2> QED
    BY <2>1
<1>6. Meddled(c) = {}
  BY <1>1, <1>4, Alone DEF Op
<1>7. ~(fr.call.op = "rm" /\ fr.call.flag)
  <2> SUFFICES ASSUME fr.call.op = "rm", fr.call.flag PROVE FALSE
    OBVIOUS
  <2>1. q \in fr.todo
    BY <1>2, <1>4, <1>5, <1>6 DEF KnowsRemoved
  <2>2. Below(v, q)
    BY <1>5, FrameFacts, ChildFacts
  <2> QED
    BY <1>4, <2>1, <2>2, DeepestIn
<1>8. v = fr.call.path /\ ChildrenOf(fr.call.path) # {}
  BY <1>4, <1>5, <1>7
<1>9. CASE fr.call.op = "rename"
  BY <1>1, <1>8, <1>9 DEF Hopeless
<1>10. CASE fr.call.op = "rm"
  BY <1>1, <1>7, <1>8, <1>10 DEF Hopeless
<1> QED
  BY <1>4, <1>9, <1>10

LEMMA RmReason ==
    ASSUME FsInv, NEW c \in Client, Rm(c), Ended(c), Out(c) # "true", Undisturbed(c)
    PROVE  Hopeless(g[c].call)
<1>1. PICK fr : fr = g[c]
  OBVIOUS
<1>2. pc[c] = "rm" /\ pc[c] \in Removing
  BY DEF Rm, Removing
<1>3. fr.call.op \in {"rm", "rename"} /\ KnowsRemoved(c, pc[c], fr) /\ Path1(c) = fr.call.path
  BY <1>1, <1>2, RemovingFacts DEF Knows
<1>4. Op(c) # "rename" /\ ~(fr.ok /\ CanRemove(Victim(c)))
  BY <1>1, RmOut
<1>5. fr.call.op = "rm" /\ Meddled(c) = {}
  BY <1>1, <1>3, <1>4, Alone DEF Op
<1>6. fr.call.path = << >>
  BY <1>1, <1>2, <1>3, <1>4, <1>5, RmSucceeds DEF KnowsRemoved, Op
<1> QED
  BY <1>1, <1>5, <1>6 DEF Hopeless

LEMMA WalkReason ==
    ASSUME FsInv, NEW c \in Client, Walk(c), pc'[c] = "idle"
    PROVE  Hopeless(g[c].call)
<1>1. PICK fr : fr = g[c]
  OBVIOUS
<1>2. fr.call.op = "rm"
  BY <1>1, FrameFacts DEF Walk, Fits, Local
<1>3. ~Exists(fr.call.path)
  BY <1>1, WalkOut DEF Path1
<1> QED
  BY <1>1, <1>2, <1>3 DEF Hopeless

LEMMA GetInfoReason ==
    ASSUME FsInv, NEW c \in Client, GetInfo(c), pc'[c] = "idle", Out(c) # "true"
    PROVE  Hopeless(g[c].call)
<1>1. PICK fr : fr = g[c]
  OBVIOUS
<1>2. fr.call.op = "get" /\ Path1(c) = fr.call.path /\ fr.call.path \in Path \cup {<< >>}
  BY <1>1, GettingFacts DEF GetInfo
<1>3. PICK p \in Path \cup {<< >>} : p = Path1(c)
  BY <1>2
<1>4. /\ Exists(p) <=> IsDir(p) \/ IsFile(p)
      /\ ~(IsDir(p) /\ IsFile(p))
  BY FrameFacts, EntryFacts
<1>5. ~IsFile(p)
  BY <1>3, GetInfoOut
<1>6. ~IsDir(p)
  <2> SUFFICES ASSUME IsDir(p) PROVE FALSE
    OBVIOUS
  <2>1. Return(c, TRUE)
    BY <1>3, <1>4, <1>5 DEF GetInfo
  <2> QED
    BY <2>1, EndOut DEF Return
<1> QED
  BY <1>1, <1>2, <1>3, <1>4, <1>5, <1>6 DEF Hopeless

\* An undisturbed export finds every block.
LEMMA ReadRangeReason ==
    ASSUME FsInv, NEW c \in Client, ReadRange(c), pc'[c] = "idle", Undisturbed(c)
    PROVE  Out(c) = "true"
<1>1. PICK fr : fr = g[c]
  OBVIOUS
<1>2. PICK p \in Path \cup {<< >>} : p = Path1(c) /\ p = fr.call.path
  BY <1>1, GettingFacts DEF ReadRange
<1>3. /\ pc[c] = "range" /\ fr \in Frame /\ KnowsRead(c, "range", fr) /\ Len(fr.got) < fr.size
      /\ Others(c) = {}
  BY <1>1, GettingFacts, Alone DEF ReadRange
<1>4. IsFile(p) /\ Len(At(p).data) = fr.size
  BY <1>2, <1>3 DEF KnowsRead
<1>5. Block(c) # << >>
  BY <1>1, <1>2, <1>3, <1>4 DEF Block
<1>6. PICK nx : nx = [fr EXCEPT !.got = @ \o Block(c)]
  OBVIOUS
<1>7. Appends(nx, fr, Block(c))
  BY <1>6 DEF Appends
<1>8. nx \in Frame /\ Len(nx.got) <= nx.size
  BY <1>1, <1>2, <1>3, <1>4, <1>5, <1>7, NextBlock
<1>9. Blocks(c, nx)
  BY <1>1, <1>2, <1>4, <1>5, <1>6 DEF ReadRange
<1> QED
  BY <1>8, <1>9, BlocksOut

LEMMA WholeReason ==
    ASSUME FsInv, NEW c \in Client, Whole(c), Undisturbed(c)
    PROVE  Out(c) = "true"
<1>1. PICK fr : fr = g[c]
  OBVIOUS
<1>2. PICK p \in Path \cup {<< >>} : p = Path1(c) /\ p = fr.call.path
  BY <1>1, GettingFacts DEF Whole
<1>3. pc[c] = "whole" /\ fr \in Frame /\ KnowsRead(c, "whole", fr) /\ Others(c) = {}
  BY <1>1, GettingFacts, Alone DEF Whole
<1>4. IsFile(p) /\ Len(At(p).data) = fr.size
  BY <1>2, <1>3 DEF KnowsRead
<1>5. PICK d \in Seq(Nat) : d = At(p).data
  BY <1>4, FrameFacts, EntryFacts
<1>6. PICK nx : nx = [fr EXCEPT !.got = d, !.out = "true"]
  OBVIOUS
<1>7. Goto(c, "idle", nx)
  BY <1>1, <1>2, <1>4, <1>5, <1>6 DEF Whole
<1>8. nx.out = "true"
  BY <1>3, <1>6 DEF Frame
<1> QED
  BY <1>7, <1>8, GotoOut

LEMMA LsReason ==
    ASSUME FsInv, NEW c \in Client, LsBegin(c) \/ LsInfo(c), pc'[c] = "idle", Out(c) # "true",
           Undisturbed(c)
    PROVE  Hopeless(g[c].call)
<1>1. PICK fr : fr = g[c]
  OBVIOUS
<1>2. pc[c] \in {"ls_exists", "ls_names", "ls_info"}
  BY DEF LsBegin, LsInfo
<1>3. /\ fr.call.op = "ls" /\ Op(c) = "ls" /\ Path1(c) = fr.call.path
      /\ KnowsRead(c, pc[c], fr) /\ Meddled(c) = {}
  BY <1>1, <1>2, FrameFacts, Alone DEF Fits, Local, Knows, Op, Path1
<1>4. ~Return(c, TRUE)
  BY EndOut DEF Return
<1>5. CASE LsBegin(c)
  <2>1. pc[c] # "ls_names"
    <3> SUFFICES ASSUME pc[c] = "ls_names" PROVE FALSE
      OBVIOUS
    <3>1. PICK names : names = IF IsDir(Path1(c)) THEN ChildrenOf(Path1(c)) ELSE {}
      OBVIOUS
    <3>2. IF names = {} THEN Return(c, TRUE)
          ELSE Goto(c, "ls_info", [g[c] EXCEPT !.todo = names])
      BY <1>5, <3>1 DEF LsBegin
    <3> QED
      BY <1>4, <3>2, GotoOut
  <2>2. ~Exists(Path1(c))
    BY <1>5, <2>1, AwaitOut DEF LsBegin
  <2> QED
    BY <1>1, <1>3, <2>2 DEF Hopeless
<1>6. CASE LsInfo(c)
  <2>1. PICK p \in fr.todo : CASE ~Exists(p) -> Raise(c)
                                [] Exists(p) /\ fr.todo = {p} -> Return(c, TRUE)
                                [] OTHER -> Goto(c, "ls_info", [fr EXCEPT !.todo = @ \ {p}])
    BY <1>1, <1>6 DEF LsInfo
  <2>2. Exists(p)
    BY <1>3, <1>6, <2>1 DEF LsInfo, KnowsRead
  <2>3. ~(fr.todo = {p})
    BY <1>4, <2>1, <2>2
  <2>4. Goto(c, "ls_info", [fr EXCEPT !.todo = @ \ {p}])
    BY <2>1, <2>2, <2>3
  <2> QED
    BY <2>4, GotoOut
<1> QED
  BY <1>5, <1>6

LEMMA FailedStep ==
    ASSUME FsInv, NEW c \in Client, Step(c), Ended(c), Out(c) # "true", Undisturbed(c)
    PROVE  Hopeless(g[c].call)
<1>1. pc'[c] = "idle"
  BY DEF Ended
<1>2. CASE NeedParent(c)
  BY <1>1, <1>2, NeedParentReason
<1>3. CASE AskExists(c) \/ AskIsDir(c) \/ Make(c) \/ Lost(c)
  BY <1>3, LoopReason
<1>4. CASE Preflight(c) \/ Write(c)
  BY <1>1, <1>4, PreflightReason, WriteReason
<1>5. CASE CopyInfo(c) \/ CopyRead(c)
  BY <1>1, <1>5, CopyReason
<1>11. CASE Resolve(c)
  BY <1>1, <1>11, ResolveGoesOn
<1>6. CASE MoveExists(c) \/ Move(c)
  BY <1>1, <1>6, MoveReason
<1>7. CASE Walk(c)
  BY <1>1, <1>7, WalkReason
<1>8. CASE RmInfo(c) \/ RmList(c) \/ Rm(c)
  BY <1>1, <1>8, RmInfoReason, RmListReason, RmReason
<1>9. CASE GetInfo(c) \/ ReadRange(c) \/ Whole(c)
  BY <1>1, <1>9, GetInfoReason, ReadRangeReason, WholeReason
<1>10. CASE LsBegin(c) \/ LsInfo(c)
  BY <1>1, <1>10, LsReason
<1> QED
  BY <1>2, <1>3, <1>4, <1>5, <1>6, <1>7, <1>8, <1>9, <1>10, <1>11, StepLabel

\* No call fails out of nothing: when one raises or returns False, it could not
\* have succeeded on the tree either, or another client interfered (_mkdir,
\* _ensure_parent_directories, _commit, _cp_file, _mv, _rm, _get_file, _ls).
THEOREM FailuresHaveReasons == Spec => FailsForAReason
<1>1. ASSUME FsInv, [Next]_vars, NEW c \in Client, Ended(c), Out(c) # "true"
      PROVE  \/ Hopeless(g[c].call)
             \/ IF Op(c) \in {"pipe", "cp"} THEN Others(c) # {} ELSE Meddled(c) # {}
  BY <1>1, EndedStep, FailedStep DEF Undisturbed
<1>2. FsInv /\ [Next]_vars =>
          \A c \in Client : Ended(c) /\ Out(c) # "true" =>
              \/ Hopeless(g[c].call)
              \/ IF Op(c) \in {"pipe", "cp"} THEN Others(c) # {} ELSE Meddled(c) # {}
  BY <1>1
<1> QED
  BY <1>2, FsSafe, PTL DEF Spec, FailsForAReason
=============================================================================

---------------------------- MODULE BufferedFile ----------------------------
(***************************************************************************)
(* Write handles of the fsspec adapter, ChukBufferedFile and               *)
(* ChukFileSystem.open (src/chuk_fsspec/fs.py), on one target path: staged *)
(* uploads behind buffered writes, or parts kept in the handle when the    *)
(* provider stages none, commit at close, with-blocks that fail, and fsspec*)
(* transactions that defer the commits.                                    *)
(*                                                                         *)
(* The buffering base class and the transaction object are fsspec's        *)
(* (AbstractBufferedFile, Transaction), modelled from what the adapter     *)
(* overrides and calls.  A provider call that publishes, looks at or gives *)
(* up something is one step, with the outcomes VfsFiles gives it, and      *)
(* other clients act between two of them.  The caller writes blocks;       *)
(* <<h, i>> is the i-th block of handle h.                                 *)
(***************************************************************************)
EXTENDS Naturals, Sequences, FiniteSets

CONSTANTS Handle,
          Modes,       \* of "wb", "xb", "ab"
          Text,        \* whether a handle is wrapped in a TextIOWrapper, a set
          InTrans,     \* the handles may be opened inside `with fs.transaction`
          None,
          MaxBlocks,   \* bound: blocks written to one handle
          MaxFaults,   \* bound: provider calls that fail
          MaxOthers    \* bound: changes of the target by others

Block == Handle \X (1..MaxBlocks)
Content == Seq(Block \cup {<<"other", 0>>})

ASSUME HandleAssumption == /\ Modes \subseteq {"wb", "xb", "ab"}
                           /\ Text \subseteq BOOLEAN /\ InTrans \in BOOLEAN
                           /\ MaxBlocks \in Nat /\ MaxFaults \in Nat /\ MaxOthers \in Nat
                           /\ None \notin Content

VARIABLES target,   \* content of the path, or None
          staged,   \* what the provider has staged for each handle, or None
          hs,       \* the handle objects
          files,    \* transaction.files
          phase,    \* of the fsspec transaction: none, open, being completed, or broken
          streaming, \* _streaming_upload: the provider stages uploads (and has
                     \* write_file_atomic)
          faults, others

vars == <<target, staged, hs, files, phase, streaming, faults, others>>

\* text: wrapped in a TextIOWrapper; deferred: autocommit is False; turn: its
\* place in transaction.files; upload: _upload_id is set; size: _upload_size, or
\* the blocks in _parts; buffered, given: blocks in the buffer, blocks accepted
\* from the caller; at, existing: the provider call it makes next once it is over,
\* and what commit() has read; failed: a call of the handle raised or its
\* with-block did; done: the transaction is through with it; stuck: the call that
\* should have given up its upload failed.
Unopened == [st |-> "unopened", mode |-> "wb", text |-> FALSE, deferred |-> FALSE, turn |-> 0,
             upload |-> FALSE, size |-> 0, buffered |-> 0, given |-> 0,
             at |-> "none", existing |-> << >>,
             failed |-> FALSE, done |-> FALSE, stuck |-> FALSE]

HandleState == [st : {"unopened", "open", "closed"}, mode : Modes \cup {"wb"},
                text : BOOLEAN, deferred : BOOLEAN, turn : Nat, upload : BOOLEAN,
                size : 0..MaxBlocks, buffered : 0..MaxBlocks, given : 0..MaxBlocks,
                at : {"none", "finish", "abort", "exists", "cat", "free", "write"},
                existing : Content, failed : BOOLEAN, done : BOOLEAN, stuck : BOOLEAN]

TypeOK == /\ target \in Content \cup {None}
          /\ staged \in [Handle -> Seq(Block) \cup {None}]
          /\ hs \in [Handle -> HandleState]
          /\ files \in Seq(Handle)
          /\ phase \in {"none", "open", "commit", "discard", "broken"}
          /\ streaming \in BOOLEAN /\ faults \in Nat /\ others \in Nat

Init == /\ target \in {None, <<<<"other", 0>>>>}
        /\ staged = [h \in Handle |-> None]
        /\ hs = [h \in Handle |-> Unopened]
        /\ files = << >> /\ phase = "none" /\ streaming \in BOOLEAN
        /\ faults = MaxFaults /\ others = MaxOthers

Is(h, st) == hs[h].st = st

\* An open handle; the caller does not use one of a transaction after its end.
Usable(h) == Is(h, "open") /\ ~hs[h].done /\ (hs[h].deferred => phase = "open")

\* Blocks from+1 .. to of handle h.
Blocks(h, from, to) == [i \in 1 .. to - from |-> <<h, from + i>>]

Appending(h) == hs[h].mode = "ab"
Existing == IF target = None THEN << >> ELSE target

Fault == faults > 0 /\ faults' = faults - 1
NoFault == UNCHANGED faults

-----------------------------------------------------------------------------
(* Opening and writing *)

\* _open: "xb" looks for the path first.
MayOpen(mode) == mode = "xb" => target = None

Opened(mode, text) == [Unopened EXCEPT !.st = "open", !.mode = mode, !.text = text,
                                       !.deferred = (phase = "open"), !.turn = Len(files)]

\* Mutant: the transaction completes the last handle first.
OpenAtFront(h, mode, text) ==
    /\ Is(h, "unopened") /\ phase \in {"none", "open"}
    /\ MayOpen(mode)
    /\ hs' = [hs EXCEPT ![h] = Opened(mode, text)]
    /\ files' = IF phase = "open" THEN <<h>> \o files ELSE files
    /\ UNCHANGED <<target, staged, phase, streaming, faults, others>>

\* ChukFileSystem.open: inside a transaction the handle is deferred and appended
\* to transaction.files.
Open(h, mode, text) ==
    /\ Is(h, "unopened") /\ phase \in {"none", "open"}
    /\ MayOpen(mode)
    /\ hs' = [hs EXCEPT ![h] = Opened(mode, text)]
    /\ files' = IF phase = "open" THEN Append(files, h) ELSE files
    /\ UNCHANGED <<target, staged, phase, streaming, faults, others>>

\* write(): a block that the buffer still holds.
Write(h) ==
    /\ Usable(h) /\ hs[h].given < MaxBlocks /\ hs[h].buffered = 0
    /\ hs' = [hs EXCEPT ![h].given = @ + 1, ![h].buffered = @ + 1]
    /\ UNCHANGED <<target, staged, files, phase, streaming, faults, others>>

\* Mutant: the buffer is not emptied and goes out again with the next block.
SentKeepsBuffer(h, r) == [r EXCEPT !.upload = streaming, !.size = @ + r.buffered]

\* The handle after _initiate_upload, if need be, and upload_part of its buffer,
\* or after the buffer has gone to _parts.
Sent(h, r) == [r EXCEPT !.upload = streaming, !.size = @ + r.buffered, !.buffered = 0]

Before(h) == IF staged[h] = None THEN << >> ELSE staged[h]

StagedBy(h, r) == IF streaming THEN Before(h) \o Blocks(h, r.size, r.size + r.buffered)
                  ELSE None

\* Mutant: the except branch keeps _upload_id.
BreaksKeepsId(h, r) ==
    /\ streaming /\ Fault
    /\ hs' = [hs EXCEPT ![h] = [r EXCEPT !.upload = TRUE, !.st = "closed", !.failed = TRUE]]
    /\ staged' = [staged EXCEPT ![h] = Before(h)]

\* Mutant: the except branch leaves the upload to the provider.
BreaksNoAbort(h, r) ==
    /\ streaming /\ Fault
    /\ hs' = [hs EXCEPT ![h] = [r EXCEPT !.upload = FALSE, !.st = "closed", !.failed = TRUE]]
    /\ staged' \in {[staged EXCEPT ![h] = v] : v \in {None, Before(h)}}

\* start_upload of the first part raises; or upload_part does, whose own abort may
\* fail too, and the except branch of _upload_chunk then aborts.
Breaks(h, r) ==
    /\ streaming /\ Fault
    /\ LET broken == [r EXCEPT !.upload = FALSE, !.st = "closed", !.failed = TRUE] IN
       \/ ~r.upload /\ hs' = [hs EXCEPT ![h] = broken] /\ UNCHANGED staged
       \/ /\ hs' = [hs EXCEPT ![h] = [broken EXCEPT !.at = "abort"]]
          /\ staged' \in {[staged EXCEPT ![h] = v] : v \in {None, Before(h)}}

\* write() of a block that fills the buffer: flush, _upload_chunk.
WriteThrough(h) ==
    /\ Usable(h) /\ hs[h].given < MaxBlocks
    /\ LET r == [hs[h] EXCEPT !.given = @ + 1, !.buffered = @ + 1] IN
       \/ /\ hs' = [hs EXCEPT ![h] = Sent(h, r)]
          /\ staged' = [staged EXCEPT ![h] = StagedBy(h, r)]
          /\ NoFault
       \/ Breaks(h, r)
    /\ UNCHANGED <<target, files, phase, streaming, others>>

\* commit(): finish_upload; without an upload, an appending handle reads what is
\* there first, and _commit asks for the path of an exclusive one when the provider
\* cannot create and write it in one transaction.
FirstCall(r) == CASE r.upload -> "finish"
                  [] ~r.upload /\ r.mode = "ab" -> "exists"
                  [] ~r.upload /\ r.mode = "xb" /\ ~streaming -> "free"
                  [] OTHER -> "write"

Committing(r) == [r EXCEPT !.at = FirstCall(r)]

\* Mutant: commits whatever autocommit says.
ClosingCommits(h, failed) ==
    /\ Usable(h)
    /\ LET r == [hs[h] EXCEPT !.failed = failed] IN
       /\ hs' = [hs EXCEPT ![h] = Committing([Sent(h, r) EXCEPT !.st = "closed"])]
       /\ staged' = [staged EXCEPT ![h] = StagedBy(h, r)]
       /\ NoFault
    /\ UNCHANGED <<target, files, phase, streaming, others>>

\* close() of an open handle: the final _upload_chunk and, unless the commit is
\* deferred, commit().  failed: whether its with-block has raised.
Closing(h, failed) ==
    /\ Usable(h)
    /\ LET r == [hs[h] EXCEPT !.failed = failed]
           sent == [Sent(h, r) EXCEPT !.st = "closed"] IN
       \/ /\ hs' = [hs EXCEPT ![h] = IF r.deferred THEN sent ELSE Committing(sent)]
          /\ staged' = [staged EXCEPT ![h] = StagedBy(h, r)]
          /\ NoFault
       \/ Breaks(h, r)
    /\ UNCHANGED <<target, files, phase, streaming, others>>

Close(h) == Closing(h, FALSE)

\* The with-block raises.  __exit__ aborts the upload; without staged uploads,
\* or in a TextIOWrapper with its own __exit__, it closes the handle like any
\* other exit.
LeaveFailed(h) ==
    \/ (hs[h].text \/ ~streaming) /\ Closing(h, TRUE)
    \/ /\ Usable(h) /\ ~hs[h].text /\ streaming
       /\ hs' = [hs EXCEPT ![h].upload = FALSE, ![h].st = "closed", ![h].failed = TRUE,
                           ![h].at = IF hs[h].upload THEN "abort" ELSE "none"]
       /\ UNCHANGED <<target, staged, files, phase, streaming, faults, others>>

-----------------------------------------------------------------------------
(* The provider calls of commit(), discard() and the aborts *)

Calling(h, label) == hs[h].at = label /\ UNCHANGED <<streaming, others>>

\* complete() of the transaction has called commit() or discard() of h.
Completing(h) == hs[h].deferred /\ phase \in {"commit", "discard"}

\* The last call of handle h returns, or raises.  complete() has taken the handle
\* off transaction.files; an exception ends its loop: the handles behind it keep
\* what they have staged and the transaction stays entered.
Ended(h, r, raised) ==
    /\ hs' = [hs EXCEPT ![h] = [r EXCEPT !.at = "none", !.done = Completing(h)]]
    /\ files' = IF Completing(h) THEN Tail(files) ELSE files
    /\ phase' = IF Completing(h) /\ raised THEN "broken" ELSE phase

Continue(h, label) == /\ hs' = [hs EXCEPT ![h].at = label]
                      /\ UNCHANGED <<target, staged, files, phase>>

\* finish_upload refuses an exclusive upload when the path exists by now.
CanPublish(h) == hs[h].mode = "xb" => target = None

FinishUpload(h) ==
    /\ Calling(h, "finish") /\ CanPublish(h)
    /\ target' = (IF Appending(h) THEN Existing ELSE << >>) \o staged[h]
    /\ staged' = [staged EXCEPT ![h] = None]
    /\ Ended(h, [hs[h] EXCEPT !.upload = FALSE], FALSE)
    /\ NoFault

\* A refused finish_upload has discarded the upload, one that raised has tried to.
\* The except branch of _upload_chunk aborts it; complete() does not.
FinishFails(h) ==
    /\ Calling(h, "finish")
    /\ \/ ~CanPublish(h) /\ staged' = [staged EXCEPT ![h] = None] /\ NoFault
       \/ staged' \in {[staged EXCEPT ![h] = None], staged} /\ Fault
    /\ IF Completing(h)
       THEN Ended(h, [hs[h] EXCEPT !.failed = TRUE, !.stuck = (staged'[h] # None)], TRUE)
       ELSE /\ hs' = [hs EXCEPT ![h].upload = FALSE, ![h].failed = TRUE, ![h].at = "abort"]
            /\ UNCHANGED <<files, phase>>
    /\ UNCHANGED target

AbortUpload(h) ==
    /\ Calling(h, "abort")
    /\ \/ staged' = [staged EXCEPT ![h] = None] /\ NoFault /\ Ended(h, hs[h], FALSE)
       \/ /\ UNCHANGED staged /\ Fault
          /\ Ended(h, [hs[h] EXCEPT !.failed = TRUE, !.stuck = TRUE], TRUE)
    /\ UNCHANGED target

AskExisting(h) == /\ Calling(h, "exists")
                  /\ Continue(h, IF target = None THEN "write" ELSE "cat")
                  /\ NoFault

ReadExisting(h) == /\ Calling(h, "cat") /\ target # None
                   /\ hs' = [hs EXCEPT ![h].at = "write", ![h].existing = target]
                   /\ NoFault /\ UNCHANGED <<target, staged, files, phase>>

AskFree(h) == /\ Calling(h, "free") /\ target = None
              /\ Continue(h, "write")
              /\ NoFault

\* The _parts; a handle that stages uploads has none.
Parts(h) == IF streaming THEN << >> ELSE Blocks(h, 0, hs[h].size)

WriteParts(h) == /\ Calling(h, "write") /\ (streaming => CanPublish(h))
                 /\ target' = hs[h].existing \o Parts(h)
                 /\ Ended(h, hs[h], FALSE)
                 /\ NoFault /\ UNCHANGED staged

CommitFails(h) ==
    /\ \/ Calling(h, "cat") /\ target = None /\ NoFault
       \/ Calling(h, "free") /\ target # None /\ NoFault
       \/ Calling(h, "write") /\ streaming /\ ~CanPublish(h) /\ NoFault
       \/ (\E label \in {"exists", "cat", "free", "write"} : Calling(h, label)) /\ Fault
    /\ Ended(h, [hs[h] EXCEPT !.failed = TRUE], TRUE)
    /\ UNCHANGED <<target, staged>>

-----------------------------------------------------------------------------
(* The fsspec transaction *)

TransBegin == /\ InTrans /\ phase = "none" /\ \A h \in Handle : Is(h, "unopened")
              /\ phase' = "open"
              /\ UNCHANGED <<target, staged, hs, files, streaming, faults, others>>

\* Leaving the block: every handle opened in it is committed or discarded.
TransEnd(how) == /\ phase = "open" /\ how \in {"commit", "discard"}
                 /\ \A h \in Handle : hs[h].deferred => hs[h].at = "none"
                 /\ phase' = how
                 /\ UNCHANGED <<target, staged, hs, files, streaming, faults, others>>

NextFile == Head(files)

\* A handle whose upload is gone, or was never started, has no _upload_id: its
\* commit() falls through to the branch of generic providers.
TransCommit == /\ phase = "commit" /\ files # << >> /\ hs[NextFile].at = "none"
               /\ hs' = [hs EXCEPT ![NextFile] = Committing(@)]
               /\ UNCHANGED <<target, staged, files, phase, streaming, faults, others>>

\* discard() aborts the upload that the handle still has.
TransDiscard ==
    /\ phase = "discard" /\ files # << >> /\ hs[NextFile].at = "none"
    /\ IF hs[NextFile].upload
       THEN /\ hs' = [hs EXCEPT ![NextFile].upload = FALSE, ![NextFile].at = "abort"]
            /\ UNCHANGED <<files, phase>>
       ELSE Ended(NextFile, hs[NextFile], FALSE)
    /\ UNCHANGED <<target, staged, streaming, faults, others>>

TransDone == /\ phase \in {"commit", "discard"} /\ files = << >>
             /\ phase' = "none"
             /\ UNCHANGED <<target, staged, hs, files, streaming, faults, others>>

\* Another client replaces or removes the path.
OtherWrites == /\ others > 0 /\ others' = others - 1
               /\ target' \in {None, <<<<"other", 0>>>>} \ {target}
               /\ UNCHANGED <<staged, hs, files, phase, streaming, faults>>

Next == \/ \E h \in Handle : \/ \E mode \in Modes, text \in Text : Open(h, mode, text)
                             \/ Write(h) \/ WriteThrough(h)
                             \/ Close(h) \/ LeaveFailed(h)
                             \/ FinishUpload(h) \/ FinishFails(h) \/ AbortUpload(h)
                             \/ AskExisting(h) \/ ReadExisting(h) \/ AskFree(h)
                             \/ WriteParts(h) \/ CommitFails(h)
        \/ TransBegin
        \/ \E how \in {"commit", "discard"} : TransEnd(how)
        \/ TransCommit \/ TransDiscard \/ TransDone
        \/ OtherWrites

Spec == Init /\ [][Next]_vars

-----------------------------------------------------------------------------
(* Properties *)

\* The step changed the target on behalf of handle h.
Publishes(h) == hs'[h] # hs[h] /\ target' # target

\* Handle h is closed or its transaction is through with it, and its calls are made.
Over(h) == hs[h].at = "none" /\ (IF hs[h].deferred THEN hs[h].done ELSE Is(h, "closed"))

Ends(h) == ~Over(h) /\ Over(h)'

\* What handle h was given, behind what it appends to: without staged uploads what
\* it has read, which another client may have replaced since.
Whole(h) == LET behind == IF hs[h].upload THEN Existing ELSE hs[h].existing IN
            (IF Appending(h) THEN behind ELSE << >>) \o Blocks(h, 0, hs[h].given)

\* A handle changes the target in the one step that ends it, hence at most once and
\* never while it is open.  What it then puts there is every block it was given,
\* once and in order; a handle that ends without an error has put it there.  A
\* failed part, commit or with-block outside a transaction publishes nothing of a
\* staged upload (fs.py:104-109, 163-171).
WholeOrNothing ==
    [][\A h \in Handle :
         /\ Over(h) => Over(h)'
         /\ Publishes(h) => Ends(h)
         /\ hs[h].upload /\ Publishes(h) /\ Is(h, "closed") => target' = Whole(h)
         /\ Ends(h) /\ phase # "discard" /\ hs'[h].st = "closed" /\ ~hs'[h].failed
               => target' = Whole(h)
         /\ streaming /\ hs'[h].failed /\ ~hs[h].deferred /\ ~hs[h].text => ~Publishes(h)]_vars

\* The handles of one fsspec transaction are published in the order in which they
\* were opened, whatever they read before and whoever replaces the path meanwhile:
\* an append lies behind those of the handles opened before it (fs.py:238).
InOrderOfOpening ==
    target # None =>
        \A i, j \in DOMAIN target : i < j /\ target[i] \in Block /\ target[j] \in Block =>
            LET g == target[i][1]
                h == target[j][1] IN
            \/ g = h /\ target[i][2] < target[j][2]
            \/ g # h /\ (hs[g].deferred /\ hs[h].deferred => hs[g].turn < hs[h].turn)

\* A handle that is over leaves no staged upload behind, unless the very call that
\* should have given it up failed: that one is left for cleanup.
NothingStaged == \A h \in Handle : Over(h) /\ ~hs[h].stuck => staged[h] = None

\* Inside an fsspec transaction nothing is published before its end.
DeferredUntilEnd == [][\A h \in Handle : Publishes(h) /\ hs[h].deferred => phase = "commit"]_vars

\* A handle of a staged upload whose with-block or write failed changes nothing.
FailedPublishesNothing == [][\A h \in Handle : streaming /\ hs'[h] # hs[h] /\ hs'[h].failed
                                               => target' = target]_vars
=============================================================================

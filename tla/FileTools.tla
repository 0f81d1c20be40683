------------------------------ MODULE FileTools ------------------------------
(***************************************************************************)
(* The file tools `read`, `write` and `edit` (rpc.cpp).  Each call runs on *)
(* a thread of its own and nothing serialises two calls on one file, so a  *)
(* call is a sequence of system calls between which the others move: stat, *)
(* read, open with truncation, mkdir, write and close, and the rollback of *)
(* a failed write.                                                         *)
(*                                                                         *)
(* All calls name the same file "path".  "look" is another name in its     *)
(* directory that equals it after normalize_to_ascii; stat_normalized      *)
(* falls back to it when "path" is missing.                                *)
(***************************************************************************)
EXTENDS EditText

CONSTANTS
    Callers,    \* tool threads
    Cases,      \* the files and calls considered (see Init)
    Absent,     \* no such file
    NoCall      \* no request

Names == {"path", "look"}
Kinds == {"regular", "big", "binary", "refused"}

\* Only what can be: no file in a missing directory, attributes of an existing
\* file only.  An empty file is a file.
ASSUME CasesAssumption ==
    /\ Callers # {} /\ Absent # <<>>
    /\ \A x \in Cases :
           /\ x.name \in Names /\ x.kind \in Kinds /\ x.dir \in BOOLEAN
           /\ DOMAIN x.calls = Callers
           /\ x.file # Absent => x.dir
           /\ x.file = Absent => x.kind = "regular"

VARIABLES
    disk,     \* content of each name
    ino,      \* which file "path" is: changes when it is removed
    dir,      \* the parent directory exists
    kind,     \* what stat() says of the file found at the start
    req,      \* request of each caller
    pc,       \* next system call of each caller
    loc,      \* local variables of each caller
    reply,    \* result of each caller
    pages,    \* pages a caller of `read` has received
    may,      \* faults that may still happen
    hit,      \* faults that happened
    found,    \* history: files and directory when the call began
    overlap,  \* history: another call was running during this one
    shared    \* history: two calls had the file open at once

vars == <<disk, ino, dir, kind, req, pc, loc, reply, pages, may, hit, found, overlap, shared>>

Running == {"load", "open", "mkdir", "reopen", "write", "restore"}

NoLocals == [existed |-> FALSE, resolved |-> "path", prev |-> <<>>, new |-> <<>>,
             handle |-> 0, made |-> FALSE, start |-> 1]
NoReply == [status |-> "none", restored |-> FALSE, created |-> FALSE]

\* A case is one file, what stat() says of it, the name it has, whether its
\* directory exists, the calls made and the faults that may happen.
Init ==
    /\ \E x \in Cases :
          /\ disk = [n \in Names |-> IF n = x.name THEN x.file ELSE Absent]
          /\ dir = x.dir /\ kind = x.kind
          /\ req = x.calls
          /\ may = x.faults
    /\ ino = 1
    /\ pc = [c \in Callers |-> "idle"]
    /\ loc = [c \in Callers |-> NoLocals]
    /\ reply = [c \in Callers |-> NoReply]
    /\ pages = [c \in Callers |-> <<>>]
    /\ hit = {}
    /\ found = [c \in Callers |-> [disk |-> disk, dir |-> dir]]
    /\ overlap = [c \in Callers |-> FALSE]
    /\ shared = FALSE

-----------------------------------------------------------------------------
(* Helpers *)

Fault(f) == f \in may /\ may' = may \ {f} /\ hit' = hit \cup {f}

Goto(c, p) == pc' = [pc EXCEPT ![c] = p]

Finish(c, status, restored, created) ==
    /\ Goto(c, "done")
    /\ reply' = [reply EXCEPT ![c] =
           [status |-> status, restored |-> restored, created |-> created]]

Fails(c) == Finish(c, "error", FALSE, FALSE)

\* The content of a name; nothing is there while the directory is missing.
Content(n) == IF dir THEN disk[n] ELSE Absent

\* stat_normalized: the name itself, or a look-alike.
stat_normalized ==
    IF Content("path") # Absent THEN "path"
    ELSE IF Content("look") # Absent THEN "look" ELSE "none"

StrictPrefixes(s) == {SubSeq(s, 1, k) : k \in 0..Len(s) - 1}

\* write(2) at offset 0 of a file that may have grown since it was truncated.
Overlay(old, new) ==
    IF old = <<>> THEN new ELSE new \o SubSeq(old, Len(new) + 1, Len(old))

\* rmdir() of the directory a call created: only when it is empty.
RemoveMade(c, files) ==
    dir' = (dir /\ ~(loc[c].made /\ \A n \in Names : files[n] = Absent))

-----------------------------------------------------------------------------
(* The steps of a call *)

\* stat, and every refusal that needs no more than the result of stat.
Stat(c) ==
    LET at    == stat_normalized
        tool  == req[c].tool
        others == {d \in Callers \ {c} : pc[d] \in Running}
    IN  /\ req[c] # NoCall
        /\ pc[c] = "idle"
        /\ loc' = [loc EXCEPT ![c] = [NoLocals EXCEPT
               !.existed = at # "none", !.resolved = IF at = "none" THEN "path" ELSE at,
               !.start = loc[c].start]]
        /\ IF \/ at # "none" /\ kind = "refused"
              \/ at = "none" /\ tool \in {"read", "edit"}
              \/ tool = "read" /\ kind = "binary"
              \/ tool = "edit" /\ kind = "big"
           THEN Fails(c)
           ELSE IF tool = "edit" /\ req[c].ops = <<>>
           THEN Finish(c, "same", FALSE, FALSE)
           ELSE Goto(c, "load") /\ UNCHANGED reply
        /\ found' = [found EXCEPT ![c] = [disk |-> disk, dir |-> dir]]
        /\ overlap' = [d \in Callers |-> overlap[d] \/ d \in others
                                          \/ (d = c /\ others # {})]
        /\ UNCHANGED <<disk, ino, dir, kind, req, pages, may, hit, shared>>

\* write: keep the previous bytes for a rollback.  A read error throws and is
\* answered by the thread's catch block.
LoadForWrite(c) ==
    LET bytes == Content(loc[c].resolved)
        keep  == loc[c].existed /\ kind # "big" /\ bytes # Absent
    IN  /\ pc[c] = "load" /\ req[c].tool = "write"
        /\ \/ /\ loc' = [loc EXCEPT ![c].prev = IF keep THEN bytes ELSE <<>>,
                                    ![c].new = req[c].text]
              /\ Goto(c, "open")
              /\ UNCHANGED <<reply, may, hit>>
           \/ keep /\ Fault("read") /\ Fails(c) /\ UNCHANGED loc
        /\ UNCHANGED <<disk, ino, dir, kind, req, pages, found, overlap, shared>>

\* edit: read the file, find the old texts, compute the new bytes.  A read
\* error is not tested: what was read so far is taken for the file.
LoadForEdit(c) ==
    LET Take(b, e) ==
            \/ e.status = "invalid" /\ Fails(c) /\ UNCHANGED loc
            \/ e.status = "same" /\ Finish(c, "same", FALSE, FALSE) /\ UNCHANGED loc
            \/ /\ e.status = "change"
               /\ loc' = [loc EXCEPT ![c].prev = b, ![c].new = e.bytes]
               /\ Goto(c, "open")
               /\ UNCHANGED reply
        Edit(b) == \E text \in {NormalText(b)} :
                   \E at \in {Found(text, req[c].ops, Crlf(b))} :
                   \E e \in {EditBytes(b, text, at, req[c].ops)} : Take(b, e)
    IN  /\ pc[c] = "load" /\ req[c].tool = "edit"
        /\ \E bytes \in {Content(loc[c].resolved)} :
             \/ bytes = Absent /\ Fails(c) /\ UNCHANGED <<loc, may, hit>>
             \/ bytes # Absent /\ Edit(bytes) /\ UNCHANGED <<may, hit>>
             \/ /\ bytes # Absent /\ Fault("read")
                /\ \E b \in StrictPrefixes(bytes) : Edit(b)
        /\ UNCHANGED <<disk, ino, dir, kind, req, pages, found, overlap, shared>>

\* read: one page; the client asks for the next while there is one.  After a
\* read error read_line_capped returns an empty line for ever.
LoadForRead(c) ==
    LET bytes == Content(loc[c].resolved)
        Take(page) ==
            /\ pages' = [pages EXCEPT ![c] = Append(@, page)]
            /\ \/ page.next = 0 /\ Finish(c, "ok", FALSE, FALSE) /\ UNCHANGED loc
               \/ /\ page.next # 0 /\ loc' = [loc EXCEPT ![c].start = page.next]
                  /\ Goto(c, "idle") /\ UNCHANGED reply
    IN  /\ pc[c] = "load" /\ req[c].tool = "read"
        /\ \/ bytes = Absent /\ Fails(c) /\ UNCHANGED <<loc, pages, may, hit>>
           \/ /\ bytes # Absent /\ UNCHANGED <<may, hit>>
              /\ \E page \in {Page(bytes, loc[c].start, req[c].limit)} : Take(page)
           \/ /\ bytes # Absent /\ Fault("read") /\ Goto(c, "spin")
              /\ UNCHANGED <<loc, reply, pages>>
        /\ UNCHANGED <<disk, ino, dir, kind, req, found, overlap, shared>>

\* The file a call opens: write the name it was given, edit the one it found.
Target(c) == IF req[c].tool = "write" THEN "path" ELSE loc[c].resolved

\* Mutant: the file is opened without truncation.
TruncateKeeps(c) ==
    /\ disk' = [disk EXCEPT ![Target(c)] = IF @ = Absent THEN <<>> ELSE @]
    /\ loc' = [loc EXCEPT ![c].handle = ino]
    /\ Goto(c, "write")
    /\ shared' = (shared \/ \E d \in Callers \ {c} : pc[d] = "write")
    /\ UNCHANGED <<reply, dir>>

Truncate(c) ==
    /\ disk' = [disk EXCEPT ![Target(c)] = <<>>]
    /\ loc' = [loc EXCEPT ![c].handle = ino]
    /\ Goto(c, "write")
    /\ shared' = (shared \/ \E d \in Callers \ {c} : pc[d] = "write")
    /\ UNCHANGED <<reply, dir>>

OpenForWriting(c) ==
    /\ pc[c] = "open"
    /\ \/ dir /\ Truncate(c) /\ UNCHANGED <<may, hit>>
       \/ /\ ~dir /\ IF req[c].tool = "write"
                     THEN Goto(c, "mkdir") /\ UNCHANGED reply ELSE Fails(c)
          /\ UNCHANGED <<disk, dir, loc, shared, may, hit>>
       \/ Fault("open") /\ Fails(c) /\ UNCHANGED <<disk, dir, loc, shared>>
    /\ UNCHANGED <<ino, kind, req, pages, found, overlap>>

\* mkdir -p of the missing parent.
Mkdir(c) ==
    /\ pc[c] = "mkdir"
    /\ dir' = TRUE
    /\ loc' = [loc EXCEPT ![c].made = ~dir]
    /\ Goto(c, "reopen")
    /\ UNCHANGED <<disk, ino, kind, req, reply, pages, may, hit, found, overlap, shared>>

Reopen(c) ==
    /\ pc[c] = "reopen"
    /\ \/ dir /\ Truncate(c) /\ UNCHANGED <<may, hit>>
       \/ ~dir /\ Fails(c) /\ UNCHANGED <<disk, dir, loc, shared, may, hit>>
       \/ /\ Fault("reopen") /\ Fails(c) /\ RemoveMade(c, disk)
          /\ UNCHANGED <<disk, loc, shared>>
    /\ UNCHANGED <<ino, kind, req, pages, found, overlap>>

\* Mutant: the stream is not tested after it is closed.
WriteUnchecked(c) ==
    LET n == Target(c)
        Put(t) == IF loc[c].handle = ino /\ disk[n] # Absent
                  THEN disk' = [disk EXCEPT ![n] = Overlay(@, t)]
                  ELSE UNCHANGED disk
    IN  /\ pc[c] = "write"
        /\ \/ Put(loc[c].new) /\ UNCHANGED <<may, hit>>
           \/ Fault("write") /\ \E t \in StrictPrefixes(loc[c].new) \cup {<<>>} : Put(t)
        /\ Finish(c, "ok", FALSE, req[c].tool = "write" /\ ~loc[c].existed)
        /\ UNCHANGED <<ino, dir, kind, req, loc, pages, found, overlap, shared>>

\* write and close.  A file removed since it was opened is written to no avail.
WriteClose(c) ==
    LET n == Target(c)
        Put(t) == IF loc[c].handle = ino /\ disk[n] # Absent
                  THEN disk' = [disk EXCEPT ![n] = Overlay(@, t)]
                  ELSE UNCHANGED disk
    IN  /\ pc[c] = "write"
        /\ \/ /\ Put(loc[c].new)
              /\ Finish(c, "ok", FALSE, req[c].tool = "write" /\ ~loc[c].existed)
              /\ UNCHANGED <<may, hit>>
           \/ /\ Fault("write") /\ \E t \in StrictPrefixes(loc[c].new) \cup {<<>>} : Put(t)
              /\ Goto(c, "restore") /\ UNCHANGED reply
        /\ UNCHANGED <<ino, dir, kind, req, loc, pages, found, overlap, shared>>

\* Mutant: a created file is not removed after a failed write.
RestoreKeepsNew(c) ==
    /\ pc[c] = "restore" /\ ~loc[c].existed
    /\ Finish(c, "error", TRUE, FALSE)
    /\ UNCHANGED <<disk, ino, dir, kind, req, loc, pages, may, hit, found, overlap, shared>>

\* restore_file for a file that this call created: remove it, and then the
\* directories made for it.
RestoreNew(c) ==
    /\ pc[c] = "restore" /\ ~loc[c].existed
    /\ disk' = [disk EXCEPT !["path"] = Absent]
    /\ ino' = ino + 1
    /\ RemoveMade(c, disk')
    /\ Finish(c, "error", disk["path"] # Absent, FALSE)
    /\ UNCHANGED <<kind, req, loc, pages, may, hit, found, overlap, shared>>

\* Mutant: a rollback that has nothing to put back is tried again.
RestoreOldRetries(c) ==
    LET n == loc[c].resolved IN
    /\ pc[c] = "restore" /\ loc[c].existed
    /\ \/ /\ loc[c].prev = <<>> \/ ~dir
          /\ UNCHANGED <<pc, reply, disk, may, hit>>
       \/ /\ loc[c].prev # <<>> /\ dir
          /\ disk' = [disk EXCEPT ![n] = loc[c].prev]
          /\ Finish(c, "error", TRUE, FALSE) /\ UNCHANGED <<may, hit>>
    /\ UNCHANGED <<ino, dir, kind, req, loc, pages, found, overlap, shared>>

\* restore_file for a file that existed: put the kept bytes back.  Success is
\* tested before the stream is flushed, so "flush" goes unnoticed.
RestoreOld(c) ==
    LET n == loc[c].resolved IN
    /\ pc[c] = "restore" /\ loc[c].existed
    /\ \/ /\ loc[c].prev = <<>> \/ ~dir
          /\ Fails(c) /\ UNCHANGED <<disk, may, hit>>
       \/ /\ loc[c].prev # <<>> /\ dir
          /\ \/ /\ disk' = [disk EXCEPT ![n] = loc[c].prev]
                /\ Finish(c, "error", TRUE, FALSE) /\ UNCHANGED <<may, hit>>
             \/ Fault("restore") /\ Fails(c) /\ UNCHANGED disk
             \/ /\ Fault("flush")
                /\ disk' = [disk EXCEPT ![n] = <<>>]
                /\ Finish(c, "error", TRUE, FALSE)
    /\ UNCHANGED <<ino, dir, kind, req, loc, pages, found, overlap, shared>>

Step(c) ==
    \/ Stat(c) \/ LoadForWrite(c) \/ LoadForEdit(c) \/ LoadForRead(c)
    \/ OpenForWriting(c) \/ Mkdir(c) \/ Reopen(c) \/ WriteClose(c)
    \/ RestoreNew(c) \/ RestoreOld(c)

\* A reader that spins after a read error.
Spin(c) == pc[c] = "spin" /\ UNCHANGED vars

\* All calls are over.
Idle == (\A c \in Callers : pc[c] = "done" \/ req[c] = NoCall) /\ UNCHANGED vars

Next == (\E c \in Callers : Step(c) \/ Spin(c)) \/ Idle

Spec == Init /\ [][Next]_vars

\* A tool thread is scheduled: a call that is not over takes its next step.
FairSpec == Spec /\ \A c \in Callers : WF_vars(Step(c))

-----------------------------------------------------------------------------
(* Properties *)

Texts == {Absent} \cup Seq({LF, CR, Blank, Bom, "a", "b"})

\* Types of the variables.
TypeOK ==
    /\ disk \in [Names -> Texts]
    /\ ino \in Nat /\ dir \in BOOLEAN /\ kind \in Kinds
    /\ pc \in [Callers -> Running \cup {"idle", "done", "spin"}]
    /\ \A c \in Callers :
         /\ loc[c].prev \in Texts /\ loc[c].new \in Texts /\ loc[c].resolved \in Names
         /\ reply[c].status \in {"none", "ok", "same", "error"}
    /\ may \cap hit = {}
    /\ ~dir => \A n \in Names : disk[n] = Absent

Opened(c) == pc[c] \in {"open", "write", "restore"} /\ req[c].tool = "edit"

\* The bytes `edit` writes back are the bytes it read with the old texts, and
\* nothing else, replaced: byte order mark, line endings and every byte between
\* two edits included (tool_edit applies the matches from the last to the
\* first in a normal form and converts back).  Files that mix CR LF with LF
\* are the exception: all their line endings become CR LF.
EditInPlace ==
    \A c \in Callers : Opened(c) /\ ~MixedEndings(loc[c].prev) =>
        loc[c].new = ReplacedInPlace(loc[c].prev, req[c].ops)

\* What `edit` replaces is the old text up to blanks at line ends, although
\* the position was found in a text without them and mapped back.
MatchIsOldText ==
    \A c \in Callers : Opened(c) =>
        LET crlf == HasCrlf(Body(loc[c].prev))
            text == Normal(Body(loc[c].prev), crlf)
            ms   == Matches(text, req[c].ops, crlf)
        IN  \A k \in DOMAIN ms :
               strip_trailing_ws(SubSeq(text, ms[k].pos, ms[k].pos + ms[k].len - 1))
                   = strip_trailing_ws(Normal(req[c].ops[ms[k].op].old, crlf))

\* A client that follows next_offset gets the lines in order, none twice and none
\* left out, and is told when there are no more: at the end of the file, or beyond
\* it (empty_reason) when the file was cut short between two pages.
PagesJoin ==
    \A c \in Callers : ~overlap[c] => LET p == pages[c] IN
        /\ \A i \in DOMAIN p :
             /\ p[i].from = IF i = 1 THEN 1 ELSE p[i - 1].from + p[i - 1].lines
             /\ p[i].next # 0 => p[i].lines > 0
        /\ (pc[c] = "done" /\ p # <<>> /\ Last(p).next = 0) =>
               LET lines == LineCount(found[c].disk[loc[c].resolved])
               IN  IF Last(p).from > lines THEN Last(p).lines = 0
                   ELSE Last(p).from + Last(p).lines - 1 = lines

\* `edit` changes what it was asked to and nothing else, and `read` returns every
\* line once: the three statements above, and the types of the variables.
TextExact == TypeOK /\ EditInPlace /\ MatchIsOldText /\ PagesJoin

Ends(c) == pc[c] # "done" /\ pc'[c] = "done"

\* `write` was given a missing name and found a look-alike (stat_normalized).
LookAlike(c) == req[c].tool = "write" /\ loc[c].resolved = "look"

\* A file holds the bytes of one call, whole, whenever nobody has it open: a mix
\* of two texts needs two calls that had it open at once, or a fault.
WholeTexts ==
    (~shared /\ hit = {} /\ \A c \in Callers : pc[c] \notin {"write", "restore"}) =>
        \A n \in Names : \/ \E c \in Callers : disk[n] = found[c].disk[n]
                         \/ \E c \in Callers : disk[n] = loc[c].new

\* A write or edit that reports success, and that no other call overlapped, has
\* left exactly its bytes in the file, computed from the file it found, and
\* reports truly whether it created it.  Exceptions: the look-alike, which is
\* taken for the file, and an edit whose read failed half way, which takes the
\* beginning of the file for all of it.
EffectIsReported ==
    [][\A c \in Callers :
        (Ends(c) /\ reply'[c].status = "ok" /\ req[c].tool # "read" /\ ~overlap'[c]) =>
            /\ disk'[Target(c)] = loc[c].new
            /\ (req[c].tool = "edit" /\ "read" \notin hit) =>
                   loc[c].prev = found[c].disk[Target(c)]
            /\ ~LookAlike(c) => reply'[c].created = (found[c].disk[Target(c)] = Absent)
      ]_vars

\* A failed call leaves nothing behind: unless it says that the file may be
\* incomplete, files and directories are as it found them.  The exceptions are
\* another call at the same time, a look-alike (its old bytes are written to
\* the wrong name), and a rollback whose last flush fails unnoticed.
FailureUndone ==
    [][\A c \in Callers :
        (/\ Ends(c) /\ reply'[c].status = "error" /\ ~overlap'[c]
         /\ pc[c] = "restore" => reply'[c].restored
         /\ ~LookAlike(c) /\ "flush" \notin hit' /\ ~("read" \in hit /\ req[c].tool = "edit"))
            => disk' = found'[c].disk /\ dir' = found'[c].dir
      ]_vars

\* Every call ends, unless a read error sent the reader into its endless
\* loop; so a client that pages through a file has all of it in the end.
CallsEnd == \A c \in Callers : (req[c] # NoCall) ~> (pc[c] \in {"done", "spin"})
=============================================================================

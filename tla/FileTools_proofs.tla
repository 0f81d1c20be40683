-------------------------- MODULE FileTools_proofs --------------------------
(***************************************************************************)
(* What the file tools promise, for any number of calls, any files and any *)
(* faults.  What an edit does to the text (EditText) plays no part here:   *)
(* the bytes a call writes are whatever it has computed.                   *)
(*                                                                         *)
(* A call that no other one overlapped is the only one that has touched    *)
(* the file since its stat(): Alone says how far it has come, with respect *)
(* to the files it found.                                                  *)
(***************************************************************************)
EXTENDS FileTools, TLAPS

-----------------------------------------------------------------------------
(* Shapes. *)

Locals == {"existed", "resolved", "prev", "new", "handle", "made", "start"}

Shape ==
    /\ disk = [n \in Names |-> disk[n]]
    /\ DOMAIN pc = Callers /\ DOMAIN loc = Callers /\ DOMAIN reply = Callers
    /\ DOMAIN found = Callers /\ DOMAIN overlap = Callers
    /\ \A c \in Callers : /\ DOMAIN loc[c] = Locals
                          /\ loc[c].existed \in BOOLEAN /\ loc[c].made \in BOOLEAN
                          /\ loc[c].resolved \in Names
                          /\ overlap[c] \in BOOLEAN
                          /\ pc[c] \in Running \cup {"idle", "done", "spin"}
    /\ dir \in BOOLEAN
    /\ ~dir => \A n \in Names : disk[n] = Absent

\* What a step of one call leaves to the others.
Others(c) ==
    /\ UNCHANGED <<req, kind>>
    /\ \A d \in Callers \ {c} : /\ pc'[d] = pc[d] /\ loc'[d] = loc[d]
                                /\ found'[d] = found[d] /\ reply'[d] = reply[d]

\* What stat() and the refusals after it leave: files and directories as they
\* were, and a call that is over or has its next step before it.
LEMMA StatShape ==
    ASSUME Shape, NEW c \in Callers, Stat(c)
    PROVE  /\ Shape' /\ Others(c)
           /\ UNCHANGED <<disk, ino, dir, hit, shared>>
           /\ found'[c] = [disk |-> disk, dir |-> dir]
           /\ pc[c] = "idle" /\ pc'[c] \in {"load", "done"}
           /\ reply'[c].status # "ok" \/ pc'[c] = "load"
           /\ loc'[c] = [NoLocals EXCEPT
                  !.existed = stat_normalized # "none",
                  !.resolved = IF stat_normalized = "none" THEN "path" ELSE stat_normalized,
                  !.start = loc[c].start]
           /\ \A d \in Callers : overlap'[d] = \/ overlap[d]
                                               \/ d # c /\ pc[d] \in Running
                                               \/ d = c /\ \E x \in Callers \ {c} : pc[x] \in Running
           /\ pc'[c] = "load" => /\ req[c] # NoCall
                                 /\ req[c].tool \in {"read", "edit"} => stat_normalized # "none"
<1> DEFINE at == stat_normalized
           others == {d \in Callers \ {c} : pc[d] \in Running}
           l == [NoLocals EXCEPT
                  !.existed = at # "none",
                  !.resolved = IF at = "none" THEN "path" ELSE at,
                  !.start = loc[c].start]
<1>1. /\ req[c] # NoCall /\ pc[c] = "idle"
      /\ loc' = [loc EXCEPT ![c] = l]
      /\ found' = [found EXCEPT ![c] = [disk |-> disk, dir |-> dir]]
      /\ overlap' = [d \in Callers |-> overlap[d] \/ d \in others \/ (d = c /\ others # {})]
      /\ UNCHANGED <<disk, ino, dir, kind, req, pages, may, hit, shared>>
  BY Zenon DEF Stat
<1>2. at \in {"path", "look", "none"}
  BY DEF stat_normalized
<1>3. \/ pc' = [pc EXCEPT ![c] = "load"] /\ reply' = reply
         /\ (req[c].tool \in {"read", "edit"} => at # "none")
      \/ /\ pc' = [pc EXCEPT ![c] = "done"]
         /\ \E s \in {"error", "same"} :
               reply' = [reply EXCEPT ![c] = [status |-> s, restored |-> FALSE, created |-> FALSE]]
  BY DEF Stat, Goto, Fails, Finish
<1>4. /\ DOMAIN l = Locals /\ l.existed \in BOOLEAN /\ l.made \in BOOLEAN /\ l.resolved \in Names
  BY <1>2 DEF NoLocals, Locals, Names
<1> HIDE DEF at, l
<1>5. Others(c) /\ loc'[c] = l /\ found'[c] = [disk |-> disk, dir |-> dir]
  BY <1>1, <1>3 DEF Others, Shape
<1>6. pc'[c] \in {"load", "done"} /\ (reply'[c].status # "ok" \/ pc'[c] = "load")
  BY <1>3 DEF Shape
<1>7. \A d \in Callers : overlap'[d] = \/ overlap[d]
                                       \/ d # c /\ pc[d] \in Running
                                       \/ d = c /\ \E x \in Callers \ {c} : pc[x] \in Running
  BY <1>1
<1>8. pc'[c] = "load" /\ req[c].tool \in {"read", "edit"} => at # "none"
  BY <1>3 DEF Shape
<1>9. Shape'
  <2>1. DOMAIN pc' = Callers /\ DOMAIN loc' = Callers /\ DOMAIN reply' = Callers
        /\ DOMAIN found' = Callers /\ DOMAIN overlap' = Callers
    BY <1>1, <1>3 DEF Shape
  <2>2. \A d \in Callers : pc'[d] \in Running \cup {"idle", "done", "spin"}
    BY <1>3 DEF Shape, Running
  <2>3. \A d \in Callers : overlap'[d] \in BOOLEAN
    BY <1>1
  <2>4. \A d \in Callers : DOMAIN loc'[d] = Locals
                          /\ loc'[d].existed \in BOOLEAN /\ loc'[d].made \in BOOLEAN
                          /\ loc'[d].resolved \in Names
    BY <1>1, <1>4 DEF Shape
  <2>5. QED
    BY <1>1, <2>1, <2>2, <2>3, <2>4 DEF Shape
<1>10. QED
  BY <1>1, <1>5, <1>6, <1>7, <1>8, <1>9 DEF at, l

\* The part of Shape a step of c can disturb.
LEMMA ShapeKept ==
    ASSUME Shape, NEW c \in Callers, UNCHANGED <<found, overlap>>,
           disk' = [n \in Names |-> disk'[n]],
           DOMAIN pc' = Callers, DOMAIN loc' = Callers, DOMAIN reply' = Callers,
           Others(c), DOMAIN loc'[c] = Locals, loc'[c].existed \in BOOLEAN,
           loc'[c].made \in BOOLEAN, loc'[c].resolved \in Names,
           pc'[c] \in Running \cup {"idle", "done", "spin"},
           dir' \in BOOLEAN, ~dir' => \A n \in Names : disk'[n] = Absent
    PROVE  Shape'
<1>1. \A d \in Callers : /\ DOMAIN loc'[d] = Locals
                         /\ loc'[d].existed \in BOOLEAN /\ loc'[d].made \in BOOLEAN
                         /\ loc'[d].resolved \in Names
                         /\ pc'[d] \in Running \cup {"idle", "done", "spin"}
  BY DEF Shape, Others
<1>2. QED
  BY <1>1 DEF Shape

\* Steps that leave the file system alone.
LEMMA ShapeKeptStill ==
    ASSUME Shape, NEW c \in Callers, UNCHANGED <<disk, dir, found, overlap>>,
           DOMAIN pc' = Callers, DOMAIN loc' = Callers, DOMAIN reply' = Callers,
           Others(c), DOMAIN loc'[c] = Locals, loc'[c].existed = loc[c].existed,
           loc'[c].made \in BOOLEAN, loc'[c].resolved = loc[c].resolved,
           pc'[c] \in Running \cup {"idle", "done", "spin"}
    PROVE  Shape'
<1>1. /\ disk' = [n \in Names |-> disk'[n]]
      /\ dir' \in BOOLEAN /\ (~dir' => \A n \in Names : disk'[n] = Absent)
      /\ loc'[c].existed \in BOOLEAN /\ loc'[c].resolved \in Names
  BY DEF Shape
<1>2. QED
  BY <1>1, ShapeKept

\* write: the file is unchanged, the kept bytes are those of the file or none.
LEMMA LoadForWriteStep ==
    ASSUME Shape, NEW c \in Callers, LoadForWrite(c)
    PROVE  /\ Shape' /\ Others(c) /\ UNCHANGED <<disk, ino, dir, found, overlap, shared>>
           /\ pc[c] = "load" /\ req[c].tool = "write" /\ hit \subseteq hit'
           /\ \/ /\ pc'[c] = "open" /\ reply'[c] = reply[c]
                 /\ loc'[c].prev = <<>> \/ loc'[c].prev = disk[loc[c].resolved]
                 /\ \A x \in Locals \ {"prev", "new"} : loc'[c][x] = loc[c][x]
              \/ pc'[c] = "done" /\ reply'[c].status = "error" /\ loc'[c] = loc[c]
<1> DEFINE bytes == Content(loc[c].resolved)
           keep  == loc[c].existed /\ kind # "big" /\ bytes # Absent
           p == IF keep THEN bytes ELSE <<>>
<1>1. /\ pc[c] = "load" /\ req[c].tool = "write"
      /\ UNCHANGED <<disk, ino, dir, kind, req, pages, found, overlap, shared>>
      /\ \/ /\ loc' = [loc EXCEPT ![c].prev = p, ![c].new = req[c].text]
            /\ pc' = [pc EXCEPT ![c] = "open"]
            /\ UNCHANGED <<reply, may, hit>>
         \/ Fault("read") /\ Fails(c) /\ UNCHANGED loc
  BY DEF LoadForWrite, Goto
<1>2. p = <<>> \/ p = disk[loc[c].resolved]
  BY DEF Content
<1> HIDE DEF p
<1>3. CASE /\ loc' = [loc EXCEPT ![c].prev = p, ![c].new = req[c].text]
           /\ pc' = [pc EXCEPT ![c] = "open"]
           /\ UNCHANGED <<reply, may, hit>>
  <2>1. Others(c) /\ pc'[c] = "open" /\ reply'[c] = reply[c]
    BY <1>1, <1>3 DEF Others, Shape
  <2>2. DOMAIN pc' = Callers /\ DOMAIN loc' = Callers /\ DOMAIN reply' = Callers
    BY <1>3 DEF Shape
  <2>3. loc'[c] = [loc[c] EXCEPT !.prev = p, !.new = req[c].text] /\ DOMAIN loc[c] = Locals
    BY <1>3 DEF Shape
  <2>4. DOMAIN loc'[c] = Locals /\ loc'[c].prev = p /\ \A x \in Locals \ {"prev", "new"} : loc'[c][x] = loc[c][x]
    BY <2>3 DEF Locals
  <2>5. /\ loc'[c].existed = loc[c].existed /\ loc'[c].made = loc[c].made /\ loc'[c].resolved = loc[c].resolved
    BY <2>4 DEF Locals
  <2>6. Shape'
    <3>1. loc'[c].made \in BOOLEAN /\ pc'[c] \in Running \cup {"idle", "done", "spin"}
      BY <2>1, <2>5 DEF Shape, Running
    <3>2. QED
      BY <1>1, <2>1, <2>2, <2>4, <2>5, <3>1, ShapeKeptStill
  <2>7. QED
    BY <1>1, <1>2, <1>3, <2>1, <2>4, <2>6
<1>4. CASE Fault("read") /\ Fails(c) /\ UNCHANGED loc
  <2>1. /\ pc' = [pc EXCEPT ![c] = "done"] /\ hit \subseteq hit'
        /\ reply' = [reply EXCEPT ![c] = [status |-> "error", restored |-> FALSE, created |-> FALSE]]
    BY <1>4 DEF Fault, Fails, Finish, Goto
  <2>2. Others(c) /\ pc'[c] = "done" /\ reply'[c].status = "error"
    BY <1>1, <1>4, <2>1 DEF Others, Shape
  <2>3. Shape'
    <3>1. DOMAIN pc' = Callers /\ DOMAIN loc' = Callers /\ DOMAIN reply' = Callers
      BY <1>4, <2>1 DEF Shape
    <3>2. DOMAIN loc'[c] = Locals /\ loc'[c].made \in BOOLEAN
      BY <1>4 DEF Shape
    <3>3. QED
      BY <1>1, <1>4, <2>2, <3>1, <3>2, ShapeKeptStill
  <2>4. QED
    BY <1>1, <1>4, <2>1, <2>2, <2>3
<1>5. QED
  BY <1>1, <1>3, <1>4

\* edit: the file is unchanged, and the bytes the edit was computed from are
\* those of the file unless a read failed; whatever EditText made of them.
LEMMA LoadForEditStep ==
    ASSUME Shape, NEW c \in Callers, LoadForEdit(c)
    PROVE  /\ Shape' /\ Others(c) /\ UNCHANGED <<disk, ino, dir, found, overlap, shared>>
           /\ pc[c] = "load" /\ req[c].tool = "edit" /\ hit \subseteq hit'
           /\ \/ /\ pc'[c] = "open" /\ reply'[c] = reply[c]
                 /\ "read" \in hit' \/ (dir /\ loc'[c].prev = disk[loc[c].resolved])
                 /\ \A x \in Locals \ {"prev", "new"} : loc'[c][x] = loc[c][x]
              \/ pc'[c] = "done" /\ reply'[c].status # "ok" /\ loc'[c] = loc[c]
<1> DEFINE bytes == Content(loc[c].resolved)
           Take(b, e) ==
              \/ e.status = "invalid" /\ Fails(c) /\ UNCHANGED loc
              \/ e.status = "same" /\ Finish(c, "same", FALSE, FALSE) /\ UNCHANGED loc
              \/ /\ e.status = "change"
                 /\ loc' = [loc EXCEPT ![c].prev = b, ![c].new = e.bytes]
                 /\ Goto(c, "open")
                 /\ UNCHANGED reply
           Edit(b) == \E text \in {NormalText(b)} :
                      \E at \in {Found(text, req[c].ops, Crlf(b))} :
                      \E e \in {EditBytes(b, text, at, req[c].ops)} : Take(b, e)
           Change(b, v) ==
              /\ loc' = [loc EXCEPT ![c].prev = b, ![c].new = v]
              /\ pc' = [pc EXCEPT ![c] = "open"]
              /\ reply' = reply
           Stop ==
              /\ loc' = loc /\ pc' = [pc EXCEPT ![c] = "done"]
              /\ \E s \in {"error", "same"} :
                    reply' = [reply EXCEPT ![c] = [status |-> s, restored |-> FALSE, created |-> FALSE]]
<1>1. /\ pc[c] = "load" /\ req[c].tool = "edit"
      /\ UNCHANGED <<disk, ino, dir, kind, req, pages, found, overlap, shared>>
  BY DEF LoadForEdit
<1>2. \/ bytes = Absent /\ Fails(c) /\ UNCHANGED <<loc, may, hit>>
      \/ bytes # Absent /\ Edit(bytes) /\ UNCHANGED <<may, hit>>
      \/ bytes # Absent /\ Fault("read") /\ \E b : Edit(b)
  <2>1. \E y \in {bytes} :
             \/ y = Absent /\ Fails(c) /\ UNCHANGED <<loc, may, hit>>
             \/ y # Absent /\ Edit(y) /\ UNCHANGED <<may, hit>>
             \/ /\ y # Absent /\ Fault("read")
                /\ \E b \in StrictPrefixes(y) : Edit(b)
    BY Zenon DEF LoadForEdit
  <2> HIDE DEF Edit, bytes
  <2>2. QED
    BY <2>1, Zenon
<1>3. ASSUME NEW b, Edit(b) PROVE Stop \/ \E v : Change(b, v)
  <2>1. PICK e : Take(b, e)
    BY <1>3
  <2>2. QED
    BY <2>1 DEF Fails, Finish, Goto
<1>4. Fails(c) /\ UNCHANGED loc => Stop
  BY DEF Fails, Finish, Goto
<1> HIDE DEF Edit, Take
<1>5. ASSUME Stop, hit \subseteq hit'
      PROVE  /\ Shape' /\ Others(c) /\ pc'[c] = "done" /\ reply'[c].status # "ok" /\ loc'[c] = loc[c]
  <2>1. Others(c) /\ pc'[c] = "done" /\ reply'[c].status # "ok" /\ loc'[c] = loc[c]
    BY <1>1, <1>5 DEF Others, Shape
  <2>2. Shape'
    <3>1. DOMAIN pc' = Callers /\ DOMAIN loc' = Callers /\ DOMAIN reply' = Callers
      BY <1>5 DEF Shape
    <3>2. DOMAIN loc'[c] = Locals /\ loc'[c].made \in BOOLEAN
      BY <1>5 DEF Shape
    <3>3. QED
      BY <1>1, <1>5, <2>1, <3>1, <3>2, ShapeKeptStill
  <2>3. QED
    BY <2>1, <2>2
<1>6. ASSUME NEW b, NEW v, Change(b, v)
      PROVE  /\ Shape' /\ Others(c) /\ pc'[c] = "open" /\ reply'[c] = reply[c] /\ loc'[c].prev = b
             /\ \A x \in Locals \ {"prev", "new"} : loc'[c][x] = loc[c][x]
  <2>1. Others(c) /\ pc'[c] = "open" /\ reply'[c] = reply[c]
    BY <1>1, <1>6 DEF Others, Shape
  <2>2. DOMAIN pc' = Callers /\ DOMAIN loc' = Callers /\ DOMAIN reply' = Callers
    BY <1>6 DEF Shape
  <2>3. loc'[c] = [loc[c] EXCEPT !.prev = b, !.new = v] /\ DOMAIN loc[c] = Locals
    BY <1>6 DEF Shape
  <2>4. DOMAIN loc'[c] = Locals /\ loc'[c].prev = b /\ \A x \in Locals \ {"prev", "new"} : loc'[c][x] = loc[c][x]
    BY <2>3 DEF Locals
  <2>5. /\ loc'[c].existed = loc[c].existed /\ loc'[c].made = loc[c].made /\ loc'[c].resolved = loc[c].resolved
    BY <2>4 DEF Locals
  <2>6. Shape'
    <3>1. loc'[c].made \in BOOLEAN /\ pc'[c] \in Running \cup {"idle", "done", "spin"}
      BY <2>1, <2>5 DEF Shape, Running
    <3>2. QED
      BY <1>1, <2>1, <2>2, <2>4, <2>5, <3>1, ShapeKeptStill
  <2>7. QED
    BY <2>1, <2>4, <2>6
<1>7. bytes # Absent => dir /\ bytes = disk[loc[c].resolved]
  BY DEF Content
<1> HIDE DEF bytes, Stop, Change
<1>8. CASE bytes = Absent /\ Fails(c) /\ UNCHANGED <<loc, may, hit>>
  BY <1>1, <1>4, <1>5, <1>8
<1>9. CASE bytes # Absent /\ Edit(bytes) /\ UNCHANGED <<may, hit>>
  BY <1>1, <1>3, <1>5, <1>6, <1>7, <1>9
<1>10. CASE bytes # Absent /\ Fault("read") /\ \E b : Edit(b)
  <2>1. "read" \in hit' /\ hit \subseteq hit'
    BY <1>10 DEF Fault
  <2>2. PICK b : Edit(b)
    BY <1>10
  <2>3. QED
    BY <1>1, <1>3, <1>5, <1>6, <2>1, <2>2
<1>11. QED
  BY <1>2, <1>8, <1>9, <1>10

\* read: the file is unchanged.
LEMMA LoadForReadStep ==
    ASSUME Shape, NEW c \in Callers, LoadForRead(c)
    PROVE  /\ Shape' /\ Others(c) /\ UNCHANGED <<disk, ino, dir, found, overlap, shared>>
           /\ pc[c] = "load" /\ req[c].tool = "read" /\ hit \subseteq hit'
           /\ pc'[c] \in {"done", "idle", "spin"}
<1> DEFINE Stay == loc' = loc \/ \E s : loc' = [loc EXCEPT ![c].start = s]
           Leave == \/ \E p \in {"idle", "spin"} : pc' = [pc EXCEPT ![c] = p] /\ reply' = reply
                    \/ /\ pc' = [pc EXCEPT ![c] = "done"]
                       /\ \E s : reply' = [reply EXCEPT ![c] = s]
<1>1. /\ pc[c] = "load" /\ req[c].tool = "read"
      /\ UNCHANGED <<disk, ino, dir, kind, req, found, overlap, shared>>
  BY DEF LoadForRead
<1>2. hit \subseteq hit'
  BY DEF LoadForRead, Fault
<1>3. Stay /\ Leave
  BY DEF LoadForRead, Fails, Finish, Goto
<1>4. Others(c) /\ pc'[c] \in {"done", "idle", "spin"}
  <2>1. \A d \in Callers \ {c} : pc'[d] = pc[d] /\ reply'[d] = reply[d]
    BY <1>3 DEF Shape
  <2>2. \A d \in Callers \ {c} : loc'[d] = loc[d]
    BY <1>3 DEF Shape
  <2>3. pc'[c] \in {"done", "idle", "spin"}
    BY <1>3 DEF Shape
  <2>4. QED
    BY <1>1, <2>1, <2>2, <2>3 DEF Others
<1>5. /\ DOMAIN pc' = Callers /\ DOMAIN loc' = Callers /\ DOMAIN reply' = Callers
  BY <1>3 DEF Shape
<1>6. /\ DOMAIN loc'[c] = Locals /\ loc'[c].made = loc[c].made
      /\ loc'[c].existed = loc[c].existed /\ loc'[c].resolved = loc[c].resolved
  <2>1. CASE loc' = loc
    BY <2>1 DEF Shape
  <2>2. ASSUME NEW s, loc' = [loc EXCEPT ![c].start = s]
        PROVE /\ DOMAIN loc'[c] = Locals /\ loc'[c].made = loc[c].made
              /\ loc'[c].existed = loc[c].existed /\ loc'[c].resolved = loc[c].resolved
    <3>1. loc'[c] = [loc[c] EXCEPT !.start = s] /\ DOMAIN loc[c] = Locals
      BY <2>2 DEF Shape
    <3>2. QED
      BY <3>1 DEF Locals
  <2>3. QED
    BY <1>3, <2>1, <2>2
<1>7. Shape'
  <2>1. loc'[c].made \in BOOLEAN /\ pc'[c] \in Running \cup {"idle", "done", "spin"}
    BY <1>4, <1>6 DEF Shape
  <2>2. QED
    BY <1>1, <1>4, <1>5, <1>6, <2>1, ShapeKeptStill
<1>8. QED
  BY <1>1, <1>2, <1>4, <1>7

\* The step of a failing call.
LEMMA Failing ==
    ASSUME Shape, NEW c \in Callers, Fails(c), UNCHANGED <<req, kind, loc, found, overlap>>
    PROVE  /\ Others(c) /\ pc'[c] = "done" /\ reply'[c].status = "error"
           /\ reply'[c].restored = FALSE
           /\ UNCHANGED <<disk, dir>> => Shape'
           /\ UNCHANGED disk /\ dir' \in BOOLEAN /\ (~dir' => \A n \in Names : disk[n] = Absent) => Shape'
<1>1. /\ pc' = [pc EXCEPT ![c] = "done"]
      /\ reply' = [reply EXCEPT ![c] = [status |-> "error", restored |-> FALSE, created |-> FALSE]]
  BY DEF Fails, Finish, Goto
<1>2. /\ Others(c) /\ pc'[c] = "done" /\ reply'[c].status = "error"
      /\ reply'[c].restored = FALSE
  BY <1>1 DEF Others, Shape
<1>3. DOMAIN pc' = Callers /\ DOMAIN loc' = Callers /\ DOMAIN reply' = Callers
  BY <1>1 DEF Shape
<1>4. /\ DOMAIN loc'[c] = Locals /\ loc'[c].made \in BOOLEAN /\ loc'[c].existed \in BOOLEAN
      /\ loc'[c].resolved \in Names /\ disk = [n \in Names |-> disk[n]]
      /\ dir \in BOOLEAN /\ (~dir => \A n \in Names : disk[n] = Absent)
  BY DEF Shape
<1>5. UNCHANGED disk /\ dir' \in BOOLEAN /\ (~dir' => \A n \in Names : disk[n] = Absent) => Shape'
  BY <1>2, <1>3, <1>4, ShapeKept
<1>6. QED
  BY <1>2, <1>4, <1>5

\* open() with truncation: the target is empty, and only the target changed.
LEMMA TruncateStep ==
    ASSUME Shape, NEW c \in Callers, Truncate(c), dir, UNCHANGED <<req, kind, found, overlap>>
    PROVE  /\ Shape' /\ Others(c) /\ dir'
           /\ disk' = [disk EXCEPT ![Target(c)] = <<>>] /\ Target(c) \in Names
           /\ disk'[Target(c)] = <<>>
           /\ \A n \in Names \ {Target(c)} : disk'[n] = disk[n]
           /\ pc'[c] = "write" /\ reply'[c] = reply[c] /\ loc'[c].handle = ino
           /\ \A x \in Locals \ {"handle"} : loc'[c][x] = loc[c][x]
           /\ shared' = (shared \/ \E d \in Callers \ {c} : pc[d] = "write")
<1>1. /\ disk' = [disk EXCEPT ![Target(c)] = <<>>]
      /\ loc' = [loc EXCEPT ![c].handle = ino]
      /\ pc' = [pc EXCEPT ![c] = "write"]
      /\ shared' = (shared \/ \E d \in Callers \ {c} : pc[d] = "write")
      /\ UNCHANGED <<reply, dir>>
  BY DEF Truncate, Goto
<1>2. Target(c) \in Names
  BY DEF Target, Shape, Names
<1>3. DOMAIN disk = Names
  BY DEF Shape
<1>4. /\ disk' = [n \in Names |-> disk'[n]] /\ disk'[Target(c)] = <<>>
      /\ \A n \in Names \ {Target(c)} : disk'[n] = disk[n]
  BY <1>1, <1>2, <1>3
<1>5. Others(c) /\ pc'[c] = "write" /\ reply'[c] = reply[c]
  BY <1>1 DEF Others, Shape
<1>6. DOMAIN pc' = Callers /\ DOMAIN loc' = Callers /\ DOMAIN reply' = Callers
  BY <1>1 DEF Shape
<1>7. loc'[c] = [loc[c] EXCEPT !.handle = ino] /\ DOMAIN loc[c] = Locals
  BY <1>1 DEF Shape
<1>8. DOMAIN loc'[c] = Locals /\ loc'[c].handle = ino /\ \A x \in Locals \ {"handle"} : loc'[c][x] = loc[c][x]
  BY <1>7 DEF Locals
<1>9. Shape'
  <2>1. loc'[c].existed \in BOOLEAN /\ loc'[c].made \in BOOLEAN /\ loc'[c].resolved \in Names
    BY <1>8 DEF Shape, Locals
  <2>2. pc'[c] \in Running \cup {"idle", "done", "spin"} /\ dir'
    BY <1>1, <1>5 DEF Running
  <2>3. QED
    BY <1>4, <1>5, <1>6, <1>8, <2>1, <2>2, ShapeKept
<1>10. QED
  BY <1>1, <1>2, <1>4, <1>5, <1>8, <1>9

\* The three outcomes of the first open().
LEMMA OpenStep ==
    ASSUME Shape, NEW c \in Callers, OpenForWriting(c)
    PROVE  /\ Shape' /\ Others(c) /\ UNCHANGED <<ino, dir, found, overlap>>
           /\ pc[c] = "open" /\ hit \subseteq hit'
           /\ \/ /\ dir /\ pc'[c] = "write" /\ loc'[c].handle = ino /\ hit' = hit
                 /\ disk'[Target(c)] = <<>> /\ Target(c) \in Names
                 /\ \A n \in Names \ {Target(c)} : disk'[n] = disk[n]
                 /\ \A x \in Locals \ {"handle"} : loc'[c][x] = loc[c][x]
                 /\ shared' = (shared \/ \E d \in Callers \ {c} : pc[d] = "write")
              \/ /\ ~dir /\ pc'[c] = "mkdir" /\ req[c].tool = "write"
                 /\ disk' = disk /\ loc'[c] = loc[c] /\ shared' = shared
              \/ /\ pc'[c] = "done" /\ reply'[c].status = "error"
                 /\ disk' = disk /\ loc'[c] = loc[c] /\ shared' = shared
<1>1. /\ pc[c] = "open"
      /\ UNCHANGED <<ino, kind, req, pages, found, overlap>>
      /\ \/ dir /\ Truncate(c) /\ UNCHANGED <<may, hit>>
         \/ /\ ~dir /\ req[c].tool = "write" /\ pc' = [pc EXCEPT ![c] = "mkdir"] /\ UNCHANGED reply
            /\ UNCHANGED <<disk, dir, loc, shared, may, hit>>
         \/ Fails(c) /\ UNCHANGED <<disk, dir, loc, shared, may, hit>>
         \/ Fault("open") /\ Fails(c) /\ UNCHANGED <<disk, dir, loc, shared>>
  BY DEF OpenForWriting, Goto
<1>2. CASE dir /\ Truncate(c) /\ UNCHANGED <<may, hit>>
  <2>1. UNCHANGED dir
    BY <1>2 DEF Truncate
  <2>2. QED
    BY <1>1, <1>2, <2>1, TruncateStep
<1>3. CASE /\ ~dir /\ req[c].tool = "write" /\ pc' = [pc EXCEPT ![c] = "mkdir"] /\ UNCHANGED reply
           /\ UNCHANGED <<disk, dir, loc, shared, may, hit>>
  <2>1. Others(c) /\ pc'[c] = "mkdir"
    BY <1>1, <1>3 DEF Others, Shape
  <2>2. /\ DOMAIN pc' = Callers /\ DOMAIN loc' = Callers /\ DOMAIN reply' = Callers
        /\ DOMAIN loc'[c] = Locals /\ loc'[c].made \in BOOLEAN
        /\ pc'[c] \in Running \cup {"idle", "done", "spin"}
    BY <1>3, <2>1 DEF Shape, Running
  <2>3. Shape'
    BY <1>1, <1>3, <2>1, <2>2, ShapeKeptStill
  <2>4. QED
    BY <1>1, <1>3, <2>1, <2>3
<1>4. CASE Fails(c) /\ UNCHANGED <<disk, dir, loc, shared>> /\ hit \subseteq hit'
  BY <1>1, <1>4, Failing
<1>5. Fault("open") => hit \subseteq hit'
  BY DEF Fault
<1>6. QED
  BY <1>1, <1>2, <1>3, <1>4, <1>5

\* The call made the directory if it was missing.
LEMMA MkdirStep ==
    ASSUME Shape, NEW c \in Callers, Mkdir(c)
    PROVE  /\ Shape' /\ Others(c) /\ UNCHANGED <<disk, ino, found, overlap, shared, hit>>
           /\ pc[c] = "mkdir" /\ pc'[c] = "reopen" /\ dir' = TRUE
           /\ loc'[c].made = ~dir
           /\ \A x \in Locals \ {"made"} : loc'[c][x] = loc[c][x]
<1>1. /\ pc[c] = "mkdir" /\ dir' = TRUE
      /\ loc' = [loc EXCEPT ![c].made = ~dir]
      /\ pc' = [pc EXCEPT ![c] = "reopen"]
      /\ UNCHANGED <<disk, ino, kind, req, reply, pages, may, hit, found, overlap, shared>>
  BY DEF Mkdir, Goto
<1>2. Others(c) /\ pc'[c] = "reopen"
  BY <1>1 DEF Others, Shape
<1>3. DOMAIN pc' = Callers /\ DOMAIN loc' = Callers /\ DOMAIN reply' = Callers
  BY <1>1 DEF Shape
<1>4. loc'[c] = [loc[c] EXCEPT !.made = ~dir] /\ DOMAIN loc[c] = Locals
  BY <1>1 DEF Shape
<1>5. DOMAIN loc'[c] = Locals /\ loc'[c].made = ~dir /\ \A x \in Locals \ {"made"} : loc'[c][x] = loc[c][x]
  BY <1>4 DEF Locals
<1>6. Shape'
  <2>1. loc'[c].existed \in BOOLEAN /\ loc'[c].made \in BOOLEAN /\ loc'[c].resolved \in Names
    BY <1>5 DEF Shape, Locals
  <2>2. /\ pc'[c] \in Running \cup {"idle", "done", "spin"} /\ dir'
        /\ disk' = [n \in Names |-> disk'[n]]
    BY <1>1, <1>2 DEF Running, Shape
  <2>3. QED
    BY <1>1, <1>2, <1>3, <1>5, <2>1, <2>2, ShapeKept
<1>7. QED
  BY <1>1, <1>2, <1>5, <1>6

\* rmdir() leaves a directory with files alone.
LEMMA RemoveMadeStep ==
    ASSUME Shape, NEW c \in Callers, NEW files, RemoveMade(c, files),
           ~dir => \A n \in Names : files[n] = Absent
    PROVE  /\ dir' \in BOOLEAN /\ (~dir' => \A n \in Names : files[n] = Absent)
           /\ loc[c].made /\ (\A n \in Names : files[n] = Absent) => ~dir'
           /\ ~loc[c].made => dir' = dir
  BY DEF RemoveMade, Shape

\* The outcomes of the second open(): a failure removes the directory that the
\* call made, when it is still empty.
LEMMA ReopenStep ==
    ASSUME Shape, NEW c \in Callers, Reopen(c)
    PROVE  /\ Shape' /\ Others(c) /\ UNCHANGED <<ino, found, overlap>>
           /\ pc[c] = "reopen" /\ hit \subseteq hit'
           /\ \/ /\ dir /\ dir' /\ pc'[c] = "write" /\ loc'[c].handle = ino /\ hit' = hit
                 /\ disk'[Target(c)] = <<>> /\ Target(c) \in Names
                 /\ \A n \in Names \ {Target(c)} : disk'[n] = disk[n]
                 /\ \A x \in Locals \ {"handle"} : loc'[c][x] = loc[c][x]
                 /\ shared' = (shared \/ \E d \in Callers \ {c} : pc[d] = "write")
              \/ /\ ~dir /\ pc'[c] = "done" /\ dir' = dir /\ reply'[c].status = "error"
                 /\ disk' = disk /\ loc'[c] = loc[c] /\ shared' = shared
              \/ /\ pc'[c] = "done" /\ reply'[c].status = "error"
                 /\ disk' = disk /\ loc'[c] = loc[c] /\ shared' = shared
                 /\ loc[c].made /\ (\A n \in Names : disk[n] = Absent) => ~dir'
<1>1. /\ pc[c] = "reopen"
      /\ UNCHANGED <<ino, kind, req, pages, found, overlap>>
      /\ \/ dir /\ Truncate(c) /\ UNCHANGED <<may, hit>>
         \/ ~dir /\ Fails(c) /\ UNCHANGED <<disk, dir, loc, shared, may, hit>>
         \/ /\ Fault("reopen") /\ Fails(c) /\ RemoveMade(c, disk)
            /\ UNCHANGED <<disk, loc, shared>>
  BY DEF Reopen
<1>2. CASE dir /\ Truncate(c) /\ UNCHANGED <<may, hit>>
  BY <1>1, <1>2, TruncateStep
<1>3. CASE ~dir /\ Fails(c) /\ UNCHANGED <<disk, dir, loc, shared, may, hit>>
  BY <1>1, <1>3, Failing
<1>4. CASE /\ Fault("reopen") /\ Fails(c) /\ RemoveMade(c, disk)
           /\ UNCHANGED <<disk, loc, shared>>
  <2>1. /\ dir' \in BOOLEAN /\ (~dir' => \A n \in Names : disk[n] = Absent)
        /\ loc[c].made /\ (\A n \in Names : disk[n] = Absent) => ~dir'
    BY <1>4, RemoveMadeStep DEF Shape
  <2>2. hit \subseteq hit'
    BY <1>4 DEF Fault
  <2>3. /\ Others(c) /\ pc'[c] = "done" /\ reply'[c].status = "error" /\ Shape'
    BY <1>1, <1>4, <2>1, Failing
  <2>4. QED
    BY <1>1, <1>4, <2>1, <2>2, <2>3
<1>5. QED
  BY <1>1, <1>2, <1>3, <1>4

\* write(2): only the target changes; its bytes are those of the call when the
\* call still has it open and nobody has written since it was truncated.
LEMMA WriteStep ==
    ASSUME Shape, NEW c \in Callers, WriteClose(c)
    PROVE  /\ Shape' /\ Others(c) /\ UNCHANGED <<ino, dir, found, overlap, shared>>
           /\ pc[c] = "write" /\ hit \subseteq hit' /\ loc'[c] = loc[c] /\ Target(c) \in Names
           /\ \A n \in Names \ {Target(c)} : disk'[n] = disk[n]
           /\ \/ /\ pc'[c] = "done" /\ hit' = hit
                 /\ reply'[c] = [status |-> "ok", restored |-> FALSE,
                                 created |-> req[c].tool = "write" /\ ~loc[c].existed]
                 /\ loc[c].handle = ino /\ disk[Target(c)] = <<>> => disk'[Target(c)] = loc[c].new
              \/ pc'[c] = "restore" /\ hit' # {} /\ reply'[c] = reply[c]
<1> DEFINE n == Target(c)
           Put(t) == IF loc[c].handle = ino /\ disk[n] # Absent
                     THEN disk' = [disk EXCEPT ![n] = Overlay(@, t)]
                     ELSE UNCHANGED disk
           r == [status |-> "ok", restored |-> FALSE,
                 created |-> req[c].tool = "write" /\ ~loc[c].existed]
<1>1. /\ pc[c] = "write"
      /\ UNCHANGED <<ino, dir, kind, req, loc, pages, found, overlap, shared>>
      /\ \/ /\ Put(loc[c].new)
            /\ pc' = [pc EXCEPT ![c] = "done"]
            /\ reply' = [reply EXCEPT ![c] = r]
            /\ UNCHANGED <<may, hit>>
         \/ /\ Fault("write") /\ \E t : Put(t)
            /\ pc' = [pc EXCEPT ![c] = "restore"] /\ UNCHANGED reply
  BY DEF WriteClose, Finish, Goto
<1>2. n \in Names
  BY DEF Target, Shape, Names
<1> HIDE DEF n
<1>3. ASSUME NEW t, Put(t)
      PROVE  /\ \A m \in Names \ {n} : disk'[m] = disk[m]
             /\ disk' = [m \in Names |-> disk'[m]]
             /\ ~dir => \A m \in Names : disk'[m] = Absent
             /\ loc[c].handle = ino /\ disk[n] = <<>> => disk'[n] = t
  <2>1. DOMAIN disk = Names /\ disk = [m \in Names |-> disk[m]]
    BY DEF Shape
  <2>2. CASE loc[c].handle = ino /\ disk[n] # Absent
    <3>1. disk' = [disk EXCEPT ![n] = Overlay(disk[n], t)]
      BY <1>3, <2>2
    <3>2. disk[n] = <<>> => Overlay(disk[n], t) = t
      BY DEF Overlay
    <3>3. dir
      BY <1>2, <2>2 DEF Shape
    <3>4. QED
      BY <1>2, <2>1, <3>1, <3>2, <3>3
  <2>3. CASE ~(loc[c].handle = ino /\ disk[n] # Absent)
    <3>1. disk' = disk
      BY <1>3, <2>3
    <3>2. ~dir => \A m \in Names : disk[m] = Absent
      BY DEF Shape
    <3>3. QED
      BY <2>1, <2>3, <3>1, <3>2, CasesAssumption
  <2>4. QED
    BY <2>2, <2>3
<1> HIDE DEF Put, r
<1>4. PICK t : Put(t)
  BY <1>1
<1>5. Others(c) /\ pc'[c] \in {"done", "restore"}
  BY <1>1 DEF Others, Shape
<1>6. DOMAIN pc' = Callers /\ DOMAIN loc' = Callers /\ DOMAIN reply' = Callers
  BY <1>1 DEF Shape
<1>7. /\ DOMAIN loc'[c] = Locals /\ loc'[c].made \in BOOLEAN /\ loc'[c].existed \in BOOLEAN
      /\ loc'[c].resolved \in Names /\ dir' \in BOOLEAN
      /\ pc'[c] \in Running \cup {"idle", "done", "spin"}
  BY <1>1, <1>5 DEF Shape, Running
<1>8. disk' = [m \in Names |-> disk'[m]] /\ (~dir' => \A m \in Names : disk'[m] = Absent)
  BY <1>1, <1>3, <1>4
<1>9. Shape'
  BY <1>1, <1>5, <1>6, <1>7, <1>8, ShapeKept
<1>10. CASE /\ Put(loc[c].new)
            /\ pc' = [pc EXCEPT ![c] = "done"]
            /\ reply' = [reply EXCEPT ![c] = r]
            /\ UNCHANGED <<may, hit>>
  <2>1. pc'[c] = "done" /\ reply'[c] = r
    BY <1>10 DEF Shape
  <2>2. QED
    BY <1>1, <1>2, <1>3, <1>5, <1>9, <1>10, <2>1 DEF n, r
<1>11. CASE /\ Fault("write") /\ \E u : Put(u)
            /\ pc' = [pc EXCEPT ![c] = "restore"] /\ UNCHANGED reply
  <2>1. hit \subseteq hit' /\ hit' # {}
    BY <1>11 DEF Fault
  <2>2. pc'[c] = "restore" /\ reply'[c] = reply[c]
    BY <1>11 DEF Shape
  <2>3. QED
    BY <1>1, <1>2, <1>3, <1>4, <1>5, <1>9, <2>1, <2>2 DEF n
<1>12. QED
  BY <1>1, <1>10, <1>11

\* Rollback of a created file: it is gone, and so is a directory made for it.
LEMMA RestoreNewStep ==
    ASSUME Shape, NEW c \in Callers, RestoreNew(c)
    PROVE  /\ Shape' /\ Others(c) /\ UNCHANGED <<found, overlap, shared, hit>>
           /\ pc[c] = "restore" /\ pc'[c] = "done" /\ reply'[c].status = "error"
           /\ ~loc[c].existed /\ loc'[c] = loc[c]
           /\ disk' = [disk EXCEPT !["path"] = Absent]
           /\ loc[c].made /\ (\A n \in Names : disk'[n] = Absent) => ~dir'
           /\ ~loc[c].made => dir' = dir
<1> DEFINE r == [status |-> "error", restored |-> disk["path"] # Absent, created |-> FALSE]
<1>1. /\ pc[c] = "restore" /\ ~loc[c].existed
      /\ disk' = [disk EXCEPT !["path"] = Absent]
      /\ RemoveMade(c, disk')
      /\ pc' = [pc EXCEPT ![c] = "done"]
      /\ reply' = [reply EXCEPT ![c] = r]
      /\ UNCHANGED <<kind, req, loc, pages, may, hit, found, overlap, shared>>
  BY DEF RestoreNew, Finish, Goto
<1>2. r.status = "error"
  OBVIOUS
<1> HIDE DEF r
<1>3. /\ disk' = [n \in Names |-> disk'[n]] /\ (~dir => \A n \in Names : disk'[n] = Absent)
  BY <1>1 DEF Shape, Names
<1>4. /\ dir' \in BOOLEAN /\ (~dir' => \A n \in Names : disk'[n] = Absent)
      /\ loc[c].made /\ (\A n \in Names : disk'[n] = Absent) => ~dir'
      /\ ~loc[c].made => dir' = dir
  BY <1>1, <1>3, RemoveMadeStep
<1>5. Others(c) /\ pc'[c] = "done" /\ reply'[c].status = "error" /\ loc'[c] = loc[c]
  BY <1>1, <1>2 DEF Others, Shape
<1>6. /\ DOMAIN pc' = Callers /\ DOMAIN loc' = Callers /\ DOMAIN reply' = Callers
      /\ DOMAIN loc'[c] = Locals /\ loc'[c].made \in BOOLEAN /\ loc'[c].existed \in BOOLEAN
      /\ loc'[c].resolved \in Names
  BY <1>1 DEF Shape
<1>7. Shape'
  BY <1>1, <1>3, <1>4, <1>5, <1>6, ShapeKept
<1>8. QED
  BY <1>1, <1>4, <1>5, <1>7

\* Rollback of a file that existed: a reply that says "restored" has put the
\* kept bytes back, unless the last flush failed.
LEMMA RestoreOldStep ==
    ASSUME Shape, NEW c \in Callers, RestoreOld(c)
    PROVE  /\ Shape' /\ Others(c) /\ UNCHANGED <<ino, dir, found, overlap, shared>>
           /\ pc[c] = "restore" /\ pc'[c] = "done" /\ reply'[c].status = "error"
           /\ loc[c].existed /\ loc'[c] = loc[c] /\ hit \subseteq hit'
           /\ \/ ~reply'[c].restored
              \/ "flush" \in hit'
              \/ loc[c].prev # <<>> /\ disk' = [disk EXCEPT ![loc[c].resolved] = loc[c].prev]
<1> DEFINE n == loc[c].resolved
           Put(v, b) == /\ disk' = [disk EXCEPT ![n] = v] /\ dir
                        /\ reply' = [reply EXCEPT ![c] = [status |-> "error", restored |-> b, created |-> FALSE]]
<1>1. /\ pc[c] = "restore" /\ loc[c].existed
      /\ pc' = [pc EXCEPT ![c] = "done"]
      /\ UNCHANGED <<ino, dir, kind, req, loc, pages, found, overlap, shared>>
      /\ \/ Fails(c) /\ UNCHANGED disk /\ UNCHANGED hit
         \/ loc[c].prev # <<>> /\ Put(loc[c].prev, TRUE) /\ UNCHANGED hit
         \/ Fails(c) /\ UNCHANGED disk /\ Fault("restore")
         \/ Fault("flush") /\ Put(<<>>, TRUE)
  BY DEF RestoreOld, Fails, Finish, Goto
<1>2. \A f : Fault(f) => hit \subseteq hit' /\ f \in hit'
  BY DEF Fault
<1>3. CASE Fails(c) /\ UNCHANGED disk /\ hit \subseteq hit'
  BY <1>1, <1>3, Failing
<1>4. ASSUME NEW v, Put(v, TRUE)
      PROVE  Shape' /\ Others(c) /\ pc'[c] = "done" /\ reply'[c].status = "error"
  <2>1. Others(c) /\ pc'[c] = "done" /\ reply'[c].status = "error"
    BY <1>1, <1>4 DEF Others, Shape
  <2>2. /\ DOMAIN pc' = Callers /\ DOMAIN loc' = Callers /\ DOMAIN reply' = Callers
        /\ DOMAIN loc'[c] = Locals /\ loc'[c].made \in BOOLEAN /\ loc'[c].existed \in BOOLEAN
        /\ loc'[c].resolved \in Names
    BY <1>1, <1>4 DEF Shape
  <2>3. disk' = [m \in Names |-> disk'[m]] /\ dir'
    BY <1>1, <1>4 DEF Shape
  <2>4. QED
    BY <1>1, <2>1, <2>2, <2>3, ShapeKept
<1>5. QED
  BY <1>1, <1>2, <1>3, <1>4

\* Stuttering.
LEMMA StillShape ==
    ASSUME Shape, UNCHANGED vars
    PROVE  Shape'
  BY DEF Shape, vars

\* Shapes of the initial states.
LEMMA InitShape == Init => Shape
<1> SUFFICES ASSUME Init PROVE Shape
  OBVIOUS
<1>1. PICK x \in Cases :
          /\ disk = [n \in Names |-> IF n = x.name THEN x.file ELSE Absent]
          /\ dir = x.dir
  BY DEF Init
<1>2. /\ pc = [c \in Callers |-> "idle"] /\ loc = [c \in Callers |-> NoLocals]
      /\ reply = [c \in Callers |-> NoReply]
      /\ found = [c \in Callers |-> [disk |-> disk, dir |-> dir]]
      /\ overlap = [c \in Callers |-> FALSE]
  BY DEF Init
<1>3. dir \in BOOLEAN /\ (~dir => \A n \in Names : disk[n] = Absent)
  BY <1>1, CasesAssumption
<1>4. DOMAIN NoLocals = Locals /\ NoLocals.existed \in BOOLEAN /\ NoLocals.made \in BOOLEAN
      /\ NoLocals.resolved \in Names
  BY DEF NoLocals, Locals, Names
<1>5. disk = [n \in Names |-> disk[n]]
  BY <1>1
<1>6. QED
  BY <1>2, <1>3, <1>4, <1>5 DEF Shape

\* Shape is inductive.
LEMMA NextShape == Shape /\ [Next]_vars => Shape'
<1> SUFFICES ASSUME Shape, [Next]_vars PROVE Shape'
  OBVIOUS
<1>1. CASE UNCHANGED vars
  BY <1>1, StillShape
<1>2. ASSUME NEW c \in Callers, Step(c) PROVE Shape'
  BY <1>2, StatShape, LoadForWriteStep, LoadForEditStep, LoadForReadStep, OpenStep, MkdirStep,
     ReopenStep, WriteStep, RestoreNewStep, RestoreOldStep DEF Step
<1>3. QED
  BY <1>1, <1>2 DEF Next, Spin, Idle

\* The variables have their shapes (FileTools).
THEOREM AlwaysShape == Spec => []Shape
<1>1. Init => Shape
  BY InitShape
<1>2. Shape /\ [Next]_vars => Shape'
  BY NextShape
<1>3. QED
  BY <1>1, <1>2, PTL DEF Spec

-----------------------------------------------------------------------------
(* A call that runs alone. *)

\* How far call c has come, told by the files and the directory it found.
Progress(c) ==
    LET f == found[c]
        l == loc[c]
        t == req[c].tool
        p == pc[c]
    IN  /\ f.disk = [n \in Names |-> f.disk[n]] /\ f.dir \in BOOLEAN
        /\ ~f.dir => \A n \in Names : f.disk[n] = Absent
        /\ l.existed => f.dir /\ f.disk[l.resolved] # Absent
        /\ ~l.existed => /\ l.resolved = "path" /\ t \notin {"read", "edit"}
                         /\ \A n \in Names : f.disk[n] = Absent
        /\ p # "load" => /\ t \in {"write", "edit"}
                         /\ t = "write" => l.prev \in {<<>>, f.disk[l.resolved]}
                         /\ t = "edit" => "read" \in hit \/ l.prev = f.disk[l.resolved]
        /\ p \in {"load", "open", "mkdir"} => disk = f.disk /\ dir = f.dir /\ ~l.made
        /\ p = "mkdir" => ~dir /\ t = "write"
        /\ p = "reopen" => disk = f.disk /\ dir /\ ~f.dir /\ l.made /\ t = "write"
        /\ p \in {"write", "restore"} =>
               /\ dir /\ l.made = ~f.dir
               /\ \A n \in Names \ {Target(c)} : disk[n] = f.disk[n]
        /\ p = "write" => l.handle = ino /\ disk[Target(c)] = <<>>

Unaccompanied(c) == \A d \in Callers \ {c} : pc[d] \notin Running

Undisturbed ==
    \A c \in Callers : pc[c] \in Running /\ ~overlap[c] => Unaccompanied(c) /\ Progress(c)

\* The running call c takes a step after which it still runs, alone.
LEMMA ProgressKept ==
    ASSUME Shape, NEW c \in Callers, Step(c), pc[c] \in Running, pc'[c] \in Running, Progress(c)
    PROVE  Progress(c)'
<1> DEFINE f == found[c]
           l == loc[c]
           t == req[c].tool
<1>1. pc[c] # "idle"
  BY DEF Running
<1>2. CASE LoadForWrite(c)
  <2>1. /\ UNCHANGED <<disk, ino, dir, found, req>>
        /\ pc[c] = "load" /\ t = "write" /\ pc'[c] = "open"
        /\ loc'[c].prev = <<>> \/ loc'[c].prev = disk[l.resolved]
        /\ \A x \in Locals \ {"prev", "new"} : loc'[c][x] = l[x]
    BY <1>2, LoadForWriteStep DEF Others, Running
  <2>2. loc'[c].existed = l.existed /\ loc'[c].resolved = l.resolved /\ loc'[c].made = l.made
    BY <2>1 DEF Locals
  <2>3. QED
    BY <2>1, <2>2 DEF Progress
<1>3. CASE LoadForEdit(c)
  <2>1. /\ UNCHANGED <<disk, ino, dir, found, req>>
        /\ pc[c] = "load" /\ t = "edit" /\ pc'[c] = "open"
        /\ "read" \in hit' \/ loc'[c].prev = disk[l.resolved]
        /\ \A x \in Locals \ {"prev", "new"} : loc'[c][x] = l[x]
    BY <1>3, LoadForEditStep DEF Others, Running
  <2>2. loc'[c].existed = l.existed /\ loc'[c].resolved = l.resolved /\ loc'[c].made = l.made
    BY <2>1 DEF Locals
  <2>3. QED
    BY <2>1, <2>2 DEF Progress
<1>4. CASE LoadForRead(c)
  BY <1>4, LoadForReadStep DEF Running
<1>5. CASE OpenForWriting(c)
  <2>1. UNCHANGED <<ino, dir, found, req>> /\ hit \subseteq hit' /\ pc[c] = "open"
    BY <1>5, OpenStep DEF Others
  <2>2. CASE /\ dir /\ pc'[c] = "write" /\ loc'[c].handle = ino
             /\ disk'[Target(c)] = <<>>
             /\ \A n \in Names \ {Target(c)} : disk'[n] = disk[n]
             /\ \A x \in Locals \ {"handle"} : loc'[c][x] = loc[c][x]
    <3>1. /\ loc'[c].existed = l.existed /\ loc'[c].resolved = l.resolved /\ loc'[c].made = l.made
          /\ loc'[c].prev = l.prev
      BY <2>2 DEF Locals
    <3>2. Target(c)' = Target(c)
      BY <2>1, <3>1 DEF Target
    <3>3. disk = f.disk /\ f.dir /\ ~l.made
      BY <2>1, <2>2 DEF Progress
    <3>4. l.made \in BOOLEAN /\ f.dir \in BOOLEAN
      BY DEF Shape, Progress
    <3>5. l.made = ~f.dir
      BY <3>3, <3>4
    <3>6. \A n \in Names \ {Target(c)} : disk'[n] = f.disk[n]
      BY <2>2, <3>3
    <3>7. QED
      BY <2>1, <2>2, <3>1, <3>2, <3>5, <3>6 DEF Progress
  <2>3. CASE /\ ~dir /\ pc'[c] = "mkdir" /\ req[c].tool = "write"
             /\ disk' = disk /\ loc'[c] = loc[c]
    BY <2>1, <2>3 DEF Progress
  <2>4. QED
    BY <1>5, <2>2, <2>3, OpenStep DEF Running
<1>6. CASE Mkdir(c)
  <2>1. /\ UNCHANGED <<disk, ino, found, req, hit>>
        /\ pc[c] = "mkdir" /\ pc'[c] = "reopen" /\ dir' = TRUE
        /\ loc'[c].made = ~dir
        /\ \A x \in Locals \ {"made"} : loc'[c][x] = loc[c][x]
    BY <1>6, MkdirStep DEF Others
  <2>2. /\ loc'[c].existed = l.existed /\ loc'[c].resolved = l.resolved /\ loc'[c].prev = l.prev
    BY <2>1 DEF Locals
  <2>3. QED
    BY <2>1, <2>2 DEF Progress
<1>7. CASE Reopen(c)
  <2>1. UNCHANGED <<ino, found, req>> /\ hit \subseteq hit' /\ pc[c] = "reopen"
    BY <1>7, ReopenStep DEF Others
  <2>2. /\ dir' /\ pc'[c] = "write" /\ loc'[c].handle = ino
        /\ disk'[Target(c)] = <<>>
        /\ \A n \in Names \ {Target(c)} : disk'[n] = disk[n]
        /\ \A x \in Locals \ {"handle"} : loc'[c][x] = loc[c][x]
    BY <1>7, ReopenStep DEF Running
  <2>3. /\ loc'[c].existed = l.existed /\ loc'[c].resolved = l.resolved /\ loc'[c].made = l.made
        /\ loc'[c].prev = l.prev
    BY <2>2 DEF Locals
  <2>4. Target(c)' = Target(c)
    BY <2>1, <2>3 DEF Target
  <2>5. disk = f.disk /\ ~f.dir /\ l.made
    BY <2>1 DEF Progress
  <2>6. l.made \in BOOLEAN /\ f.dir \in BOOLEAN
    BY DEF Shape, Progress
  <2>7. l.made = ~f.dir
    BY <2>5, <2>6
  <2>8. \A n \in Names \ {Target(c)} : disk'[n] = f.disk[n]
    BY <2>2, <2>5
  <2>9. QED
    BY <2>1, <2>2, <2>3, <2>4, <2>7, <2>8 DEF Progress
<1>8. CASE WriteClose(c)
  <2>1. /\ UNCHANGED <<ino, dir, found, req>> /\ hit \subseteq hit' /\ loc'[c] = loc[c]
        /\ pc[c] = "write" /\ pc'[c] = "restore"
        /\ \A n \in Names \ {Target(c)} : disk'[n] = disk[n]
    BY <1>8, WriteStep DEF Others, Running
  <2>2. Target(c)' = Target(c)
    BY <2>1 DEF Target
  <2>3. QED
    BY <2>1, <2>2 DEF Progress
<1>9. CASE RestoreNew(c)
  BY <1>9, RestoreNewStep DEF Running
<1>10. CASE RestoreOld(c)
  BY <1>10, RestoreOldStep DEF Running
<1>11. CASE Stat(c)
  BY <1>1, <1>11, StatShape
<1>12. QED
  BY <1>2, <1>3, <1>4, <1>5, <1>6, <1>7, <1>8, <1>9, <1>10, <1>11 DEF Step

\* A call that has just begun.
LEMMA ProgressBegins ==
    ASSUME Shape, NEW c \in Callers, Stat(c), pc'[c] \in Running
    PROVE  Progress(c)'
<1> DEFINE at == stat_normalized
<1>1. /\ UNCHANGED <<disk, ino, dir, hit, req>> /\ pc'[c] = "load"
      /\ found'[c] = [disk |-> disk, dir |-> dir]
      /\ loc'[c] = [NoLocals EXCEPT
                  !.existed = at # "none",
                  !.resolved = IF at = "none" THEN "path" ELSE at,
                  !.start = loc[c].start]
      /\ req[c].tool \in {"read", "edit"} => at # "none"
  BY StatShape DEF Others, Running
<1>2. /\ at \in {"path", "look", "none"}
      /\ at # "none" => dir /\ disk[at] # Absent
      /\ at = "none" => \A n \in Names : disk[n] = Absent
  BY DEF stat_normalized, Content, Names, Shape
<1> HIDE DEF at
<1>3. /\ loc'[c].existed = (at # "none") /\ loc'[c].made = FALSE
      /\ loc'[c].resolved = IF at = "none" THEN "path" ELSE at
  BY <1>1 DEF NoLocals
<1>4. found'[c].disk = disk /\ found'[c].dir = dir
  BY <1>1
<1>5. dir \in BOOLEAN /\ (~dir => \A n \in Names : disk[n] = Absent) /\ disk = [n \in Names |-> disk[n]]
  BY DEF Shape
<1>6. QED
  BY <1>1, <1>2, <1>3, <1>4, <1>5 DEF Progress

\* Only stat() is a step of a call that is not running yet.
LEMMA StepRuns ==
    ASSUME Shape, NEW c \in Callers, Step(c)
    PROVE  /\ Shape' /\ Others(c) /\ hit \subseteq hit'
           /\ Stat(c) \/ (pc[c] \in Running /\ UNCHANGED <<found, overlap>>)
<1>1. CASE Stat(c)
  BY <1>1, StatShape
<1>2. CASE LoadForWrite(c) \/ LoadForEdit(c) \/ LoadForRead(c)
  BY <1>2, LoadForWriteStep, LoadForEditStep, LoadForReadStep DEF Running
<1>3. CASE OpenForWriting(c) \/ Mkdir(c) \/ Reopen(c)
  BY <1>3, OpenStep, MkdirStep, ReopenStep DEF Running
<1>4. CASE WriteClose(c) \/ RestoreNew(c) \/ RestoreOld(c)
  BY <1>4, WriteStep, RestoreNewStep, RestoreOldStep DEF Running
<1>5. QED
  BY <1>1, <1>2, <1>3, <1>4 DEF Step

\* Undisturbed is inductive with Shape.
LEMMA NextUndisturbed == Shape /\ Undisturbed /\ [Next]_vars => Undisturbed'
<1> SUFFICES ASSUME Shape, Undisturbed, [Next]_vars PROVE Undisturbed'
  OBVIOUS
<1>1. CASE UNCHANGED vars
  BY <1>1 DEF Undisturbed, Unaccompanied, Progress, Target, vars
<1>2. ASSUME NEW d \in Callers, Step(d),
             NEW c \in Callers, pc'[c] \in Running, ~overlap'[c]
      PROVE  Unaccompanied(c)' /\ Progress(c)'
  <2>1. Others(d) /\ (Stat(d) \/ (pc[d] \in Running /\ UNCHANGED <<found, overlap>>))
    BY <1>2, StepRuns
  <2>2. CASE c # d
    <3>1. pc[c] \in Running
      BY <1>2, <2>1, <2>2 DEF Others
    <3>2. CASE Stat(d)
      BY <1>2, <2>2, <3>1, <3>2, StatShape
    <3>3. CASE pc[d] \in Running /\ UNCHANGED <<found, overlap>>
      BY <1>2, <2>2, <3>1, <3>3 DEF Undisturbed, Unaccompanied
    <3>4. QED
      BY <2>1, <3>2, <3>3
  <2>3. CASE c = d /\ Stat(c)
    <3>1. \A x \in Callers \ {c} : pc[x] \notin Running
      BY <1>2, <2>3, StatShape
    <3>2. Unaccompanied(c)'
      BY <2>1, <2>3, <3>1 DEF Unaccompanied, Others
    <3>3. QED
      BY <1>2, <2>3, <3>2, ProgressBegins
  <2>4. CASE c = d /\ pc[c] \in Running /\ UNCHANGED <<found, overlap>>
    <3>1. Unaccompanied(c) /\ Progress(c)
      BY <1>2, <2>4 DEF Undisturbed
    <3>2. Unaccompanied(c)'
      BY <2>1, <2>4, <3>1 DEF Unaccompanied, Others
    <3>3. QED
      BY <1>2, <2>4, <3>1, <3>2, ProgressKept
  <2>5. QED
    BY <2>1, <2>2, <2>3, <2>4
<1>3. ASSUME NEW d \in Callers, Step(d) PROVE Undisturbed'
  BY <1>2, <1>3 DEF Undisturbed
<1>4. QED
  BY <1>1, <1>3 DEF Next, Spin, Idle

\* A call that no other one overlapped is alone, and as far as Progress says
\* (FileTools).
THEOREM AlwaysUndisturbed == Spec => []Undisturbed
<1>1. Init => Undisturbed
  BY DEF Init, Undisturbed, Running
<1>2. Undisturbed /\ Shape /\ [Next]_vars => Undisturbed'
  BY NextUndisturbed
<1>3. QED
  BY <1>1, <1>2, AlwaysShape, PTL DEF Spec

-----------------------------------------------------------------------------
(* What a call reports. *)

\* The one step of a call that ends it with success, unless it is a `read`.
LEMMA OnlyWriteSucceeds ==
    ASSUME Shape, NEW c \in Callers, Step(c), Ends(c),
           reply'[c].status = "ok", req[c].tool # "read"
    PROVE  WriteClose(c)
<1>1. ~LoadForRead(c)
  BY LoadForReadStep
<1>2. ~Stat(c)
  BY StatShape DEF Ends
<1>3. ~LoadForWrite(c) /\ ~LoadForEdit(c)
  BY LoadForWriteStep, LoadForEditStep DEF Ends
<1>4. ~OpenForWriting(c) /\ ~Mkdir(c) /\ ~Reopen(c)
  BY OpenStep, MkdirStep, ReopenStep DEF Ends
<1>5. ~RestoreNew(c) /\ ~RestoreOld(c)
  BY RestoreNewStep, RestoreOldStep DEF Ends
<1>6. QED
  BY <1>1, <1>2, <1>3, <1>4, <1>5 DEF Step

\* A call ends by a step of its own.
LEMMA OwnEnd ==
    ASSUME Shape, [Next]_vars, NEW c \in Callers, Ends(c)
    PROVE  Step(c)
<1>1. ~UNCHANGED vars
  BY DEF Ends, vars
<1>2. PICK d \in Callers : Step(d)
  BY <1>1 DEF Next, Spin, Idle
<1>3. c = d
  BY <1>2, StepRuns DEF Ends, Others
<1>4. QED
  BY <1>2, <1>3

\* A write or edit that reports success has left exactly its bytes in the file
\* and says truly whether it created it (tool_write, tool_edit).
THEOREM EffectIsAlwaysReported == Spec => EffectIsReported
<1> DEFINE Reported(c) ==
        (Ends(c) /\ reply'[c].status = "ok" /\ req[c].tool # "read" /\ ~overlap'[c]) =>
            /\ disk'[Target(c)] = loc[c].new
            /\ (req[c].tool = "edit" /\ "read" \notin hit) =>
                   loc[c].prev = found[c].disk[Target(c)]
            /\ ~LookAlike(c) => reply'[c].created = (found[c].disk[Target(c)] = Absent)
<1>1. ASSUME Shape, Undisturbed, [Next]_vars, NEW c \in Callers PROVE Reported(c)
  <2> SUFFICES ASSUME Ends(c), reply'[c].status = "ok", req[c].tool # "read", ~overlap'[c]
               PROVE  /\ disk'[Target(c)] = loc[c].new
                      /\ (req[c].tool = "edit" /\ "read" \notin hit) =>
                             loc[c].prev = found[c].disk[Target(c)]
                      /\ ~LookAlike(c) => reply'[c].created = (found[c].disk[Target(c)] = Absent)
    OBVIOUS
  <2>1. Step(c)
    BY <1>1, OwnEnd
  <2>2. WriteClose(c)
    BY <1>1, <2>1, OnlyWriteSucceeds
  <2>3. /\ pc[c] = "write" /\ UNCHANGED overlap
        /\ reply'[c] = [status |-> "ok", restored |-> FALSE,
                        created |-> req[c].tool = "write" /\ ~loc[c].existed]
        /\ loc[c].handle = ino /\ disk[Target(c)] = <<>> => disk'[Target(c)] = loc[c].new
    BY <1>1, <2>2, WriteStep DEF Ends
  <2>4. Progress(c)
    BY <1>1, <2>3 DEF Undisturbed, Running
  <2>5. disk'[Target(c)] = loc[c].new
    BY <2>3, <2>4 DEF Progress
  <2>6. (req[c].tool = "edit" /\ "read" \notin hit) => loc[c].prev = found[c].disk[Target(c)]
    BY <2>3, <2>4 DEF Progress, Target
  <2>7. reply'[c].created = (req[c].tool = "write" /\ ~loc[c].existed)
    BY <2>3
  <2>8. ASSUME ~LookAlike(c)
        PROVE  (req[c].tool = "write" /\ ~loc[c].existed) <=> (found[c].disk[Target(c)] = Absent)
    <3>1. req[c].tool \in {"write", "edit"} /\ loc[c].resolved \in Names
      BY <1>1, <2>3, <2>4 DEF Progress, Shape
    <3>2. Target(c) = loc[c].resolved
      BY <2>8, <3>1 DEF LookAlike, Target, Names
    <3>3. /\ loc[c].existed => found[c].disk[loc[c].resolved] # Absent
          /\ ~loc[c].existed => req[c].tool = "write" /\ found[c].disk[loc[c].resolved] = Absent
      BY <2>4, <3>1 DEF Progress
    <3>4. QED
      BY <3>1, <3>2, <3>3
  <2>9. ~LookAlike(c) => reply'[c].created = (found[c].disk[Target(c)] = Absent)
    BY <2>7, <2>8, Zenon
  <2>10. QED
    BY <2>5, <2>6, <2>9
<1>2. Shape /\ Undisturbed /\ [Next]_vars => [\A c \in Callers : Reported(c)]_vars
  BY <1>1
<1>3. QED
  BY <1>2, AlwaysShape, AlwaysUndisturbed, PTL DEF Spec, EffectIsReported

\* A write or edit that fails leaves files and directories as it found them,
\* unless it says otherwise (tool_write, tool_edit, restore_file).
THEOREM FailureAlwaysUndone == Spec => FailureUndone
<1> DEFINE Undone(c) ==
        (/\ Ends(c) /\ reply'[c].status = "error" /\ ~overlap'[c]
         /\ pc[c] = "restore" => reply'[c].restored
         /\ ~LookAlike(c) /\ "flush" \notin hit' /\ ~("read" \in hit /\ req[c].tool = "edit"))
            => disk' = found'[c].disk /\ dir' = found'[c].dir
<1>1. ASSUME Shape, Undisturbed, [Next]_vars, NEW c \in Callers PROVE Undone(c)
  <2> SUFFICES ASSUME Ends(c), reply'[c].status = "error", ~overlap'[c],
                      pc[c] = "restore" => reply'[c].restored,
                      ~LookAlike(c), "flush" \notin hit',
                      ~("read" \in hit /\ req[c].tool = "edit")
               PROVE  disk' = found'[c].disk /\ dir' = found'[c].dir
    OBVIOUS
  <2> DEFINE f == found[c]
             l == loc[c]
  <2>1. Step(c)
    BY <1>1, OwnEnd
  <2>2. CASE Stat(c)
    <3>1. UNCHANGED <<disk, dir>> /\ found'[c] = [disk |-> disk, dir |-> dir]
      BY <1>1, <2>2, StatShape
    <3>2. QED
      BY <3>1
  <2>3. CASE ~Stat(c)
    <3>1. pc[c] \in Running /\ UNCHANGED <<found, overlap>>
      BY <1>1, <2>1, <2>3, StepRuns
    <3>2. Progress(c) /\ found'[c] = f
      BY <1>1, <3>1 DEF Undisturbed
    <3>3. CASE LoadForWrite(c) \/ LoadForEdit(c) \/ LoadForRead(c)
      <4>1. pc[c] = "load" /\ UNCHANGED <<disk, dir>>
        BY <1>1, <3>3, LoadForWriteStep, LoadForEditStep, LoadForReadStep
      <4>2. QED
        BY <3>2, <4>1 DEF Progress
    <3>4. CASE OpenForWriting(c)
      <4>1. pc[c] = "open" /\ UNCHANGED <<disk, dir>>
        BY <1>1, <3>4, OpenStep DEF Ends
      <4>2. QED
        BY <3>2, <4>1 DEF Progress
    <3>5. CASE Mkdir(c)
      BY <1>1, <3>5, MkdirStep DEF Ends
    <3>6. CASE Reopen(c)
      <4>1. /\ pc[c] = "reopen" /\ disk = f.disk /\ dir /\ ~f.dir /\ l.made
            /\ f.dir \in BOOLEAN /\ \A n \in Names : f.disk[n] = Absent
        BY <1>1, <3>2, <3>6, ReopenStep DEF Progress
      <4>2. disk' = disk /\ ~dir' /\ dir' \in BOOLEAN
        BY <1>1, <3>6, <4>1, ReopenStep DEF Ends, Shape
      <4>3. QED
        BY <3>2, <4>1, <4>2
    <3>7. CASE WriteClose(c)
      <4>1. /\ pc'[c] = "done"
            /\ \/ reply'[c] = [status |-> "ok", restored |-> FALSE,
                               created |-> req[c].tool = "write" /\ ~loc[c].existed]
               \/ pc'[c] = "restore"
        BY <1>1, <3>7, WriteStep DEF Ends
      <4>2. reply'[c].status = "ok"
        BY <4>1
      <4>3. QED
        BY <4>2
    <3>8. CASE RestoreNew(c)
      <4>1. /\ pc[c] = "restore" /\ ~l.existed
            /\ disk' = [disk EXCEPT !["path"] = Absent]
            /\ l.made /\ (\A n \in Names : disk'[n] = Absent) => ~dir'
            /\ ~l.made => dir' = dir
        BY <1>1, <3>8, RestoreNewStep
      <4>2. /\ l.resolved = "path" /\ \A n \in Names : f.disk[n] = Absent
            /\ dir /\ l.made = ~f.dir
            /\ \A n \in Names \ {Target(c)} : disk[n] = f.disk[n]
            /\ f.disk = [n \in Names |-> f.disk[n]] /\ f.dir \in BOOLEAN
        BY <3>2, <4>1 DEF Progress
      <4>3. Target(c) = "path"
        BY <4>2 DEF Target
      <4>4. disk' = [n \in Names |-> disk'[n]] /\ dir' \in BOOLEAN /\ DOMAIN disk = Names
            /\ dir \in BOOLEAN /\ l.made \in BOOLEAN
        BY <1>1, <2>1, StepRuns DEF Shape
      <4>5. \A n \in Names : disk'[n] = Absent
        BY <4>1, <4>2, <4>3, <4>4
      <4>6. disk' = f.disk
        BY <4>2, <4>4, <4>5
      <4>7. CASE l.made
        BY <3>2, <4>1, <4>2, <4>4, <4>5, <4>6, <4>7
      <4>8. CASE ~l.made
        BY <3>2, <4>1, <4>2, <4>4, <4>6, <4>8
      <4>9. QED
        BY <4>7, <4>8
    <3>9. CASE RestoreOld(c)
      <4>1. /\ UNCHANGED dir /\ pc[c] = "restore" /\ l.existed
            /\ l.prev # <<>> /\ disk' = [disk EXCEPT ![l.resolved] = l.prev]
        BY <1>1, <3>9, RestoreOldStep
      <4>2. /\ f.dir /\ dir /\ req[c].tool \in {"write", "edit"}
            /\ l.prev = f.disk[l.resolved]
            /\ \A n \in Names \ {Target(c)} : disk[n] = f.disk[n]
            /\ f.disk = [n \in Names |-> f.disk[n]] /\ f.dir \in BOOLEAN
        BY <3>2, <4>1 DEF Progress
      <4>3. Target(c) = l.resolved
        BY <1>1, <4>2 DEF LookAlike, Target, Shape, Names
      <4>4. disk' = [n \in Names |-> disk'[n]] /\ DOMAIN disk = Names /\ dir \in BOOLEAN
        BY <1>1, <2>1, StepRuns DEF Shape
      <4>5. \A n \in Names : disk'[n] = f.disk[n]
        BY <4>1, <4>2, <4>3, <4>4
      <4>6. disk' = f.disk
        BY <4>2, <4>4, <4>5
      <4>7. QED
        BY <3>2, <4>1, <4>2, <4>4, <4>6
    <3>10. QED
      BY <2>1, <2>3, <3>3, <3>4, <3>5, <3>6, <3>7, <3>8, <3>9 DEF Step
  <2>4. QED
    BY <2>2, <2>3
<1>2. Shape /\ Undisturbed /\ [Next]_vars => [\A c \in Callers : Undone(c)]_vars
  BY <1>1
<1>3. QED
  BY <1>2, AlwaysShape, AlwaysUndisturbed, PTL DEF Spec, FailureUndone

-----------------------------------------------------------------------------
(* What the file holds. *)

\* While no two calls have had the file open at once and no fault has happened,
\* a name holds the bytes it had when some call began, or those of a call that
\* is over, or it is open.
Whole ==
    (~shared /\ hit = {}) =>
        /\ \A c \in Callers : pc[c] # "restore"
        /\ \A c, d \in Callers : pc[c] = "write" /\ pc[d] = "write" => c = d
        /\ \A c \in Callers : pc[c] = "write" => loc[c].handle = ino /\ disk[Target(c)] = <<>>
        /\ \A n \in Names : \/ \E c \in Callers : pc[c] = "write" /\ Target(c) = n
                            \/ \E c \in Callers : disk[n] = found[c].disk[n]
                            \/ \E c \in Callers : pc[c] = "done" /\ disk[n] = loc[c].new

Unbroken == ~shared /\ hit = {}

\* One name, when nobody has it open.
Closed(n) == \/ \E c \in Callers : disk[n] = found[c].disk[n]
             \/ \E c \in Callers : pc[c] = "done" /\ disk[n] = loc[c].new

Held(n) == (\E c \in Callers : pc[c] = "write" /\ Target(c) = n) \/ Closed(n)

OneWriter == \A c, d \in Callers : pc[c] = "write" /\ pc[d] = "write" => c = d

Truncated == \A c \in Callers : pc[c] = "write" => loc[c].handle = ino /\ disk[Target(c)] = <<>>

\* Whole, from its named parts.
LEMMA WholeParts ==
    Whole <=> (Unbroken => /\ \A c \in Callers : pc[c] # "restore"
                           /\ OneWriter /\ Truncated
                           /\ \A n \in Names : Held(n))
  BY Zenon DEF Whole, Unbroken, OneWriter, Truncated, Held, Closed

\* A step that opens and writes nothing.
LEMMA WholeKept ==
    ASSUME Shape, Whole, Unbroken, NEW c \in Callers, Others(c), UNCHANGED <<disk, ino>>,
           pc[c] \notin {"done", "write"}, pc'[c] \notin {"write", "restore"},
           found'[c].disk \in {disk, found[c].disk}
    PROVE  /\ \A d \in Callers : pc'[d] # "restore"
           /\ OneWriter' /\ Truncated'
           /\ (\A n \in Names : Held(n))'
<1>1. /\ \A d \in Callers : pc[d] # "restore"
      /\ OneWriter /\ Truncated
      /\ \A n \in Names : Held(n)
  BY WholeParts
<1>2. \A d \in Callers : pc'[d] = "write" <=> d # c /\ pc[d] = "write"
  BY DEF Others
<1>3. \A d \in Callers \ {c} : Target(d)' = Target(d) /\ loc'[d] = loc[d] /\ found'[d] = found[d]
                               /\ pc'[d] = pc[d]
  BY DEF Others, Target
<1>4. (\A n \in Names : Held(n))'
  <2> SUFFICES ASSUME NEW n \in Names PROVE Held(n)'
    BY Zenon
  <2>1. CASE \E d \in Callers : pc[d] = "write" /\ Target(d) = n
    BY <1>2, <1>3, <2>1 DEF Held
  <2>2. CASE \E d \in Callers : disk[n] = found[d].disk[n]
    <3>1. PICK d \in Callers : disk[n] = found[d].disk[n]
      BY <2>2
    <3>2. disk'[n] = found'[d].disk[n]
      BY <1>3, <3>1
    <3>3. QED
      BY <3>2 DEF Held, Closed
  <2>3. CASE \E d \in Callers : pc[d] = "done" /\ disk[n] = loc[d].new
    <3>1. PICK d \in Callers : pc[d] = "done" /\ disk[n] = loc[d].new
      BY <2>3
    <3>2. d # c /\ pc'[d] = "done" /\ disk'[n] = loc'[d].new
      BY <1>3, <3>1
    <3>3. QED
      BY <3>2 DEF Held, Closed
  <2>4. QED
    BY <1>1, <2>1, <2>2, <2>3 DEF Held, Closed
<1>5. OneWriter'
  BY <1>1, <1>2 DEF OneWriter
<1>6. Truncated'
  BY <1>1, <1>2, <1>3 DEF Truncated
<1>7. \A d \in Callers : pc'[d] # "restore"
  BY <1>1, <1>3
<1>8. QED
  BY <1>4, <1>5, <1>6, <1>7

\* The file is opened and truncated.
LEMMA WholeOpens ==
    ASSUME Shape, Whole, Unbroken, NEW c \in Callers, Others(c), UNCHANGED <<ino, found>>,
           pc[c] \notin {"done", "write"}, pc'[c] = "write", loc'[c].handle = ino,
           disk'[Target(c)] = <<>>, Target(c) \in Names,
           loc'[c].resolved = loc[c].resolved,
           \A n \in Names \ {Target(c)} : disk'[n] = disk[n],
           \A d \in Callers \ {c} : pc[d] # "write"
    PROVE  /\ \A d \in Callers : pc'[d] # "restore"
           /\ OneWriter' /\ Truncated'
           /\ (\A n \in Names : Held(n))'
<1>1. /\ \A d \in Callers : pc[d] # "restore"
      /\ \A n \in Names : Held(n)
  BY WholeParts
<1>2. \A d \in Callers : pc'[d] = "write" => d = c
  BY DEF Others
<1>3. Target(c)' = Target(c)
  BY DEF Others, Target
<1>4. \A d \in Callers \ {c} : loc'[d] = loc[d] /\ pc'[d] = pc[d]
  BY DEF Others
<1>5. (\A n \in Names : Held(n))'
  <2> SUFFICES ASSUME NEW n \in Names PROVE Held(n)'
    BY Zenon
  <2>1. CASE n = Target(c)
    BY <1>3, <2>1 DEF Held
  <2>2. CASE n # Target(c)
    <3>1. disk'[n] = disk[n] /\ Closed(n)
      BY <1>1, <2>2 DEF Held
    <3>2. CASE \E d \in Callers : disk[n] = found[d].disk[n]
      BY <3>1, <3>2 DEF Held, Closed
    <3>3. CASE \E d \in Callers : pc[d] = "done" /\ disk[n] = loc[d].new
      <4>1. PICK d \in Callers : pc[d] = "done" /\ disk[n] = loc[d].new
        BY <3>3
      <4>2. pc'[d] = "done" /\ disk'[n] = loc'[d].new
        BY <1>4, <3>1, <4>1
      <4>3. QED
        BY <4>2 DEF Held, Closed
    <3>4. QED
      BY <3>1, <3>2, <3>3 DEF Closed
  <2>3. QED
    BY <2>1, <2>2
<1>6. OneWriter'
  BY <1>2 DEF OneWriter
<1>7. Truncated'
  BY <1>2, <1>3 DEF Truncated
<1>8. \A d \in Callers : pc'[d] # "restore"
  BY <1>1, <1>4
<1>9. QED
  BY <1>5, <1>6, <1>7, <1>8

\* The file is written and closed.
LEMMA WholeWrites ==
    ASSUME Shape, Whole, Unbroken, NEW c \in Callers, Others(c), UNCHANGED <<ino, found>>,
           pc[c] = "write", pc'[c] = "done", loc'[c] = loc[c], Target(c) \in Names,
           loc[c].handle = ino /\ disk[Target(c)] = <<>> => disk'[Target(c)] = loc[c].new,
           \A n \in Names \ {Target(c)} : disk'[n] = disk[n]
    PROVE  /\ \A d \in Callers : pc'[d] # "restore"
           /\ OneWriter' /\ Truncated'
           /\ (\A n \in Names : Held(n))'
<1>1. /\ \A d \in Callers : pc[d] # "restore"
      /\ OneWriter /\ Truncated
      /\ \A n \in Names : Held(n)
  BY WholeParts
<1>2. \A d \in Callers : pc'[d] # "write"
  BY <1>1 DEF Others, OneWriter
<1>3. \A d \in Callers \ {c} : loc'[d] = loc[d] /\ pc'[d] = pc[d] /\ pc[d] # "write"
  BY <1>1 DEF Others, OneWriter
<1>4. disk'[Target(c)] = loc'[c].new
  BY <1>1 DEF Truncated
<1>5. (\A n \in Names : Held(n))'
  <2> SUFFICES ASSUME NEW n \in Names PROVE Held(n)'
    BY Zenon
  <2>1. CASE n = Target(c)
    BY <1>4, <2>1 DEF Held, Closed
  <2>2. CASE n # Target(c)
    <3>1. disk'[n] = disk[n] /\ Closed(n)
      BY <1>1, <1>3, <2>2 DEF Held
    <3>2. CASE \E d \in Callers : disk[n] = found[d].disk[n]
      BY <3>1, <3>2 DEF Held, Closed
    <3>3. CASE \E d \in Callers : pc[d] = "done" /\ disk[n] = loc[d].new
      <4>1. PICK d \in Callers : pc[d] = "done" /\ disk[n] = loc[d].new
        BY <3>3
      <4>2. pc'[d] = "done" /\ disk'[n] = loc'[d].new
        BY <1>3, <3>1, <4>1
      <4>3. QED
        BY <4>2 DEF Held, Closed
    <3>4. QED
      BY <3>1, <3>2, <3>3 DEF Closed
  <2>3. QED
    BY <2>1, <2>2
<1>6. OneWriter' /\ Truncated'
  BY <1>2 DEF OneWriter, Truncated
<1>7. \A d \in Callers : pc'[d] # "restore"
  BY <1>1, <1>3
<1>8. QED
  BY <1>5, <1>6, <1>7

\* Whole is inductive with Shape.
LEMMA NextWhole == Shape /\ Whole /\ [Next]_vars => Whole'
<1> SUFFICES ASSUME Shape, Whole, [Next]_vars PROVE Whole'
  OBVIOUS
<1> DEFINE Goal == /\ \A d \in Callers : pc'[d] # "restore"
                   /\ OneWriter' /\ Truncated'
                   /\ (\A n \in Names : Held(n))'
<1>1. CASE UNCHANGED vars
  BY <1>1 DEF Whole, Target, vars
<1>2. ASSUME NEW c \in Callers, Step(c), Unbroken' PROVE Goal
  <2> USE <1>2
  <2>1. Others(c) /\ hit = {}
    BY StepRuns DEF Unbroken
  <2>2. CASE Stat(c)
    <3>1. /\ UNCHANGED <<disk, ino, shared>> /\ pc[c] = "idle" /\ pc'[c] \in {"load", "done"}
          /\ found'[c] = [disk |-> disk, dir |-> dir]
      BY <2>2, StatShape
    <3>2. Unbroken /\ found'[c].disk = disk
      BY <2>1, <3>1 DEF Unbroken
    <3>3. QED
      BY <2>1, <3>1, <3>2, WholeKept
  <2>3. CASE LoadForWrite(c) \/ LoadForEdit(c) \/ LoadForRead(c)
    <3>1. /\ UNCHANGED <<disk, ino, shared, found>> /\ pc[c] = "load"
          /\ pc'[c] \in {"open", "done", "idle", "spin"}
      BY <2>3, LoadForWriteStep, LoadForEditStep, LoadForReadStep
    <3>2. Unbroken
      BY <2>1, <3>1 DEF Unbroken
    <3>3. QED
      BY <2>1, <3>1, <3>2, WholeKept
  <2>4. CASE OpenForWriting(c)
    <3>1. UNCHANGED <<ino, found>> /\ pc[c] = "open"
      BY <2>4, OpenStep
    <3>2. CASE pc'[c] = "write"
      <4>1. /\ loc'[c].handle = ino
            /\ disk'[Target(c)] = <<>> /\ Target(c) \in Names
            /\ \A n \in Names \ {Target(c)} : disk'[n] = disk[n]
            /\ \A x \in Locals \ {"handle"} : loc'[c][x] = loc[c][x]
            /\ shared' = (shared \/ \E d \in Callers \ {c} : pc[d] = "write")
        BY <2>4, <3>2, OpenStep
      <4>2. Unbroken /\ \A d \in Callers \ {c} : pc[d] # "write"
        BY <2>1, <4>1 DEF Unbroken
      <4>3. loc'[c].resolved = loc[c].resolved
        BY <4>1 DEF Locals
      <4>4. QED
        BY <2>1, <3>1, <3>2, <4>1, <4>2, <4>3, WholeOpens
    <3>3. CASE pc'[c] # "write"
      <4>1. UNCHANGED <<disk, shared>> /\ pc'[c] \in {"mkdir", "done"}
        BY <2>4, <3>3, OpenStep
      <4>2. Unbroken
        BY <2>1, <4>1 DEF Unbroken
      <4>3. QED
        BY <2>1, <3>1, <4>1, <4>2, WholeKept
    <3>4. QED
      BY <3>2, <3>3
  <2>5. CASE Mkdir(c)
    <3>1. UNCHANGED <<disk, ino, shared, found>> /\ pc[c] = "mkdir" /\ pc'[c] = "reopen"
      BY <2>5, MkdirStep
    <3>2. Unbroken
      BY <2>1, <3>1 DEF Unbroken
    <3>3. QED
      BY <2>1, <3>1, <3>2, WholeKept
  <2>6. CASE Reopen(c)
    <3>1. UNCHANGED <<ino, found>> /\ pc[c] = "reopen"
      BY <2>6, ReopenStep
    <3>2. CASE pc'[c] = "write"
      <4>1. /\ loc'[c].handle = ino
            /\ disk'[Target(c)] = <<>> /\ Target(c) \in Names
            /\ \A n \in Names \ {Target(c)} : disk'[n] = disk[n]
            /\ \A x \in Locals \ {"handle"} : loc'[c][x] = loc[c][x]
            /\ shared' = (shared \/ \E d \in Callers \ {c} : pc[d] = "write")
        BY <2>6, <3>2, ReopenStep
      <4>2. Unbroken /\ \A d \in Callers \ {c} : pc[d] # "write"
        BY <2>1, <4>1 DEF Unbroken
      <4>3. loc'[c].resolved = loc[c].resolved
        BY <4>1 DEF Locals
      <4>4. QED
        BY <2>1, <3>1, <3>2, <4>1, <4>2, <4>3, WholeOpens
    <3>3. CASE pc'[c] # "write"
      <4>1. UNCHANGED <<disk, shared>> /\ pc'[c] = "done"
        BY <2>6, <3>3, ReopenStep
      <4>2. Unbroken
        BY <2>1, <4>1 DEF Unbroken
      <4>3. QED
        BY <2>1, <3>1, <4>1, <4>2, WholeKept
    <3>4. QED
      BY <3>2, <3>3
  <2>7. CASE WriteClose(c)
    <3>1. /\ UNCHANGED <<ino, found, shared>> /\ pc[c] = "write" /\ loc'[c] = loc[c]
          /\ Target(c) \in Names /\ \A n \in Names \ {Target(c)} : disk'[n] = disk[n]
          /\ hit' = {} => /\ pc'[c] = "done"
                          /\ loc[c].handle = ino /\ disk[Target(c)] = <<>>
                                 => disk'[Target(c)] = loc[c].new
      BY <2>7, WriteStep
    <3>2. Unbroken /\ hit' = {}
      BY <2>1, <3>1 DEF Unbroken
    <3>3. QED
      BY <2>1, <3>1, <3>2, WholeWrites
  <2>8. CASE RestoreNew(c) \/ RestoreOld(c)
    <3>1. pc[c] = "restore" /\ UNCHANGED shared
      BY <2>8, RestoreNewStep, RestoreOldStep
    <3>2. Unbroken
      BY <2>1, <3>1 DEF Unbroken
    <3>3. QED
      BY <3>1, <3>2, WholeParts
  <2>9. QED
    BY <2>2, <2>3, <2>4, <2>5, <2>6, <2>7, <2>8 DEF Step
<1>3. (Unbroken' => Goal) => Whole'
  <2>1. Whole' <=> (Unbroken' => Goal)
    BY Zenon DEF Whole, Unbroken, OneWriter, Truncated, Held, Closed
  <2>2. QED
    BY <2>1
<1>4. CASE \E c \in Callers : Step(c)
  BY <1>2, <1>3, <1>4
<1>5. QED
  BY <1>1, <1>4 DEF Next, Spin, Idle

\* The invariant behind WholeTexts (FileTools).
THEOREM AlwaysWhole == Spec => []Whole
<1>1. Init => Whole
  <2> SUFFICES ASSUME Init PROVE Whole
    OBVIOUS
  <2>1. /\ pc = [c \in Callers |-> "idle"]
        /\ found = [c \in Callers |-> [disk |-> disk, dir |-> dir]]
    BY DEF Init
  <2>2. PICK c \in Callers : TRUE
    BY CasesAssumption
  <2>3. \A n \in Names : disk[n] = found[c].disk[n]
    BY <2>1
  <2>4. \A d \in Callers : pc[d] = "idle"
    BY <2>1
  <2>5. QED
    BY <2>3, <2>4 DEF Whole
<1>2. Whole /\ Shape /\ [Next]_vars => Whole'
  BY NextWhole
<1>3. QED
  BY <1>1, <1>2, AlwaysShape, PTL DEF Spec

\* A file nobody has open holds the bytes of one call, whole (tool_write,
\* tool_edit).
THEOREM TextsAlwaysWhole == Spec => []WholeTexts
<1>1. Whole => WholeTexts
  BY DEF Whole, WholeTexts
<1>2. QED
  BY <1>1, AlwaysWhole, PTL
=============================================================================

------------------------ MODULE TerminalSend_proofs ------------------------
(***************************************************************************)
(* Proofs about TerminalSend, for any number of calls and any sizes of the *)
(* terminal's buffers: whose exit status and whose output a call returns,  *)
(* and when a marker is overlooked.                                        *)
(***************************************************************************)
EXTENDS TerminalSend, TLAPS, SequenceTheorems, WellFoundedInduction

\* What the shell has still to read, and what the reader has not published.
Input  == inq \o payload
Unseen == burst \o (outq \o pend)

Cmd(k)   == <<"cmd", k>>
Probe(k) == <<"probe", k>>
End(k)   == <<"b", k>>

In(s, u)      == \E i \in DOMAIN s : s[i] = u
Once(s, u)    == \A i, j \in DOMAIN s : s[i] = u /\ s[j] = u => i = j
Ahead(s, u, v) == \A i, j \in DOMAIN s : s[i] = u /\ s[j] = v => i < j
Starts(s, u)  == s # <<>> /\ s[1] = u
Ends(l, s) == \A i \in 1..Len(l) : l[i] = s[i + (Len(s) - Len(l))]

\* The probe of k is right behind its command, or first.
Follows(s, k) == \A i \in DOMAIN s : i > 1 /\ s[i] = Probe(k) => s[i - 1] = Cmd(k)

\* v is the code of k, or that of a signal that came behind it.
Says(v, k, c, h) == (v = c[k] \/ (v = Interrupted /\ k \in h)) /\ c[k] # NoCode

\* The digits of the markers that end in s behind place n are the codes in c, or
\* those of signals for the probes in h.
Coded(s, n, c, h) ==
    \A i \in DOMAIN s : \A k \in Calls :
        i > 1 /\ i > n /\ s[i] = End(k) /\ s[i - 1][1] = "d" => Says(s[i - 1][2], k, c, h)

Taken(k) == \E j \in Calls : k \in reply[j].got

\* What the call that holds the lock has still to write.
PayloadOK ==
    \/ payload = <<>>
    \/ lock # 0 /\ kind[lock] = "plain" /\ payload = <<Cmd(lock)>>
    \/ lock # 0 /\ kind[lock] = "status" /\ payload \in {<<Cmd(lock), Probe(lock)>>, <<Probe(lock)>>}

\* Lines are read once, a probe after its command.
InputOf(k) ==
    /\ pc[k] = "new" => ~In(Input, Cmd(k)) /\ ~In(Input, Probe(k))
    /\ Once(Input, Cmd(k)) /\ Once(Input, Probe(k)) /\ Follows(Input, k)
    /\ In(Input, Probe(k)) => kind[k] = "status" /\ k \in open
    /\ alive /\ Starts(Input, Probe(k)) =>
          \/ run = k
          \/ run = 0 /\ Says(last, k, code, shaken)
InputOK == \A k \in Calls : InputOf(k)

\* A command the shell has not read has left no trace, one that runs has no code.
Unheard(k) == pc[k] = "new" \/ In(Input, Cmd(k))
TraceOf(k) ==
    /\ Unheard(k) => run # k /\ ~In(Unseen, Output(k)) /\ k \notin unread /\ ~Taken(k)
    /\ Unheard(k) \/ run = k => code[k] = NoCode
    /\ Unheard(k) \/ run = k \/ In(Input, Probe(k)) => ~In(Unseen, End(k))
TraceOK == \A k \in Calls : TraceOf(k)

\* Where the output of a command is: printed once, in front of its marker.
OutputOf(k) ==
    /\ Once(Unseen, Output(k)) /\ Once(Unseen, End(k)) /\ Ahead(Unseen, Output(k), End(k))
    /\ In(Unseen, End(k)) => kind[k] = "status" /\ k \in open
    /\ In(pend, Output(k)) => run = k
    /\ k \in unread \/ Taken(k) => ~In(Unseen, Output(k))
    /\ (alive /\ run = k) \/ code[k] = k => In(Unseen, Output(k)) \/ k \in unread \/ Taken(k)
OutputOK == \A k \in Calls : OutputOf(k)

\* The digits of a marker are the code of its command, or of a signal after it.
CodedOK == Coded(tail \o Unseen, Len(tail), code, shaken)

\* A send that no other probe has met waits for its own marker, or has it.
AloneOf(k) ==
    pc[k] \in {"write", "wait"} /\ kind[k] = "status" /\ met[k] = {} =>
        /\ open \subseteq {k} /\ seqOf[k] = probe.pendingSeq
        /\ probe.pending => probe.doneSeq < seqOf[k]
        /\ ~probe.pending => /\ Says(probe.code, k, code, shaken)
                             /\ code[k] = k => k \in unread \/ Taken(k)
AloneOK == \A k \in Calls : AloneOf(k)

\* Calls under way at the same time know of each other.
CrowdOK ==
    /\ \A k \in Calls : pc[k] # "done" => reply[k].status = NoCode /\ reply[k].got = {}
    /\ \A j, k \in Calls : j # k /\ k \in Active => /\ j \in Active => j \in crowd[k]
                                                    /\ k \in reply[j].got => j \in crowd[k]

\* scan_tail is the end of what was published.
ScanOK == /\ seen.recent \in Seq(Units) /\ Len(seen.recent) <= 3
          /\ tail = LastUnits(seen.recent, PrefixLen)
          /\ seen.missed => seen.late

\* The inductive invariant.
CInv == /\ TypeOK /\ PayloadOK /\ InputOK /\ TraceOK /\ OutputOK /\ CodedOK /\ AloneOK
        /\ CrowdOK /\ ScanOK /\ OwnReply

USE DEF shellState, history

-----------------------------------------------------------------------------
(* Types.                                                                  *)

\* Markers, outputs and payloads are made of units and lines.
LEMMA PieceTypes ==
  ASSUME NEW k \in Calls
  PROVE  /\ <<Output(k)>> \in Seq(Units) /\ \A c \in Codes : Marker(c, k) \in Seq(Units)
         /\ \A o \in {"read", "plain", "status"} : Payload(k, o) \in Seq(Lines)
  <1>1. Output(k) \in Units
    BY DEF Output, Units
  <1>2. \A c \in Codes : Marker(c, k) \in Seq(Units)
    BY DEF Marker, Units
  <1>3. \A o \in {"read", "plain", "status"} : Payload(k, o) \in Seq(Lines)
    <2>1. <<"cmd", k>> \in Lines /\ <<"probe", k>> \in Lines
      BY DEF Lines
    <2>2. /\ Payload(k, "read") = <<>> /\ Payload(k, "plain") = << <<"cmd", k>> >>
          /\ Payload(k, "status") = << <<"cmd", k>>, <<"probe", k>> >>
      BY DEF Payload
    <2>3. <<>> \in Seq(Lines) /\ << <<"cmd", k>> >> \in Seq(Lines)
      BY <2>1
    <2>4. << <<"cmd", k>>, <<"probe", k>> >> \in Seq(Lines)
      BY <2>1
    <2>5. QED
      BY <2>2, <2>3, <2>4
  <1>4. QED
    BY <1>1, <1>2, <1>3

\* What is kept of a sequence has its type, and at most the length asked for.
LEMMA LastUnitsType ==
  ASSUME NEW S, NEW w \in Seq(S), NEW n \in Nat
  PROVE  /\ LastUnits(w, n) \in Seq(S) /\ Len(LastUnits(w, n)) <= n
         /\ Len(LastUnits(w, n)) = IF Len(w) > n THEN n ELSE Len(w)
         /\ \A i \in 1..Len(LastUnits(w, n)) :
               LastUnits(w, n)[i] = w[i + (Len(w) - Len(LastUnits(w, n)))]
  <1>1. CASE Len(w) > n
    <2>1. LastUnits(w, n) = SubSeq(w, Len(w) - n + 1, Len(w))
      BY <1>1 DEF LastUnits
    <2>2. QED
      BY <1>1, <2>1
  <1>2. CASE ~(Len(w) > n)
    <2>1. LastUnits(w, n) = SubSeq(w, 1, Len(w))
      BY <1>2 DEF LastUnits
    <2>2. LastUnits(w, n) = w
      BY <2>1
    <2>3. QED
      BY <1>2, <2>2
  <1>3. QED
    BY <1>1, <1>2

\* A non-empty set of positions has a first one.
LEMMA FirstPosition ==
  ASSUME NEW T, T \subseteq Nat, T # {}
  PROVE  Min(T) \in T
  <1>1. PICK x \in T : \A y \in T : <<y, x>> \notin OpToRel(<, Nat)
    BY WFMin, NatLessThanWellFounded, Zenon
  <1>2. \A y \in T : ~(y < x)
    BY <1>1, Zenon DEF OpToRel
  <1>3. \A y \in T : x =< y
    BY <1>2
  <1>4. QED
    BY <1>3, Zenon DEF Min

\* scan_status keeps the types and the order of the sequence numbers.
LEMMA ScanType ==
  ASSUME ProbeTypes, NEW w \in Seq(Units), probe' = ScanWindow(probe, w), UNCHANGED seqOf
  PROVE  ProbeTypes'
  <1>1. CASE ~probe.pending \/ Markers(w) = {}
    BY <1>1 DEF ScanWindow, ProbeTypes
  <1>2. CASE probe.pending /\ Markers(w) # {}
    <2>1. PICK m \in Markers(w) : m = Min(Markers(w))
      <3>1. Markers(w) \subseteq Nat
        BY DEF Markers
      <3>2. QED
        BY <1>2, <3>1, FirstPosition
    <2>2. m + 2 \in DOMAIN w /\ w[m + 2][1] = "d"
      BY DEF Markers
    <2>3. w[m + 2] \in Units
      BY <2>2
    <2>4. w[m + 2][2] \in Codes
      BY <2>2, <2>3 DEF Units
    <2>5. probe' = [probe EXCEPT !.code = w[m + 2][2], !.doneSeq = probe.pendingSeq, !.pending = FALSE]
      BY <1>2, <2>1 DEF ScanWindow
    <2>6. probe \in Probes /\ probe.pendingSeq <= probe.seq /\ probe.pendingSeq \in Nat
      BY DEF ProbeTypes, Probes
    <2>7. /\ probe' \in Probes /\ probe'.doneSeq = probe.pendingSeq
          /\ probe'.pendingSeq = probe.pendingSeq /\ probe'.seq = probe.seq
      BY <2>4, <2>5, <2>6 DEF Probes
    <2>8. QED
      BY <2>6, <2>7 DEF ProbeTypes
  <1>3. QED
    BY <1>1, <1>2

\* The initial state is well typed.
LEMMA InitTypes == Init => TypeOK
  <1>1. SUFFICES ASSUME Init PROVE TypeOK
    OBVIOUS
  <1>2. 0 \in Codes /\ 0 \in Nat
    BY SizesAssumption DEF Codes, Interrupted
  <1>3. CallTypes
    BY <1>1 DEF Init, CallTypes
  <1>4. StreamTypes
    BY <1>1, SizesAssumption DEF Init, StreamTypes, PrefixLen
  <1>5. ShellTypes
    BY <1>1, <1>2 DEF Init, ShellTypes, NoCode
  <1>6. ProbeTypes
    <2>1. probe \in Probes
      BY <1>1, <1>2 DEF Init, Probes, NoCode
    <2>2. QED
      BY <1>1, <1>2, <2>1 DEF Init, ProbeTypes
  <1>7. ReplyTypes
    BY <1>1, <1>2 DEF Init, ReplyTypes, Replies, NoCode
  <1>8. QED
    BY <1>3, <1>4, <1>5, <1>6, <1>7 DEF TypeOK

\* The first of one sequence moves to the end of another, which together are the same.
LEMMA Moved ==
  ASSUME NEW S, NEW s \in Seq(S), NEW r \in Seq(S), r # <<>>
  PROVE  /\ Tail(r) \in Seq(S) /\ Append(s, Head(r)) \in Seq(S)
         /\ Len(Append(s, Head(r))) = Len(s) + 1
         /\ Append(s, Head(r)) \o Tail(r) = s \o r
  <1>1. Head(r) \in S /\ Tail(r) \in Seq(S) /\ Len(Tail(r)) = Len(r) - 1 /\ Len(r) > 0
    BY HeadTailProperties
  <1>2. /\ Append(s, Head(r)) \in Seq(S) /\ Len(Append(s, Head(r))) = Len(s) + 1
    BY <1>1
  <1>3. Append(s, Head(r)) \o Tail(r) = s \o r
    <2>1. /\ Append(s, Head(r)) \o Tail(r) \in Seq(S) /\ s \o r \in Seq(S)
          /\ Len(Append(s, Head(r)) \o Tail(r)) = Len(s \o r)
      BY <1>1, <1>2
    <2>2. ASSUME NEW i \in 1..Len(s \o r)
          PROVE  (Append(s, Head(r)) \o Tail(r))[i] = (s \o r)[i]
      <3>1. CASE i <= Len(s)
        BY <1>1, <1>2, <3>1
      <3>2. CASE i = Len(s) + 1
        BY <1>1, <1>2, <3>2
      <3>3. CASE i > Len(s) + 1
        BY <1>1, <1>2, <3>3
      <3>4. QED
        BY <3>1, <3>2, <3>3
    <2>3. QED
      BY <2>1, <2>2, SeqEqual
  <1>4. QED
    BY <1>1, <1>2, <1>3

\* What is in the streams are lines and units.
LEMMA StreamTypesStep == TypeOK /\ [Next]_vars => StreamTypes'
  <1>1. SUFFICES ASSUME TypeOK, [Next]_vars PROVE StreamTypes'
    OBVIOUS
  <1>2. CASE ShellReads
    <2>1. Head(inq) \in Lines /\ Tail(inq) \in Seq(Lines) /\ Len(Tail(inq)) <= MaxIn
      BY <1>1, <1>2, SizesAssumption DEF TypeOK, StreamTypes, ShellReads
    <2>2. Head(inq)[2] \in Calls
      BY <2>1 DEF Lines
    <2>3. pend' \in Seq(Units)
      <3>1. pend' = Marker(last, Head(inq)[2]) \/ pend' = <<Output(Head(inq)[2])>>
        BY <1>2 DEF ShellReads
      <3>2. last \in Codes
        BY <1>1 DEF TypeOK, ShellTypes
      <3>3. QED
        BY <2>2, <3>1, <3>2, PieceTypes
    <2>4. QED
      BY <1>1, <1>2, <2>1, <2>3 DEF TypeOK, StreamTypes, ShellReads
  <1>3. CASE ShellPrints
    <2>1. /\ Tail(pend) \in Seq(Units) /\ Append(outq, Head(pend)) \in Seq(Units)
          /\ Len(Append(outq, Head(pend))) <= MaxOut
      BY <1>1, <1>3, SizesAssumption, Moved DEF TypeOK, StreamTypes, ShellPrints
    <2>2. QED
      BY <1>1, <1>3, <2>1 DEF TypeOK, StreamTypes, ShellPrints
  <1>4. CASE CommandEnds \/ ReaderEof \/ ReaderReady \/ UNCHANGED vars
    BY <1>1, <1>4 DEF TypeOK, StreamTypes, CommandEnds, ReaderEof, ReaderReady, vars
  <1>5. CASE ShellExits \/ Interrupt
    <2>1. (pend' = <<>> \/ pend' = pend) /\ UNCHANGED <<inq, payload, outq, burst, tail>>
      BY <1>5 DEF ShellExits, Interrupt, InterruptCommand, InterruptShell
    <2>2. pend' \in Seq(Units)
      <3>1. pend \in Seq(Units) /\ <<>> \in Seq(Units)
        BY <1>1 DEF TypeOK, StreamTypes
      <3>2. QED
        BY <2>1, <3>1
    <2>3. QED
      BY <1>1, <2>1, <2>2 DEF TypeOK, StreamTypes
  <1>6. CASE ReaderDrains
    BY <1>1, <1>6, SizesAssumption DEF TypeOK, StreamTypes, ReaderDrains, ReaderReady
  <1>7. CASE Publish
    <2>1. tail \o burst \in Seq(Units)
      BY <1>1 DEF TypeOK, StreamTypes
    <2>2. tail' \in Seq(Units) /\ Len(tail') <= PrefixLen
      BY <1>7, <2>1, LastUnitsType DEF Publish, KeepTail, PrefixLen
    <2>3. QED
      BY <1>1, <1>7, <2>2 DEF TypeOK, StreamTypes, Publish
  <1>8. ASSUME NEW k \in Calls, Write(k) PROVE StreamTypes'
    <2>1. /\ Tail(payload) \in Seq(Lines) /\ Append(inq, Head(payload)) \in Seq(Lines)
          /\ Len(Append(inq, Head(payload))) <= MaxIn
      BY <1>1, <1>8, SizesAssumption, Moved DEF TypeOK, StreamTypes, Write
    <2>2. QED
      BY <1>1, <1>8, <2>1 DEF TypeOK, StreamTypes, Write
  <1>9. ASSUME NEW k \in Calls, WriteFails(k) \/ Wait(k) \/ Return(k) PROVE StreamTypes'
    <2>1. (payload' = <<>> \/ payload' = payload) /\ UNCHANGED <<inq, pend, outq, burst, tail>>
      BY <1>9 DEF WriteFails, Wait, Return
    <2>2. payload \in Seq(Lines) /\ <<>> \in Seq(Lines)
      BY <1>1 DEF TypeOK, StreamTypes
    <2>3. payload' \in Seq(Lines)
      BY <2>1, <2>2
    <2>4. QED
      BY <1>1, <2>1, <2>3 DEF TypeOK, StreamTypes
  <1>10. ASSUME NEW k \in Calls, NEW o \in {"read", "plain", "status"}, Begin(k, o) PROVE StreamTypes'
    <2>1. payload' = payload \/ payload' = Payload(k, o)
      BY <1>10 DEF Begin
    <2>2. payload' \in Seq(Lines)
      BY <1>1, <2>1, PieceTypes DEF TypeOK, StreamTypes
    <2>3. QED
      BY <1>1, <1>10, <2>2 DEF TypeOK, StreamTypes, Begin
  <1>11. QED
    BY <1>1, <1>2, <1>3, <1>4, <1>5, <1>6, <1>7, <1>8, <1>9, <1>10
    DEF Next, Shell, Interrupt, Reader, Call, Over

\* The calls, their kinds and the lock.
LEMMA CallTypesStep == TypeOK /\ [Next]_vars => CallTypes'
  <1>1. SUFFICES ASSUME TypeOK, [Next]_vars PROVE CallTypes'
    OBVIOUS
  <1>2. CASE UNCHANGED <<pc, kind, lock>>
    BY <1>1, <1>2 DEF TypeOK, CallTypes
  <1>3. CASE Shell \/ ShellExits \/ Interrupt \/ Reader \/ Over
    BY <1>2, <1>3 DEF Shell, ShellReads, ShellPrints, CommandEnds, ShellExits, Interrupt, InterruptCommand, InterruptShell,
                      Reader, ReaderDrains, ReaderReady, Publish, ReaderEof, Over, vars
  <1>4. ASSUME NEW k \in Calls, Write(k) PROVE CallTypes'
    BY <1>2, <1>4 DEF Write
  <1>n. \A k \in Calls : k # 0
    BY DEF Calls
  <1>5. ASSUME NEW k \in Calls, WriteFails(k) \/ Wait(k) \/ Return(k) PROVE CallTypes'
    BY <1>1, <1>5, <1>n DEF TypeOK, CallTypes, WriteFails, Wait, Return
  <1>6. ASSUME NEW k \in Calls, NEW o \in {"read", "plain", "status"}, Begin(k, o) PROVE CallTypes'
    BY <1>1, <1>6, <1>n DEF TypeOK, CallTypes, Begin
  <1>7. QED
    BY <1>1, <1>2, <1>3, <1>4, <1>5, <1>6 DEF Next, Call, vars

\* The shell and its exit codes.
LEMMA ShellTypesStep == TypeOK /\ [Next]_vars => ShellTypes'
  <1>1. SUFFICES ASSUME TypeOK, [Next]_vars PROVE ShellTypes'
    OBVIOUS
  <1>2. CASE UNCHANGED <<run, last, code, alive, exited, ready>>
    BY <1>1, <1>2 DEF TypeOK, ShellTypes
  <1>c. 0 \in Codes /\ Interrupted \in Codes /\ Calls \subseteq Codes
    BY SizesAssumption DEF Codes, Calls, Interrupted
  <1>3. CASE ShellReads
    <2>1. Head(inq) \in Lines
      BY <1>1, <1>3 DEF TypeOK, StreamTypes, ShellReads
    <2>2. Head(inq)[2] \in Calls
      BY <2>1 DEF Lines
    <2>3. run' = run \/ run' = Head(inq)[2]
      BY <1>3 DEF ShellReads
    <2>4. QED
      BY <1>1, <1>3, <2>2, <2>3 DEF TypeOK, ShellTypes, ShellReads
  <1>4. CASE CommandEnds \/ ShellExits \/ Interrupt \/ ReaderEof \/ ReaderReady \/ Publish
    BY <1>1, <1>4, <1>c DEF TypeOK, ShellTypes, CommandEnds, ShellExits, Interrupt, InterruptCommand,
                            InterruptShell, ReaderEof, ReaderReady, Publish
  <1>5. CASE ShellPrints \/ ReaderDrains \/ Over
    BY <1>2, <1>5 DEF ShellPrints, ReaderDrains, Over, vars
  <1>6. ASSUME NEW k \in Calls, Call(k) \/ \E o \in {"read", "plain", "status"} : Begin(k, o)
        PROVE  ShellTypes'
    BY <1>2, <1>6 DEF Call, Write, WriteFails, Wait, Return, Begin
  <1>7. QED
    BY <1>1, <1>2, <1>3, <1>4, <1>5, <1>6 DEF Next, Shell, Interrupt, Reader, vars

\* A step keeps the sequence numbers in order.
LEMMA ProbeTypesStep == TypeOK /\ [Next]_vars => ProbeTypes'
  <1>1. SUFFICES ASSUME TypeOK, [Next]_vars PROVE ProbeTypes'
    OBVIOUS
  <1>2. CASE UNCHANGED <<probe, seqOf>>
    BY <1>1, <1>2 DEF TypeOK, ProbeTypes
  <1>3. CASE Shell \/ ShellExits \/ Interrupt \/ ReaderDrains \/ ReaderReady \/ ReaderEof \/ Over
    BY <1>2, <1>3 DEF Shell, ShellReads, ShellPrints, CommandEnds, ShellExits, Interrupt, InterruptCommand, InterruptShell,
                      ReaderDrains, ReaderReady, ReaderEof, Over, vars
  <1>4. CASE Publish
    <2>1. tail \o burst \in Seq(Units)
      BY <1>1 DEF TypeOK, StreamTypes
    <2>2. probe' = ScanWindow(probe, tail \o burst) /\ UNCHANGED seqOf
      BY <1>4 DEF Publish
    <2>3. QED
      BY <1>1, <2>1, <2>2, ScanType DEF TypeOK
  <1>5. ASSUME NEW k \in Calls, Call(k) PROVE ProbeTypes'
    BY <1>2, <1>5 DEF Call, Write, WriteFails, Wait, Return
  <1>6. ASSUME NEW k \in Calls, NEW o \in {"read", "plain", "status"}, Begin(k, o) PROVE ProbeTypes'
    <2>1. CASE UNCHANGED <<probe, seqOf>>
      BY <1>2, <2>1
    <2>2. CASE probe' = Arm(probe) /\ seqOf' = [seqOf EXCEPT ![k] = probe'.seq]
      <3>1. probe \in Probes /\ probe.seq \in Nat
        BY <1>1 DEF TypeOK, ProbeTypes, Probes
      <3>2. /\ probe' \in Probes /\ probe'.seq = probe.seq + 1 /\ probe'.pendingSeq = probe.seq + 1
            /\ probe'.doneSeq = probe.doneSeq /\ probe'.pending
        <4>1. probe' = [probe EXCEPT !.seq = probe.seq + 1, !.pendingSeq = probe.seq + 1, !.pending = TRUE]
          BY <2>2, Zenon DEF Arm
        <4>2. probe.seq + 1 \in Nat /\ TRUE \in BOOLEAN
          BY <3>1
        <4>3. QED
          BY <3>1, <4>1, <4>2 DEF Probes
      <3>3. seqOf' \in [Calls -> Nat]
        BY <1>1, <2>2, <3>1, <3>2 DEF TypeOK, ProbeTypes
      <3>4. probe.doneSeq \in Nat /\ probe.pendingSeq \in Nat
        BY <3>1 DEF Probes
      <3>5. QED
        BY <1>1, <3>1, <3>2, <3>3, <3>4 DEF TypeOK, ProbeTypes
    <2>3. QED
      BY <1>6, <2>1, <2>2 DEF Begin
  <1>7. QED
    BY <1>1, <1>2, <1>3, <1>4, <1>5, <1>6 DEF Next, Reader, vars

\* What calls returned, and the history of who met whom.
LEMMA ReplyTypesStep == TypeOK /\ [Next]_vars => ReplyTypes'
  <1>1. SUFFICES ASSUME TypeOK, [Next]_vars PROVE ReplyTypes'
    OBVIOUS
  <1>2. CASE UNCHANGED <<unread, open, shaken, reply, met, crowd>>
    BY <1>1, <1>2 DEF TypeOK, ReplyTypes
  <1>3. CASE Shell \/ ShellExits \/ InterruptCommand \/ ReaderDrains \/ ReaderReady \/ ReaderEof \/ Over
    BY <1>2, <1>3 DEF Shell, ShellReads, ShellPrints, CommandEnds, ShellExits, InterruptCommand,
                      ReaderDrains, ReaderReady, ReaderEof, Over, vars
  <1>4. CASE Publish \/ InterruptShell
    BY <1>1, <1>4 DEF TypeOK, ReplyTypes, Publish, InterruptShell
  <1>5. ASSUME NEW k \in Calls, Write(k) \/ Wait(k) PROVE ReplyTypes'
    BY <1>2, <1>5 DEF Write, Wait
  <1>6. ASSUME NEW k \in Calls, WriteFails(k) \/ Return(k) PROVE ReplyTypes'
    <2>1. /\ reply' = [reply EXCEPT ![k].error = TRUE] \/
             reply' = [reply EXCEPT ![k] = [status |-> StatusOf(k), got |-> unread, error |-> FALSE]]
          /\ unread' \subseteq unread /\ open' \subseteq open /\ UNCHANGED <<met, crowd, shaken>>
      BY <1>6 DEF WriteFails, Return
    <2>2. StatusOf(k) \in Codes /\ unread \subseteq Calls
      <3>1. 0 \in Codes /\ probe.code \in Codes
        BY <1>1, SizesAssumption DEF Codes, Interrupted, TypeOK, ProbeTypes, Probes
      <3>2. QED
        BY <1>1, <3>1 DEF StatusOf, NoCode, TypeOK, ReplyTypes
    <2>3. reply' \in [Calls -> Replies]
      <3>1. reply[k] \in Replies /\ reply \in [Calls -> Replies]
        BY <1>1 DEF TypeOK, ReplyTypes
      <3>2. [reply[k] EXCEPT !.error = TRUE] \in Replies
        BY <3>1 DEF Replies
      <3>3. [status |-> StatusOf(k), got |-> unread, error |-> FALSE] \in Replies
        BY <2>2 DEF Replies
      <3>4. QED
        BY <2>1, <3>1, <3>2, <3>3
    <2>4. QED
      BY <1>1, <2>1, <2>3 DEF TypeOK, ReplyTypes
  <1>7. ASSUME NEW k \in Calls, NEW o \in {"read", "plain", "status"}, Begin(k, o) PROVE ReplyTypes'
    <2>1. reply \in [Calls -> Replies] /\ reply[k] \in Replies
      BY <1>1 DEF TypeOK, ReplyTypes
    <2>2. [reply[k] EXCEPT !.error = TRUE] \in Replies
      BY <2>1 DEF Replies
    <2>3. reply' \in [Calls -> Replies]
      <3>1. reply' = reply \/ reply' = [reply EXCEPT ![k].error = TRUE]
        BY <1>7 DEF Begin
      <3>2. QED
        BY <2>1, <2>2, <3>1
    <2>4. open' \subseteq Calls /\ unread' = unread /\ shaken' = shaken
      BY <1>1, <1>7 DEF TypeOK, ReplyTypes, Begin
    <2>5. Active \subseteq Calls
      BY DEF Active
    <2>6. met' \in [Calls -> SUBSET Calls] /\ crowd' \in [Calls -> SUBSET Calls]
      BY <1>1, <1>7, <2>5 DEF TypeOK, ReplyTypes, Begin
    <2>7. QED
      BY <1>1, <2>3, <2>4, <2>6 DEF TypeOK, ReplyTypes
  <1>8. QED
    BY <1>1, <1>2, <1>3, <1>4, <1>5, <1>6, <1>7 DEF Next, Interrupt, Reader, Call, vars

\* Every step keeps the types.
LEMMA TypesStep == TypeOK /\ [Next]_vars => TypeOK'
  BY CallTypesStep, StreamTypesStep, ShellTypesStep, ProbeTypesStep, ReplyTypesStep DEF TypeOK
-----------------------------------------------------------------------------
(* Occurrences in sequences.                                               *)

\* What is in s \o t is in s or in t.
LEMMA ConcatIn ==
  ASSUME NEW S, NEW s \in Seq(S), NEW t \in Seq(S), NEW u
  PROVE  In(s \o t, u) <=> In(s, u) \/ In(t, u)
  <1>1. DOMAIN (s \o t) = 1..(Len(s) + Len(t)) /\ DOMAIN s = 1..Len(s) /\ DOMAIN t = 1..Len(t)
    OBVIOUS
  <1>2. ASSUME In(s, u) PROVE In(s \o t, u)
    <2>1. PICK i \in 1..Len(s) : s[i] = u
      BY <1>1, <1>2 DEF In
    <2>2. (s \o t)[i] = u /\ i \in DOMAIN (s \o t)
      BY <1>1, <2>1
    <2>3. QED
      BY <2>2 DEF In
  <1>3. ASSUME In(t, u) PROVE In(s \o t, u)
    <2>1. PICK i \in 1..Len(t) : t[i] = u
      BY <1>1, <1>3 DEF In
    <2>2. (s \o t)[i + Len(s)] = u /\ i + Len(s) \in DOMAIN (s \o t)
      BY <1>1, <2>1
    <2>3. QED
      BY <2>2 DEF In
  <1>4. ASSUME In(s \o t, u) PROVE In(s, u) \/ In(t, u)
    <2>1. PICK i \in 1..(Len(s) + Len(t)) : (s \o t)[i] = u
      BY <1>1, <1>4 DEF In
    <2>2. CASE i <= Len(s)
      <3>1. s[i] = u /\ i \in DOMAIN s
        BY <1>1, <2>1, <2>2
      <3>2. QED
        BY <3>1 DEF In
    <2>3. CASE i > Len(s)
      <3>1. t[i - Len(s)] = u /\ i - Len(s) \in DOMAIN t
        BY <1>1, <2>1, <2>3
      <3>2. QED
        BY <3>1 DEF In
    <2>4. QED
      BY <2>2, <2>3
  <1>5. QED
    BY <1>2, <1>3, <1>4

\* Every u is before every v in s \o t if it is in both and no v is in s with a u in t.
LEMMA ConcatAhead ==
  ASSUME NEW S, NEW s \in Seq(S), NEW t \in Seq(S), NEW u, NEW v
  PROVE  Ahead(s \o t, u, v) <=> Ahead(s, u, v) /\ Ahead(t, u, v) /\ ~(In(s, v) /\ In(t, u))
  <1>1. DOMAIN (s \o t) = 1..(Len(s) + Len(t)) /\ DOMAIN s = 1..Len(s) /\ DOMAIN t = 1..Len(t)
    OBVIOUS
  <1>2. ASSUME Ahead(s \o t, u, v) PROVE Ahead(s, u, v)
    <2>1. SUFFICES ASSUME NEW i \in 1..Len(s), NEW j \in 1..Len(s), s[i] = u, s[j] = v PROVE i < j
      BY <1>1 DEF Ahead
    <2>2. (s \o t)[i] = u /\ (s \o t)[j] = v /\ i \in DOMAIN (s \o t) /\ j \in DOMAIN (s \o t)
      BY <1>1, <2>1
    <2>3. QED
      BY <1>2, <2>2 DEF Ahead
  <1>3. ASSUME Ahead(s \o t, u, v) PROVE Ahead(t, u, v)
    <2>1. SUFFICES ASSUME NEW i \in 1..Len(t), NEW j \in 1..Len(t), t[i] = u, t[j] = v PROVE i < j
      BY <1>1 DEF Ahead
    <2>2. /\ (s \o t)[i + Len(s)] = u /\ (s \o t)[j + Len(s)] = v
          /\ i + Len(s) \in DOMAIN (s \o t) /\ j + Len(s) \in DOMAIN (s \o t)
      BY <1>1, <2>1
    <2>3. i + Len(s) < j + Len(s)
      BY <1>3, <2>2 DEF Ahead
    <2>4. QED
      BY <2>3
  <1>4. ASSUME Ahead(s \o t, u, v), In(s, v), In(t, u) PROVE FALSE
    <2>1. PICK i \in 1..Len(t) : t[i] = u
      BY <1>1, <1>4 DEF In
    <2>2. PICK j \in 1..Len(s) : s[j] = v
      BY <1>1, <1>4 DEF In
    <2>3. /\ (s \o t)[i + Len(s)] = u /\ (s \o t)[j] = v
          /\ i + Len(s) \in DOMAIN (s \o t) /\ j \in DOMAIN (s \o t)
      BY <1>1, <2>1, <2>2
    <2>4. i + Len(s) < j
      BY <1>4, <2>3 DEF Ahead
    <2>5. QED
      BY <2>1, <2>2, <2>4
  <1>5. ASSUME Ahead(s, u, v), Ahead(t, u, v), ~(In(s, v) /\ In(t, u)) PROVE Ahead(s \o t, u, v)
    <2>1. SUFFICES ASSUME NEW i \in 1..(Len(s) + Len(t)), NEW j \in 1..(Len(s) + Len(t)),
                          (s \o t)[i] = u, (s \o t)[j] = v
                   PROVE  i < j
      BY <1>1 DEF Ahead
    <2>2. CASE i <= Len(s) /\ j <= Len(s)
      <3>1. s[i] = u /\ s[j] = v /\ i \in DOMAIN s /\ j \in DOMAIN s
        BY <1>1, <2>1, <2>2
      <3>2. QED
        BY <1>5, <3>1 DEF Ahead
    <2>3. CASE i > Len(s) /\ j > Len(s)
      <3>1. /\ t[i - Len(s)] = u /\ t[j - Len(s)] = v
            /\ i - Len(s) \in DOMAIN t /\ j - Len(s) \in DOMAIN t
        BY <1>1, <2>1, <2>3
      <3>2. i - Len(s) < j - Len(s)
        BY <1>5, <3>1 DEF Ahead
      <3>3. QED
        BY <3>2
    <2>4. CASE i > Len(s) /\ j <= Len(s)
      <3>1. t[i - Len(s)] = u /\ i - Len(s) \in DOMAIN t /\ s[j] = v /\ j \in DOMAIN s
        BY <1>1, <2>1, <2>4
      <3>2. QED
        BY <1>5, <3>1 DEF In
    <2>5. QED
      BY <2>2, <2>3, <2>4
  <1>6. QED
    BY <1>2, <1>3, <1>4, <1>5

\* What is there at most once in s \o t is so in both, and not in both at once.
LEMMA ConcatOnce ==
  ASSUME NEW S, NEW s \in Seq(S), NEW t \in Seq(S), NEW u
  PROVE  Once(s \o t, u) <=> Once(s, u) /\ Once(t, u) /\ ~(In(s, u) /\ In(t, u))
  <1>1. DOMAIN (s \o t) = 1..(Len(s) + Len(t)) /\ DOMAIN s = 1..Len(s) /\ DOMAIN t = 1..Len(t)
    OBVIOUS
  <1>2. ASSUME Once(s \o t, u) PROVE Once(s, u)
    <2>1. SUFFICES ASSUME NEW i \in 1..Len(s), NEW j \in 1..Len(s), s[i] = u, s[j] = u PROVE i = j
      BY <1>1 DEF Once
    <2>2. (s \o t)[i] = u /\ (s \o t)[j] = u /\ i \in DOMAIN (s \o t) /\ j \in DOMAIN (s \o t)
      BY <1>1, <2>1
    <2>3. QED
      BY <1>2, <2>2 DEF Once
  <1>3. ASSUME Once(s \o t, u) PROVE Once(t, u)
    <2>1. SUFFICES ASSUME NEW i \in 1..Len(t), NEW j \in 1..Len(t), t[i] = u, t[j] = u PROVE i = j
      BY <1>1 DEF Once
    <2>2. /\ (s \o t)[i + Len(s)] = u /\ (s \o t)[j + Len(s)] = u
          /\ i + Len(s) \in DOMAIN (s \o t) /\ j + Len(s) \in DOMAIN (s \o t)
      BY <1>1, <2>1
    <2>3. i + Len(s) = j + Len(s)
      BY <1>3, <2>2 DEF Once
    <2>4. QED
      BY <2>3
  <1>4. ASSUME Once(s \o t, u), In(s, u), In(t, u) PROVE FALSE
    <2>1. PICK i \in 1..Len(t) : t[i] = u
      BY <1>1, <1>4 DEF In
    <2>2. PICK j \in 1..Len(s) : s[j] = u
      BY <1>1, <1>4 DEF In
    <2>3. /\ (s \o t)[i + Len(s)] = u /\ (s \o t)[j] = u
          /\ i + Len(s) \in DOMAIN (s \o t) /\ j \in DOMAIN (s \o t)
      BY <1>1, <2>1, <2>2
    <2>4. i + Len(s) = j
      BY <1>4, <2>3 DEF Once
    <2>5. QED
      BY <2>1, <2>2, <2>4
  <1>5. ASSUME Once(s, u), Once(t, u), ~(In(s, u) /\ In(t, u)) PROVE Once(s \o t, u)
    <2>1. SUFFICES ASSUME NEW i \in 1..(Len(s) + Len(t)), NEW j \in 1..(Len(s) + Len(t)),
                          (s \o t)[i] = u, (s \o t)[j] = u
                   PROVE  i = j
      BY <1>1 DEF Once
    <2>2. CASE i <= Len(s) /\ j <= Len(s)
      <3>1. s[i] = u /\ s[j] = u /\ i \in DOMAIN s /\ j \in DOMAIN s
        BY <1>1, <2>1, <2>2
      <3>2. QED
        BY <1>5, <3>1 DEF Once
    <2>3. CASE i > Len(s) /\ j > Len(s)
      <3>1. /\ t[i - Len(s)] = u /\ t[j - Len(s)] = u
            /\ i - Len(s) \in DOMAIN t /\ j - Len(s) \in DOMAIN t
        BY <1>1, <2>1, <2>3
      <3>2. i - Len(s) = j - Len(s)
        BY <1>5, <3>1 DEF Once
      <3>3. QED
        BY <3>2
    <2>4. CASE i > Len(s) /\ j <= Len(s)
      <3>1. t[i - Len(s)] = u /\ i - Len(s) \in DOMAIN t /\ s[j] = u /\ j \in DOMAIN s
        BY <1>1, <2>1, <2>4
      <3>2. QED
        BY <1>5, <3>1 DEF In
    <2>5. CASE i <= Len(s) /\ j > Len(s)
      <3>1. t[j - Len(s)] = u /\ j - Len(s) \in DOMAIN t /\ s[i] = u /\ i \in DOMAIN s
        BY <1>1, <2>1, <2>5
      <3>2. QED
        BY <1>5, <3>1 DEF In
    <2>6. QED
      BY <2>2, <2>3, <2>4, <2>5
  <1>6. QED
    BY <1>2, <1>3, <1>4, <1>5

\* Nothing is in the empty sequence.
LEMMA EmptyOccurs ==
  ASSUME NEW u, NEW v
  PROVE  ~In(<<>>, u) /\ Once(<<>>, u) /\ Ahead(<<>>, u, v)
  BY DEF In, Once, Ahead

\* What a sequence of one element holds.
LEMMA OneOccurs ==
  ASSUME NEW w, NEW u, NEW v, u # v
  PROVE  (In(<<w>>, u) <=> u = w) /\ Once(<<w>>, u) /\ Ahead(<<w>>, u, v)
  <1>1. DOMAIN <<w>> = {1} /\ <<w>>[1] = w
    OBVIOUS
  <1>2. QED
    BY <1>1 DEF In, Once, Ahead

\* Names of lines and units differ.
LEMMA NamesDiffer ==
  ASSUME NEW j \in Calls, NEW k \in Calls
  PROVE  /\ Cmd(j) # Probe(k) /\ Output(j) # End(k)
         /\ Cmd(j) = Cmd(k) <=> j = k
         /\ Probe(j) = Probe(k) <=> j = k
         /\ Output(j) = Output(k) <=> j = k
         /\ End(j) = End(k) <=> j = k
  BY DEF Cmd, Probe, Output, End

\* A marker holds no output and the end of one marker, its own.
LEMMA MarkerOccurs ==
  ASSUME NEW c, NEW j \in Calls, NEW k \in Calls
  PROVE  /\ ~In(Marker(c, j), Output(k)) /\ (In(Marker(c, j), End(k)) <=> j = k)
         /\ Once(Marker(c, j), Output(k)) /\ Once(Marker(c, j), End(k))
         /\ Ahead(Marker(c, j), Output(k), End(k))
  <1>1. /\ DOMAIN Marker(c, j) = {1, 2, 3, 4}
        /\ Marker(c, j)[1] = <<"p", 0>> /\ Marker(c, j)[2] = <<"q", 0>>
        /\ Marker(c, j)[3] = <<"d", c>> /\ Marker(c, j)[4] = <<"b", j>>
    BY DEF Marker
  <1>2. \A i \in {1, 2, 3, 4} : Marker(c, j)[i] # Output(k) /\ (Marker(c, j)[i] = End(k) <=> i = 4 /\ j = k)
    <2>1. /\ <<"p", 0>> # <<"x", k>> /\ <<"q", 0>> # <<"x", k>> /\ <<"d", c>> # <<"x", k>> /\ <<"b", j>> # <<"x", k>>
          /\ <<"p", 0>> # <<"b", k>> /\ <<"q", 0>> # <<"b", k>> /\ <<"d", c>> # <<"b", k>>
          /\ <<"b", j>> = <<"b", k>> <=> j = k
      OBVIOUS
    <2>2. QED
      BY <1>1, <2>1 DEF Output, End
  <1>3. QED
    BY <1>1, <1>2 DEF In, Once, Ahead

\* A sequence is its head and the rest.
LEMMA HeadRest ==
  ASSUME NEW S, NEW s \in Seq(S), s # <<>>
  PROVE  /\ Head(s) \in S /\ Tail(s) \in Seq(S) /\ <<Head(s)>> \in Seq(S)
         /\ s = <<Head(s)>> \o Tail(s) /\ Head(s) = s[1] /\ Len(s) > 0
  <1>1. Head(s) \in S /\ Tail(s) \in Seq(S) /\ Len(Tail(s)) = Len(s) - 1 /\ Len(s) > 0
    BY HeadTailProperties
  <1>2. <<Head(s)>> \in Seq(S) /\ Len(<<Head(s)>>) = 1 /\ <<Head(s)>>[1] = Head(s)
    BY <1>1
  <1>3. s = <<Head(s)>> \o Tail(s)
    <2>1. <<Head(s)>> \o Tail(s) \in Seq(S) /\ Len(<<Head(s)>> \o Tail(s)) = Len(s)
      BY <1>1, <1>2
    <2>2. ASSUME NEW i \in 1..Len(s) PROVE (<<Head(s)>> \o Tail(s))[i] = s[i]
      <3>1. CASE i = 1
        BY <1>1, <1>2, <3>1
      <3>2. CASE i > 1
        BY <1>1, <1>2, <3>2
      <3>3. QED
        BY <3>1, <3>2
    <2>3. QED
      BY <2>1, <2>2, SeqEqual
  <1>4. QED
    BY <1>1, <1>2, <1>3

\* s \o t starts as s does, or as t when s is empty.
LEMMA ConcatStarts ==
  ASSUME NEW S, NEW s \in Seq(S), NEW t \in Seq(S), NEW u
  PROVE  Starts(s \o t, u) <=> Starts(s, u) \/ (s = <<>> /\ Starts(t, u))
  <1>1. CASE s = <<>>
    <2>1. s \o t = t
      BY <1>1, ConcatEmptySeq
    <2>2. QED
      BY <1>1, <2>1 DEF Starts
  <1>2. CASE s # <<>>
    <2>1. Len(s) > 0
      BY <1>2, HeadRest
    <2>2. s \o t # <<>> /\ (s \o t)[1] = s[1]
      BY <2>1
    <2>3. QED
      BY <1>2, <2>2 DEF Starts
  <1>3. QED
    BY <1>1, <1>2

\* A probe stays behind its command when lines are read or added.
LEMMA ConcatFollows ==
  ASSUME NEW S, NEW s \in Seq(S), NEW t \in Seq(S), NEW k
  PROVE  /\ Follows(s \o t, k) => Follows(s, k) /\ Follows(t, k)
         /\ s # <<>> /\ Follows(s \o t, k) /\ Starts(t, Probe(k)) => s[Len(s)] = Cmd(k)
         /\ Follows(s, k) /\ Follows(t, k) /\ ~Starts(t, Probe(k)) => Follows(s \o t, k)
  <1>1. DOMAIN (s \o t) = 1..(Len(s) + Len(t)) /\ DOMAIN s = 1..Len(s) /\ DOMAIN t = 1..Len(t)
    OBVIOUS
  <1>2. ASSUME Follows(s \o t, k) PROVE Follows(s, k)
    <2>1. SUFFICES ASSUME NEW i \in 1..Len(s), i > 1, s[i] = Probe(k) PROVE s[i - 1] = Cmd(k)
      BY <1>1 DEF Follows
    <2>2. (s \o t)[i] = s[i] /\ (s \o t)[i - 1] = s[i - 1] /\ i \in DOMAIN (s \o t)
      BY <1>1, <2>1
    <2>3. QED
      BY <1>2, <2>1, <2>2 DEF Follows
  <1>3. ASSUME Follows(s \o t, k) PROVE Follows(t, k)
    <2>1. SUFFICES ASSUME NEW i \in 1..Len(t), i > 1, t[i] = Probe(k) PROVE t[i - 1] = Cmd(k)
      BY <1>1 DEF Follows
    <2>2. PICK n \in 1..(Len(s) + Len(t)) : n = i + Len(s) /\ n > 1 /\ n - 1 = i - 1 + Len(s)
      BY <1>1, <2>1
    <2>3. (s \o t)[n] = t[i] /\ (s \o t)[n - 1] = t[i - 1]
      BY <1>1, <2>1, <2>2
    <2>4. (s \o t)[n - 1] = Cmd(k)
      BY <1>1, <1>3, <2>1, <2>2, <2>3 DEF Follows
    <2>5. QED
      BY <2>3, <2>4
  <1>4. ASSUME s # <<>>, Follows(s \o t, k), Starts(t, Probe(k)) PROVE s[Len(s)] = Cmd(k)
    <2>1. Len(s) > 0
      BY <1>4, HeadRest
    <2>2. t # <<>> /\ t[1] = Probe(k) /\ Len(t) > 0
      BY <1>4, HeadRest DEF Starts
    <2>3. /\ (s \o t)[Len(s) + 1] = Probe(k) /\ Len(s) + 1 \in DOMAIN (s \o t) /\ Len(s) + 1 > 1
          /\ (s \o t)[Len(s) + 1 - 1] = s[Len(s)]
      BY <1>1, <2>1, <2>2
    <2>4. QED
      BY <1>4, <2>3 DEF Follows
  <1>5. ASSUME Follows(s, k), Follows(t, k), ~Starts(t, Probe(k)) PROVE Follows(s \o t, k)
    <2>1. SUFFICES ASSUME NEW i \in 1..(Len(s) + Len(t)), i > 1, (s \o t)[i] = Probe(k)
                   PROVE  (s \o t)[i - 1] = Cmd(k)
      BY <1>1 DEF Follows
    <2>2. CASE i <= Len(s)
      <3>1. s[i] = Probe(k) /\ i \in DOMAIN s /\ (s \o t)[i - 1] = s[i - 1]
        BY <1>1, <2>1, <2>2
      <3>2. QED
        BY <1>5, <2>1, <3>1 DEF Follows
    <2>3. CASE i = Len(s) + 1
      <3>1. t[1] = Probe(k) /\ Len(t) > 0
        BY <1>1, <2>1, <2>3
      <3>2. t # <<>>
        BY <3>1
      <3>3. QED
        BY <1>5, <3>1, <3>2 DEF Starts
    <2>4. CASE i > Len(s) + 1
      <3>1. /\ t[i - Len(s)] = Probe(k) /\ i - Len(s) \in DOMAIN t /\ i - Len(s) > 1
            /\ (s \o t)[i - 1] = t[i - Len(s) - 1]
        BY <1>1, <2>1, <2>4
      <3>2. QED
        BY <1>5, <3>1 DEF Follows
    <2>5. i <= Len(s) \/ i = Len(s) + 1 \/ i > Len(s) + 1
      OBVIOUS
    <2>6. QED
      BY <2>2, <2>3, <2>4, <2>5, Zenon
  <1>6. QED
    BY <1>2, <1>3, <1>4, <1>5

\* What stands where when two sequences are joined.
LEMMA ConcatAt ==
  ASSUME NEW S, NEW s \in Seq(S), NEW t \in Seq(S)
  PROVE  /\ s \o t \in Seq(S) /\ DOMAIN (s \o t) = 1..(Len(s) + Len(t))
         /\ Len(s \o t) = Len(s) + Len(t) /\ Len(s) \in Nat /\ Len(t) \in Nat
         /\ DOMAIN s = 1..Len(s) /\ DOMAIN t = 1..Len(t)
         /\ \A i \in 1..Len(s) : (s \o t)[i] = s[i]
         /\ \A i \in Int : i > Len(s) /\ i <= Len(s) + Len(t) => (s \o t)[i] = t[i - Len(s)]
  OBVIOUS

\* Concatenation is associative.
LEMMA Regroup ==
  ASSUME NEW s \in Seq(Units), NEW t \in Seq(Units), NEW u \in Seq(Units)
  PROVE  s \o (t \o u) = (s \o t) \o u /\ s \o t \in Seq(Units)
  BY ConcatAssociative, ConcatProperties

\* Markers of a prefix.
LEMMA CodedPrefix ==
  ASSUME NEW q \in Seq(Units), NEW r \in Seq(Units), NEW n, NEW c, NEW h,
         Coded(q \o r, n, c, h)
  PROVE  Coded(q, n, c, h)
  <1>1. SUFFICES ASSUME NEW i \in 1..Len(q), NEW k \in Calls, i > 1, i > n,
                        q[i] = End(k), q[i - 1][1] = "d"
                 PROVE  Says(q[i - 1][2], k, c, h)
    BY DEF Coded
  <1>2. i \in DOMAIN (q \o r) /\ (q \o r)[i] = q[i] /\ (q \o r)[i - 1] = q[i - 1]
    BY <1>1, ConcatAt
  <1>3. QED
    BY <1>1, <1>2 DEF Coded

\* What a command prints behind its output is its own code.
LEMMA CodedMore ==
  ASSUME NEW q \in Seq(Units), NEW n, NEW c, NEW h, NEW j \in Calls, Coded(q, n, c, h),
         NEW v, NEW p \in Seq(Units), p = <<Output(j)>> \/ (p = Marker(v, j) /\ Says(v, j, c, h))
  PROVE  Coded(q \o p, n, c, h)
  <1>0. DOMAIN (q \o p) = 1..(Len(q) + Len(p))
    BY ConcatAt
  <1>1. SUFFICES ASSUME NEW i \in 1..(Len(q) + Len(p)), NEW k \in Calls, i > 1, i > n,
                        (q \o p)[i] = End(k), (q \o p)[i - 1][1] = "d"
                 PROVE  Says((q \o p)[i - 1][2], k, c, h)
    BY <1>0, Zenon DEF Coded
  <1>2. i \in Int /\ Len(q) \in Int
    OBVIOUS
  <1>3. CASE i <= Len(q)
    <2>1. i \in DOMAIN q /\ (q \o p)[i] = q[i] /\ (q \o p)[i - 1] = q[i - 1]
      BY <1>1, <1>3, ConcatAt
    <2>2. QED
      BY <1>1, <2>1 DEF Coded
  <1>4. CASE i > Len(q)
    <2>1. PICK m \in 1..Len(p) : i = m + Len(q) /\ p[m] = End(k)
      <3>1. i - Len(q) \in 1..Len(p)
        BY <1>1, <1>4
      <3>2. p[i - Len(q)] = End(k)
        BY <1>1, <1>2, <1>4, ConcatAt
      <3>3. QED
        BY <1>2, <3>1, <3>2
    <2>2. CASE p = <<Output(j)>>
      <3>1. Output(j) = End(k)
        BY <2>1, <2>2
      <3>2. QED
        BY <3>1, NamesDiffer
    <2>3. CASE p = Marker(v, j) /\ Says(v, j, c, h)
      <3>1. /\ Len(p) = 4 /\ p[1] = <<"p", 0>> /\ p[2] = <<"q", 0>>
            /\ p[3] = <<"d", v>> /\ p[4] = End(j)
        BY <2>3 DEF Marker, End
      <3>2. /\ <<"p", 0>> # <<"b", k>> /\ <<"q", 0>> # <<"b", k>> /\ <<"d", v>> # <<"b", k>>
        OBVIOUS
      <3>3. m \in {1, 2, 3, 4} /\ p[1] # End(k) /\ p[2] # End(k) /\ p[3] # End(k)
        BY <2>1, <3>1, <3>2 DEF End
      <3>4. m = 4
        BY <2>1, <3>3
      <3>5. j = k
        BY <2>1, <3>1, <3>4, NamesDiffer
      <3>6. (q \o p)[i - 1] = p[3]
        <4>1. i - 1 \in Int /\ i - 1 > Len(q) /\ i - 1 <= Len(q) + Len(p) /\ i - 1 - Len(q) = 3
          BY <1>2, <2>1, <3>1, <3>4
        <4>2. (q \o p)[i - 1] = p[i - 1 - Len(q)]
          BY <4>1, ConcatAt
        <4>3. QED
          BY <4>1, <4>2
      <3>7. p[3][2] = v
        BY <3>1
      <3>8. QED
        BY <2>3, <3>5, <3>6, <3>7
    <2>4. QED
      BY <2>2, <2>3
  <1>5. i <= Len(q) \/ i > Len(q)
    BY <1>2
  <1>6. QED
    BY <1>3, <1>4, <1>5, Zenon

\* What was scanned may be cut down to its end.
LEMMA CodedShift ==
  ASSUME NEW q \in Seq(Units), NEW s \in Seq(Units), NEW n \in Nat, NEW c, NEW h, n <= Len(q),
         NEW l \in Seq(Units), Len(l) <= Len(q), Ends(l, q)
  PROVE  Coded(q \o s, n, c, h) => Coded(l \o s, Len(l), c, h)
  <1>0. \A i \in DOMAIN (l \o s) : i \in Int /\ i <= Len(l) + Len(s)
    BY ConcatAt
  <1>1. SUFFICES ASSUME Coded(q \o s, n, c, h),
                        NEW i \in Int, i > 1, i > Len(l), i <= Len(l) + Len(s), NEW k \in Calls,
                        (l \o s)[i] = End(k), (l \o s)[i - 1][1] = "d"
                 PROVE  Says((l \o s)[i - 1][2], k, c, h)
    BY <1>0, Zenon DEF Coded
  <1>2. Len(q) \in Nat /\ Len(l) \in Nat /\ Len(s) \in Nat
    OBVIOUS
  <1>d. PICK d \in Nat : Len(q) = Len(l) + d
    <2>1. Len(q) - Len(l) \in Nat /\ Len(q) = Len(l) + (Len(q) - Len(l))
      BY <1>2
    <2>2. QED
      BY <2>1, Zenon
  <1>b. i > 1 /\ i > Len(l) /\ i <= Len(l) + Len(s)
    BY <1>1
  <1>3. PICK m \in Int : m = i + d /\ m > 1 /\ m > Len(q) /\ m > n /\ m <= Len(q) + Len(s)
    BY <1>2, <1>d, <1>b
  <1>4. (q \o s)[m] = s[m - Len(q)] /\ (l \o s)[i] = s[i - Len(l)] /\ m - Len(q) = i - Len(l)
    <2>1. (q \o s)[m] = s[m - Len(q)]
      BY <1>2, <1>d, <1>3, ConcatAt
    <2>2. (l \o s)[i] = s[i - Len(l)]
      BY <1>1, <1>2, ConcatAt
    <2>3. QED
      BY <1>2, <1>d, <1>3, <2>1, <2>2
  <1>5. (q \o s)[m - 1] = (l \o s)[i - 1]
    <2>1. CASE i - 1 > Len(l)
      <3>1. (q \o s)[m - 1] = s[m - 1 - Len(q)]
        BY <1>2, <1>d, <1>3, <2>1, ConcatAt
      <3>2. (l \o s)[i - 1] = s[i - 1 - Len(l)]
        BY <1>1, <1>2, <2>1, ConcatAt
      <3>3. m - 1 - Len(q) = i - 1 - Len(l)
        BY <1>2, <1>d, <1>3
      <3>4. QED
        BY <3>1, <3>2, <3>3
    <2>2. CASE i - 1 = Len(l)
      <3>1. Len(l) \in 1..Len(l) /\ Len(l) + d = Len(q) /\ m - 1 = Len(q) /\ Len(q) \in 1..Len(q)
        BY <1>2, <1>d, <1>3, <1>b, <2>2
      <3>2. (l \o s)[i - 1] = l[Len(l)] /\ (q \o s)[m - 1] = q[Len(q)]
        BY <2>2, <3>1, ConcatAt
      <3>3. QED
        <4>1. l[Len(l)] = q[Len(l) + (Len(q) - Len(l))]
          BY <3>1, Zenon DEF Ends
        <4>2. Len(l) + (Len(q) - Len(l)) = Len(q)
          BY <1>2
        <4>3. QED
          BY <3>2, <4>1, <4>2, Zenon
    <2>3. i - 1 > Len(l) \/ i - 1 = Len(l)
      BY <1>2, <1>d, <1>b
    <2>4. QED
      BY <2>1, <2>2, <2>3, Zenon
  <1>6. m \in DOMAIN (q \o s)
    BY <1>2, <1>d, <1>3, ConcatAt
  <1>7. (q \o s)[m] = End(k) /\ (q \o s)[m - 1][1] = "d"
    BY <1>1, <1>4, <1>5
  <1>8. Says((q \o s)[m - 1][2], k, c, h)
    BY <1>1, <1>3, <1>6, <1>7, Zenon DEF Coded
  <1>9. QED
    BY <1>5, <1>8, Zenon

\* Markers say the same of any codes that agree where they are still to be scanned,
\* and of more signals.
LEMMA CodedSame ==
  ASSUME NEW t \in Seq(Units), NEW s \in Seq(Units), NEW c, NEW d, NEW h, NEW g,
         Coded(t \o s, Len(t), c, h), h \subseteq g,
         \A k \in Calls : In(s, End(k)) => d[k] = c[k]
  PROVE  Coded(t \o s, Len(t), d, g)
  <1>0. DOMAIN (t \o s) = 1..(Len(t) + Len(s))
    BY ConcatAt
  <1>1. SUFFICES ASSUME NEW i \in 1..(Len(t) + Len(s)), NEW k \in Calls, i > 1, i > Len(t),
                        (t \o s)[i] = End(k), (t \o s)[i - 1][1] = "d"
                 PROVE  Says((t \o s)[i - 1][2], k, d, g)
    BY <1>0, Zenon DEF Coded
  <1>2. i - Len(t) \in DOMAIN s /\ s[i - Len(t)] = End(k)
    BY <1>1, ConcatAt
  <1>3. d[k] = c[k]
    BY <1>2 DEF In
  <1>4. i \in DOMAIN (t \o s)
    BY ConcatAt
  <1>5. Says((t \o s)[i - 1][2], k, c, h)
    BY <1>1, <1>4, Zenon DEF Coded
  <1>6. QED
    BY <1>1, <1>3, <1>5, Zenon DEF Says

-----------------------------------------------------------------------------
(* What the steps do to what is still to be read and to be published.      *)

\* Contains of the community modules, for the units of the terminal.
LEMMA ContainsIn ==
  ASSUME NEW s \in Seq(Units), NEW u
  PROVE  Contains(s, u) <=> In(s, u)
  BY DEF Contains, In

\* The streams and what they are put together from.
LEMMA FlowTypes ==
  ASSUME TypeOK
  PROVE  /\ Input \in Seq(Lines) /\ Unseen \in Seq(Units) /\ burst \o outq \in Seq(Units)
         /\ Unseen = (burst \o outq) \o pend /\ tail \o Unseen \in Seq(Units)
         /\ inq \in Seq(Lines) /\ payload \in Seq(Lines) /\ tail \in Seq(Units) /\ burst \in Seq(Units)
         /\ outq \in Seq(Units) /\ pend \in Seq(Units) /\ outq \o pend \in Seq(Units)
  <1>1. /\ inq \in Seq(Lines) /\ payload \in Seq(Lines) /\ tail \in Seq(Units)
        /\ burst \in Seq(Units) /\ outq \in Seq(Units) /\ pend \in Seq(Units)
    BY DEF TypeOK, StreamTypes
  <1>2. inq \o payload \in Seq(Lines) /\ burst \o outq \in Seq(Units) /\ outq \o pend \in Seq(Units)
    BY <1>1
  <1>3. burst \o (outq \o pend) \in Seq(Units)
    BY <1>1, <1>2
  <1>4. burst \o (outq \o pend) = (burst \o outq) \o pend
    <2>1. burst \in Seq(Units) /\ outq \in Seq(Units) /\ pend \in Seq(Units)
      BY <1>1
    <2>2. QED
      BY <2>1, Regroup, Zenon
  <1>5. tail \o (burst \o (outq \o pend)) \in Seq(Units)
    BY <1>1, <1>3
  <1>6. QED
    BY <1>1, <1>2, <1>3, <1>4, <1>5 DEF Input, Unseen

\* The shell reads: its line leaves the input, what it prints is behind the rest.
LEMMA ReadsFlow ==
  ASSUME TypeOK, ShellReads
  PROVE  /\ Head(inq) \in Lines /\ Starts(Input, Head(inq))
         /\ \A u : In(Input, u) <=> u = Head(inq) \/ In(Input', u)
         /\ \A u : Once(Input, u) => Once(Input', u) /\ ~(u = Head(inq) /\ In(Input', u))
         /\ \A k \in Calls : Follows(Input, k) =>
               Follows(Input', k) /\ (Starts(Input', Probe(k)) => Head(inq) = Cmd(k))
         /\ pend = <<>> /\ Unseen = burst \o outq /\ Unseen' = Unseen \o pend'
  <1>1. inq \in Seq(Lines) /\ payload \in Seq(Lines) /\ inq # <<>>
    BY FlowTypes DEF ShellReads
  <1>2. /\ Head(inq) \in Lines /\ Tail(inq) \in Seq(Lines) /\ <<Head(inq)>> \in Seq(Lines)
        /\ inq = <<Head(inq)>> \o Tail(inq)
    BY <1>1, HeadRest
  <1>3. Input' = Tail(inq) \o payload
    BY DEF Input, ShellReads
  <1>4. Input' \in Seq(Lines)
    BY <1>1, <1>2, <1>3
  <1>5. Input = <<Head(inq)>> \o Input'
    <2>1. (<<Head(inq)>> \o Tail(inq)) \o payload = <<Head(inq)>> \o (Tail(inq) \o payload)
      BY <1>1, <1>2, ConcatAssociative
    <2>2. QED
      BY <1>2, <1>3, <2>1 DEF Input
  <1>6. \A u : (In(<<Head(inq)>>, u) <=> u = Head(inq)) /\ Once(<<Head(inq)>>, u)
    BY DEF In, Once
  <1>7. Starts(<<Head(inq)>>, Head(inq)) /\ <<Head(inq)>> # <<>> /\ <<Head(inq)>>[Len(<<Head(inq)>>)] = Head(inq)
    BY DEF Starts
  <1>8. Starts(Input, Head(inq))
    BY <1>2, <1>4, <1>5, <1>7, ConcatStarts
  <1>9. \A u : In(Input, u) <=> u = Head(inq) \/ In(Input', u)
    BY <1>2, <1>4, <1>5, <1>6, ConcatIn
  <1>10. \A u : Once(Input, u) => Once(Input', u) /\ ~(u = Head(inq) /\ In(Input', u))
    BY <1>2, <1>4, <1>5, <1>6, ConcatOnce
  <1>11. \A k \in Calls : Follows(Input, k) =>
            Follows(Input', k) /\ (Starts(Input', Probe(k)) => Head(inq) = Cmd(k))
    BY <1>2, <1>4, <1>5, <1>7, ConcatFollows
  <1>12. pend = <<>> /\ Unseen = burst \o outq
    <2>1. pend = <<>> /\ burst \o outq \in Seq(Units) /\ Unseen = (burst \o outq) \o pend
      BY FlowTypes DEF ShellReads
    <2>2. (burst \o outq) \o <<>> = burst \o outq
      BY <2>1, ConcatEmptySeq
    <2>3. QED
      BY <2>1, <2>2
  <1>13. Unseen' = Unseen \o pend'
    <2>1. pend' \in Seq(Units)
      BY StreamTypesStep DEF Next, Shell, StreamTypes
    <2>2. burst' = burst /\ outq' = outq /\ burst \in Seq(Units) /\ outq \in Seq(Units)
      BY FlowTypes DEF ShellReads
    <2>3. burst \o (outq \o pend') = (burst \o outq) \o pend'
      BY <2>1, <2>2, Regroup, Zenon
    <2>4. QED
      BY <1>12, <2>2, <2>3 DEF Unseen
  <1>14. QED
    BY <1>2, <1>8, <1>9, <1>10, <1>11, <1>12, <1>13

\* What is printed or drained is not yet published.
LEMMA PrintsFlow ==
  ASSUME TypeOK, ShellPrints \/ ReaderDrains
  PROVE  Unseen' = Unseen /\ \A u : In(pend', u) => In(pend, u)
  <1>1. CASE ShellPrints
    <2>1. /\ outq \in Seq(Units) /\ pend \in Seq(Units) /\ pend # <<>>
          /\ outq' = Append(outq, Head(pend)) /\ pend' = Tail(pend) /\ burst' = burst
      BY <1>1, FlowTypes DEF ShellPrints
    <2>2. outq' \o pend' = outq \o pend
      BY <2>1, Moved
    <2>3. <<Head(pend)>> \in Seq(Units) /\ Tail(pend) \in Seq(Units) /\ pend = <<Head(pend)>> \o Tail(pend)
      BY <2>1, HeadRest
    <2>4. ASSUME NEW u, In(Tail(pend), u) PROVE In(pend, u)
      <3>1. In(<<Head(pend)>> \o Tail(pend), u)
        BY <2>3, <2>4, ConcatIn, Zenon
      <3>2. QED
        BY <2>3, <3>1, Zenon
    <2>5. QED
      BY <2>1, <2>2, <2>4 DEF Unseen
  <1>2. CASE ReaderDrains
    <2>1. /\ burst \in Seq(Units) /\ outq \in Seq(Units) /\ pend \in Seq(Units)
          /\ burst' = burst \o outq /\ outq' = <<>> /\ pend' = pend
      BY <1>2, FlowTypes DEF ReaderDrains, ReaderReady
    <2>2. <<>> \o pend = pend /\ burst \o (outq \o pend) = (burst \o outq) \o pend
      BY <2>1, ConcatEmptySeq, ConcatAssociative
    <2>3. QED
      BY <2>1, <2>2 DEF Unseen
  <1>3. QED
    BY <1>1, <1>2

\* What a shell that exits or is interrupted had still to print is lost.
LEMMA DropsFlow ==
  ASSUME TypeOK, ShellExits \/ InterruptCommand \/ (InterruptShell /\ pend' = <<>>)
  PROVE  Unseen' = burst \o outq /\ Unseen = Unseen' \o pend /\ Unseen' \in Seq(Units) /\ pend' = <<>>
  <1>1. /\ burst' = burst /\ outq' = outq /\ pend' = <<>>
    BY DEF ShellExits, InterruptCommand, InterruptShell
  <1>2. burst \o outq \in Seq(Units) /\ Unseen = (burst \o outq) \o pend /\ outq \in Seq(Units)
    BY FlowTypes
  <1>3. outq \o <<>> = outq
    BY <1>2, ConcatEmptySeq
  <1>4. Unseen' = burst \o outq
    BY <1>1, <1>3 DEF Unseen
  <1>5. QED
    BY <1>1, <1>2, <1>4

\* A signal to a shell that runs no command may cut its marker short.
LEMMA ShakeFlow ==
  ASSUME TypeOK, InterruptShell
  PROVE  /\ UNCHANGED <<pc, kind, inq, payload, alive, run, code, tail, probe, seqOf, unread,
                        reply, met, crowd>>
         /\ run = 0 /\ last' \in {last, Interrupted} /\ shaken \subseteq shaken'
         /\ \A k \in open : code[k] # NoCode => k \in shaken'
         /\ Unseen' \in Seq(Units) /\ \A u : In(Unseen', u) => In(Unseen, u)
         /\ \A k \in open : k \notin open' => pend' = <<>> /\ In(pend, End(k))
         /\ open' \subseteq open
         /\ \/ pend' = pend /\ Unseen' = Unseen
            \/ pend' = <<>> /\ Unseen = Unseen' \o pend
  <1>1. /\ UNCHANGED <<pc, kind, inq, payload, alive, run, code, tail, probe, seqOf, unread,
                       reply, met, crowd, burst, outq>>
        /\ run = 0 /\ last' \in {last, Interrupted} /\ pend' \in {pend, <<>>}
        /\ shaken' = shaken \cup {k \in open : code[k] # NoCode}
        /\ open' = IF pend' = pend THEN open ELSE open \ {k \in Calls : Contains(pend, <<"b", k>>)}
    BY DEF InterruptShell
  <1>2. pend \in Seq(Units) /\ Unseen \in Seq(Units)
    BY FlowTypes
  <1>3. \/ pend' = pend /\ Unseen' = Unseen
        \/ pend' = <<>> /\ Unseen = Unseen' \o pend /\ Unseen' \in Seq(Units)
    BY <1>1, DropsFlow, Zenon DEF Unseen
  <1>c. Unseen' \in Seq(Units)
    BY <1>2, <1>3
  <1>d. ASSUME NEW u, In(Unseen', u) PROVE In(Unseen, u)
    <2>1. CASE Unseen' = Unseen
      BY <1>d, <2>1
    <2>2. CASE Unseen = Unseen' \o pend
      BY <1>d, <1>c, <1>2, <2>2, ConcatIn
    <2>3. QED
      BY <1>3, <2>1, <2>2
  <1>4. Unseen' \in Seq(Units) /\ \A u : In(Unseen', u) => In(Unseen, u)
    BY <1>c, <1>d
  <1>5. ASSUME NEW k \in open, k \notin open' PROVE pend' = <<>> /\ In(pend, End(k))
    <2>1. pend' = <<>> /\ Contains(pend, <<"b", k>>)
      BY <1>1, <1>5
    <2>2. QED
      BY <1>2, <2>1, ContainsIn, Zenon DEF End
  <1>6. open' \subseteq open /\ shaken \subseteq shaken' /\ \A k \in open : code[k] # NoCode => k \in shaken'
    BY <1>1
  <1>7. QED
    BY <1>1, <1>3, <1>4, <1>5, <1>6, Zenon

\* The burst is taken from the front.
LEMMA PublishFlow ==
  ASSUME TypeOK, Publish
  PROVE  Unseen = burst \o Unseen' /\ Unseen' \in Seq(Units)
  <1>1. burst' = <<>> /\ outq' = outq /\ pend' = pend
    BY DEF Publish
  <1>2. outq \o pend \in Seq(Units)
    BY FlowTypes
  <1>3. <<>> \o (outq \o pend) = outq \o pend
    BY <1>2, ConcatEmptySeq
  <1>4. QED
    BY <1>1, <1>2, <1>3 DEF Unseen

\* A line is moved within the input; a write that fails loses what is left.
LEMMA WriteFlow ==
  ASSUME TypeOK, NEW k \in Calls
  PROVE  /\ Write(k) => Input' = Input
         /\ WriteFails(k) => Input' = inq /\ Input = Input' \o payload
  <1>1. inq \in Seq(Lines) /\ payload \in Seq(Lines)
    BY FlowTypes
  <1>2. ASSUME Write(k) PROVE Input' = Input
    <2>1. payload # <<>> /\ inq' = Append(inq, Head(payload)) /\ payload' = Tail(payload)
      BY <1>2 DEF Write
    <2>2. QED
      BY <1>1, <2>1, Moved DEF Input
  <1>3. ASSUME WriteFails(k) PROVE Input' = inq /\ Input = Input' \o payload
    <2>1. inq' = inq /\ payload' = <<>>
      BY <1>3 DEF WriteFails
    <2>2. inq \o <<>> = inq
      BY <1>1, ConcatEmptySeq
    <2>3. QED
      BY <2>1, <2>2 DEF Input
  <1>4. QED
    BY <1>2, <1>3

\* A payload is the call's line, and behind it the probe if there is one.
LEMMA PayloadOccurs ==
  ASSUME NEW k \in Calls, NEW o \in {"read", "plain", "status"}, NEW j \in Calls
  PROVE  /\ In(Payload(k, o), Cmd(j)) => j = k
         /\ In(Payload(k, o), Probe(j)) => j = k /\ o = "status"
         /\ Once(Payload(k, o), Cmd(j)) /\ Once(Payload(k, o), Probe(j))
         /\ Follows(Payload(k, o), j) /\ ~Starts(Payload(k, o), Probe(j))
  <1>1. /\ Cmd(k) # Probe(j) /\ Cmd(j) # Probe(k)
        /\ Cmd(j) = Cmd(k) <=> j = k
        /\ Probe(j) = Probe(k) <=> j = k
    BY NamesDiffer
  <1>2. CASE o = "read"
    <2>1. Payload(k, o) = <<>>
      BY <1>2 DEF Payload
    <2>2. QED
      BY <2>1 DEF In, Once, Follows, Starts
  <1>3. CASE o = "plain"
    <2>1. Payload(k, o) = <<Cmd(k)>>
      BY <1>3 DEF Payload, Cmd
    <2>2. DOMAIN Payload(k, o) = {1} /\ Payload(k, o)[1] = Cmd(k)
      BY <2>1
    <2>3. Follows(Payload(k, o), j)
      BY <2>2 DEF Follows
    <2>4. QED
      BY <1>1, <2>2, <2>3, Zenon DEF In, Once, Starts
  <1>4. CASE o = "status"
    <2>1. Payload(k, o) = <<Cmd(k), Probe(k)>>
      BY <1>4 DEF Payload, Cmd, Probe
    <2>2. DOMAIN Payload(k, o) = {1, 2} /\ Payload(k, o)[1] = Cmd(k) /\ Payload(k, o)[2] = Probe(k)
      BY <2>1
    <2>3. Follows(Payload(k, o), j)
      <3>1. SUFFICES ASSUME NEW i \in {1, 2}, i > 1, Payload(k, o)[i] = Probe(j)
                     PROVE  Payload(k, o)[i - 1] = Cmd(j)
        BY <2>2, Zenon DEF Follows
      <3>2. i = 2 /\ i - 1 = 1
        BY <3>1
      <3>3. j = k
        BY <1>1, <2>2, <3>1, <3>2, Zenon
      <3>4. QED
        BY <2>2, <3>2, <3>3
    <2>4. Once(Payload(k, o), Cmd(j)) /\ Once(Payload(k, o), Probe(j))
      BY <1>1, <2>2, Zenon DEF Once
    <2>5. QED
      BY <1>1, <1>4, <2>2, <2>3, <2>4, Zenon DEF In, Starts
  <1>5. QED
    BY <1>2, <1>3, <1>4

\* A call that begins puts its payload behind the rest of the input.
LEMMA BeginFlow ==
  ASSUME TypeOK, PayloadOK, NEW k \in Calls, NEW o \in {"read", "plain", "status"}, Begin(k, o)
  PROVE  \A j \in Calls :
            /\ In(Input', Cmd(j)) => In(Input, Cmd(j)) \/ j = k
            /\ In(Input', Probe(j)) => In(Input, Probe(j)) \/ (j = k /\ o = "status" /\ k \in open')
            /\ Once(Input, Cmd(j)) /\ (j = k => ~In(Input, Cmd(j))) => Once(Input', Cmd(j))
            /\ Once(Input, Probe(j)) /\ (j = k => ~In(Input, Probe(j))) => Once(Input', Probe(j))
            /\ Follows(Input, j) => Follows(Input', j)
            /\ Starts(Input', Probe(j)) => Starts(Input, Probe(j))
  <1>1. payload = <<>> /\ inq' = inq /\ inq \in Seq(Lines)
    BY FlowTypes DEF PayloadOK, Begin
  <1>2. Input = inq
    <2>1. inq \o <<>> = inq
      BY <1>1, ConcatEmptySeq
    <2>2. QED
      BY <1>1, <2>1 DEF Input
  <1>3. CASE payload' = payload
    <2>1. Input' = Input
      BY <1>1, <1>3 DEF Input
    <2>2. QED
      BY <1>1, <1>2, <2>1, Zenon
  <1>4. CASE payload' # payload
    <2>1. payload' = Payload(k, o) /\ (o = "status" => k \in open')
      BY <1>4 DEF Begin
    <2>2. Input' = Input \o Payload(k, o) /\ Payload(k, o) \in Seq(Lines) /\ Input \in Seq(Lines)
      BY <1>1, <1>2, <2>1, PieceTypes DEF Input
    <2>3. ASSUME NEW j \in Calls
          PROVE  /\ In(Input', Cmd(j)) => In(Input, Cmd(j)) \/ j = k
                 /\ In(Input', Probe(j)) => In(Input, Probe(j)) \/ (j = k /\ o = "status" /\ k \in open')
      <3>1. /\ In(Input', Cmd(j)) => In(Input, Cmd(j)) \/ In(Payload(k, o), Cmd(j))
            /\ In(Input', Probe(j)) => In(Input, Probe(j)) \/ In(Payload(k, o), Probe(j))
        BY <2>2, ConcatIn, Zenon
      <3>2. QED
        BY <2>1, <3>1, PayloadOccurs
    <2>4. ASSUME NEW j \in Calls
          PROVE  /\ Once(Input, Cmd(j)) /\ (j = k => ~In(Input, Cmd(j))) => Once(Input', Cmd(j))
                 /\ Once(Input, Probe(j)) /\ (j = k => ~In(Input, Probe(j))) => Once(Input', Probe(j))
      <3>1. /\ In(Payload(k, o), Cmd(j)) => j = k
            /\ In(Payload(k, o), Probe(j)) => j = k
            /\ Once(Payload(k, o), Cmd(j)) /\ Once(Payload(k, o), Probe(j))
        BY PayloadOccurs
      <3>2. /\ Once(Input', Cmd(j)) <=> /\ Once(Input, Cmd(j)) /\ Once(Payload(k, o), Cmd(j))
                                        /\ ~(In(Input, Cmd(j)) /\ In(Payload(k, o), Cmd(j)))
            /\ Once(Input', Probe(j)) <=> /\ Once(Input, Probe(j)) /\ Once(Payload(k, o), Probe(j))
                                          /\ ~(In(Input, Probe(j)) /\ In(Payload(k, o), Probe(j)))
        BY <2>2, ConcatOnce, Zenon
      <3>3. QED
        BY <3>1, <3>2, Zenon
    <2>5. ASSUME NEW j \in Calls
          PROVE  /\ Follows(Input, j) => Follows(Input', j)
                 /\ Starts(Input', Probe(j)) => Starts(Input, Probe(j))
      <3>1. Follows(Payload(k, o), j) /\ ~Starts(Payload(k, o), Probe(j))
        BY PayloadOccurs
      <3>2. Follows(Input, j) => Follows(Input', j)
        BY <2>2, <3>1, ConcatFollows, Zenon
      <3>3. Starts(Input', Probe(j)) => Starts(Input, Probe(j))
        BY <2>2, <3>1, ConcatStarts, Zenon
      <3>4. QED
        BY <3>2, <3>3
    <2>6. QED
      BY <2>3, <2>4, <2>5, Zenon
  <1>5. QED
    BY <1>3, <1>4, Zenon

-----------------------------------------------------------------------------
(* The payload.                                                            *)

\* A call that writes holds the lock; a status call has its probe still to write.
LEMMA StillToWrite ==
  ASSUME TypeOK, PayloadOK, NEW k \in Calls, pc[k] = "write", payload # <<>>
  PROVE  /\ lock = k
         /\ \/ kind[k] = "plain" /\ payload = <<Cmd(k)>>
            \/ kind[k] = "status" /\ payload \in {<<Cmd(k), Probe(k)>>, <<Probe(k)>>}
         /\ kind[k] = "status" => In(payload, Probe(k))
  <1>1. lock = k
    BY DEF TypeOK, CallTypes
  <1>2. \/ kind[k] = "plain" /\ payload = <<Cmd(k)>>
        \/ kind[k] = "status" /\ payload \in {<<Cmd(k), Probe(k)>>, <<Probe(k)>>}
    BY <1>1 DEF PayloadOK
  <1>3. In(<<Cmd(k), Probe(k)>>, Probe(k)) /\ In(<<Probe(k)>>, Probe(k))
    BY DEF In
  <1>4. ASSUME kind[k] = "status" PROVE In(payload, Probe(k))
    <2>1. payload = <<Cmd(k), Probe(k)>> \/ payload = <<Probe(k)>>
      BY <1>2, <1>4
    <2>2. QED
      BY <1>3, <2>1, Zenon
  <1>5. QED
    BY <1>1, <1>2, <1>4, Zenon

\* Writers have their own lines left to write.
LEMMA PayloadStep == TypeOK /\ PayloadOK /\ [Next]_vars => PayloadOK'
  <1>1. SUFFICES ASSUME TypeOK, PayloadOK, [Next]_vars PROVE PayloadOK'
    OBVIOUS
  <1>2. CASE UNCHANGED <<payload, lock, kind>>
    BY <1>1, <1>2 DEF PayloadOK, Cmd, Probe
  <1>3. CASE Shell \/ ShellExits \/ Interrupt \/ Reader \/ Over
    BY <1>2, <1>3 DEF Shell, ShellReads, ShellPrints, CommandEnds, ShellExits, Interrupt, InterruptCommand, InterruptShell,
                      Reader, ReaderDrains, ReaderReady, Publish, ReaderEof, Over, vars
  <1>4. ASSUME NEW k \in Calls, Write(k) PROVE PayloadOK'
    <2>1. /\ lock = k /\ pc[k] = "write" /\ payload # <<>>
          /\ \/ kind[k] = "plain" /\ payload = <<Cmd(k)>>
             \/ kind[k] = "status" /\ payload \in {<<Cmd(k), Probe(k)>>, <<Probe(k)>>}
      BY <1>1, <1>4, StillToWrite DEF Write
    <2>2. payload' = Tail(payload) /\ lock' = lock /\ kind' = kind
      BY <1>4 DEF Write
    <2>3. /\ Tail(<<Cmd(k)>>) = <<>> /\ Tail(<<Probe(k)>>) = <<>>
          /\ Tail(<<Cmd(k), Probe(k)>>) = <<Probe(k)>>
      OBVIOUS
    <2>4. k # 0
      BY DEF Calls
    <2>5. payload' = <<>> \/ (kind'[lock'] = "status" /\ payload' = <<Probe(lock')>> /\ lock' # 0)
      BY <2>1, <2>2, <2>3, <2>4, Zenon
    <2>6. QED
      BY <2>5 DEF PayloadOK, Probe
  <1>5. ASSUME NEW k \in Calls, WriteFails(k) \/ Wait(k) \/ Return(k) PROVE PayloadOK'
    BY <1>1, <1>5 DEF PayloadOK, WriteFails, Wait, Return
  <1>6. ASSUME NEW k \in Calls, NEW o \in {"read", "plain", "status"}, Begin(k, o) PROVE PayloadOK'
    <2>1. payload = <<>>
      BY <1>1, <1>6 DEF PayloadOK, Begin
    <2>2. CASE payload' = payload
      BY <2>1, <2>2 DEF PayloadOK
    <2>3. CASE payload' # payload
      <3>1. payload' = Payload(k, o) /\ lock' = k /\ kind' = [kind EXCEPT ![k] = o] /\ k # 0
        BY <1>6, <2>3 DEF Begin, Calls
      <3>2. kind'[lock'] = o
        BY <1>1, <3>1 DEF TypeOK, CallTypes
      <3>3. /\ Payload(k, "read") = <<>> /\ Payload(k, "plain") = <<Cmd(k)>>
            /\ Payload(k, "status") = <<Cmd(k), Probe(k)>>
        BY DEF Payload, Cmd, Probe
      <3>4. \/ payload' = <<>>
            \/ lock' # 0 /\ kind'[lock'] = "plain" /\ payload' = <<Cmd(lock')>>
            \/ lock' # 0 /\ kind'[lock'] = "status" /\ payload' = <<Cmd(lock'), Probe(lock')>>
        BY <3>1, <3>2, <3>3, Zenon
      <3>5. QED
        BY <3>4 DEF PayloadOK, Cmd, Probe
    <2>4. QED
      BY <2>2, <2>3
  <1>7. QED
    BY <1>1, <1>2, <1>3, <1>4, <1>5, <1>6 DEF Next, Call, vars

-----------------------------------------------------------------------------
(* The input.                                                              *)

\* A line read is a command or a probe of one call.
LEMMA LineKinds ==
  ASSUME NEW x \in Lines
  PROVE  \E j \in Calls : \/ x = Cmd(j) /\ x[1] # "probe" /\ x[2] = j
                          \/ x = Probe(j) /\ x[1] = "probe" /\ x[2] = j
  <1>1. PICK a \in {"cmd", "probe"}, j \in Calls : x = <<a, j>>
    BY DEF Lines
  <1>2. QED
    BY <1>1 DEF Cmd, Probe

\* Reads leave, and writes extend, the input in order.
LEMMA InputStep == CInv /\ [Next]_vars => InputOK'
  <1>1. SUFFICES ASSUME CInv, [Next]_vars, NEW k \in Calls PROVE InputOf(k)'
    BY Zenon DEF InputOK
  <1>2. InputOf(k) /\ TraceOf(k) /\ TypeOK /\ PayloadOK
    BY <1>1, Zenon DEF CInv, InputOK, TraceOK
  <1>3. CASE ShellReads
    <2>1. pc' = pc /\ kind' = kind /\ open' = open
      BY <1>3 DEF ShellReads
    <2>2. /\ \A u : In(Input, u) <=> u = Head(inq) \/ In(Input', u)
          /\ \A u : Once(Input, u) => Once(Input', u)
          /\ Follows(Input, k) => Follows(Input', k) /\ (Starts(Input', Probe(k)) => Head(inq) = Cmd(k))
      BY <1>2, <1>3, ReadsFlow, Zenon
    <2>3. Head(inq) = Cmd(k) => run' = k
      BY <1>3 DEF ShellReads, Cmd
    <2>4. QED
      BY <1>2, <2>1, <2>2, <2>3, Zenon DEF InputOf
  <1>4. CASE CommandEnds \/ InterruptCommand
    <2>1. UNCHANGED <<inq, payload, pc, kind, open, alive>>
      BY <1>4 DEF CommandEnds, InterruptCommand
    <2>2. Input' = Input
      BY <2>1 DEF Input
    <2>3. /\ run # 0 /\ run' = 0 /\ last' # NoCode
          /\ run = k => code'[k] = last'
      <3>1. code \in [Calls -> Codes] /\ run \in {0} \cup Calls
        BY <1>2 DEF TypeOK, ShellTypes
      <3>2. run # 0 /\ run' = 0 /\ code' = [code EXCEPT ![run] = last'] /\ last' \in {run, Interrupted}
        BY <1>4 DEF CommandEnds, InterruptCommand
      <3>3. Interrupted # 0
        BY SizesAssumption DEF Interrupted
      <3>4. QED
        BY <3>1, <3>2, <3>3 DEF NoCode
    <2>4. QED
      BY <1>2, <2>1, <2>2, <2>3, Zenon DEF InputOf, Says
  <1>s. CASE InterruptShell
    <2>1. Input' = Input
      BY <1>2, <1>s, ShakeFlow DEF Input
    <2>2. In(Input, Probe(k)) => k \in open'
      <3>1. In(pend, End(k)) => In(Unseen, End(k))
        BY <1>2, FlowTypes, ConcatIn, Zenon DEF Unseen
      <3>2. k \in open => k \in open' \/ In(pend, End(k))
        BY <1>2, <1>s, ShakeFlow, Zenon
      <3>3. QED
        BY <1>2, <3>1, <3>2, Zenon DEF InputOf, TraceOf
    <2>3. Starts(Input, Probe(k)) => In(Input, Probe(k))
      <3>1. Input \in Seq(Lines)
        BY <1>2, FlowTypes DEF Input
      <3>2. Input # <<>> => 1 \in DOMAIN Input
        BY <3>1
      <3>3. QED
        BY <3>2, Zenon DEF Starts, In
    <2>4. ASSUME alive, Starts(Input, Probe(k)) PROVE run = 0 /\ Says(last', k, code, shaken')
      <3>1. run = 0 /\ k # 0
        BY <1>2, <1>s, ShakeFlow DEF Calls
      <3>2. Says(last, k, code, shaken) /\ k \in open
        BY <1>2, <2>3, <2>4, <3>1, Zenon DEF InputOf
      <3>3. last' \in {last, Interrupted} /\ shaken \subseteq shaken' /\ k \in shaken'
        BY <1>2, <1>s, <3>2, ShakeFlow, Zenon DEF Says
      <3>4. QED
        BY <3>1, <3>2, <3>3 DEF Says
    <2>5. UNCHANGED <<pc, kind, alive, run, code>>
      BY <1>2, <1>s, ShakeFlow
    <2>6. QED
      BY <1>2, <2>1, <2>2, <2>4, <2>5, Zenon DEF InputOf
  <1>5. CASE ShellExits
    <2>1. UNCHANGED <<inq, payload, pc, kind, open>> /\ ~alive'
      BY <1>5 DEF ShellExits
    <2>2. Input' = Input
      BY <2>1 DEF Input
    <2>3. QED
      BY <1>2, <2>1, <2>2, Zenon DEF InputOf
  <1>6. CASE Publish
    <2>1. UNCHANGED <<inq, payload, pc, kind, alive, run, last, code, shaken>>
      BY <1>6 DEF Publish
    <2>2. Input' = Input
      BY <2>1 DEF Input
    <2>3. In(Input, Probe(k)) => ~In(burst, End(k))
      <3>1. Unseen = burst \o Unseen' /\ Unseen' \in Seq(Units) /\ burst \in Seq(Units)
        BY <1>2, <1>6, PublishFlow, FlowTypes
      <3>2. In(burst, End(k)) => In(Unseen, End(k))
        BY <3>1, ConcatIn, Zenon
      <3>3. QED
        BY <1>2, <3>2, Zenon DEF TraceOf
    <2>4. In(Input, Probe(k)) => k \in open'
      <3>1. burst \in Seq(Units)
        BY <1>2, FlowTypes
      <3>2. open' = open \ {j \in Calls : Contains(burst, <<"b", j>>)}
        BY <1>6 DEF Publish
      <3>3. ~In(burst, End(k)) => ~Contains(burst, <<"b", k>>)
        BY <3>1, ContainsIn, Zenon DEF End
      <3>4. QED
        BY <1>2, <2>3, <3>2, <3>3, Zenon DEF InputOf
    <2>5. QED
      BY <1>2, <2>1, <2>2, <2>4, Zenon DEF InputOf
  <1>7. CASE UNCHANGED <<inq, payload, pc, kind, open, alive, run, last, code, shaken>>
    <2>1. Input' = Input
      BY <1>7 DEF Input
    <2>2. QED
      BY <1>2, <1>7, <2>1, Zenon DEF InputOf
  <1>8. CASE ShellPrints \/ ReaderDrains \/ ReaderReady \/ ReaderEof \/ Over
    BY <1>7, <1>8 DEF ShellPrints, ReaderDrains, ReaderReady, ReaderEof, Over, vars
  <1>9. ASSUME NEW j \in Calls, Write(j) PROVE InputOf(k)'
    <2>1. UNCHANGED <<pc, kind, open, alive, run, last, code, shaken>>
      BY <1>9 DEF Write
    <2>2. Input' = Input
      BY <1>2, <1>9, WriteFlow
    <2>3. QED
      BY <1>2, <2>1, <2>2, Zenon DEF InputOf
  <1>10. ASSUME NEW j \in Calls, WriteFails(j) PROVE InputOf(k)'
    <2>1. Input = Input' \o payload /\ Input' = inq /\ inq \in Seq(Lines) /\ payload \in Seq(Lines)
      BY <1>2, <1>10, WriteFlow, FlowTypes
    <2>2. /\ UNCHANGED <<kind, alive, run, last, code, shaken>> /\ open' = open \ {j}
          /\ pc' = [pc EXCEPT ![j] = "done"] /\ pc[j] = "write" /\ payload # <<>>
      BY <1>10 DEF WriteFails
    <2>3. pc'[k] = "new" => pc[k] = "new"
      BY <1>2, <2>2 DEF TypeOK, CallTypes
    <2>4. \A u : (In(Input', u) => In(Input, u)) /\ (Once(Input, u) => Once(Input', u))
      BY <2>1, ConcatIn, ConcatOnce, Zenon
    <2>5. Follows(Input, k) => Follows(Input', k)
      BY <2>1, ConcatFollows, Zenon
    <2>6. Starts(Input', Probe(k)) => Starts(Input, Probe(k))
      BY <2>1, ConcatStarts, Zenon
    <2>7. In(Input', Probe(k)) => k # j
      <3>1. SUFFICES ASSUME k = j, In(Input', Probe(k)) PROVE FALSE
        OBVIOUS
      <3>2. kind[k] = "status" /\ Once(Input, Probe(k))
        BY <1>2, <2>4, <3>1, Zenon DEF InputOf
      <3>3. In(payload, Probe(k))
        BY <1>2, <2>2, <3>1, <3>2, StillToWrite, Zenon
      <3>4. QED
        BY <2>1, <3>1, <3>2, <3>3, ConcatOnce, Zenon
    <2>8. QED
      BY <1>2, <2>2, <2>3, <2>4, <2>5, <2>6, <2>7, Zenon DEF InputOf
  <1>11. ASSUME NEW j \in Calls, Wait(j) \/ Return(j) PROVE InputOf(k)'
    <2>1. UNCHANGED <<inq, payload, kind, open, alive, run, last, code, shaken>>
      BY <1>11 DEF Wait, Return
    <2>2. Input' = Input
      BY <2>1 DEF Input
    <2>3. pc'[k] = "new" => pc[k] = "new"
      BY <1>2, <1>11 DEF TypeOK, CallTypes, Wait, Return
    <2>4. QED
      BY <1>2, <2>1, <2>2, <2>3, Zenon DEF InputOf
  <1>12. ASSUME NEW j \in Calls, NEW o \in {"read", "plain", "status"}, Begin(j, o) PROVE InputOf(k)'
    <2>1. /\ UNCHANGED <<alive, run, last, code, shaken>> /\ open \subseteq open' /\ pc[j] = "new"
          /\ kind' = [kind EXCEPT ![j] = o]
          /\ pc' \in {[pc EXCEPT ![j] = "done"], [pc EXCEPT ![j] = "write"]}
      BY <1>12 DEF Begin
    <2>2. (k # j => kind'[k] = kind[k]) /\ kind'[j] = o /\ (pc'[k] = "new" => pc[k] = "new" /\ k # j)
      BY <1>2, <2>1 DEF TypeOK, CallTypes
    <2>3. /\ In(Input', Cmd(k)) => In(Input, Cmd(k)) \/ k = j
          /\ In(Input', Probe(k)) => In(Input, Probe(k)) \/ (k = j /\ o = "status" /\ j \in open')
          /\ Once(Input, Cmd(k)) /\ (k = j => ~In(Input, Cmd(k))) => Once(Input', Cmd(k))
          /\ Once(Input, Probe(k)) /\ (k = j => ~In(Input, Probe(k))) => Once(Input', Probe(k))
          /\ Follows(Input, k) => Follows(Input', k)
          /\ Starts(Input', Probe(k)) => Starts(Input, Probe(k))
      BY <1>2, <1>12, BeginFlow, Zenon
    <2>4. k = j => ~In(Input, Cmd(k)) /\ ~In(Input, Probe(k))
      BY <1>2, <2>1, Zenon DEF InputOf
    <2>5. pc'[k] = "new" => ~In(Input', Cmd(k)) /\ ~In(Input', Probe(k))
      BY <1>2, <2>2, <2>3, Zenon DEF InputOf
    <2>6. In(Input', Probe(k)) => kind'[k] = "status" /\ k \in open'
      BY <1>2, <2>1, <2>2, <2>3, <2>4, Zenon DEF InputOf
    <2>7. Once(Input', Cmd(k)) /\ Once(Input', Probe(k)) /\ Follows(Input', k)
      BY <1>2, <2>3, <2>4, Zenon DEF InputOf
    <2>8. alive' /\ Starts(Input', Probe(k)) =>
             run' = k \/ (run' = 0 /\ Says(last', k, code', shaken'))
      BY <1>2, <2>1, <2>3, Zenon DEF InputOf
    <2>9. QED
      BY <2>5, <2>6, <2>7, <2>8, Zenon DEF InputOf
  <1>13. QED
    BY <1>1, <1>s, <1>3, <1>4, <1>5, <1>6, <1>7, <1>8, <1>9, <1>10, <1>11, <1>12, Zenon
    DEF Next, Shell, Interrupt, Reader, Call, vars, shellState, history

-----------------------------------------------------------------------------
(* What has been heard of, and the output.                                 *)

\* An error takes no output and returns no status.
LEMMA ErrorTakesNothing ==
  ASSUME TypeOK, NEW j \in Calls, reply' = [reply EXCEPT ![j].error = TRUE] \/ reply' = reply
  PROVE  /\ \A k \in Calls : reply'[k].got = reply[k].got /\ reply'[k].status = reply[k].status
         /\ \A k \in Calls : Taken(k)' <=> Taken(k)
  <1>1. reply \in [Calls -> Replies]
    BY DEF TypeOK, ReplyTypes
  <1>2. ASSUME NEW k \in Calls
        PROVE  reply'[k].got = reply[k].got /\ reply'[k].status = reply[k].status
    <2>1. reply[k] \in Replies
      BY <1>1
    <2>2. CASE reply' = reply
      BY <2>2
    <2>3. CASE reply' = [reply EXCEPT ![j].error = TRUE] /\ k # j
      BY <1>1, <2>3
    <2>4. CASE reply' = [reply EXCEPT ![j].error = TRUE] /\ k = j
      <3>1. reply'[k] = [reply[k] EXCEPT !.error = TRUE]
        BY <1>1, <2>4
      <3>2. QED
        BY <2>1, <3>1 DEF Replies
    <2>5. QED
      BY <2>2, <2>3, <2>4
  <1>3. QED
    BY <1>2, Zenon DEF Taken

\* The call that returns takes what is past the cursor.
LEMMA ReturnTakes ==
  ASSUME TypeOK, CrowdOK, NEW j \in Calls, Return(j)
  PROVE  /\ unread' = {} /\ reply'[j].got = unread /\ reply'[j].status = StatusOf(j)
         /\ reply[j].got = {} /\ reply[j].status = NoCode
         /\ \A k \in Calls : k # j => reply'[k] = reply[k]
         /\ \A k \in Calls : Taken(k)' <=> Taken(k) \/ k \in unread
  <1>1. /\ reply \in [Calls -> Replies] /\ unread' = {} /\ pc[j] = "wait"
        /\ reply' = [reply EXCEPT ![j] = [status |-> StatusOf(j), got |-> unread, error |-> FALSE]]
    BY DEF TypeOK, ReplyTypes, Return
  <1>2. reply'[j] = [status |-> StatusOf(j), got |-> unread, error |-> FALSE]
    BY <1>1
  <1>3. reply'[j].got = unread /\ reply'[j].status = StatusOf(j)
    BY <1>2
  <1>4. reply[j].got = {} /\ reply[j].status = NoCode
    BY <1>1 DEF CrowdOK
  <1>5. \A k \in Calls : k # j => reply'[k] = reply[k]
    BY <1>1
  <1>6. ASSUME NEW k \in Calls PROVE Taken(k)' <=> Taken(k) \/ k \in unread
    <2>1. Taken(k)' <=> \E i \in Calls : k \in reply'[i].got
      BY Zenon DEF Taken
    <2>2. Taken(k) <=> \E i \in Calls : k \in reply[i].got
      BY Zenon DEF Taken
    <2>3. \A i \in Calls : i # j => reply'[i].got = reply[i].got
      BY <1>5, Zenon
    <2>4. k \in reply'[j].got <=> k \in unread
      BY <1>3, Zenon
    <2>5. k \notin reply[j].got
      BY <1>4
    <2>6. QED
      BY <2>1, <2>2, <2>3, <2>4, <2>5, Zenon
  <1>7. QED
    BY <1>1, <1>3, <1>4, <1>5, <1>6, Zenon

\* What the shell prints for a line: the probe, the code of the command before it.
LEMMA ReadsPrint ==
  ASSUME CInv, ShellReads
  PROVE  \E j \in Calls :
            \/ Head(inq) = Cmd(j) /\ run' = j /\ pend' = <<Output(j)>>
            \/ /\ Head(inq) = Probe(j) /\ run' = 0 /\ pend' = Marker(last, j) /\ Says(last, j, code, shaken)
  <1>1. TypeOK /\ InputOK
    BY Zenon DEF CInv
  <1>2. Head(inq) \in Lines /\ Starts(Input, Head(inq))
    BY <1>1, ReadsFlow, Zenon
  <1>3. PICK j \in Calls : \/ Head(inq) = Cmd(j) /\ Head(inq)[1] # "probe" /\ Head(inq)[2] = j
                           \/ Head(inq) = Probe(j) /\ Head(inq)[1] = "probe" /\ Head(inq)[2] = j
    BY <1>2, LineKinds, Zenon
  <1>4. CASE Head(inq) = Cmd(j) /\ Head(inq)[1] # "probe" /\ Head(inq)[2] = j
    BY <1>4 DEF ShellReads
  <1>5. CASE Head(inq) = Probe(j) /\ Head(inq)[1] = "probe" /\ Head(inq)[2] = j
    <2>1. run' = run /\ run = 0 /\ alive /\ pend' = Marker(last, j)
      BY <1>5 DEF ShellReads
    <2>2. j # 0
      BY DEF Calls
    <2>3. InputOf(j)
      BY <1>1, Zenon DEF InputOK
    <2>4. Says(last, j, code, shaken)
      BY <1>2, <1>5, <2>1, <2>2, <2>3, Zenon DEF InputOf
    <2>5. QED
      BY <1>5, <2>1, <2>4, Zenon
  <1>6. QED
    BY <1>3, <1>4, <1>5, Zenon

\* A command leaves traces only after it was read.
LEMMA TraceStep == CInv /\ [Next]_vars => TraceOK'
  <1>1. SUFFICES ASSUME CInv, [Next]_vars, NEW k \in Calls PROVE TraceOf(k)'
    BY Zenon DEF TraceOK
  <1>2. TraceOf(k) /\ InputOf(k) /\ TypeOK /\ PayloadOK /\ CrowdOK
    BY <1>1, Zenon DEF CInv, InputOK, TraceOK
  <1>k. k # 0
    BY DEF Calls
  <1>3. CASE ShellReads
    <2>1. pc' = pc /\ unread' = unread /\ code' = code /\ reply' = reply
      BY <1>3 DEF ShellReads
    <2>2. Taken(k)' <=> Taken(k)
      BY <1>2, <2>1, ErrorTakesNothing, Zenon
    <2>3. /\ \A u : In(Input, u) <=> u = Head(inq) \/ In(Input', u)
          /\ \A u : Once(Input, u) => Once(Input', u) /\ ~(u = Head(inq) /\ In(Input', u))
          /\ Unseen' = Unseen \o pend' /\ Unseen \in Seq(Units)
      BY <1>2, <1>3, ReadsFlow, FlowTypes, Zenon
    <2>4. pend' \in Seq(Units)
      BY <1>1, <1>2, StreamTypesStep DEF StreamTypes
    <2>5. Unheard(k)' => Unheard(k) /\ Head(inq) # Cmd(k)
      BY <1>2, <2>1, <2>3, Zenon DEF Unheard, InputOf
    <2>6. In(Input', Probe(k)) => In(Input, Probe(k)) /\ Head(inq) # Probe(k)
      BY <1>2, <2>3, Zenon DEF InputOf
    <2>7. PICK j \in Calls :
             \/ Head(inq) = Cmd(j) /\ run' = j /\ pend' = <<Output(j)>>
             \/ /\ Head(inq) = Probe(j) /\ run' = 0 /\ pend' = Marker(last, j) /\ Says(last, j, code, shaken)
      BY <1>1, <1>3, ReadsPrint, Zenon
    <2>8. /\ In(Unseen', Output(k)) => In(Unseen, Output(k)) \/ In(pend', Output(k))
          /\ In(Unseen', End(k)) => In(Unseen, End(k)) \/ In(pend', End(k))
      BY <2>3, <2>4, ConcatIn, Zenon
    <2>9. CASE Head(inq) = Cmd(j) /\ run' = j /\ pend' = <<Output(j)>>
      <3>1. (In(pend', Output(k)) => j = k) /\ ~In(pend', End(k))
        <4>1. /\ Output(k) # End(k) /\ End(k) # Output(j) /\ (Output(j) = Output(k) => j = k)
          BY NamesDiffer
        <4>2. (In(<<Output(j)>>, Output(k)) => Output(k) = Output(j)) /\ ~In(<<Output(j)>>, End(k))
          BY <4>1, OneOccurs, Zenon
        <4>3. QED
          BY <2>9, <4>1, <4>2, Zenon
      <3>2. run' = k => Unheard(k)
        BY <2>3, <2>9, Zenon DEF Unheard
      <3>3. Unheard(k)' => k # j
        BY <2>5, <2>9, Zenon
      <3>4. QED
        BY <1>2, <2>1, <2>2, <2>5, <2>6, <2>8, <2>9, <3>1, <3>2, <3>3, Zenon DEF TraceOf
    <2>10. CASE Head(inq) = Probe(j) /\ run' = 0 /\ pend' = Marker(last, j) /\ Says(last, j, code, shaken)
      <3>1. ~In(pend', Output(k)) /\ (In(pend', End(k)) => j = k)
        BY <2>10, MarkerOccurs
      <3>2. j = k => ~Unheard(k)' /\ ~In(Input', Probe(k))
        BY <1>2, <2>5, <2>6, <2>10, Zenon DEF TraceOf, Says
      <3>3. run' # k
        BY <1>k, <2>10
      <3>4. QED
        BY <1>2, <1>k, <2>1, <2>2, <2>5, <2>6, <2>8, <2>10, <3>1, <3>2, <3>3, Zenon DEF TraceOf
    <2>11. QED
      BY <2>7, <2>9, <2>10, Zenon
  <1>4. CASE CommandEnds \/ InterruptCommand \/ ShellExits
    <2>1. UNCHANGED <<inq, payload, pc, unread, reply>> /\ run' = 0
      BY <1>4 DEF CommandEnds, InterruptCommand, ShellExits
    <2>2. Input' = Input
      BY <2>1 DEF Input
    <2>3. Taken(k)' <=> Taken(k)
      BY <1>2, <2>1, ErrorTakesNothing, Zenon
    <2>4. Unheard(k)' <=> Unheard(k)
      BY <2>1, <2>2, Zenon DEF Unheard
    <2>5. run # k => code'[k] = code[k]
      BY <1>2, <1>4 DEF TypeOK, ShellTypes, CommandEnds, InterruptCommand, ShellExits
    <2>6. \A u : In(Unseen', u) => In(Unseen, u)
      <3>1. CASE CommandEnds
        BY <3>1, Zenon DEF CommandEnds, Unseen
      <3>2. CASE InterruptCommand \/ ShellExits
        <4>1. Unseen = Unseen' \o pend /\ Unseen' \in Seq(Units) /\ pend \in Seq(Units)
          BY <1>2, <3>2, DropsFlow, FlowTypes, Zenon
        <4>2. QED
          BY <4>1, ConcatIn, Zenon
      <3>3. QED
        BY <1>4, <3>1, <3>2
    <2>7. QED
      BY <1>2, <1>k, <2>1, <2>2, <2>3, <2>4, <2>5, <2>6, Zenon DEF TraceOf
  <1>s. CASE InterruptShell
    <2>1. UNCHANGED <<inq, payload, pc, unread, reply, run, code>> /\ \A u : In(Unseen', u) => In(Unseen, u)
      BY <1>2, <1>s, ShakeFlow, Zenon
    <2>2. Input' = Input
      BY <2>1 DEF Input
    <2>3. Taken(k)' <=> Taken(k)
      BY <1>2, <2>1, ErrorTakesNothing, Zenon
    <2>4. QED
      BY <1>2, <2>1, <2>2, <2>3, Zenon DEF TraceOf, Unheard
  <1>5. CASE ShellPrints \/ ReaderDrains
    <2>1. UNCHANGED <<inq, payload, pc, unread, reply, run, code>>
      BY <1>5 DEF ShellPrints, ReaderDrains, ReaderReady
    <2>2. Input' = Input /\ Unseen' = Unseen
      BY <1>2, <1>5, <2>1, PrintsFlow DEF Input
    <2>3. Taken(k)' <=> Taken(k)
      BY <1>2, <2>1, ErrorTakesNothing, Zenon
    <2>4. QED
      BY <1>2, <2>1, <2>2, <2>3, Zenon DEF TraceOf, Unheard
  <1>6. CASE Publish
    <2>1. UNCHANGED <<inq, payload, pc, reply, run, code>>
      BY <1>6 DEF Publish
    <2>2. Input' = Input
      BY <2>1 DEF Input
    <2>3. Taken(k)' <=> Taken(k)
      BY <1>2, <2>1, ErrorTakesNothing, Zenon
    <2>4. Unseen = burst \o Unseen' /\ Unseen' \in Seq(Units) /\ burst \in Seq(Units)
      BY <1>2, <1>6, PublishFlow, FlowTypes
    <2>5. \A u : In(burst, u) \/ In(Unseen', u) => In(Unseen, u)
      BY <2>4, ConcatIn, Zenon
    <2>6. k \in unread' => k \in unread \/ In(burst, Output(k))
      <3>1. unread' = unread \cup {j \in Calls : Contains(burst, Output(j))}
        BY <1>6 DEF Publish
      <3>2. QED
        BY <2>4, <3>1, ContainsIn, Zenon
    <2>7. QED
      BY <1>2, <2>1, <2>2, <2>3, <2>5, <2>6, Zenon DEF TraceOf, Unheard
  <1>7. CASE UNCHANGED <<inq, payload, pc, unread, reply, run, code, burst, outq, pend>>
    <2>1. Input' = Input /\ Unseen' = Unseen
      BY <1>7 DEF Input, Unseen
    <2>2. Taken(k)' <=> Taken(k)
      BY <1>2, <1>7, ErrorTakesNothing, Zenon
    <2>3. QED
      BY <1>2, <1>7, <2>1, <2>2, Zenon DEF TraceOf, Unheard
  <1>8. CASE ReaderReady \/ ReaderEof \/ Over
    BY <1>7, <1>8 DEF ReaderReady, ReaderEof, Over, vars
  <1>9. ASSUME NEW j \in Calls, Write(j) PROVE TraceOf(k)'
    <2>1. UNCHANGED <<pc, unread, reply, run, code, burst, outq, pend>>
      BY <1>9 DEF Write
    <2>2. Input' = Input /\ Unseen' = Unseen
      BY <1>2, <1>9, <2>1, WriteFlow DEF Unseen
    <2>3. Taken(k)' <=> Taken(k)
      BY <1>2, <2>1, ErrorTakesNothing, Zenon
    <2>4. QED
      BY <1>2, <2>1, <2>2, <2>3, Zenon DEF TraceOf, Unheard
  <1>10. ASSUME NEW j \in Calls, WriteFails(j) PROVE TraceOf(k)'
    <2>1. Input = Input' \o payload /\ Input' = inq /\ inq \in Seq(Lines) /\ payload \in Seq(Lines)
      BY <1>2, <1>10, WriteFlow, FlowTypes
    <2>2. /\ UNCHANGED <<unread, run, code, burst, outq, pend>>
          /\ pc' = [pc EXCEPT ![j] = "done"] /\ reply' = [reply EXCEPT ![j].error = TRUE]
      BY <1>10 DEF WriteFails
    <2>3. pc'[k] = "new" => pc[k] = "new"
      BY <1>2, <2>2 DEF TypeOK, CallTypes
    <2>4. \A u : In(Input', u) => In(Input, u)
      BY <2>1, ConcatIn, Zenon
    <2>5. Unseen' = Unseen
      BY <2>2 DEF Unseen
    <2>6. Taken(k)' <=> Taken(k)
      BY <1>2, <2>2, ErrorTakesNothing, Zenon
    <2>7. QED
      BY <1>2, <2>2, <2>3, <2>4, <2>5, <2>6, Zenon DEF TraceOf, Unheard
  <1>11. ASSUME NEW j \in Calls, Wait(j) \/ Return(j) PROVE TraceOf(k)'
    <2>1. UNCHANGED <<inq, payload, run, code, burst, outq, pend>>
      BY <1>11 DEF Wait, Return
    <2>2. Input' = Input /\ Unseen' = Unseen
      BY <2>1 DEF Input, Unseen
    <2>3. pc'[k] = "new" => pc[k] = "new"
      BY <1>2, <1>11 DEF TypeOK, CallTypes, Wait, Return
    <2>4. (k \in unread' => k \in unread) /\ (Taken(k)' => Taken(k) \/ k \in unread)
      <3>1. CASE Wait(j)
        <4>1. unread' = unread /\ reply' = reply
          BY <3>1 DEF Wait
        <4>2. QED
          BY <1>2, <4>1, ErrorTakesNothing, Zenon
      <3>2. CASE Return(j)
        BY <1>2, <3>2, ReturnTakes
      <3>3. QED
        BY <1>11, <3>1, <3>2
    <2>5. QED
      BY <1>2, <2>1, <2>2, <2>3, <2>4, Zenon DEF TraceOf, Unheard
  <1>12. ASSUME NEW j \in Calls, NEW o \in {"read", "plain", "status"}, Begin(j, o) PROVE TraceOf(k)'
    <2>1. /\ UNCHANGED <<unread, run, code, burst, outq, pend>> /\ pc[j] = "new"
          /\ pc' \in {[pc EXCEPT ![j] = "done"], [pc EXCEPT ![j] = "write"]}
          /\ reply' = [reply EXCEPT ![j].error = TRUE] \/ reply' = reply
      BY <1>12 DEF Begin
    <2>2. pc'[k] = "new" => pc[k] = "new"
      BY <1>2, <2>1 DEF TypeOK, CallTypes
    <2>3. /\ In(Input', Cmd(k)) => In(Input, Cmd(k)) \/ k = j
          /\ In(Input', Probe(k)) => In(Input, Probe(k)) \/ k = j
      BY <1>2, <1>12, BeginFlow, Zenon
    <2>4. k = j => Unheard(k)
      BY <2>1, Zenon DEF Unheard
    <2>5. (Unheard(k)' => Unheard(k)) /\ (In(Input', Probe(k)) => In(Input, Probe(k)) \/ Unheard(k))
      BY <2>2, <2>3, <2>4, Zenon DEF Unheard
    <2>6. Unseen' = Unseen
      BY <2>1 DEF Unseen
    <2>7. Taken(k)' <=> Taken(k)
      BY <1>2, <2>1, ErrorTakesNothing, Zenon
    <2>8. QED
      BY <1>2, <2>1, <2>5, <2>6, <2>7, Zenon DEF TraceOf
  <1>13. QED
    BY <1>1, <1>s, <1>3, <1>4, <1>5, <1>6, <1>7, <1>8, <1>9, <1>10, <1>11, <1>12, Zenon
    DEF Next, Shell, Interrupt, Reader, Call, vars, shellState, history


\* An output is in one place, in front of its marker.
LEMMA OutputStep == CInv /\ [Next]_vars => OutputOK'
  <1>1. SUFFICES ASSUME CInv, [Next]_vars, NEW k \in Calls PROVE OutputOf(k)'
    BY Zenon DEF OutputOK
  <1>2. OutputOf(k) /\ TraceOf(k) /\ InputOf(k) /\ TypeOK /\ PayloadOK /\ CrowdOK
    BY <1>1, Zenon DEF CInv, InputOK, TraceOK, OutputOK
  <1>k. k # 0 /\ k # Interrupted /\ k # NoCode
    BY SizesAssumption DEF Calls, Interrupted, NoCode
  <1>3. CASE ShellReads
    <2>1. UNCHANGED <<kind, open, unread, reply, code, pc>>
      BY <1>3 DEF ShellReads
    <2>2. Taken(k)' <=> Taken(k)
      BY <1>2, <2>1, ErrorTakesNothing, Zenon
    <2>3. /\ \A u : In(Input, u) <=> u = Head(inq) \/ In(Input', u)
          /\ Unseen' = Unseen \o pend' /\ Unseen \in Seq(Units)
      BY <1>2, <1>3, ReadsFlow, FlowTypes, Zenon
    <2>4. pend' \in Seq(Units)
      BY <1>1, <1>2, StreamTypesStep DEF StreamTypes
    <2>5. PICK j \in Calls :
             \/ Head(inq) = Cmd(j) /\ run' = j /\ pend' = <<Output(j)>>
             \/ /\ Head(inq) = Probe(j) /\ run' = 0 /\ pend' = Marker(last, j) /\ Says(last, j, code, shaken)
      BY <1>1, <1>3, ReadsPrint, Zenon
    <2>6. /\ In(Unseen', Output(k)) <=> In(Unseen, Output(k)) \/ In(pend', Output(k))
          /\ In(Unseen', End(k)) <=> In(Unseen, End(k)) \/ In(pend', End(k))
      BY <2>3, <2>4, ConcatIn, Zenon
    <2>7. /\ Once(Unseen', Output(k)) <=> /\ Once(Unseen, Output(k)) /\ Once(pend', Output(k))
                                          /\ ~(In(Unseen, Output(k)) /\ In(pend', Output(k)))
          /\ Once(Unseen', End(k)) <=> /\ Once(Unseen, End(k)) /\ Once(pend', End(k))
                                       /\ ~(In(Unseen, End(k)) /\ In(pend', End(k)))
      BY <2>3, <2>4, ConcatOnce, Zenon
    <2>8. Ahead(Unseen', Output(k), End(k)) <=>
             /\ Ahead(Unseen, Output(k), End(k)) /\ Ahead(pend', Output(k), End(k))
             /\ ~(In(Unseen, End(k)) /\ In(pend', Output(k)))
      BY <2>3, <2>4, ConcatAhead, Zenon
    <2>9. CASE Head(inq) = Cmd(j) /\ run' = j /\ pend' = <<Output(j)>>
      <3>1. /\ In(pend', Output(k)) <=> j = k
            /\ ~In(pend', End(k)) /\ Once(pend', Output(k)) /\ Once(pend', End(k))
            /\ Ahead(pend', Output(k), End(k))
        <4>1. Output(k) # End(k) /\ End(k) # Output(j) /\ (Output(k) = Output(j) <=> j = k)
          BY NamesDiffer
        <4>2. /\ In(<<Output(j)>>, Output(k)) <=> Output(k) = Output(j)
              /\ Once(<<Output(j)>>, Output(k)) /\ Ahead(<<Output(j)>>, Output(k), End(k))
          BY <4>1, OneOccurs, Zenon
        <4>3. (In(<<Output(j)>>, End(k)) <=> End(k) = Output(j)) /\ Once(<<Output(j)>>, End(k))
          BY <4>1, OneOccurs, Zenon
        <4>4. QED
          BY <2>9, <4>1, <4>2, <4>3, Zenon
      <3>2. j = k => Unheard(k)
        BY <2>3, <2>9, Zenon DEF Unheard
      <3>3. /\ Once(Unseen', Output(k)) /\ Once(Unseen', End(k)) /\ Ahead(Unseen', Output(k), End(k))
        BY <1>2, <2>7, <2>8, <3>1, <3>2, Zenon DEF OutputOf, TraceOf
      <3>4. /\ In(Unseen', End(k)) => kind'[k] = "status" /\ k \in open'
            /\ In(pend', Output(k)) => run' = k
            /\ k \in unread' \/ Taken(k)' => ~In(Unseen', Output(k))
            /\ run' = k \/ code'[k] = k => In(Unseen', Output(k)) \/ k \in unread' \/ Taken(k)'
        BY <1>2, <2>1, <2>2, <2>6, <2>9, <3>1, <3>2, Zenon DEF OutputOf, TraceOf
      <3>5. QED
        BY <3>3, <3>4, Zenon DEF OutputOf
    <2>10. CASE Head(inq) = Probe(j) /\ run' = 0 /\ pend' = Marker(last, j) /\ Says(last, j, code, shaken)
      <3>1. /\ ~In(pend', Output(k)) /\ (In(pend', End(k)) <=> j = k)
            /\ Once(pend', Output(k)) /\ Once(pend', End(k)) /\ Ahead(pend', Output(k), End(k))
        BY <2>10, MarkerOccurs, Zenon
      <3>2. j = k => In(Input, Probe(k))
        BY <2>3, <2>10, Zenon
      <3>3. /\ Once(Unseen', Output(k)) /\ Once(Unseen', End(k)) /\ Ahead(Unseen', Output(k), End(k))
        BY <1>2, <2>7, <2>8, <3>1, <3>2, Zenon DEF OutputOf, TraceOf
      <3>4. /\ In(Unseen', End(k)) => kind'[k] = "status" /\ k \in open'
            /\ In(pend', Output(k)) => run' = k
            /\ k \in unread' \/ Taken(k)' => ~In(Unseen', Output(k))
            /\ run' = k \/ code'[k] = k => In(Unseen', Output(k)) \/ k \in unread' \/ Taken(k)'
        BY <1>2, <1>k, <2>1, <2>2, <2>6, <2>10, <3>1, <3>2, Zenon DEF OutputOf, InputOf
      <3>5. QED
        BY <3>3, <3>4, Zenon DEF OutputOf
    <2>11. QED
      BY <2>5, <2>9, <2>10, Zenon
  <1>4. CASE CommandEnds
    <2>1. UNCHANGED <<burst, outq, pend, kind, open, unread, reply>> /\ run' = 0 /\ alive /\ pend = <<>>
      BY <1>4 DEF CommandEnds
    <2>2. Unseen' = Unseen
      BY <2>1 DEF Unseen
    <2>3. Taken(k)' <=> Taken(k)
      BY <1>2, <2>1, ErrorTakesNothing, Zenon
    <2>4. ~In(pend', Output(k))
      BY <2>1, EmptyOccurs, Zenon
    <2>5. code'[k] = k => code[k] = k \/ run = k
      BY <1>2, <1>4 DEF TypeOK, ShellTypes, CommandEnds
    <2>6. QED
      BY <1>2, <1>k, <2>1, <2>2, <2>3, <2>4, <2>5, Zenon DEF OutputOf
  <1>5. CASE InterruptCommand \/ ShellExits
    <2>1. UNCHANGED <<kind, open, unread, reply>> /\ run' = 0 /\ pend' = <<>>
      BY <1>5 DEF InterruptCommand, ShellExits
    <2>2. Unseen = Unseen' \o pend /\ Unseen' \in Seq(Units) /\ pend \in Seq(Units)
      BY <1>2, <1>5, DropsFlow, FlowTypes, Zenon
    <2>3. Taken(k)' <=> Taken(k)
      BY <1>2, <2>1, ErrorTakesNothing, Zenon
    <2>4. ~In(pend', Output(k))
      BY <2>1, EmptyOccurs, Zenon
    <2>5. code'[k] = k => code[k] = k /\ run # k
      <3>1. CASE InterruptCommand
        BY <1>2, <1>k, <3>1 DEF TypeOK, ShellTypes, InterruptCommand
      <3>2. CASE ShellExits
        <4>1. code' = code
          BY <3>2 DEF ShellExits
        <4>2. run = k => code[k] = NoCode
          BY <1>2, Zenon DEF TraceOf
        <4>3. QED
          BY <1>k, <4>1, <4>2
      <3>3. QED
        BY <1>5, <3>1, <3>2
    <2>6. /\ Once(Unseen', Output(k)) /\ Once(Unseen', End(k)) /\ Ahead(Unseen', Output(k), End(k))
      <3>1. /\ Once(Unseen' \o pend, Output(k)) /\ Once(Unseen' \o pend, End(k))
            /\ Ahead(Unseen' \o pend, Output(k), End(k))
        BY <1>2, <2>2, Zenon DEF OutputOf
      <3>2. QED
        BY <2>2, <3>1, ConcatOnce, ConcatAhead, Zenon
    <2>7. /\ In(Unseen', End(k)) => In(Unseen, End(k))
          /\ In(Unseen, Output(k)) <=> In(Unseen', Output(k)) \/ In(pend, Output(k))
      BY <2>2, ConcatIn, Zenon
    <2>8. /\ In(Unseen', End(k)) => kind'[k] = "status" /\ k \in open'
          /\ k \in unread' \/ Taken(k)' => ~In(Unseen', Output(k))
          /\ code'[k] = k => In(Unseen', Output(k)) \/ k \in unread' \/ Taken(k)'
      BY <1>2, <2>1, <2>3, <2>5, <2>7, Zenon DEF OutputOf
    <2>9. QED
      BY <1>k, <2>1, <2>4, <2>6, <2>8, Zenon DEF OutputOf
  <1>s. CASE InterruptShell
    <2>1. UNCHANGED <<kind, unread, reply, run, code, alive>> /\ run = 0 /\ open' \subseteq open
      BY <1>2, <1>s, ShakeFlow, Zenon
    <2>2. Taken(k)' <=> Taken(k)
      BY <1>2, <2>1, ErrorTakesNothing, Zenon
    <2>3. CASE pend' = pend /\ Unseen' = Unseen
      <3>1. In(Unseen, End(k)) => k \in open'
        <4>1. pend' = <<>> => ~In(pend, End(k))
          BY <2>3, EmptyOccurs, Zenon
        <4>2. QED
          BY <1>2, <1>s, <4>1, ShakeFlow, Zenon DEF OutputOf
      <3>2. QED
        BY <1>2, <2>1, <2>2, <2>3, <3>1, Zenon DEF OutputOf
    <2>4. CASE pend' = <<>> /\ Unseen = Unseen' \o pend
      <3>1. Unseen' \in Seq(Units) /\ pend \in Seq(Units)
        BY <1>2, <1>s, ShakeFlow, FlowTypes, Zenon
      <3>2. /\ Once(Unseen' \o pend, Output(k)) /\ Once(Unseen' \o pend, End(k))
            /\ Ahead(Unseen' \o pend, Output(k), End(k))
        BY <1>2, <2>4, Zenon DEF OutputOf
      <3>3. /\ Once(Unseen', Output(k)) /\ Once(Unseen', End(k)) /\ Ahead(Unseen', Output(k), End(k))
            /\ ~(In(Unseen', End(k)) /\ In(pend, End(k)))
        BY <3>1, <3>2, ConcatOnce, ConcatAhead, Zenon
      <3>4. \A u : In(Unseen, u) <=> In(Unseen', u) \/ In(pend, u)
        BY <2>4, <3>1, ConcatIn, Zenon
      <3>5. In(Unseen', End(k)) => kind'[k] = "status" /\ k \in open'
        BY <1>2, <1>s, <2>1, <3>3, <3>4, ShakeFlow, Zenon DEF OutputOf
      <3>6. ~In(pend', Output(k)) /\ ~In(pend, Output(k))
        BY <1>2, <1>k, <2>1, <2>4, EmptyOccurs, Zenon DEF OutputOf
      <3>7. /\ k \in unread' \/ Taken(k)' => ~In(Unseen', Output(k))
            /\ (alive' /\ run' = k) \/ code'[k] = k => In(Unseen', Output(k)) \/ k \in unread' \/ Taken(k)'
        BY <1>2, <2>1, <2>2, <3>4, <3>6, Zenon DEF OutputOf
      <3>8. QED
        BY <3>3, <3>5, <3>6, <3>7, Zenon DEF OutputOf
    <2>5. QED
      BY <1>2, <1>s, <2>3, <2>4, ShakeFlow, Zenon
  <1>6. CASE ShellPrints \/ ReaderDrains
    <2>1. UNCHANGED <<kind, open, unread, reply, run, code, alive>>
      BY <1>6 DEF ShellPrints, ReaderDrains, ReaderReady
    <2>2. Unseen' = Unseen /\ (In(pend', Output(k)) => In(pend, Output(k)))
      BY <1>2, <1>6, PrintsFlow, Zenon
    <2>3. Taken(k)' <=> Taken(k)
      BY <1>2, <2>1, ErrorTakesNothing, Zenon
    <2>4. QED
      BY <1>2, <2>1, <2>2, <2>3, Zenon DEF OutputOf
  <1>7. CASE Publish
    <2>1. UNCHANGED <<kind, reply, run, code, pend, alive>>
      BY <1>7 DEF Publish
    <2>2. Unseen = burst \o Unseen' /\ Unseen' \in Seq(Units) /\ burst \in Seq(Units)
      BY <1>2, <1>7, PublishFlow, FlowTypes
    <2>3. Taken(k)' <=> Taken(k)
      BY <1>2, <2>1, ErrorTakesNothing, Zenon
    <2>4. k \in unread' <=> k \in unread \/ In(burst, Output(k))
      <3>1. unread' = unread \cup {j \in Calls : Contains(burst, Output(j))}
        BY <1>7 DEF Publish
      <3>2. QED
        BY <2>2, <3>1, ContainsIn, Zenon
    <2>5. k \in open /\ ~In(burst, End(k)) => k \in open'
      <3>1. open' = open \ {j \in Calls : Contains(burst, <<"b", j>>)}
        BY <1>7 DEF Publish
      <3>2. ~In(burst, End(k)) => ~Contains(burst, <<"b", k>>)
        BY <2>2, ContainsIn, Zenon DEF End
      <3>3. QED
        BY <3>1, <3>2, Zenon
    <2>6. /\ Once(Unseen', Output(k)) /\ Once(Unseen', End(k)) /\ Ahead(Unseen', Output(k), End(k))
          /\ ~(In(burst, Output(k)) /\ In(Unseen', Output(k)))
          /\ ~(In(burst, End(k)) /\ In(Unseen', End(k)))
      <3>1. /\ Once(burst \o Unseen', Output(k)) /\ Once(burst \o Unseen', End(k))
            /\ Ahead(burst \o Unseen', Output(k), End(k))
        BY <1>2, <2>2, Zenon DEF OutputOf
      <3>2. QED
        BY <2>2, <3>1, ConcatOnce, ConcatAhead, Zenon
    <2>7. \A u : In(Unseen, u) <=> In(burst, u) \/ In(Unseen', u)
      BY <2>2, ConcatIn, Zenon
    <2>8. In(Unseen', End(k)) => kind'[k] = "status" /\ k \in open'
      BY <1>2, <2>1, <2>5, <2>6, <2>7, Zenon DEF OutputOf
    <2>9. /\ In(pend', Output(k)) => run' = k
          /\ k \in unread' \/ Taken(k)' => ~In(Unseen', Output(k))
          /\ (alive' /\ run' = k) \/ code'[k] = k => In(Unseen', Output(k)) \/ k \in unread' \/ Taken(k)'
      BY <1>2, <2>1, <2>3, <2>4, <2>6, <2>7, Zenon DEF OutputOf
    <2>10. QED
      BY <2>6, <2>8, <2>9, Zenon DEF OutputOf
  <1>8. CASE UNCHANGED <<burst, outq, pend, kind, open, unread, reply, run, code, alive>>
    <2>1. Unseen' = Unseen
      BY <1>8 DEF Unseen
    <2>2. Taken(k)' <=> Taken(k)
      BY <1>2, <1>8, ErrorTakesNothing, Zenon
    <2>3. QED
      BY <1>2, <1>8, <2>1, <2>2, Zenon DEF OutputOf
  <1>9. CASE ReaderReady \/ ReaderEof \/ Over \/ \E j \in Calls : Write(j) \/ Wait(j)
    BY <1>8, <1>9 DEF ReaderReady, ReaderEof, Over, vars, Write, Wait
  <1>10. ASSUME NEW j \in Calls, WriteFails(j) PROVE OutputOf(k)'
    <2>1. /\ UNCHANGED <<kind, unread, run, code, alive, burst, outq, pend>> /\ open' = open \ {j}
          /\ pc[j] = "write" /\ payload # <<>> /\ reply' = [reply EXCEPT ![j].error = TRUE]
      BY <1>10 DEF WriteFails
    <2>2. Unseen' = Unseen
      BY <2>1 DEF Unseen
    <2>3. Taken(k)' <=> Taken(k)
      BY <1>2, <2>1, ErrorTakesNothing, Zenon
    <2>4. In(Unseen, End(k)) => k # j
      <3>1. SUFFICES ASSUME k = j, In(Unseen, End(k)) PROVE FALSE
        OBVIOUS
      <3>2. kind[k] = "status"
        BY <1>2, <3>1, Zenon DEF OutputOf
      <3>3. In(payload, Probe(k))
        BY <1>2, <2>1, <3>1, <3>2, StillToWrite, Zenon
      <3>4. In(Input, Probe(k))
        BY <1>2, <3>3, FlowTypes, ConcatIn, Zenon DEF Input
      <3>5. QED
        BY <1>2, <3>1, <3>4, Zenon DEF TraceOf
    <2>5. QED
      BY <1>2, <2>1, <2>2, <2>3, <2>4, Zenon DEF OutputOf
  <1>11. ASSUME NEW j \in Calls, Return(j) PROVE OutputOf(k)'
    <2>1. UNCHANGED <<kind, open, run, code, alive, burst, outq, pend>>
      BY <1>11 DEF Return
    <2>2. Unseen' = Unseen
      BY <2>1 DEF Unseen
    <2>3. k \notin unread' /\ (Taken(k)' <=> Taken(k) \/ k \in unread)
      BY <1>2, <1>11, ReturnTakes
    <2>4. QED
      BY <1>2, <2>1, <2>2, <2>3, Zenon DEF OutputOf
  <1>12. ASSUME NEW j \in Calls, NEW o \in {"read", "plain", "status"}, Begin(j, o) PROVE OutputOf(k)'
    <2>1. /\ UNCHANGED <<unread, run, code, alive, burst, outq, pend>> /\ pc[j] = "new"
          /\ kind' = [kind EXCEPT ![j] = o] /\ open \subseteq open'
          /\ reply' = [reply EXCEPT ![j].error = TRUE] \/ reply' = reply
      BY <1>12 DEF Begin
    <2>2. k # j => kind'[k] = kind[k]
      BY <1>2, <2>1 DEF TypeOK, CallTypes
    <2>3. k = j => ~In(Unseen, End(k))
      BY <1>2, <2>1, Zenon DEF TraceOf, Unheard
    <2>4. Unseen' = Unseen
      BY <2>1 DEF Unseen
    <2>5. Taken(k)' <=> Taken(k)
      BY <1>2, <2>1, ErrorTakesNothing, Zenon
    <2>6. QED
      BY <1>2, <2>1, <2>2, <2>3, <2>4, <2>5, Zenon DEF OutputOf
  <1>13. QED
    BY <1>1, <1>s, <1>3, <1>4, <1>5, <1>6, <1>7, <1>8, <1>9, <1>10, <1>11, <1>12, Zenon
    DEF Next, Shell, Interrupt, Reader, Call, vars, shellState, history

-----------------------------------------------------------------------------
(* Codes and scans.                                                        *)

\* Markers carry the codes of their commands.
LEMMA CodedStep == CInv /\ [Next]_vars => CodedOK'
  <1>1. SUFFICES ASSUME CInv, [Next]_vars PROVE CodedOK'
    OBVIOUS
  <1>2. CodedOK /\ TraceOK /\ TypeOK
    BY <1>1, Zenon DEF CInv
  <1>3. /\ tail \in Seq(Units) /\ Unseen \in Seq(Units) /\ pend \in Seq(Units)
        /\ tail \o Unseen \in Seq(Units) /\ burst \in Seq(Units)
    BY <1>2, FlowTypes
  <1>4. CASE ShellReads
    <2>1. Unseen' = Unseen \o pend' /\ tail' = tail /\ code' = code /\ shaken' = shaken
      BY <1>2, <1>4, ReadsFlow DEF ShellReads
    <2>2. pend' \in Seq(Units)
      BY <1>1, <1>2, StreamTypesStep DEF StreamTypes
    <2>3. tail \o (Unseen \o pend') = (tail \o Unseen) \o pend'
      <3>1. tail \in Seq(Units) /\ Unseen \in Seq(Units)
        BY <1>3
      <3>2. QED
        BY <2>2, <3>1, Regroup, Zenon
    <2>4. PICK j \in Calls :
             \/ Head(inq) = Cmd(j) /\ run' = j /\ pend' = <<Output(j)>>
             \/ /\ Head(inq) = Probe(j) /\ run' = 0 /\ pend' = Marker(last, j) /\ Says(last, j, code, shaken)
      BY <1>1, <1>4, ReadsPrint, Zenon
    <2>5. Coded((tail \o Unseen) \o pend', Len(tail), code, shaken)
      BY <1>2, <1>3, <2>2, <2>4, CodedMore, Zenon DEF CodedOK
    <2>6. QED
      BY <2>1, <2>3, <2>5, Zenon DEF CodedOK
  <1>5. CASE CommandEnds \/ InterruptCommand \/ InterruptShell \/ ShellExits
    <2>1. tail' = tail /\ shaken \subseteq shaken'
      BY <1>5 DEF CommandEnds, InterruptCommand, InterruptShell, ShellExits
    <2>2. Unseen' \in Seq(Units) /\ Coded(tail \o Unseen', Len(tail), code, shaken) /\ \A u : In(Unseen', u) => In(Unseen, u)
      <3>1. CASE CommandEnds \/ Unseen' = Unseen
        <4>1. Unseen' = Unseen
          BY <3>1 DEF CommandEnds, Unseen
        <4>2. QED
          BY <1>2, <1>3, <4>1, Zenon DEF CodedOK
      <3>2. CASE InterruptCommand \/ ShellExits \/ (InterruptShell /\ pend' = <<>>)
        <4>1. Unseen = Unseen' \o pend /\ Unseen' \in Seq(Units)
          BY <1>2, <3>2, DropsFlow, Zenon
        <4>2. tail \o (Unseen' \o pend) = (tail \o Unseen') \o pend /\ tail \o Unseen' \in Seq(Units)
          <5>1. tail \in Seq(Units) /\ Unseen' \in Seq(Units) /\ pend \in Seq(Units)
            BY <1>3, <4>1
          <5>2. QED
            BY <5>1, Regroup, Zenon
        <4>3. Coded((tail \o Unseen') \o pend, Len(tail), code, shaken)
          BY <1>2, <4>1, <4>2, Zenon DEF CodedOK
        <4>4. Coded(tail \o Unseen', Len(tail), code, shaken)
          BY <1>3, <4>2, <4>3, CodedPrefix, Zenon
        <4>5. QED
          BY <1>3, <4>1, <4>4, ConcatIn, Zenon
      <3>3. QED
        BY <1>2, <1>5, <3>1, <3>2, ShakeFlow, Zenon
    <2>3. ASSUME NEW k \in Calls, In(Unseen', End(k)) PROVE code'[k] = code[k]
      <3>1. run # k
        BY <1>2, <2>2, <2>3, Zenon DEF TraceOK, TraceOf
      <3>2. QED
        BY <1>2, <1>5, <3>1 DEF TypeOK, ShellTypes, CommandEnds, InterruptCommand,
                                  InterruptShell, ShellExits
    <2>4. Coded(tail \o Unseen', Len(tail), code', shaken')
      BY <1>3, <2>1, <2>2, <2>3, CodedSame, Zenon
    <2>5. QED
      BY <2>1, <2>4, Zenon DEF CodedOK
  <1>6. CASE ShellPrints \/ ReaderDrains
    <2>1. tail' = tail /\ code' = code /\ shaken' = shaken
      BY <1>6 DEF ShellPrints, ReaderDrains, ReaderReady
    <2>2. Unseen' = Unseen
      BY <1>2, <1>6, PrintsFlow
    <2>3. QED
      BY <1>2, <2>1, <2>2, Zenon DEF CodedOK
  <1>7. CASE Publish
    <2>1. Unseen = burst \o Unseen' /\ Unseen' \in Seq(Units)
      BY <1>2, <1>7, PublishFlow
    <2>2. code' = code /\ shaken' = shaken /\ tail' = LastUnits(tail \o burst, 2)
      BY <1>7 DEF Publish, KeepTail, PrefixLen
    <2>3. /\ tail \o (burst \o Unseen') = (tail \o burst) \o Unseen'
          /\ tail \o burst \in Seq(Units) /\ Len(tail) <= Len(tail \o burst) /\ Len(tail) \in Nat
      <3>1. tail \o (burst \o Unseen') = (tail \o burst) \o Unseen'
        <4>1. tail \in Seq(Units) /\ burst \in Seq(Units) /\ Unseen' \in Seq(Units)
          BY <1>3, <2>1
        <4>2. QED
          BY <4>1, Regroup, Zenon
      <3>2. tail \o burst \in Seq(Units) /\ Len(tail) <= Len(tail \o burst) /\ Len(tail) \in Nat
        BY <1>3
      <3>3. QED
        BY <3>1, <3>2
    <2>4. /\ tail' \in Seq(Units) /\ Len(tail') <= Len(tail \o burst)
          /\ \A i \in 1..Len(tail') : tail'[i] = (tail \o burst)[i + (Len(tail \o burst) - Len(tail'))]
      <3>1. PICK q \in Seq(Units) : q = tail \o burst
        BY <2>3
      <3>2. /\ LastUnits(q, 2) \in Seq(Units) /\ Len(LastUnits(q, 2)) <= Len(q)
            /\ \A i \in 1..Len(LastUnits(q, 2)) :
                  LastUnits(q, 2)[i] = q[i + (Len(q) - Len(LastUnits(q, 2)))]
        BY LastUnitsType
      <3>3. QED
        BY <2>2, <3>1, <3>2, Zenon
    <2>5. Ends(tail', tail \o burst)
      BY <2>4, Zenon DEF Ends
    <2>6. Coded((tail \o burst) \o Unseen', Len(tail), code, shaken)
      BY <1>2, <2>1, <2>3, Zenon DEF CodedOK
    <2>7. Coded(tail' \o Unseen', Len(tail'), code, shaken)
      BY <2>1, <2>3, <2>4, <2>5, <2>6, CodedShift, Zenon
    <2>8. QED
      BY <2>2, <2>7, Zenon DEF CodedOK
  <1>8. CASE UNCHANGED <<tail, burst, outq, pend, code, shaken>>
    <2>1. Unseen' = Unseen
      BY <1>8 DEF Unseen
    <2>2. QED
      BY <1>2, <1>8, <2>1, Zenon DEF CodedOK
  <1>9. CASE ReaderReady \/ ReaderEof \/ Over \/ \E j \in Calls : Call(j) \/ \E o \in {"read", "plain", "status"} : Begin(j, o)
    BY <1>8, <1>9 DEF ReaderReady, ReaderEof, Over, vars, Call, Write, WriteFails, Wait, Return, Begin
  <1>10. QED
    BY <1>1, <1>4, <1>5, <1>6, <1>7, <1>8, <1>9, Zenon DEF Next, Shell, Interrupt, Reader, vars, shellState, history

\* The marker that a lone probe is answered with is its own, its output before it.
LEMMA LoneAnswer ==
  ASSUME CInv, Publish, NEW k \in Calls, open \subseteq {k}, probe.pending, ~probe'.pending
  PROVE  /\ Says(probe'.code, k, code, shaken)
         /\ code[k] = k => k \in unread' \/ Taken(k)
  <1>1. TypeOK /\ CodedOK /\ OutputOK
    BY Zenon DEF CInv
  <1>2. /\ tail \in Seq(Units) /\ burst \in Seq(Units) /\ Unseen' \in Seq(Units)
        /\ Unseen = burst \o Unseen' /\ Len(tail) <= 2
    BY <1>1, FlowTypes, PublishFlow DEF TypeOK, StreamTypes, PrefixLen
  <1>r. tail \o (burst \o Unseen') = (tail \o burst) \o Unseen'
    <2>1. tail \in Seq(Units) /\ burst \in Seq(Units) /\ Unseen' \in Seq(Units)
      BY <1>2
    <2>2. QED
      BY <2>1, Regroup, Zenon
  <1>3. PICK w \in Seq(Units) : w = tail \o burst
    BY <1>2, ConcatProperties, Zenon
  <1>4. probe' = ScanWindow(probe, w)
    BY <1>3 DEF Publish
  <1>5. Markers(w) # {}
    BY <1>4 DEF ScanWindow
  <1>6. PICK m \in Markers(w) : m = Min(Markers(w))
    <2>1. Markers(w) \subseteq Nat
      BY DEF Markers
    <2>2. QED
      BY <1>5, <2>1, FirstPosition
  <1>7. /\ m \in Nat /\ m >= 1 /\ m + 3 <= Len(w)
        /\ w[m + 2][1] = "d" /\ w[m + 3][1] = "b"
    BY DEF Markers
  <1>8. probe'.code = w[m + 2][2]
    <2>1. probe' = [probe EXCEPT !.code = w[m + 2][2], !.doneSeq = probe.pendingSeq, !.pending = FALSE]
      BY <1>4, <1>5, <1>6 DEF ScanWindow
    <2>2. probe \in Probes
      BY <1>1 DEF TypeOK, ProbeTypes
    <2>3. QED
      BY <2>1, <2>2 DEF Probes
  <1>9. PICK j \in Calls : w[m + 3] = End(j)
    <2>1. w[m + 3] \in Units
      BY <1>7
    <2>2. QED
      BY <1>7, <2>1 DEF Units, End
  <1>10. In(burst, End(j))
    <2>1. m + 3 - Len(tail) \in DOMAIN burst /\ burst[m + 3 - Len(tail)] = w[m + 3]
      BY <1>2, <1>3, <1>7
    <2>2. QED
      BY <1>9, <2>1, Zenon DEF In
  <1>11. j = k
    <2>1. In(Unseen, End(j))
      BY <1>2, <1>10, ConcatIn, Zenon
    <2>2. j \in open
      BY <1>1, <2>1, Zenon DEF OutputOK, OutputOf
    <2>3. QED
      BY <2>2
  <1>12. Says(w[m + 2][2], k, code, shaken)
    <2>1. Coded(w \o Unseen', Len(tail), code, shaken)
      <3>1. tail \o (burst \o Unseen') = w \o Unseen'
        BY <1>3, <1>r, Zenon
      <3>2. QED
        BY <1>1, <1>2, <3>1, Zenon DEF CodedOK
    <2>2. /\ m + 3 \in DOMAIN (w \o Unseen') /\ (w \o Unseen')[m + 3] = w[m + 3]
          /\ (w \o Unseen')[m + 3 - 1] = w[m + 2] /\ m + 3 > 1
      <3>1. m + 3 \in 1..Len(w) /\ m + 2 \in 1..Len(w) /\ m + 3 - 1 = m + 2 /\ m + 3 > 1
        BY <1>7
      <3>2. /\ \A i \in 1..Len(w) : (w \o Unseen')[i] = w[i] /\ i \in DOMAIN (w \o Unseen')
        BY <1>2, ConcatAt
      <3>3. QED
        BY <3>1, <3>2, Zenon
    <2>3. m + 3 > Len(tail)
      BY <1>2, <1>7
    <2>4. QED
      BY <1>7, <1>9, <1>11, <2>1, <2>2, <2>3 DEF Coded
  <1>13. ASSUME code[k] = k PROVE k \in unread' \/ Taken(k)
    <2>1. OutputOf(k)
      BY <1>1, Zenon DEF OutputOK
    <2>2. In(Unseen, Output(k)) \/ k \in unread \/ Taken(k)
      BY <1>13, <2>1, Zenon DEF OutputOf
    <2>3. In(Unseen, Output(k)) => In(burst, Output(k))
      <3>1. Ahead(burst \o Unseen', Output(k), End(k))
        BY <1>2, <2>1, Zenon DEF OutputOf
      <3>2. ~(In(burst, End(k)) /\ In(Unseen', Output(k)))
        BY <1>2, <3>1, ConcatAhead, Zenon
      <3>3. In(Unseen, Output(k)) => In(burst, Output(k)) \/ In(Unseen', Output(k))
        BY <1>2, ConcatIn, Zenon
      <3>4. QED
        BY <1>10, <1>11, <3>2, <3>3, Zenon
    <2>4. unread' = unread \cup {i \in Calls : Contains(burst, Output(i))}
      BY DEF Publish
    <2>5. QED
      BY <1>2, <2>2, <2>3, <2>4, ContainsIn, Zenon
  <1>14. QED
    BY <1>8, <1>12, <1>13, Zenon


\* A send that met no other probe is answered by its own marker.
LEMMA AloneStep == CInv /\ [Next]_vars => AloneOK'
  <1>1. SUFFICES ASSUME CInv, [Next]_vars, NEW k \in Calls,
                        pc'[k] \in {"write", "wait"}, kind'[k] = "status", met'[k] = {}
                 PROVE  /\ open' \subseteq {k} /\ seqOf'[k] = probe'.pendingSeq
                        /\ probe'.pending => probe'.doneSeq < seqOf'[k]
                        /\ ~probe'.pending => /\ Says(probe'.code, k, code', shaken')
                                              /\ code'[k] = k => k \in unread' \/ Taken(k)'
    BY Zenon DEF AloneOK, AloneOf
  <1>2. AloneOf(k) /\ TraceOf(k) /\ TypeOK /\ CrowdOK
    BY <1>1, Zenon DEF CInv, AloneOK, TraceOK
  \* The facts before the step, when the call is under way by then.
  <1>3. ASSUME pc[k] \in {"write", "wait"}, kind[k] = "status", met[k] = {}
        PROVE  /\ open \subseteq {k} /\ seqOf[k] = probe.pendingSeq
               /\ probe.pending => probe.doneSeq < seqOf[k]
               /\ ~probe.pending => /\ Says(probe.code, k, code, shaken)
                                    /\ code[k] = k => k \in unread \/ Taken(k)
    BY <1>2, <1>3, Zenon DEF AloneOf
  <1>4. CASE UNCHANGED <<pc, kind, met, open, seqOf, probe, code, shaken, unread, reply>>
    <2>1. Taken(k)' <=> Taken(k)
      BY <1>2, <1>4, ErrorTakesNothing, Zenon
    <2>2. QED
      BY <1>1, <1>3, <1>4, <2>1, Zenon
  <1>5. CASE ShellReads \/ ShellPrints \/ ShellExits \/ ReaderDrains \/ ReaderReady \/ ReaderEof \/ Over
             \/ \E j \in Calls : Write(j)
    BY <1>4, <1>5 DEF ShellReads, ShellPrints, ShellExits, ReaderDrains, ReaderReady, ReaderEof, Over, vars, Write
  <1>6. CASE CommandEnds \/ InterruptCommand
    <2>1. UNCHANGED <<pc, kind, met, open, seqOf, probe, shaken, unread, reply>>
      BY <1>6 DEF CommandEnds, InterruptCommand
    <2>2. Taken(k)' <=> Taken(k)
      BY <1>2, <2>1, ErrorTakesNothing, Zenon
    <2>3. code[k] # NoCode => code'[k] = code[k]
      <3>1. run = k => code[k] = NoCode
        BY <1>2, Zenon DEF TraceOf
      <3>2. QED
        BY <1>2, <1>6, <3>1 DEF TypeOK, ShellTypes, CommandEnds, InterruptCommand
    <2>4. QED
      BY <1>1, <1>3, <2>1, <2>2, <2>3, Zenon DEF Says
  <1>s. CASE InterruptShell
    <2>1. /\ UNCHANGED <<pc, kind, met, seqOf, probe, code, unread, reply>>
          /\ open' \subseteq open /\ shaken \subseteq shaken'
      BY <1>2, <1>s, ShakeFlow, Zenon
    <2>2. Taken(k)' <=> Taken(k)
      BY <1>2, <2>1, ErrorTakesNothing, Zenon
    <2>3. Says(probe.code, k, code, shaken) => Says(probe.code, k, code, shaken')
      BY <2>1 DEF Says
    <2>4. QED
      BY <1>1, <1>3, <2>1, <2>2, <2>3, Zenon
  <1>7. CASE Publish
    <2>1. UNCHANGED <<pc, kind, met, seqOf, code, shaken, reply>> /\ open' \subseteq open /\ unread \subseteq unread'
      BY <1>7 DEF Publish
    <2>2. Taken(k)' <=> Taken(k)
      BY <1>2, <2>1, ErrorTakesNothing, Zenon
    <2>3. /\ open \subseteq {k} /\ seqOf[k] = probe.pendingSeq
          /\ probe.pending => probe.doneSeq < seqOf[k]
          /\ ~probe.pending => /\ Says(probe.code, k, code, shaken)
                               /\ code[k] = k => k \in unread \/ Taken(k)
      BY <1>1, <1>3, <2>1
    <2>4. probe'.pendingSeq = probe.pendingSeq /\ (probe'.pending \/ ~probe.pending => probe' = probe)
      <3>1. PICK w : probe' = ScanWindow(probe, w)
        BY <1>7 DEF Publish
      <3>2. probe \in Probes
        BY <1>2 DEF TypeOK, ProbeTypes
      <3>3. CASE ~probe.pending \/ Markers(w) = {}
        BY <3>1, <3>3 DEF ScanWindow
      <3>4. CASE probe.pending /\ Markers(w) # {}
        <4>1. probe' = [probe EXCEPT !.code = w[Min(Markers(w)) + 2][2], !.doneSeq = probe.pendingSeq,
                                     !.pending = FALSE]
          BY <3>1, <3>4 DEF ScanWindow
        <4>2. probe'.pendingSeq = probe.pendingSeq /\ probe'.pending = FALSE
          BY <3>2, <4>1 DEF Probes
        <4>3. QED
          BY <3>4, <4>2
      <3>5. QED
        BY <3>3, <3>4
    <2>5. CASE probe'.pending \/ ~probe.pending
      BY <2>1, <2>2, <2>3, <2>4, <2>5, Zenon
    <2>6. CASE ~probe'.pending /\ probe.pending
      <3>1. /\ Says(probe'.code, k, code, shaken)
            /\ code[k] = k => k \in unread' \/ Taken(k)
        BY <1>1, <1>7, <2>3, <2>6, LoneAnswer, Zenon
      <3>2. QED
        BY <2>1, <2>2, <2>3, <2>4, <2>6, <3>1, Zenon
    <2>7. QED
      BY <2>5, <2>6, Zenon
  <1>8. ASSUME NEW j \in Calls, WriteFails(j) \/ Wait(j)
        PROVE  /\ open' \subseteq {k} /\ seqOf'[k] = probe'.pendingSeq
               /\ probe'.pending => probe'.doneSeq < seqOf'[k]
               /\ ~probe'.pending => /\ Says(probe'.code, k, code', shaken')
                                     /\ code'[k] = k => k \in unread' \/ Taken(k)'
    <2>1. /\ UNCHANGED <<kind, met, seqOf, probe, code, shaken, unread>> /\ open' \subseteq open
          /\ pc[j] = "write"
          /\ pc' = [pc EXCEPT ![j] = "done"] \/ pc' = [pc EXCEPT ![j] = "wait"]
          /\ reply' = [reply EXCEPT ![j].error = TRUE] \/ reply' = reply
      BY <1>8 DEF WriteFails, Wait
    <2>2. pc[k] \in {"write", "wait"}
      BY <1>1, <1>2, <2>1 DEF TypeOK, CallTypes
    <2>3. Taken(k)' <=> Taken(k)
      BY <1>2, <2>1, ErrorTakesNothing, Zenon
    <2>4. QED
      BY <1>1, <1>3, <2>1, <2>2, <2>3, Zenon
  <1>9. ASSUME NEW j \in Calls, Return(j)
        PROVE  /\ open' \subseteq {k} /\ seqOf'[k] = probe'.pendingSeq
               /\ probe'.pending => probe'.doneSeq < seqOf'[k]
               /\ ~probe'.pending => /\ Says(probe'.code, k, code', shaken')
                                     /\ code'[k] = k => k \in unread' \/ Taken(k)'
    <2>1. /\ UNCHANGED <<kind, met, seqOf, probe, code, shaken, open>>
          /\ pc[j] = "wait" /\ pc' = [pc EXCEPT ![j] = "done"]
      BY <1>9 DEF Return
    <2>2. pc[k] \in {"write", "wait"}
      BY <1>1, <1>2, <2>1 DEF TypeOK, CallTypes
    <2>3. Taken(k)' <=> Taken(k) \/ k \in unread
      BY <1>2, <1>9, ReturnTakes
    <2>4. QED
      BY <1>1, <1>3, <2>1, <2>2, <2>3, Zenon
  <1>10. ASSUME NEW j \in Calls, NEW o \in {"read", "plain", "status"}, Begin(j, o)
         PROVE  /\ open' \subseteq {k} /\ seqOf'[k] = probe'.pendingSeq
                /\ probe'.pending => probe'.doneSeq < seqOf'[k]
                /\ ~probe'.pending => /\ Says(probe'.code, k, code', shaken')
                                      /\ code'[k] = k => k \in unread' \/ Taken(k)'
    <2>1. /\ UNCHANGED <<unread, code, shaken>> /\ pc[j] = "new" /\ kind' = [kind EXCEPT ![j] = o]
          /\ pc' = [pc EXCEPT ![j] = "done"] \/ pc' = [pc EXCEPT ![j] = "write"]
          /\ reply' = [reply EXCEPT ![j].error = TRUE] \/ reply' = reply
      BY <1>10 DEF Begin
    <2>2. Taken(k)' <=> Taken(k)
      BY <1>2, <2>1, ErrorTakesNothing, Zenon
    <2>3. CASE k # j
      <3>1. pc[k] \in {"write", "wait"} /\ kind[k] = "status"
        BY <1>1, <1>2, <2>1, <2>3 DEF TypeOK, CallTypes
      <3>2. UNCHANGED <<probe, seqOf, open, met>>
        <4>1. \/ UNCHANGED <<probe, seqOf, open, met>>
              \/ met' = [i \in Calls |-> IF i = j THEN open
                                         ELSE met[i] \cup (IF i \in Active THEN {j} ELSE {})]
          BY <1>10 DEF Begin
        <4>2. k \in Active
          BY <3>1 DEF Active
        <4>3. QED
          BY <1>1, <2>3, <4>1, <4>2
      <3>3. QED
        BY <1>1, <1>3, <2>1, <2>2, <3>1, <3>2, Zenon
    <2>4. CASE k = j
      <3>1. o = "status" /\ pc' = [pc EXCEPT ![j] = "write"]
        BY <1>1, <1>2, <2>1, <2>4 DEF TypeOK, CallTypes
      <3>2. ~(exited /\ o # "read")
        <4>1. pc \in [Calls -> {"new", "write", "wait", "done"}]
          BY <1>2 DEF TypeOK, CallTypes
        <4>2. exited /\ o # "read" => pc'[j] = "done"
          BY <1>10, <4>1 DEF Begin
        <4>3. QED
          BY <1>1, <2>4, <4>2
      <3>3. /\ probe' = Arm(probe) /\ seqOf' = [seqOf EXCEPT ![j] = probe'.seq] /\ open' = open \cup {j}
            /\ met' = [i \in Calls |-> IF i = j THEN open
                                       ELSE met[i] \cup (IF i \in Active THEN {j} ELSE {})]
        BY <1>10, <3>1, <3>2 DEF Begin
      <3>4. open = {}
        BY <1>1, <2>4, <3>3
      <3>5. /\ probe'.seq = probe.seq + 1 /\ probe'.pendingSeq = probe.seq + 1
            /\ probe'.doneSeq = probe.doneSeq /\ probe'.pending
        <4>1. probe' = [probe EXCEPT !.seq = probe.seq + 1, !.pendingSeq = probe.seq + 1, !.pending = TRUE]
          BY <3>3, Zenon DEF Arm
        <4>2. probe \in Probes
          BY <1>2 DEF TypeOK, ProbeTypes
        <4>3. QED
          BY <4>1, <4>2 DEF Probes
      <3>6. seqOf'[k] = probe'.seq
        BY <1>2, <2>4, <3>3 DEF TypeOK, ProbeTypes
      <3>7. probe.doneSeq < probe.seq + 1
        <4>1. probe \in Probes /\ probe.doneSeq <= probe.pendingSeq /\ probe.pendingSeq <= probe.seq
          BY <1>2 DEF TypeOK, ProbeTypes
        <4>2. probe.doneSeq \in Nat /\ probe.pendingSeq \in Nat /\ probe.seq \in Nat
          BY <4>1 DEF Probes
        <4>3. QED
          BY <4>1, <4>2
      <3>8. QED
        BY <2>4, <3>3, <3>4, <3>5, <3>6, <3>7
    <2>5. QED
      BY <2>3, <2>4, Zenon
  <1>11. QED
    BY <1>1, <1>s, <1>4, <1>5, <1>6, <1>7, <1>8, <1>9, <1>10, Zenon
    DEF Next, Shell, Interrupt, Reader, Call, vars, shellState, history

-----------------------------------------------------------------------------
(* The replies.                                                            *)

\* Calls under way meet.
LEMMA CrowdStep == CInv /\ [Next]_vars => CrowdOK'
  <1>1. SUFFICES ASSUME CInv, [Next]_vars PROVE CrowdOK'
    OBVIOUS
  <1>2. CrowdOK /\ TypeOK /\ TraceOK
    BY <1>1, Zenon DEF CInv
  <1>t. pc \in [Calls -> {"new", "write", "wait", "done"}] /\ crowd \in [Calls -> SUBSET Calls]
    BY <1>2 DEF TypeOK, CallTypes, ReplyTypes
  <1>a. \A i \in Calls : (i \in Active <=> pc[i] \in {"write", "wait"}) /\ (i \in Active' <=> pc'[i] \in {"write", "wait"})
    BY DEF Active
  <1>3. CASE UNCHANGED <<pc, reply, crowd>>
    BY <1>2, <1>3 DEF CrowdOK, Active
  <1>4. CASE Shell \/ ShellExits \/ Interrupt \/ Reader \/ Over
    BY <1>3, <1>4 DEF Shell, ShellReads, ShellPrints, CommandEnds, ShellExits, Interrupt, InterruptCommand, InterruptShell,
                      Reader, ReaderDrains, ReaderReady, Publish, ReaderEof, Over, vars
  <1>5. ASSUME NEW j \in Calls, Write(j) PROVE CrowdOK'
    BY <1>3, <1>5 DEF Write
  <1>6. ASSUME NEW j \in Calls, WriteFails(j) \/ Wait(j) PROVE CrowdOK'
    <2>1. /\ pc[j] = "write" /\ crowd' = crowd
          /\ pc' = [pc EXCEPT ![j] = "done"] \/ (pc' = [pc EXCEPT ![j] = "wait"] /\ reply' = reply)
          /\ reply' = [reply EXCEPT ![j].error = TRUE] \/ reply' = reply
      BY <1>6 DEF WriteFails, Wait
    <2>2. \A i \in Calls : reply'[i].got = reply[i].got /\ reply'[i].status = reply[i].status
      BY <1>2, <2>1, ErrorTakesNothing, Zenon
    <2>3. \A i \in Calls : (pc'[i] # "done" => pc[i] # "done") /\ (i \in Active' => i \in Active)
      BY <1>a, <1>t, <2>1
    <2>4. QED
      BY <1>2, <2>1, <2>2, <2>3, Zenon DEF CrowdOK
  <1>7. ASSUME NEW j \in Calls, Return(j) PROVE CrowdOK'
    <2>1. pc[j] = "wait" /\ crowd' = crowd /\ pc' = [pc EXCEPT ![j] = "done"]
      BY <1>7 DEF Return
    <2>2. reply'[j].got = unread /\ \A i \in Calls : i # j => reply'[i] = reply[i]
      BY <1>2, <1>7, ReturnTakes
    <2>3. /\ \A i \in Calls : (pc'[i] # "done" => pc[i] # "done") /\ (i \in Active' => i \in Active /\ i # j)
          /\ pc'[j] = "done" /\ j \in Active
      BY <1>a, <1>t, <2>1
    <2>4. \A k \in Calls : pc'[k] # "done" => reply'[k].status = NoCode /\ reply'[k].got = {}
      BY <1>2, <2>2, <2>3, Zenon DEF CrowdOK
    <2>5. \A i, k \in Calls : i # k /\ k \in Active' => /\ i \in Active' => i \in crowd'[k]
                                                        /\ k \in reply'[i].got => i \in crowd'[k]
      BY <1>2, <2>1, <2>2, <2>3, Zenon DEF CrowdOK
    <2>6. QED
      BY <2>4, <2>5, Zenon DEF CrowdOK
  <1>8. ASSUME NEW j \in Calls, NEW o \in {"read", "plain", "status"}, Begin(j, o) PROVE CrowdOK'
    <2>1. /\ pc[j] = "new"
          /\ \/ pc' = [pc EXCEPT ![j] = "done"] /\ reply' = [reply EXCEPT ![j].error = TRUE] /\ crowd' = crowd
             \/ /\ pc' = [pc EXCEPT ![j] = "write"] /\ reply' = reply
                /\ crowd' = [i \in Calls |-> IF i = j THEN Active
                                             ELSE crowd[i] \cup (IF i \in Active THEN {j} ELSE {})]
      BY <1>8 DEF Begin
    <2>2. \A i \in Calls : reply'[i].got = reply[i].got /\ reply'[i].status = reply[i].status
      BY <1>2, <2>1, ErrorTakesNothing, Zenon
    <2>3. \A i \in Calls : (pc'[i] # "done" => pc[i] # "done") /\ (i # j => (i \in Active' <=> i \in Active))
      BY <1>a, <1>t, <2>1
    <2>4. reply[j].got = {} /\ j \notin Active /\ \A i \in Calls : j \notin reply[i].got
      <3>1. ~Taken(j)
        BY <1>2, <2>1, Zenon DEF TraceOK, TraceOf, Unheard
      <3>2. reply[j].got = {} /\ j \notin Active
        BY <1>2, <1>a, <2>1 DEF CrowdOK
      <3>3. QED
        BY <3>1, <3>2, Zenon DEF Taken
    <2>5. \A k \in Calls : pc'[k] # "done" => reply'[k].status = NoCode /\ reply'[k].got = {}
      BY <1>2, <2>2, <2>3, Zenon DEF CrowdOK
    <2>6. ASSUME NEW i \in Calls, NEW k \in Calls, i # k, k \in Active'
          PROVE  /\ i \in Active' => i \in crowd'[k]
                 /\ k \in reply'[i].got => i \in crowd'[k]
      <3>1. CASE crowd' = crowd /\ pc' = [pc EXCEPT ![j] = "done"]
        <4>1. j \notin Active'
          BY <1>a, <1>t, <3>1
        <4>2. QED
          BY <1>2, <2>2, <2>3, <2>6, <3>1, <4>1, Zenon DEF CrowdOK
      <3>2. CASE crowd' = [n \in Calls |-> IF n = j THEN Active
                                           ELSE crowd[n] \cup (IF n \in Active THEN {j} ELSE {})]
        <4>1. crowd'[k] = IF k = j THEN Active ELSE crowd[k] \cup (IF k \in Active THEN {j} ELSE {})
          BY <3>2
        <4>2. CASE k = j
          BY <2>2, <2>3, <2>4, <2>6, <4>1, <4>2, Zenon
        <4>3. CASE k # j
          <5>1. k \in Active /\ crowd'[k] = crowd[k] \cup {j}
            BY <2>3, <2>6, <4>1, <4>3
          <5>2. (i \in Active /\ i # j => i \in crowd[k]) /\ (k \in reply[i].got => i \in crowd[k])
            BY <1>2, <2>6, <5>1, Zenon DEF CrowdOK
          <5>3. QED
            BY <2>2, <2>3, <5>1, <5>2
        <4>4. QED
          BY <4>2, <4>3
      <3>3. QED
        BY <2>1, <3>1, <3>2, Zenon
    <2>7. QED
      BY <2>5, <2>6, Zenon DEF CrowdOK
  <1>9. QED
    BY <1>1, <1>3, <1>4, <1>5, <1>6, <1>7, <1>8 DEF Next, Call, vars

\* What a call returns when it is its turn is its own.
LEMMA OwnReplyStep == CInv /\ [Next]_vars => OwnReply'
  <1>1. SUFFICES ASSUME CInv, [Next]_vars PROVE OwnReply'
    OBVIOUS
  <1>2. OwnReply /\ CrowdOK /\ TypeOK /\ TraceOK /\ OutputOK /\ AloneOK
    BY <1>1, Zenon DEF CInv
  <1>3. CASE UNCHANGED <<reply, met, code, shaken, crowd, unread>>
    BY <1>2, <1>3 DEF OwnReply, OwnStatus, OwnOutput, DeliveredOnce
  <1>4. CASE ShellReads \/ ShellPrints \/ ShellExits \/ ReaderDrains \/ ReaderReady \/ ReaderEof \/ Over
             \/ \E j \in Calls : Write(j) \/ Wait(j)
    BY <1>3, <1>4 DEF ShellReads, ShellPrints, ShellExits, ReaderDrains, ReaderReady, ReaderEof, Over, vars, Write, Wait
  <1>5. CASE CommandEnds \/ InterruptCommand
    <2>1. UNCHANGED <<reply, met, crowd, unread, shaken>>
      BY <1>5 DEF CommandEnds, InterruptCommand
    <2>2. ASSUME NEW k \in Calls, code[k] # NoCode PROVE code'[k] = code[k]
      <3>1. run # k
        BY <1>2, <2>2, Zenon DEF TraceOK, TraceOf
      <3>2. QED
        BY <1>2, <1>5, <3>1 DEF TypeOK, ShellTypes, CommandEnds, InterruptCommand
    <2>3. OwnStatus'
      BY <1>2, <2>1, <2>2, Zenon DEF OwnReply, OwnStatus
    <2>4. OwnOutput' /\ DeliveredOnce'
      BY <1>2, <2>1, Zenon DEF OwnReply, OwnOutput, DeliveredOnce
    <2>5. QED
      BY <2>3, <2>4, Zenon DEF OwnReply
  <1>s. CASE InterruptShell
    <2>1. UNCHANGED <<reply, met, code, crowd, unread>> /\ shaken \subseteq shaken'
      BY <1>2, <1>s, ShakeFlow, Zenon
    <2>2. OwnStatus'
      BY <1>2, <2>1 DEF OwnReply, OwnStatus
    <2>3. OwnOutput' /\ DeliveredOnce'
      BY <1>2, <2>1, Zenon DEF OwnReply, OwnOutput, DeliveredOnce
    <2>4. QED
      BY <2>2, <2>3, Zenon DEF OwnReply
  <1>6. CASE Publish
    <2>1. UNCHANGED <<reply, met, code, shaken, crowd>>
      BY <1>6 DEF Publish
    <2>2. OwnStatus' /\ OwnOutput'
      BY <1>2, <2>1, Zenon DEF OwnReply, OwnStatus, OwnOutput
    <2>3. ASSUME NEW k \in Calls, NEW i \in Calls, i \in reply[k].got PROVE i \notin unread'
      <3>1. Taken(i)
        BY <2>3, Zenon DEF Taken
      <3>2. i \notin unread
        BY <1>2, <2>3 DEF OwnReply, DeliveredOnce
      <3>3. ~In(Unseen, Output(i))
        BY <1>2, <3>1, Zenon DEF OutputOK, OutputOf
      <3>4. Unseen = burst \o Unseen' /\ Unseen' \in Seq(Units) /\ burst \in Seq(Units)
        BY <1>2, <1>6, PublishFlow, FlowTypes
      <3>5. ~In(burst, Output(i))
        BY <3>3, <3>4, ConcatIn, Zenon
      <3>6. unread' = unread \cup {n \in Calls : Contains(burst, Output(n))}
        BY <1>6 DEF Publish
      <3>7. QED
        BY <3>2, <3>4, <3>5, <3>6, ContainsIn, Zenon
    <2>4. \A k \in Calls : reply[k].got \subseteq Calls
      BY <1>2 DEF TypeOK, ReplyTypes, Replies
    <2>5. DeliveredOnce'
      <3>1. \A k \in Calls : reply'[k].got \cap unread' = {}
        BY <2>1, <2>3, <2>4, Zenon
      <3>2. \A j, k \in Calls : j # k => reply'[j].got \cap reply'[k].got = {}
        BY <1>2, <2>1, Zenon DEF OwnReply, DeliveredOnce
      <3>3. QED
        BY <3>1, <3>2, Zenon DEF DeliveredOnce
    <2>6. QED
      BY <2>2, <2>5, Zenon DEF OwnReply
  <1>7. ASSUME NEW j \in Calls, WriteFails(j) PROVE OwnReply'
    <2>1. UNCHANGED <<met, code, shaken, crowd, unread>> /\ reply' = [reply EXCEPT ![j].error = TRUE]
      BY <1>7 DEF WriteFails
    <2>2. \A i \in Calls : reply'[i].got = reply[i].got /\ reply'[i].status = reply[i].status
      BY <1>2, <2>1, ErrorTakesNothing, Zenon
    <2>3. OwnStatus' /\ DeliveredOnce'
      BY <1>2, <2>1, <2>2, Zenon DEF OwnReply, OwnStatus, DeliveredOnce
    <2>4. OwnOutput'
      <3>1. crowd \in [Calls -> SUBSET Calls]
        BY <1>2 DEF TypeOK, ReplyTypes
      <3>2. \A k \in Calls : \A i \in crowd[k] : i \in Calls
        BY <3>1
      <3>3. QED
        BY <1>2, <2>1, <2>2, <3>2, Zenon DEF OwnReply, OwnOutput
    <2>5. QED
      BY <2>3, <2>4, Zenon DEF OwnReply
  <1>8. ASSUME NEW j \in Calls, NEW o \in {"read", "plain", "status"}, Begin(j, o) PROVE OwnReply'
    <2>1. /\ UNCHANGED <<code, shaken, unread>> /\ pc[j] = "new"
          /\ reply' = [reply EXCEPT ![j].error = TRUE] \/ reply' = reply
          /\ \/ met' = met
             \/ met' = [i \in Calls |-> IF i = j THEN open
                                        ELSE met[i] \cup (IF i \in Active THEN {j} ELSE {})]
          /\ \/ crowd' = crowd
             \/ crowd' = [i \in Calls |-> IF i = j THEN Active
                                          ELSE crowd[i] \cup (IF i \in Active THEN {j} ELSE {})]
      BY <1>8 DEF Begin
    <2>2. \A i \in Calls : reply'[i].got = reply[i].got /\ reply'[i].status = reply[i].status
      BY <1>2, <2>1, ErrorTakesNothing, Zenon
    <2>3. ASSUME NEW k \in Calls, reply[k].status # NoCode PROVE met'[k] = met[k] /\ crowd'[k] = crowd[k]
      <3>1. pc[k] = "done"
        BY <1>2, <2>3 DEF CrowdOK
      <3>2. k # j /\ k \notin Active
        BY <2>1, <3>1 DEF Active
      <3>3. met \in [Calls -> SUBSET Calls] /\ crowd \in [Calls -> SUBSET Calls]
        BY <1>2 DEF TypeOK, ReplyTypes
      <3>4. met'[k] = met[k]
        <4>1. \/ met' = met
              \/ met' = [i \in Calls |-> IF i = j THEN open
                                         ELSE met[i] \cup (IF i \in Active THEN {j} ELSE {})]
          BY <2>1
        <4>2. QED
          BY <3>2, <3>3, <4>1
      <3>5. crowd'[k] = crowd[k]
        <4>1. \/ crowd' = crowd
              \/ crowd' = [i \in Calls |-> IF i = j THEN Active
                                           ELSE crowd[i] \cup (IF i \in Active THEN {j} ELSE {})]
          BY <2>1
        <4>2. QED
          BY <3>2, <3>3, <4>1
      <3>6. QED
        BY <3>4, <3>5
    <2>4. OwnStatus' /\ DeliveredOnce'
      BY <1>2, <2>1, <2>2, <2>3, Zenon DEF OwnReply, OwnStatus, DeliveredOnce
    <2>5. OwnOutput'
      <3>1. SUFFICES ASSUME NEW k \in Calls, reply'[k].status = k, met'[k] = {}
                     PROVE  k \in reply'[k].got \/ \E i \in crowd'[k] : k \in reply'[i].got
        BY Zenon DEF OwnOutput
      <3>2. k # NoCode /\ k # Interrupted
        BY SizesAssumption DEF Calls, NoCode, Interrupted
      <3>3. met[k] = {} /\ reply[k].status = k /\ crowd'[k] = crowd[k]
        BY <2>2, <2>3, <3>1, <3>2, Zenon
      <3>4. k \in reply[k].got \/ \E i \in crowd[k] : k \in reply[i].got
        BY <1>2, <3>3, Zenon DEF OwnReply, OwnOutput
      <3>5. \A i \in crowd[k] : i \in Calls
        BY <1>2 DEF TypeOK, ReplyTypes
      <3>6. QED
        BY <2>2, <3>3, <3>4, <3>5, Zenon
    <2>6. QED
      BY <2>4, <2>5, Zenon DEF OwnReply
  <1>9. ASSUME NEW j \in Calls, Return(j) PROVE OwnReply'
    <2>1. UNCHANGED <<met, code, shaken, crowd>> /\ pc[j] = "wait"
      BY <1>9 DEF Return
    <2>2. /\ unread' = {} /\ reply'[j].got = unread /\ reply'[j].status = StatusOf(j)
          /\ reply[j].got = {}
          /\ \A k \in Calls : k # j => reply'[k] = reply[k]
      BY <1>2, <1>9, ReturnTakes
    \* A status that a lone call returns is its command's, and the output has been published.
    <2>3. ASSUME StatusOf(j) # NoCode, met[j] = {}
          PROVE  Says(StatusOf(j), j, code, shaken) /\ (code[j] = j => j \in unread \/ Taken(j))
      <3>1. kind[j] = "status" /\ probe.doneSeq >= seqOf[j] /\ StatusOf(j) = probe.code
        BY <2>3 DEF StatusOf
      <3>2. /\ probe.pending => probe.doneSeq < seqOf[j]
            /\ ~probe.pending => /\ Says(probe.code, j, code, shaken)
                                 /\ code[j] = j => j \in unread \/ Taken(j)
        BY <1>2, <2>1, <2>3, <3>1, Zenon DEF AloneOK, AloneOf
      <3>3. probe.doneSeq \in Nat /\ seqOf[j] \in Nat
        BY <1>2 DEF TypeOK, ProbeTypes, Probes
      <3>4. ~probe.pending
        BY <3>1, <3>2, <3>3
      <3>5. QED
        BY <3>1, <3>2, <3>4, Zenon
    <2>4. OwnStatus'
      <3>1. SUFFICES ASSUME NEW k \in Calls, reply'[k].status # NoCode, met'[k] = {}
                     PROVE  \/ reply'[k].status = code'[k]
                            \/ reply'[k].status = Interrupted /\ k \in shaken'
        BY Zenon DEF OwnStatus
      <3>2. CASE k = j
        BY <2>1, <2>2, <2>3, <3>1, <3>2, Zenon DEF Says
      <3>3. CASE k # j
        BY <1>2, <2>1, <2>2, <3>1, <3>3, Zenon DEF OwnReply, OwnStatus
      <3>4. QED
        BY <3>2, <3>3, Zenon
    <2>5. OwnOutput'
      <3>1. SUFFICES ASSUME NEW k \in Calls, reply'[k].status = k, met'[k] = {}
                     PROVE  k \in reply'[k].got \/ \E i \in crowd'[k] : k \in reply'[i].got
        BY Zenon DEF OwnOutput
      <3>2. k # NoCode /\ k # Interrupted
        BY SizesAssumption DEF Calls, NoCode, Interrupted
      <3>3. CASE k = j
        <4>1. k \in unread \/ Taken(k)
          BY <2>1, <2>2, <2>3, <3>1, <3>2, <3>3, Zenon DEF Says
        <4>2. ASSUME Taken(k) PROVE \E i \in crowd[k] : k \in reply'[i].got
          <5>1. PICK i \in Calls : k \in reply[i].got
            BY <4>2, Zenon DEF Taken
          <5>2. i # j
            BY <2>2, <5>1
          <5>3. k \in Active
            BY <2>1, <3>3 DEF Active
          <5>4. i \in crowd[k]
            BY <1>2, <3>3, <5>1, <5>2, <5>3, Zenon DEF CrowdOK
          <5>5. reply'[i] = reply[i]
            BY <2>2, <5>2, Zenon
          <5>6. QED
            BY <5>1, <5>4, <5>5, Zenon
        <4>3. QED
          BY <2>1, <2>2, <3>3, <4>1, <4>2, Zenon
      <3>4. CASE k # j
        <4>1. reply[k].status = k /\ reply'[k] = reply[k]
          BY <2>2, <3>1, <3>4, Zenon
        <4>2. k \in reply[k].got \/ \E i \in crowd[k] : k \in reply[i].got
          BY <1>2, <2>1, <3>1, <4>1, Zenon DEF OwnReply, OwnOutput
        <4>3. \A i \in crowd[k] : i \in Calls
          BY <1>2 DEF TypeOK, ReplyTypes
        <4>4. \A i \in Calls : k \in reply[i].got => i # j /\ reply'[i] = reply[i]
          BY <2>2
        <4>5. QED
          BY <2>1, <4>1, <4>2, <4>3, <4>4, Zenon
      <3>5. QED
        BY <3>3, <3>4, Zenon
    <2>6. DeliveredOnce'
      <3>1. \A k \in Calls : reply'[k].got \cap unread' = {}
        BY <2>2
      <3>2. ASSUME NEW i \in Calls, NEW k \in Calls, i # k PROVE reply'[i].got \cap reply'[k].got = {}
        <4>1. reply[i].got \cap reply[k].got = {} /\ reply[i].got \cap unread = {} /\ reply[k].got \cap unread = {}
          BY <1>2, <3>2, Zenon DEF OwnReply, DeliveredOnce
        <4>2. CASE i # j /\ k # j
          BY <2>2, <4>1, <4>2
        <4>3. CASE i = j
          BY <2>2, <3>2, <4>1, <4>3
        <4>4. CASE k = j
          BY <2>2, <3>2, <4>1, <4>4
        <4>5. QED
          BY <4>2, <4>3, <4>4
      <3>3. QED
        BY <3>1, <3>2, Zenon DEF DeliveredOnce
    <2>7. QED
      BY <2>4, <2>5, <2>6, Zenon DEF OwnReply
  <1>10. QED
    BY <1>1, <1>s, <1>3, <1>4, <1>5, <1>6, <1>7, <1>8, <1>9, Zenon
    DEF Next, Shell, Interrupt, Reader, Call, vars, shellState, history

-----------------------------------------------------------------------------
(* What a scan overlooks.                                                  *)

\* The last units are the same with or without something in front.
LEMMA LastOfEnd ==
  ASSUME NEW v \in Seq(Units), NEW w \in Seq(Units), NEW n \in Nat, NEW d \in Nat,
         Len(w) = Len(v) + d, Ends(v, w), d = 0 \/ Len(v) >= n
  PROVE  LastUnits(v, n) = LastUnits(w, n)
  <1>1. PICK p \in Seq(Units), q \in Seq(Units) : p = LastUnits(v, n) /\ q = LastUnits(w, n)
    BY LastUnitsType, Zenon
  <1>2. /\ Len(p) = (IF Len(v) > n THEN n ELSE Len(v))
        /\ \A i \in 1..Len(p) : p[i] = v[i + (Len(v) - Len(p))]
    BY <1>1, LastUnitsType, Zenon
  <1>3. /\ Len(q) = (IF Len(w) > n THEN n ELSE Len(w))
        /\ \A i \in 1..Len(q) : q[i] = w[i + (Len(w) - Len(q))]
    BY <1>1, LastUnitsType, Zenon
  <1>4. Len(p) = Len(q) /\ Len(p) <= Len(v) /\ Len(v) \in Nat /\ Len(w) \in Nat /\ Len(p) \in Nat
    <2>1. Len(v) \in Nat /\ Len(w) \in Nat
      OBVIOUS
    <2>2. Len(p) = (IF Len(v) > n THEN n ELSE Len(v)) /\ Len(q) = (IF Len(w) > n THEN n ELSE Len(w))
      BY <1>2, <1>3
    <2>3. QED
      BY <2>1, <2>2
  <1>5. ASSUME NEW i \in 1..Len(p) PROVE p[i] = q[i]
    <2>1. p[i] = v[i + (Len(v) - Len(p))]
      BY <1>2
    <2>2. i + (Len(v) - Len(p)) \in 1..Len(v)
      BY <1>4
    <2>3. v[i + (Len(v) - Len(p))] = w[i + (Len(v) - Len(p)) + (Len(w) - Len(v))]
      BY <2>2, Zenon DEF Ends
    <2>4. i + (Len(v) - Len(p)) + (Len(w) - Len(v)) = i + (Len(w) - Len(q))
      BY <1>4
    <2>5. i \in 1..Len(q)
      BY <1>4
    <2>6. q[i] = w[i + (Len(w) - Len(q))]
      BY <1>3, <2>5, Zenon
    <2>7. QED
      BY <2>1, <2>3, <2>4, <2>6
  <1>6. p = q
    BY <1>4, <1>5, SeqEqual
  <1>7. QED
    BY <1>1, <1>6

\* A marker that is not seen from a later place on begins before it.
LEMMA MarkerShift ==
  ASSUME NEW v \in Seq(Units), NEW w \in Seq(Units), NEW d \in Nat, Len(w) = Len(v) + d, Ends(v, w),
         NEW i \in Markers(w), Markers(v) = {}
  PROVE  i <= d
  <1>1. /\ i \in Int /\ i >= 1 /\ i + 3 <= Len(w) /\ Len(v) \in Nat /\ Len(w) \in Nat
        /\ w[i][1] = "p" /\ w[i + 1][1] = "q" /\ w[i + 2][1] = "d" /\ w[i + 3][1] = "b"
    BY DEF Markers
  <1>2. SUFFICES ASSUME i > d PROVE FALSE
    BY <1>1
  <1>3. PICK m \in Int : m = i - d
    BY <1>1
  <1>4. /\ m >= 1 /\ m + 3 <= Len(v)
        /\ m + (Len(w) - Len(v)) = i /\ m + 1 + (Len(w) - Len(v)) = i + 1
        /\ m + 2 + (Len(w) - Len(v)) = i + 2 /\ m + 3 + (Len(w) - Len(v)) = i + 3
    BY <1>1, <1>2, <1>3
  <1>5. m \in 1..Len(v) /\ m + 1 \in 1..Len(v) /\ m + 2 \in 1..Len(v) /\ m + 3 \in 1..Len(v)
    BY <1>1, <1>4
  <1>6. v[m] = w[i] /\ v[m + 1] = w[i + 1] /\ v[m + 2] = w[i + 2] /\ v[m + 3] = w[i + 3]
    BY <1>4, <1>5, Zenon DEF Ends
  <1>7. m \in 1..(Len(v) - 3)
    BY <1>1, <1>4
  <1>8. m \in Markers(v)
    BY <1>1, <1>6, <1>7, Zenon DEF Markers
  <1>9. QED
    BY <1>8

\* What is added behind two sequences of which one ends the other.
LEMMA EndsMore ==
  ASSUME NEW t \in Seq(Units), NEW r \in Seq(Units), NEW b \in Seq(Units), Len(t) <= Len(r), Ends(t, r)
  PROVE  Ends(t \o b, r \o b) /\ Len(r \o b) = Len(t \o b) + (Len(r) - Len(t))
  <1>1. PICK d \in Nat : d = Len(r) - Len(t)
    OBVIOUS
  <1>2. /\ Len(t) \in Nat /\ Len(r) \in Nat /\ Len(b) \in Nat /\ Len(r) = Len(t) + d
        /\ Len(t \o b) = Len(t) + Len(b) /\ Len(r \o b) = Len(r) + Len(b)
    BY <1>1
  <1>3. ASSUME NEW i \in 1..(Len(t) + Len(b)) PROVE (t \o b)[i] = (r \o b)[i + d]
    <2>1. CASE i <= Len(t)
      <3>1. i \in 1..Len(t) /\ i + d \in 1..Len(r)
        BY <1>2, <2>1
      <3>2. (t \o b)[i] = t[i] /\ (r \o b)[i + d] = r[i + d]
        BY <3>1, ConcatAt
      <3>3. QED
        BY <1>1, <3>1, <3>2, Zenon DEF Ends
    <2>2. CASE i > Len(t)
      <3>1. /\ i \in Int /\ i > Len(t) /\ i <= Len(t) + Len(b)
            /\ i + d \in Int /\ i + d > Len(r) /\ i + d <= Len(r) + Len(b) /\ i + d - Len(r) = i - Len(t)
        BY <1>2, <2>2
      <3>2. (t \o b)[i] = b[i - Len(t)]
        BY <3>1, ConcatAt
      <3>3. (r \o b)[i + d] = b[i + d - Len(r)]
        BY <3>1, ConcatAt
      <3>4. QED
        BY <3>1, <3>2, <3>3
    <2>3. i <= Len(t) \/ i > Len(t)
      BY <1>2
    <2>4. QED
      BY <2>1, <2>2, <2>3, Zenon
  <1>4. Len(r \o b) - Len(t \o b) = d /\ Len(r \o b) = Len(t \o b) + (Len(r) - Len(t))
    BY <1>1, <1>2
  <1>5. Ends(t \o b, r \o b)
    BY <1>2, <1>3, <1>4, Zenon DEF Ends
  <1>6. QED
    BY <1>4, <1>5

\* What LastUnits returns is the end of its argument.
LEMMA LastEnds ==
  ASSUME NEW r \in Seq(Units), NEW n \in Nat
  PROVE  /\ LastUnits(r, n) \in Seq(Units) /\ Ends(LastUnits(r, n), r)
         /\ Len(LastUnits(r, n)) = IF Len(r) > n THEN n ELSE Len(r)
  <1>1. /\ LastUnits(r, n) \in Seq(Units)
        /\ Len(LastUnits(r, n)) = IF Len(r) > n THEN n ELSE Len(r)
        /\ \A i \in 1..Len(LastUnits(r, n)) :
               LastUnits(r, n)[i] = r[i + (Len(r) - Len(LastUnits(r, n)))]
    BY LastUnitsType, Zenon
  <1>2. QED
    BY <1>1, Zenon DEF Ends

\* The window v that is scanned ends the one that would miss nothing, w, and is at
\* most one unit shorter, after a history r that is full.
Behind(v, w, r) == \E d \in Nat : /\ Len(w) = Len(v) + d /\ Ends(v, w)
                                  /\ d = 0 \/ (d = 1 /\ Len(r) = 3 /\ Len(v) >= 2)

\* scan_tail and a burst make such a window.
LEMMA WindowEnds ==
  ASSUME NEW r \in Seq(Units), NEW b \in Seq(Units), Len(r) <= 3
  PROVE  Behind(LastUnits(r, 2) \o b, r \o b, r)
  <1>1. 2 \in Nat
    OBVIOUS
  <1>2. PICK t \in Seq(Units) : /\ t = LastUnits(r, 2) /\ Ends(t, r)
                                /\ Len(t) = IF Len(r) > 2 THEN 2 ELSE Len(r)
    BY <1>1, LastEnds, Zenon
  <1>3. PICK m \in Nat, n \in Nat, e \in Nat : m = Len(r) /\ n = Len(t) /\ e = Len(b)
    OBVIOUS
  <1>4. m <= 3 /\ n = IF m > 2 THEN 2 ELSE m
    BY <1>2, <1>3, Zenon
  <1>5. PICK d \in Nat : d = m - n
    BY <1>4
  <1>6. n <= m /\ (d = 0 \/ (d = 1 /\ m = 3 /\ n + e >= 2))
    BY <1>4, <1>5
  <1>7. Ends(t \o b, r \o b) /\ Len(r \o b) = Len(t \o b) + (Len(r) - Len(t))
    BY <1>2, <1>3, <1>6, EndsMore, Zenon
  <1>8. Len(t \o b) = n + e
    BY <1>3, ConcatProperties, Zenon
  <1>9. /\ Len(r \o b) = Len(t \o b) + d
        /\ d = 0 \/ (d = 1 /\ Len(r) = 3 /\ Len(t \o b) >= 2)
    BY <1>3, <1>5, <1>6, <1>7, <1>8, Zenon
  <1>10. Behind(t \o b, r \o b, r)
    BY <1>7, <1>9, Zenon DEF Behind
  <1>11. QED
    BY <1>2, <1>10, Zenon

\* The last two units are the last two of the last three.
LEMMA LastOfThree ==
  ASSUME NEW w \in Seq(Units)
  PROVE  LastUnits(LastUnits(w, 3), 2) = LastUnits(w, 2)
  <1>1. 2 \in Nat /\ 3 \in Nat
    OBVIOUS
  <1>2. PICK l \in Seq(Units) : /\ l = LastUnits(w, 3) /\ Ends(l, w)
                                /\ Len(l) = IF Len(w) > 3 THEN 3 ELSE Len(w)
    BY <1>1, LastEnds, Zenon
  <1>3. PICK e \in Nat : Len(w) = Len(l) + e /\ (e = 0 \/ Len(l) >= 2)
    <2>1. PICK m \in Nat, n \in Nat : m = Len(w) /\ n = Len(l)
      OBVIOUS
    <2>2. n = IF m > 3 THEN 3 ELSE m
      BY <1>2, <2>1, Zenon
    <2>3. PICK e \in Nat : e = m - n
      BY <2>2
    <2>4. m = n + e /\ (e = 0 \/ n >= 2)
      BY <2>2, <2>3
    <2>5. QED
      BY <2>1, <2>4, Zenon
  <1>4. Ends(l, w)
    BY <1>2
  <1>5. LastUnits(l, 2) = LastUnits(w, 2)
    BY <1>1, <1>3, <1>4, LastOfEnd, Zenon
  <1>6. QED
    BY <1>2, <1>5

\* The tail that is kept of the scanned window is the end of the last units published.
LEMMA TailKept ==
  ASSUME NEW v \in Seq(Units), NEW w \in Seq(Units), NEW d \in Nat,
         Len(w) = Len(v) + d, Ends(v, w), d = 0 \/ Len(v) >= 2
  PROVE  LastUnits(v, 2) = LastUnits(LastUnits(w, 3), 2)
  <1>1. 2 \in Nat
    OBVIOUS
  <1>2. LastUnits(v, 2) = LastUnits(w, 2)
    BY <1>1, LastOfEnd, Zenon
  <1>3. QED
    BY <1>2, LastOfThree, Zenon

\* A burst is scanned with enough of the ones before, but for one unit.
LEMMA ScanStep == TypeOK /\ ScanOK /\ [Next]_vars => ScanOK'
  <1>1. SUFFICES ASSUME TypeOK, ScanOK, [Next]_vars PROVE ScanOK'
    OBVIOUS
  <1>2. CASE UNCHANGED <<seen, tail>>
    BY <1>1, <1>2 DEF ScanOK
  <1>3. CASE Shell \/ ShellExits \/ Interrupt \/ ReaderDrains \/ ReaderReady \/ ReaderEof \/ Over
    BY <1>2, <1>3 DEF Shell, ShellReads, ShellPrints, CommandEnds, ShellExits, Interrupt, InterruptCommand, InterruptShell,
                      ReaderDrains, ReaderReady, ReaderEof, Over, vars
  <1>4. ASSUME NEW k \in Calls, Call(k) \/ \E o \in {"read", "plain", "status"} : Begin(k, o)
        PROVE  ScanOK'
    BY <1>2, <1>4 DEF Call, Write, WriteFails, Wait, Return, Begin
  <1>5. CASE Publish
    <2>1. PICK r \in Seq(Units), b \in Seq(Units), t \in Seq(Units) :
             r = seen.recent /\ b = burst /\ t = tail /\ Len(r) <= 3 /\ t = LastUnits(r, 2)
      BY <1>1, FlowTypes DEF ScanOK, PrefixLen
    <2>2. PICK w \in Seq(Units) : w = r \o b
      BY ConcatProperties, Zenon
    <2>3. PICK v \in Seq(Units) : v = t \o b
      BY ConcatProperties, Zenon
    <2>4. /\ seen' = [recent |-> LastUnits(w, 3),
                      missed |-> Markers(w) # {} /\ probe.pending /\ probe'.pending,
                      late |-> 1 \in Markers(w) /\ Len(r) = 3]
          /\ probe' = ScanWindow(probe, v) /\ tail' = LastUnits(v, 2)
      BY <1>5, <2>1, <2>2, <2>3 DEF Publish, Watch, KeepTail, PrefixLen
    <2>5. PICK d \in Nat : /\ Len(w) = Len(v) + d /\ Ends(v, w)
                           /\ d = 0 \/ (d = 1 /\ Len(r) = 3 /\ Len(v) >= 2)
      <3>1. Behind(LastUnits(r, 2) \o b, r \o b, r)
        BY <2>1, WindowEnds, Zenon
      <3>2. Behind(v, w, r)
        BY <2>1, <2>2, <2>3, <3>1, Zenon
      <3>3. QED
        BY <3>2, Zenon DEF Behind
    <2>6. seen'.recent = LastUnits(w, 3) /\ seen'.recent \in Seq(Units) /\ Len(seen'.recent) <= 3
      <3>1. 3 \in Nat
        OBVIOUS
      <3>2. LastUnits(w, 3) \in Seq(Units) /\ Len(LastUnits(w, 3)) <= 3
        BY <3>1, LastUnitsType, Zenon
      <3>3. seen'.recent = LastUnits(w, 3)
        BY <2>4
      <3>4. QED
        BY <3>2, <3>3, Zenon
    <2>7. tail' = LastUnits(seen'.recent, 2)
      <3>1. LastUnits(v, 2) = LastUnits(LastUnits(w, 3), 2)
        BY <2>5, TailKept, Zenon
      <3>2. QED
        BY <2>4, <2>6, <3>1, Zenon
    <2>8. seen'.missed => seen'.late
      <3>1. SUFFICES ASSUME Markers(w) # {}, probe.pending, probe'.pending
                     PROVE  1 \in Markers(w) /\ Len(r) = 3
        BY <2>4
      <3>2. Markers(v) = {}
        <4>1. SUFFICES ASSUME Markers(v) # {} PROVE FALSE
          OBVIOUS
        <4>2. probe' = [probe EXCEPT !.code = v[Min(Markers(v)) + 2][2], !.doneSeq = probe.pendingSeq,
                                     !.pending = FALSE]
          BY <2>4, <3>1, <4>1 DEF ScanWindow
        <4>3. probe \in Probes
          BY <1>1 DEF TypeOK, ProbeTypes
        <4>4. probe'.pending = FALSE
          BY <4>2, <4>3 DEF Probes
        <4>5. QED
          BY <3>1, <4>4
      <3>3. PICK i \in Markers(w) : TRUE
        BY <3>1
      <3>4. i <= d
        BY <2>5, <3>2, MarkerShift, Zenon
      <3>5. d = 1 /\ i = 1 /\ Len(r) = 3
        <4>1. i \in Nat /\ i >= 1
          BY DEF Markers
        <4>2. d = 0 \/ (d = 1 /\ Len(r) = 3)
          BY <2>5, Zenon
        <4>3. QED
          BY <3>4, <4>1, <4>2
      <3>6. QED
        BY <3>3, <3>5
    <2>9. QED
      BY <2>6, <2>7, <2>8 DEF ScanOK, PrefixLen
  <1>6. QED
    BY <1>1, <1>2, <1>3, <1>4, <1>5 DEF Next, Reader, vars

-----------------------------------------------------------------------------
(* The theorems.                                                           *)

\* The invariant holds of a session whose terminal is empty.
LEMMA InitInvariant == Init => CInv
  <1>1. SUFFICES ASSUME Init PROVE CInv
    OBVIOUS
  <1>2. TypeOK
    BY <1>1, InitTypes
  <1>3. /\ inq = <<>> /\ payload = <<>> /\ burst = <<>> /\ outq = <<>> /\ pend = <<>> /\ tail = <<>>
        /\ run = 0 /\ open = {} /\ unread = {}
        /\ pc = [k \in Calls |-> "new"] /\ code = [k \in Calls |-> NoCode]
        /\ reply = [k \in Calls |-> [status |-> NoCode, got |-> {}, error |-> FALSE]]
        /\ seen = [recent |-> <<>>, missed |-> FALSE, late |-> FALSE]
    BY <1>1 DEF Init
  <1>4. Input = <<>> /\ Unseen = <<>> /\ tail \o Unseen = <<>>
    <2>1. <<>> \o <<>> = <<>>
      BY ConcatEmptySeq, EmptySeq
    <2>2. QED
      BY <1>3, <2>1, Zenon DEF Input, Unseen
  <1>5. \A u, v : /\ ~In(<<>>, u) /\ Once(<<>>, u) /\ Ahead(<<>>, u, v) /\ ~Starts(<<>>, u)
                  /\ Follows(<<>>, u)
    BY DEF In, Once, Ahead, Starts, Follows
  <1>6. \A k \in Calls : /\ pc[k] = "new" /\ code[k] = NoCode /\ k # 0 /\ k # NoCode
                         /\ reply[k].status = NoCode /\ reply[k].got = {}
    BY <1>3 DEF Calls, NoCode
  <1>7. \A k \in Calls : ~Taken(k)
    BY <1>6 DEF Taken
  <1>8. PayloadOK
    BY <1>3 DEF PayloadOK
  <1>9. InputOK
    BY <1>3, <1>4, <1>5, Zenon DEF InputOK, InputOf
  <1>10. TraceOK
    BY <1>3, <1>4, <1>5, <1>6, <1>7 DEF TraceOK, TraceOf
  <1>11. OutputOK
    BY <1>3, <1>4, <1>5, <1>6, <1>7 DEF OutputOK, OutputOf
  <1>12. CodedOK
    BY <1>4 DEF CodedOK, Coded
  <1>13. AloneOK
    BY <1>6 DEF AloneOK, AloneOf
  <1>14. CrowdOK
    BY <1>6 DEF CrowdOK, Active
  <1>15. ScanOK
    <2>1. LastUnits(<<>>, 2) = <<>> /\ <<>> \in Seq(Units) /\ Len(<<>>) <= 3
      BY DEF LastUnits
    <2>2. QED
      BY <1>3, <2>1 DEF ScanOK, PrefixLen
  <1>16. OwnReply
    BY <1>3, <1>6 DEF OwnReply, OwnStatus, OwnOutput, DeliveredOnce
  <1>17. QED
    BY <1>2, <1>8, <1>9, <1>10, <1>11, <1>12, <1>13, <1>14, <1>15, <1>16, Zenon DEF CInv

\* Every step keeps the invariant.
LEMMA InvariantStep == CInv /\ [Next]_vars => CInv'
  BY TypesStep, PayloadStep, InputStep, TraceStep, OutputStep, CodedStep, AloneStep, CrowdStep,
     ScanStep, OwnReplyStep, Zenon DEF CInv

\* In every reachable state of a session, for any number of calls and any sizes
\* of the buffers, the inductive invariant holds.
THEOREM SendInvariant == Spec => []CInv
  <1>1. QED
    BY InitInvariant, InvariantStep, PTL DEF Spec

\* What a call of terminal_send returns is its own: the exit code of its command
\* unless another probe was in flight, its output unless another call under way
\* took it, and no output is returned twice.
THEOREM SendReturnsItsOwn == Spec => []OwnReply
  <1>1. CInv => OwnReply
    BY Zenon DEF CInv
  <1>2. QED
    BY <1>1, SendInvariant, PTL

\* scan_status overlooks a marker only when a burst ends between its digits and
\* its end.
THEOREM ScanMissesOnlyCut == Spec => []MissedOnlyIfCut
  <1>1. CInv => MissedOnlyIfCut
    BY Zenon DEF CInv, ScanOK, MissedOnlyIfCut
  <1>2. QED
    BY <1>1, SendInvariant, PTL
=============================================================================

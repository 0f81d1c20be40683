---------------------------- MODULE TerminalSend ----------------------------
(***************************************************************************)
(* One terminal session at work (terminal.cpp): send_to_terminal writes a  *)
(* line, and with capture_status a probe line that prints the exit code of *)
(* the line before it as a marker; the reader thread collects what the     *)
(* shell prints in bursts, publishes them under the session's lock and     *)
(* looks for the marker; the callers wait for it, each on a thread of its  *)
(* own.                                                                    *)
(*                                                                         *)
(* The output is a sequence of units: the output of a command, and a       *)
(* marker of four units: its fixed prefix in two halves, the digits and    *)
(* BEL.  The tail kept for a marker that straddles two bursts is as long   *)
(* as the prefix, two units.  Echo and screen are left out.                *)
(***************************************************************************)
EXTENDS Integers, Sequences, FiniteSets, FiniteSetsExt, SequencesExt

CONSTANTS
    MaxCalls,   \* bound: calls on the session, the k-th with exit code k
    MaxIn,      \* lines the terminal's input buffer holds
    MaxOut,     \* units its output buffer holds
    MaxSignals  \* bound: interrupts and exits of the shell

ASSUME SizesAssumption ==
    MaxCalls \in Nat /\ MaxIn \in Nat \ {0} /\ MaxOut \in Nat \ {0} /\ MaxSignals \in Nat

VARIABLES
    pc, kind,             \* the calls: new, write, wait, done; read, plain, status
    lock,                 \* s->mu: the writing call, or 0
    payload,              \* what it has still to write
    inq, run, last, pend, \* input buffer; the shell: command, $?, output to print
    outq, burst,          \* output buffer; what the reader has not published
    ready,                \* the reader waits for the lock, to publish
    tail,                 \* s->scan_tail
    probe,                \* the capture_status fields of the session
    seqOf,                \* status_seq of each call
    unread,               \* commands whose output is past read_cursor
    alive, exited,        \* the shell; s->exited
    signals,              \* interrupts and exits so far
    code, reply,          \* history: exit code of each command; what calls returned
    open,                 \* history: probes whose marker may still come
    met, crowd,           \* history: probes and calls a call overlapped with
    shaken,               \* history: probes whose $? a signal may have changed
    seen                  \* history: what a scan of every byte would see

shellState == <<run, last, pend, alive, code>>
history == <<open, met, crowd, shaken, seen>>
vars == <<pc, kind, lock, payload, inq, shellState, outq, burst, ready, tail, probe,
          seqOf, unread, exited, signals, reply, history>>

Calls == 1..MaxCalls
Interrupted == MaxCalls + 1
NoCode == 0

Output(k) == <<"x", k>>
Marker(c, k) == << <<"p", 0>>, <<"q", 0>>, <<"d", c>>, <<"b", k>> >>   \* k: history
PrefixLen == 2
LastUnits(s, n) == SubSeq(s, IF Len(s) > n THEN Len(s) - n + 1 ELSE 1, Len(s))

Init ==
    /\ pc = [k \in Calls |-> "new"] /\ kind = [k \in Calls |-> "read"]
    /\ lock = 0 /\ payload = <<>> /\ inq = <<>> /\ outq = <<>>
    /\ run = 0 /\ last = NoCode /\ pend = <<>> /\ alive = TRUE /\ exited = FALSE
    /\ burst = <<>> /\ ready = FALSE /\ tail = <<>> /\ signals = 0
    /\ probe = [seq |-> 0, pending |-> FALSE, pendingSeq |-> 0, doneSeq |-> 0, code |-> NoCode]
    /\ seqOf = [k \in Calls |-> 0]
    /\ unread = {}
    /\ code = [k \in Calls |-> NoCode]
    /\ reply = [k \in Calls |-> [status |-> NoCode, got |-> {}, error |-> FALSE]]
    /\ open = {} /\ met = [k \in Calls |-> {}] /\ crowd = [k \in Calls |-> {}]
    /\ shaken = {}
    /\ seen = [recent |-> <<>>, missed |-> FALSE, late |-> FALSE]

-----------------------------------------------------------------------------
(* The shell and the terminal's buffers *)

\* The shell reads a line: a command, or the probe, which prints the marker.
ShellReads ==
    /\ alive /\ run = 0 /\ pend = <<>> /\ inq # <<>>
    /\ inq' = Tail(inq)
    /\ LET line == Head(inq) IN
       IF line[1] = "probe" THEN pend' = Marker(last, line[2]) /\ UNCHANGED run
       ELSE run' = line[2] /\ pend' = <<Output(line[2])>>
    /\ UNCHANGED <<pc, kind, lock, payload, last, alive, code, outq, burst, ready, tail, probe,
                   seqOf, unread, exited, signals, reply, history>>

ShellPrints ==
    /\ alive /\ pend # <<>> /\ Len(outq) < MaxOut
    /\ outq' = Append(outq, Head(pend)) /\ pend' = Tail(pend)
    /\ UNCHANGED <<pc, kind, lock, payload, inq, run, last, alive, code, burst, ready, tail, probe,
                   seqOf, unread, exited, signals, reply, history>>

CommandEnds ==
    /\ alive /\ run # 0 /\ pend = <<>>
    /\ last' = run /\ code' = [code EXCEPT ![run] = run] /\ run' = 0
    /\ UNCHANGED <<pc, kind, lock, payload, inq, pend, alive, outq, burst, ready, tail, probe,
                   seqOf, unread, exited, signals, reply, history>>

ShellExits ==
    /\ alive /\ signals < MaxSignals /\ signals' = signals + 1
    /\ alive' = FALSE /\ run' = 0 /\ pend' = <<>>
    /\ UNCHANGED <<pc, kind, lock, payload, inq, last, code, outq, burst, ready, tail, probe,
                   seqOf, unread, exited, reply, history>>

\* deliver_signal: SIGINT for the foreground group, under the lock: it stops the
\* running command ...
InterruptCommand ==
    /\ lock = 0 /\ ~exited /\ alive /\ run # 0
    /\ signals < MaxSignals /\ signals' = signals + 1
    /\ last' = Interrupted /\ code' = [code EXCEPT ![run] = Interrupted]
    /\ run' = 0 /\ pend' = <<>>
    /\ UNCHANGED <<pc, kind, lock, payload, inq, alive, outq, burst, ready, tail, probe,
                   seqOf, unread, exited, reply, history>>

\* ... and for the shell, whether a command runs or not.  One that is waiting for
\* a line, or is in the middle of the probe, may set $? and may drop what it is
\* printing; the probe then reads that $?, or has no marker.
InterruptShell ==
    /\ lock = 0 /\ ~exited /\ alive /\ run = 0
    /\ signals < MaxSignals /\ signals' = signals + 1
    /\ last' \in {last, Interrupted} /\ pend' \in {pend, <<>>}
    /\ shaken' = shaken \cup {k \in open : code[k] # NoCode}
    /\ open' = IF pend' = pend THEN open ELSE open \ {k \in Calls : Contains(pend, <<"b", k>>)}
    /\ UNCHANGED <<pc, kind, lock, payload, inq, run, alive, code, outq, burst, ready, tail,
                   probe, seqOf, unread, exited, reply, met, crowd, seen>>

-----------------------------------------------------------------------------
(* The reader thread *)

\* The drain goes on as long as there is output and the burst is short ...
ReaderDrains ==
    /\ ~ready /\ outq # <<>>
    /\ burst' = burst \o outq /\ outq' = <<>>
    /\ UNCHANGED <<pc, kind, lock, payload, inq, shellState, ready, tail, probe,
                   seqOf, unread, exited, signals, reply, history>>

\* ... then the reader goes to publish it, and drains no more until it has got
\* the lock.
ReaderReady ==
    /\ ~ready /\ burst # <<>> /\ ready' = TRUE
    /\ UNCHANGED <<pc, kind, lock, payload, inq, shellState, outq, burst, tail, probe,
                   seqOf, unread, exited, signals, reply, history>>

\* Where complete markers begin.
Markers(w) == {i \in 1..(Len(w) - 3) :
                  w[i][1] = "p" /\ w[i + 1][1] = "q" /\ w[i + 2][1] = "d" /\ w[i + 3][1] = "b"}

\* scan_status: the first marker in the window answers the pending probe,
\* whichever command it belongs to.
ScanWindow(p, w) ==
    IF ~p.pending \/ Markers(w) = {} THEN p
    ELSE [p EXCEPT !.code = w[Min(Markers(w)) + 2][2],
                   !.doneSeq = p.pendingSeq, !.pending = FALSE]

\* Mutant: one unit too few is kept.
KeepShort(w) == LastUnits(w, PrefixLen - 1)

KeepTail(w) == LastUnits(w, PrefixLen)

\* History: the last units published, one less than a marker has; whether a
\* marker that ends in this burst is not seen by scan_status; and whether the
\* burst before ended after the marker's digits.
Watch(fresh) ==
    LET w == seen.recent \o fresh
        new == Markers(w)
    IN  seen' = [recent |-> LastUnits(w, 3),
                 missed |-> new # {} /\ probe.pending /\ probe'.pending,
                 late |-> 1 \in new /\ Len(seen.recent) = 3]

\* publish: under the lock, the burst is logged and scanned.
Publish ==
    /\ ready /\ lock = 0 /\ ready' = FALSE
    /\ LET w == tail \o burst IN probe' = ScanWindow(probe, w) /\ tail' = KeepTail(w)
    /\ unread' = unread \cup {k \in Calls : Contains(burst, Output(k))}
    /\ Watch(burst) /\ open' = open \ {k \in Calls : Contains(burst, <<"b", k>>)}
    /\ burst' = <<>>
    /\ UNCHANGED <<pc, kind, lock, payload, inq, shellState, outq,
                   seqOf, exited, signals, reply, met, crowd, shaken>>

\* The end of file: everything is published and s->exited set.
ReaderEof ==
    /\ lock = 0 /\ ~alive /\ outq = <<>> /\ burst = <<>> /\ ~exited
    /\ exited' = TRUE
    /\ UNCHANGED <<pc, kind, lock, payload, inq, shellState, outq, burst, ready, tail, probe,
                   seqOf, unread, signals, reply, history>>

-----------------------------------------------------------------------------
(* Calls *)

\* terminal_send arms the probe before it writes.
Arm(p) == [p EXCEPT !.seq = p.seq + 1, !.pendingSeq = p.seq + 1, !.pending = TRUE]

Active == {k \in Calls : pc[k] \in {"write", "wait"}}

\* What a call writes: a read nothing, a send its line, and with
\* capture_status the probe line after it.
Payload(k, o) ==
    CASE o = "read"   -> <<>>
      [] o = "plain"  -> << <<"cmd", k>> >>
      [] o = "status" -> << <<"cmd", k>>, <<"probe", k>> >>

\* terminal_send and terminal_read take the lock; a send to a session that has
\* exited is refused.
Begin(k, o) ==
    /\ pc[k] = "new" /\ lock = 0 /\ \A j \in 1..(k - 1) : pc[j] # "new"
    /\ kind' = [kind EXCEPT ![k] = o]
    /\ IF exited /\ o # "read"
       THEN /\ pc' = [pc EXCEPT ![k] = "done"]
            /\ reply' = [reply EXCEPT ![k].error = TRUE]
            /\ UNCHANGED <<lock, payload, probe, seqOf, open, met, crowd>>
       ELSE /\ pc' = [pc EXCEPT ![k] = "write"]
            /\ lock' = k /\ payload' = Payload(k, o)
            /\ crowd' = [j \in Calls |-> IF j = k THEN Active
                                         ELSE crowd[j] \cup (IF j \in Active THEN {k} ELSE {})]
            /\ IF o = "status"
               THEN /\ probe' = Arm(probe) /\ seqOf' = [seqOf EXCEPT ![k] = probe'.seq]
                    /\ open' = open \cup {k}
                    /\ met' = [j \in Calls |-> IF j = k THEN open
                                               ELSE met[j] \cup (IF j \in Active THEN {k} ELSE {})]
               ELSE UNCHANGED <<probe, seqOf, open, met>>
            /\ UNCHANGED reply
    /\ UNCHANGED <<inq, shellState, outq, burst, ready, tail, unread, exited, signals, shaken, seen>>

\* write_all, a line at a time, with the lock held ...
Write(k) ==
    /\ pc[k] = "write" /\ payload # <<>> /\ alive /\ Len(inq) < MaxIn
    /\ inq' = Append(inq, Head(payload)) /\ payload' = Tail(payload)
    /\ UNCHANGED <<pc, kind, lock, shellState, outq, burst, ready, tail, probe, seqOf,
                   unread, exited, signals, reply, history>>

\* Mutant: poll() is called again for as long as there is no room.
WriteWaits(k) ==
    /\ pc[k] = "write" /\ payload # <<>> /\ (~alive \/ Len(inq) = MaxIn)
    /\ IF alive THEN UNCHANGED vars
       ELSE /\ pc' = [pc EXCEPT ![k] = "done"] /\ lock' = 0 /\ payload' = <<>>
            /\ reply' = [reply EXCEPT ![k].error = TRUE] /\ open' = open \ {k}
            /\ UNCHANGED <<kind, inq, shellState, outq, burst, ready, tail, probe, seqOf,
                           unread, exited, signals, met, crowd, shaken, seen>>

\* ... which fails when the shell is gone, or when the input buffer stays full
\* for a second: part of the payload may have been written.  The buffer stays
\* full when the shell waits for room in its output, which only the reader
\* makes, and the reader for the lock.
WriteFails(k) ==
    /\ pc[k] = "write" /\ payload # <<>> /\ (~alive \/ Len(inq) = MaxIn)
    /\ pc' = [pc EXCEPT ![k] = "done"] /\ lock' = 0 /\ payload' = <<>>
    /\ reply' = [reply EXCEPT ![k].error = TRUE]
    /\ open' = open \ {k}
    /\ UNCHANGED <<kind, inq, shellState, outq, burst, ready, tail, probe, seqOf,
                   unread, exited, signals, met, crowd, shaken, seen>>

\* wait_for_read releases the lock.
Wait(k) ==
    /\ pc[k] = "write" /\ payload = <<>>
    /\ pc' = [pc EXCEPT ![k] = "wait"] /\ lock' = 0
    /\ UNCHANGED <<kind, payload, inq, shellState, outq, burst, ready, tail, probe, seqOf,
                   unread, exited, signals, reply, history>>

\* Mutant: the newest code is returned without a look at its sequence number.
StatusNewest(k) == probe.code

\* The status a call returns: the one of the newest probe answered.
StatusOf(k) == IF kind[k] = "status" /\ probe.doneSeq >= seqOf[k] THEN probe.code ELSE NoCode

\* The wait ends, because of what it waits for or because its time is over; the
\* lock is taken again and what is past the read cursor returned.
Return(k) ==
    /\ pc[k] = "wait" /\ lock = 0
    /\ pc' = [pc EXCEPT ![k] = "done"]
    /\ reply' = [reply EXCEPT ![k] = [status |-> StatusOf(k), got |-> unread, error |-> FALSE]]
    /\ unread' = {}
    /\ UNCHANGED <<kind, lock, payload, inq, shellState, outq, burst, ready, tail, probe, seqOf,
                   exited, signals, history>>

\* Nothing is left to happen.
Over == (\A k \in Calls : pc[k] = "done") /\ UNCHANGED vars

Shell == ShellReads \/ ShellPrints \/ CommandEnds
Interrupt == InterruptCommand \/ InterruptShell
Reader == ReaderDrains \/ ReaderReady \/ Publish \/ ReaderEof
Call(k) == Write(k) \/ WriteFails(k) \/ Wait(k) \/ Return(k)

Next ==
    \/ Shell \/ ShellExits \/ Interrupt \/ Reader \/ Over
    \/ \E k \in Calls : Call(k) \/ \E o \in {"read", "plain", "status"} : Begin(k, o)

Spec == Init /\ [][Next]_vars

\* The threads are scheduled and waits have time limits; nothing is assumed of
\* the shell.
FairSpec == Spec /\ WF_vars(Reader) /\ \A k \in Calls : WF_vars(Call(k))

-----------------------------------------------------------------------------
(* Properties *)

\* What the terminal carries: lines in, units out.
Lines == {"cmd", "probe"} \X Calls
Codes == 0..Interrupted
Units == ({"x", "b"} \X Calls) \cup ({"p", "q"} \X {0}) \cup ({"d"} \X Codes)

Probes == [seq : Nat, pending : BOOLEAN, pendingSeq : Nat, doneSeq : Nat, code : Codes]
Replies == [status : Codes, got : SUBSET Calls, error : BOOLEAN]

\* Who has the lock is writing, and the other way round.
CallTypes ==
    /\ pc \in [Calls -> {"new", "write", "wait", "done"}]
    /\ kind \in [Calls -> {"read", "plain", "status"}]
    /\ lock \in {0} \cup {k \in Calls : pc[k] = "write"}
    /\ \A k \in Calls : pc[k] = "write" => lock = k

StreamTypes ==
    /\ inq \in Seq(Lines) /\ payload \in Seq(Lines)
    /\ pend \in Seq(Units) /\ outq \in Seq(Units) /\ burst \in Seq(Units) /\ tail \in Seq(Units)
    /\ Len(inq) <= MaxIn /\ Len(outq) <= MaxOut /\ Len(tail) <= PrefixLen

ShellTypes ==
    /\ run \in {0} \cup Calls /\ last \in Codes /\ code \in [Calls -> Codes]
    /\ alive \in BOOLEAN /\ exited \in BOOLEAN /\ ready \in BOOLEAN

\* The sequence numbers are in order.
ProbeTypes ==
    /\ probe \in Probes /\ seqOf \in [Calls -> Nat]
    /\ probe.doneSeq <= probe.pendingSeq /\ probe.pendingSeq <= probe.seq
    /\ probe.pending \/ probe.doneSeq = probe.pendingSeq

ReplyTypes ==
    /\ unread \subseteq Calls /\ open \subseteq Calls /\ shaken \subseteq Calls
    /\ reply \in [Calls -> Replies]
    /\ met \in [Calls -> SUBSET Calls] /\ crowd \in [Calls -> SUBSET Calls]

\* Types of the variables.
TypeOK == CallTypes /\ StreamTypes /\ ShellTypes /\ ProbeTypes /\ ReplyTypes

\* An exit code that a send returns is the one of its own command, unless
\* another probe was in flight during the call, be it one whose caller had
\* given up, or a signal reached the shell between the end of the command and
\* the probe, which then reads the signal's $? (terminal_send, scan_status,
\* deliver_signal).
OwnStatus ==
    \A k \in Calls : (reply[k].status # NoCode /\ met[k] = {}) =>
        \/ reply[k].status = code[k]
        \/ reply[k].status = Interrupted /\ k \in shaken

\* Only a marker cut after its digits by the end of a burst is overlooked while
\* a probe is pending: the tail that scan_status keeps is enough for any cut in
\* the marker's prefix.  With it, the types of the variables.
MissedOnlyIfCut == TypeOK /\ (seen.missed => seen.late)

\* The call that returns an exit code returns its command's output too: the
\* lock is given up during the wait, but only another call under way can have
\* taken the output.
OwnOutput ==
    \A k \in Calls :
        (reply[k].status = k /\ met[k] = {}) =>
            \/ k \in reply[k].got
            \/ \E j \in crowd[k] : k \in reply[j].got

\* Output is returned once: what one call has consumed no other repeats.
DeliveredOnce ==
    /\ \A j, k \in Calls : j # k => reply[j].got \cap reply[k].got = {}
    /\ \A k \in Calls : reply[k].got \cap unread = {}

\* What a send returns is its own: status, output, and that only once.
OwnReply == OwnStatus /\ OwnOutput /\ DeliveredOnce

\* No call waits for ever, not for a shell that has gone, a marker that never
\* comes, or a full buffer: a writer that holds the lock, a shell that waits for
\* room in its output and a reader that waits for the lock go on because the
\* writer gives up (write_all).
CallsEnd == \A k \in Calls : (pc[k] # "new") ~> (pc[k] = "done")
=============================================================================

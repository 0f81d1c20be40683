------------------------ MODULE ShellCommand_proofs -------------------------
(***************************************************************************)
(* Proofs about ShellCommand, for any limits and any command: what is left *)
(* of a command that was stopped, what became of its output, and what the  *)
(* worker takes into its next request.                                     *)
(***************************************************************************)
EXTENDS ShellCommand, TLAPS

\* Where every unit of a stream is: kept, in the pipe, or dropped by a worker
\* whose buffer is full and which has said so.
Accounted ==
    \A s \in Streams :
        /\ buf[s] <= Cap /\ buf[s] + pipe[s] <= written[s]
        /\ IF trunc[s] THEN buf[s] = Cap ELSE buf[s] + pipe[s] = written[s]

\* A stream whose end of file was read is empty and nobody can write to it.
Ended == /\ pc = "start" => done = {}
         /\ \A s \in done : pipe[s] = 0 /\ Writers(s) = {}

\* A call that killed the command, from the kill on.
Killing == \/ pc \in {"twait", "cwait", "drain_out", "drain_err"}
           \/ pc = "done" /\ how \in {"timeout", "cancelled"}
Killed == Killing /\ ~missed => ~GroupAlive

\* A call that has got past its waitpid().
Waiting == \/ pc \in {"drain_out", "drain_err"}
           \/ pc = "done" /\ how \in {"exited", "timeout", "cancelled"}
Waited == Waiting /\ "eintr" \notin hit => state["sh"] = "gone"

\* The ways that close both read ends before they wait.
Closing == \/ pc \in {"cwait", "reap"}
           \/ pc = "done" /\ how \notin {"timeout", "failed"}
Closed == /\ Closing => fds = {}
          /\ pc = "done" /\ how = "timeout" => fds \cap openFd = {}

\* The loop is left for the final waitpid() at the end of both streams.
AllRead == (pc = "reap" \/ (pc = "done" /\ how = "exited")) /\ "poll" \notin hit
           => done = Streams

\* After a timeout whose kill found the whole command, a stream the drain has
\* left behind is empty.
Drained == hit = {} /\ ~drainOver /\ ~missed /\ state["daemon"] = "none" =>
              /\ pc = "drain_err" => pipe["out"] = 0
              /\ pc = "done" /\ how = "timeout" => \A s \in Streams : pipe[s] = 0

\* The inductive invariant.
ShInv == /\ TypeOK /\ Accounted /\ Ended /\ Killed /\ Waited /\ Closed
         /\ AllRead /\ Drained

-----------------------------------------------------------------------------
(* What the processes and the reads do.                                    *)

PStates == {"none", "alive", "zombie", "gone"}

\* Nobody gains the write end of a stream that nobody holds.
NoNewWriter == \A s \in Streams : Writers(s) = {} => Writers(s)' = {}

\* A command outside its group is not started by a dead group, and processes
\* do not come back.
NoRevival ==
    /\ ~GroupAlive => ~GroupAlive'
    /\ state'["daemon"] = "none" => state["daemon"] = "none"
    /\ state["sh"] = "gone" => state'["sh"] = "gone"

\* The kill: either it misses, or nothing of the group is alive.
LEMMA KillFacts ==
  ASSUME TypeOK, KillGroup
  PROVE  /\ state' \in [Procs -> PStates] /\ holds' \in [Procs -> SUBSET Streams]
         /\ grouped' \in BOOLEAN /\ missed' \in BOOLEAN
         /\ ~missed' => ~GroupAlive'
         /\ NoNewWriter /\ NoRevival
  <1>1. /\ state \in [Procs -> PStates] /\ holds \in [Procs -> SUBSET Streams]
        /\ grouped \in BOOLEAN /\ missed \in BOOLEAN
    BY DEF TypeOK, PStates
  <1>2. CASE grouped
    <2>1. /\ state' = [p \in Procs |->
                        IF p \notin Group \/ ~Alive(p) THEN state[p]
                        ELSE IF p = "sh" THEN "zombie" ELSE "gone"]
          /\ holds' = [p \in Procs |-> IF p \in Group THEN {} ELSE holds[p]]
          /\ UNCHANGED <<grouped, missed>>
      BY <1>2 DEF KillGroup
    <2>2. state' \in [Procs -> PStates] /\ holds' \in [Procs -> SUBSET Streams]
      BY <1>1, <2>1 DEF PStates
    <2>3. ~GroupAlive'
      BY <2>1 DEF GroupAlive, Alive, Group, Procs
    <2>4. NoNewWriter
      BY <2>1 DEF NoNewWriter, Writers
    <2>5. NoRevival
      BY <2>1, <2>3 DEF NoRevival, Group, Procs, Alive
    <2>6. QED
      BY <1>1, <2>1, <2>2, <2>3, <2>4, <2>5
  <1>3. CASE ~grouped
    BY <1>1, <1>3 DEF KillGroup, NoNewWriter, NoRevival, Writers, GroupAlive, Alive
  <1>4. QED
    BY <1>2, <1>3

\* The command's own steps: what they may write and what they leave alone.
LEMMA CommandFacts ==
  ASSUME TypeOK, Command
  PROVE  /\ UNCHANGED <<worker, env, missed>>
         /\ state' \in [Procs -> PStates] /\ holds' \in [Procs -> SUBSET Streams]
         /\ grouped' \in BOOLEAN
         /\ pipe' \in [Streams -> 0..PipeSize] /\ written' \in [Streams -> 0..MaxWrite]
         /\ NoNewWriter /\ NoRevival
         /\ \A s \in Streams :
               \/ pipe'[s] = pipe[s] /\ written'[s] = written[s]
               \/ /\ Writers(s) # {} /\ (GroupAlive \/ Alive("daemon"))
                  /\ pipe'[s] = pipe[s] + 1 /\ written'[s] = written[s] + 1
  <1> USE ShellAssumption
  <1>1. /\ state \in [Procs -> PStates] /\ holds \in [Procs -> SUBSET Streams]
        /\ grouped \in BOOLEAN
        /\ pipe \in [Streams -> 0..PipeSize] /\ written \in [Streams -> 0..MaxWrite]
    BY DEF TypeOK, PStates
  <1>2. CASE ChildSetpgid
    BY <1>1, <1>2 DEF ChildSetpgid, NoNewWriter, NoRevival, Writers, GroupAlive, Alive
  <1> DEFINE Goal ==
         /\ UNCHANGED <<worker, env, missed>>
         /\ state' \in [Procs -> PStates] /\ holds' \in [Procs -> SUBSET Streams]
         /\ grouped' \in BOOLEAN
         /\ pipe' \in [Streams -> 0..PipeSize] /\ written' \in [Streams -> 0..MaxWrite]
         /\ NoNewWriter /\ NoRevival
         /\ \A s \in Streams :
               \/ pipe'[s] = pipe[s] /\ written'[s] = written[s]
               \/ /\ Writers(s) # {} /\ (GroupAlive \/ Alive("daemon"))
                  /\ pipe'[s] = pipe[s] + 1 /\ written'[s] = written[s] + 1
  <1>3. ASSUME NEW p \in Procs, CmdExit(p) PROVE Goal
    <2>1. /\ UNCHANGED <<worker, env, grouped, missed, pipe, written>> /\ state[p] = "alive"
          /\ state' = [state EXCEPT ![p] = IF p = "sh" THEN "zombie" ELSE "gone"]
          /\ holds' = [holds EXCEPT ![p] = {}]
      BY <1>3 DEF CmdExit, Alive
    <2>2. NoRevival
      BY <1>1, <2>1 DEF NoRevival, GroupAlive, Alive, Procs, Group
    <2>3. NoNewWriter
      BY <1>1, <2>1 DEF NoNewWriter, Writers
    <2>4. state' \in [Procs -> PStates] /\ holds' \in [Procs -> SUBSET Streams]
      BY <1>1, <2>1 DEF PStates
    <2>5. QED
      BY <1>1, <2>1, <2>2, <2>3, <2>4
  <1>4. ASSUME NEW p \in Procs, NEW s \in Streams, CmdClose(p, s) PROVE Goal
    <2>1. /\ UNCHANGED <<worker, env, state, grouped, missed, pipe, written>>
          /\ holds' = [holds EXCEPT ![p] = holds[p] \ {s}]
      BY <1>4 DEF CmdClose
    <2>2. NoRevival
      BY <2>1 DEF NoRevival, GroupAlive, Alive
    <2>3. NoNewWriter
      BY <1>1, <2>1 DEF NoNewWriter, Writers
    <2>4. QED
      BY <1>1, <2>1, <2>2, <2>3
  <1>5. ASSUME NEW p \in Procs, NEW s \in Streams, CmdWrite(p, s) PROVE Goal
    <2>1. /\ UNCHANGED <<worker, env, procs>> /\ state[p] = "alive" /\ s \in holds[p]
          /\ pipe[s] < PipeSize /\ written[s] < MaxWrite
          /\ pipe' = [pipe EXCEPT ![s] = pipe[s] + 1]
          /\ written' = [written EXCEPT ![s] = written[s] + 1]
      BY <1>5 DEF CmdWrite, Alive
    <2>2. NoRevival /\ NoNewWriter
      BY <2>1 DEF NoRevival, NoNewWriter, GroupAlive, Alive, Writers, procs
    <2>3. Writers(s) # {} /\ (GroupAlive \/ Alive("daemon"))
      BY <2>1 DEF Writers, GroupAlive, Alive, Procs, Group
    <2>4. pipe' \in [Streams -> 0..PipeSize] /\ written' \in [Streams -> 0..MaxWrite]
      BY <1>1, <2>1
    <2>5. QED
      BY <1>1, <2>1, <2>2, <2>3, <2>4 DEF procs
  <1>6. ASSUME NEW p \in Procs \ {"sh"}, CmdSpawn(p) PROVE Goal
    <2>1. /\ UNCHANGED <<worker, env, grouped, missed, pipe, written>>
          /\ state["sh"] = "alive" /\ state[p] = "none"
          /\ state' = [state EXCEPT ![p] = "alive"]
          /\ holds' = [holds EXCEPT ![p] = holds["sh"]]
      BY <1>6 DEF CmdSpawn, Alive
    <2>2. NoRevival
      BY <1>1, <2>1 DEF NoRevival, GroupAlive, Alive, Procs, Group
    <2>3. NoNewWriter
      BY <1>1, <2>1 DEF NoNewWriter, Writers, Procs
    <2>4. state' \in [Procs -> PStates] /\ holds' \in [Procs -> SUBSET Streams]
      BY <1>1, <2>1 DEF PStates, Procs
    <2>5. QED
      BY <1>1, <2>1, <2>2, <2>3, <2>4
  <1>7. QED
    BY <1>2, <1>3, <1>4, <1>5, <1>6 DEF Command

\* A read takes one unit out of each of the streams S that has any and keeps it
\* or marks the stream.
LEMMA ReadFacts ==
  ASSUME TypeOK, Accounted, NEW S \in SUBSET Streams, written' = written,
         buf' = Keep(S), trunc' = Mark(S), pipe' = Take(S)
  PROVE  /\ buf' \in [Streams -> 0..MaxWrite] /\ trunc' \in [Streams -> BOOLEAN]
         /\ pipe' \in [Streams -> 0..PipeSize]
         /\ Accounted'
         /\ \A s \in Streams : pipe[s] = 0 => pipe'[s] = 0
  <1> USE ShellAssumption
  <1>1. \A s \in Streams : /\ buf[s] \in Nat /\ trunc[s] \in BOOLEAN
                           /\ pipe[s] \in Nat /\ pipe[s] <= PipeSize
                           /\ written[s] \in Nat /\ written[s] <= MaxWrite
    BY DEF TypeOK
  <1>2. ASSUME NEW s \in Streams
        PROVE  /\ buf'[s] \in 0..MaxWrite /\ pipe'[s] \in 0..PipeSize /\ trunc'[s] \in BOOLEAN
               /\ buf'[s] <= Cap /\ buf'[s] + pipe'[s] <= written[s]
               /\ IF trunc'[s] THEN buf'[s] = Cap ELSE buf'[s] + pipe'[s] = written[s]
               /\ pipe[s] = 0 => pipe'[s] = 0
    <2>1. /\ buf[s] <= Cap /\ buf[s] + pipe[s] <= written[s]
          /\ IF trunc[s] THEN buf[s] = Cap ELSE buf[s] + pipe[s] = written[s]
      BY DEF Accounted
    <2>2. CASE s \in S /\ pipe[s] > 0 /\ buf[s] < Cap
      <3>1. buf'[s] = buf[s] + 1 /\ pipe'[s] = pipe[s] - 1 /\ (trunc'[s] <=> trunc[s])
            /\ trunc'[s] \in BOOLEAN
        BY <1>1, <2>2 DEF Keep, Mark, Take
      <3>2. QED
        BY <1>1, <2>1, <2>2, <3>1
    <2>3. CASE s \in S /\ pipe[s] > 0 /\ ~(buf[s] < Cap)
      <3>1. buf'[s] = buf[s] /\ pipe'[s] = pipe[s] - 1 /\ buf[s] >= Cap
        BY <1>1, <2>3 DEF Keep, Take
      <3>2. trunc'[s] /\ trunc'[s] \in BOOLEAN
        BY <2>3, <3>1 DEF Mark
      <3>3. buf[s] = Cap
        BY <1>1, <2>1, <3>1
      <3>4. QED
        BY <1>1, <2>1, <2>3, <3>1, <3>2, <3>3
    <2>4. CASE ~(s \in S /\ pipe[s] > 0)
      <3>1. buf'[s] = buf[s] /\ pipe'[s] = pipe[s] /\ (trunc'[s] <=> trunc[s])
            /\ trunc'[s] \in BOOLEAN
        BY <1>1, <2>4 DEF Keep, Mark, Take
      <3>2. QED
        BY <1>1, <2>1, <2>4, <3>1
    <2>5. QED
      BY <2>2, <2>3, <2>4
  <1>3. Accounted'
    BY <1>2 DEF Accounted
  <1>4. buf' \in [Streams -> 0..MaxWrite] /\ trunc' \in [Streams -> BOOLEAN]
        /\ pipe' \in [Streams -> 0..PipeSize]
    BY <1>2 DEF Keep, Mark, Take
  <1>5. QED
    BY <1>2, <1>3, <1>4

-----------------------------------------------------------------------------
(* The invariant, step by step.                                            *)

USE DEF worker, clock, procs, env

\* The invariant holds before the command is started.
LEMMA InitShInv == Init => ShInv
  <1>1. SUFFICES ASSUME Init PROVE ShInv
    OBVIOUS
  <1>2. TypeOK
    <2>1. /\ buf \in [Streams -> 0..MaxWrite] /\ written \in [Streams -> 0..MaxWrite]
          /\ pipe \in [Streams -> 0..PipeSize]
      BY <1>1, ShellAssumption DEF Init
    <2>2. /\ trunc \in [Streams -> BOOLEAN]
          /\ {expired, cancelMsg, drainOver, grouped, missed} \subseteq BOOLEAN
      BY <1>1 DEF Init
    <2>3. QED
      BY <1>1, <2>1, <2>2 DEF Init, TypeOK
  <1>3. Accounted
    BY <1>1, ShellAssumption DEF Init, Accounted
  <1>4. QED
    BY <1>1, <1>2, <1>3 DEF Init, ShInv, Ended, Killed, Killing, Waited, Waiting, Closed,
                            Closing, AllRead, Drained

\* What the command does on its own keeps the invariant.
LEMMA CommandStep ==
  ASSUME ShInv, Command
  PROVE  ShInv'
  <1>1. TypeOK /\ Accounted /\ Ended /\ Killed
    BY DEF ShInv
  <1>2. /\ UNCHANGED <<worker, env, missed>>
        /\ state' \in [Procs -> PStates] /\ holds' \in [Procs -> SUBSET Streams]
        /\ grouped' \in BOOLEAN
        /\ pipe' \in [Streams -> 0..PipeSize] /\ written' \in [Streams -> 0..MaxWrite]
        /\ NoNewWriter /\ NoRevival
    BY <1>1, CommandFacts
  <1>3. \A s \in Streams :
           \/ pipe'[s] = pipe[s] /\ written'[s] = written[s]
           \/ /\ Writers(s) # {} /\ (GroupAlive \/ Alive("daemon"))
              /\ pipe'[s] = pipe[s] + 1 /\ written'[s] = written[s] + 1
    BY <1>1, CommandFacts
  <1>4. TypeOK'
    BY <1>1, <1>2 DEF TypeOK, PStates
  <1>5. Accounted'
    <2>1. \A s \in Streams : buf[s] \in Nat /\ pipe[s] \in Nat /\ written[s] \in Nat
      BY <1>1, ShellAssumption DEF TypeOK
    <2>2. QED
      BY <1>1, <1>2, <1>3, <2>1, ShellAssumption DEF Accounted
  <1>6. Ended'
    <2>1. done \subseteq Streams
      BY <1>1 DEF TypeOK
    <2>2. QED
      BY <1>1, <1>2, <1>3, <2>1 DEF Ended, NoNewWriter
  <1>7. Killed'
    BY <1>1, <1>2 DEF Killed, Killing, NoRevival
  <1>8. Waited' /\ Closed' /\ AllRead'
    BY <1>2 DEF ShInv, Waited, Waiting, Closed, Closing, AllRead, NoRevival
  <1>9. Drained'
    <2>1. SUFFICES ASSUME hit = {}, ~drainOver, ~missed, state'["daemon"] = "none",
                          pc = "drain_err" \/ (pc = "done" /\ how = "timeout")
                   PROVE  \A s \in Streams : pipe'[s] = pipe[s]
      <3>1. state'["daemon"] = "none" => state["daemon"] = "none"
        BY <1>2 DEF NoRevival
      <3>2. QED
        BY <1>2, <3>1 DEF ShInv, Drained, Streams
    <2>2. ~GroupAlive /\ ~Alive("daemon")
      BY <1>1, <1>2, <2>1 DEF Killed, Killing, NoRevival, Alive
    <2>3. QED
      BY <1>3, <2>2
  <1>10. QED
    BY <1>4, <1>5, <1>6, <1>7, <1>8, <1>9 DEF ShInv

\* So do the timeouts and the cancellation.
LEMMA ClockStep ==
  ASSUME ShInv, Expire \/ DrainExpire \/ CoordinatorCancels
  PROVE  ShInv'
  <1>1. /\ UNCHANGED <<worker, hit, procs, pipe, written>>
        /\ {expired, cancelMsg, drainOver}' \subseteq BOOLEAN
        /\ ~drainOver' => ~drainOver
    <2>1. {expired, cancelMsg, drainOver} \subseteq BOOLEAN
      BY DEF ShInv, TypeOK
    <2>2. CASE Expire
      BY <2>1, <2>2 DEF Expire
    <2>3. CASE DrainExpire
      BY <2>1, <2>3 DEF DrainExpire
    <2>4. CASE CoordinatorCancels
      BY <2>1, <2>4 DEF CoordinatorCancels
    <2>5. QED
      BY <2>2, <2>3, <2>4
  <1>2. TypeOK'
    BY <1>1 DEF ShInv, TypeOK
  <1>3. Accounted' /\ Ended'
    BY <1>1 DEF ShInv, Accounted, Ended, Writers
  <1>4. Killed' /\ Waited' /\ Closed' /\ AllRead' /\ Drained'
    BY <1>1 DEF ShInv, Killed, Killing, Waited, Waiting, Closed, Closing, AllRead,
                Drained, GroupAlive, Alive
  <1>5. QED
    BY <1>2, <1>3, <1>4 DEF ShInv

\* fork and exec.
LEMMA StartStep ==
  ASSUME ShInv, Start \/ StartFails
  PROVE  ShInv'
  <1>1. /\ pc = "start" /\ UNCHANGED <<done, openFd, buf, trunc, clock, grouped, missed, pipe, written>>
        /\ fds' \subseteq Streams /\ hit' \subseteq Faults
        /\ \/ pc' = "check" /\ how' = how
           \/ pc' = "done" /\ how' = "failed"
    BY DEF ShInv, TypeOK, Start, StartFails, Fault, Streams
  <1>2. TypeOK'
    BY <1>1 DEF ShInv, TypeOK, Start, StartFails, Streams, Procs
  <1>3. Accounted' /\ Ended'
    BY <1>1 DEF ShInv, Accounted, Ended
  <1>4. Killed' /\ Waited' /\ Closed' /\ AllRead' /\ Drained'
    BY <1>1 DEF Killed, Killing, Waited, Waiting, Closed, Closing, AllRead, Drained
  <1>5. QED
    BY <1>2, <1>3, <1>4 DEF ShInv

\* A step that leaves the streams alone and neither returns nor kills.
LEMMA LoopStep ==
  ASSUME ShInv, \/ CheckDeadline /\ ~expired
                \/ PollInterrupted
                \/ PollFails
  PROVE  ShInv'
  <1>1. /\ UNCHANGED <<how, done, openFd, buf, trunc, clock, procs, pipe, written>>
        /\ hit' \subseteq Faults
        /\ \/ pc' \in {"check", "poll"} /\ fds' = fds
           \/ pc' = "reap" /\ fds' = {} /\ "poll" \in hit'
    BY DEF ShInv, TypeOK, CheckDeadline, PollInterrupted, PollFails, Fault
  <1>2. TypeOK'
    BY <1>1 DEF ShInv, TypeOK
  <1>3. Accounted' /\ Ended'
    BY <1>1 DEF ShInv, Accounted, Ended, Writers
  <1>4. Killed' /\ Waited' /\ Closed' /\ AllRead' /\ Drained'
    BY <1>1 DEF Killed, Killing, Waited, Waiting, Closed, Closing, AllRead, Drained
  <1>5. QED
    BY <1>2, <1>3, <1>4 DEF ShInv

\* The three ways to the kill.
LEMMA KillStep ==
  ASSUME ShInv, \/ CheckDeadline /\ expired
                \/ PollTimeout
                \/ PollCancel
  PROVE  ShInv'
  <1>1. /\ KillGroup /\ UNCHANGED <<how, done, openFd, buf, trunc, env, pipe, written>>
        /\ \/ pc' = "twait" /\ fds' = fds
           \/ pc' = "cwait" /\ fds' = {}
    BY DEF CheckDeadline, PollTimeout, PollCancel
  <1>2. /\ state' \in [Procs -> PStates] /\ holds' \in [Procs -> SUBSET Streams]
        /\ grouped' \in BOOLEAN /\ missed' \in BOOLEAN
        /\ ~missed' => ~GroupAlive'
        /\ NoNewWriter
    BY <1>1, KillFacts DEF ShInv
  <1>3. TypeOK'
    BY <1>1, <1>2 DEF ShInv, TypeOK, PStates
  <1>4. Accounted' /\ Ended'
    <2>1. done \subseteq Streams
      BY DEF ShInv, TypeOK
    <2>2. QED
      BY <1>1, <1>2, <2>1 DEF ShInv, Accounted, Ended, NoNewWriter
  <1>5. Killed'
    BY <1>2 DEF Killed
  <1>6. Waited' /\ Closed' /\ AllRead' /\ Drained'
    BY <1>1 DEF Waited, Waiting, Closed, Closing, AllRead, Drained
  <1>7. QED
    BY <1>3, <1>4, <1>5, <1>6 DEF ShInv

\* A read while the command runs.
LEMMA ReadStep ==
  ASSUME ShInv, PollRead
  PROVE  ShInv'
  <1>1. /\ pc = "poll" /\ UNCHANGED <<how, openFd, env, procs, written>>
        /\ buf' = Keep(ReadyStreams) /\ trunc' = Mark(ReadyStreams)
        /\ pipe' = Take(ReadyStreams)
        /\ done' = done \cup {s \in ReadyStreams : Eof(s)}
        /\ \/ done' = Streams /\ pc' = "reap" /\ fds' = {}
           \/ pc' = "check" /\ fds' = fds
    BY DEF PollRead
  <1>2. TypeOK /\ Accounted /\ ReadyStreams \subseteq Streams
    BY DEF ShInv, ReadyStreams
  <1>3. /\ buf' \in [Streams -> 0..MaxWrite] /\ trunc' \in [Streams -> BOOLEAN]
        /\ pipe' \in [Streams -> 0..PipeSize]
        /\ Accounted'
        /\ \A s \in Streams : pipe[s] = 0 => pipe'[s] = 0
    BY <1>1, <1>2, ReadFacts
  <1>4. done \subseteq Streams /\ done' \subseteq Streams
    BY <1>1, <1>2 DEF TypeOK
  <1>5. TypeOK'
    BY <1>1, <1>2, <1>3, <1>4 DEF TypeOK
  <1>6. Ended'
    BY <1>1, <1>2, <1>3, <1>4 DEF ShInv, Ended, Eof, Writers
  <1>7. Killed' /\ Waited' /\ Closed' /\ AllRead' /\ Drained'
    BY <1>1 DEF Killed, Killing, Waited, Waiting, Closed, Closing, AllRead, Drained
  <1>8. QED
    BY <1>3, <1>5, <1>6, <1>7 DEF ShInv

\* The three waits for the shell.
LEMMA WaitStep ==
  ASSUME ShInv, WaitAfterTimeout \/ WaitAfterCancel \/ Reap
  PROVE  ShInv'
  <1>1. /\ UNCHANGED <<done, fds, openFd, buf, trunc, clock, grouped, missed, holds, pipe, written>>
        /\ \/ state' = Reaped /\ hit' = hit
           \/ state' = state /\ "eintr" \in hit' /\ hit' = hit \cup {"eintr"} /\ "eintr" \in Faults
    BY DEF WaitAfterTimeout, WaitAfterCancel, Reap, Fault
  <1>2. state \in [Procs -> PStates] /\ hit \subseteq Faults
    BY DEF ShInv, TypeOK, PStates
  <1>3. state' \in [Procs -> PStates] /\ hit' \subseteq Faults
    BY <1>1, <1>2 DEF Reaped, PStates
  <1>4. \/ pc = "twait" /\ pc' = "drain_out" /\ how' = how
        \/ pc = "cwait" /\ pc' = "done" /\ how' = "cancelled"
        \/ pc = "reap" /\ pc' = "done" /\ how' = "exited" /\ hit' = hit
        \/ pc = "reap" /\ pc' = "done" /\ how' = "unknown"
    BY DEF WaitAfterTimeout, WaitAfterCancel, Reap
  <1>5. TypeOK'
    BY <1>1, <1>3, <1>4 DEF ShInv, TypeOK, PStates
  <1>6. Accounted' /\ Ended'
    BY <1>1, <1>4 DEF ShInv, Accounted, Ended, Writers
  <1>7. Killed'
    <2>1. GroupAlive' => GroupAlive
      BY <1>1, <1>2 DEF GroupAlive, Alive, Reaped, Group, Procs
    <2>2. QED
      BY <1>1, <1>4, <2>1 DEF ShInv, Killed, Killing
  <1>8. Waited'
    BY <1>1, <1>2 DEF Waited, Reaped, Procs
  <1>9. Closed' /\ AllRead' /\ Drained'
    BY <1>1, <1>4 DEF ShInv, Closed, Closing, AllRead, Drained
  <1>10. QED
    BY <1>5, <1>6, <1>7, <1>8, <1>9 DEF ShInv

\* A read of what the pipes still held.
LEMMA DrainReadStep ==
  ASSUME ShInv, NEW s \in Streams, DrainRead(s)
  PROVE  ShInv'
  <1>1. /\ UNCHANGED <<pc, how, done, fds, openFd, env, procs, written>>
        /\ buf' = Keep({s}) /\ trunc' = Mark({s}) /\ pipe' = Take({s})
    BY DEF DrainRead
  <1>2. TypeOK /\ Accounted /\ {s} \in SUBSET Streams
    BY DEF ShInv
  <1>3. /\ buf' \in [Streams -> 0..MaxWrite] /\ trunc' \in [Streams -> BOOLEAN]
        /\ pipe' \in [Streams -> 0..PipeSize]
        /\ Accounted'
        /\ \A t \in Streams : pipe[t] = 0 => pipe'[t] = 0
    BY <1>1, <1>2, ReadFacts
  <1>4. TypeOK'
    BY <1>1, <1>2, <1>3 DEF TypeOK
  <1>5. Ended'
    BY <1>1, <1>2, <1>3 DEF ShInv, Ended, Writers, TypeOK
  <1>6. Killed' /\ Waited' /\ Closed' /\ AllRead'
    BY <1>1 DEF ShInv, Killed, Killing, Waited, Waiting, Closed, Closing, AllRead,
                GroupAlive, Alive
  <1>7. Drained'
    BY <1>1, <1>3 DEF ShInv, Drained, Streams
  <1>8. QED
    BY <1>3, <1>4, <1>5, <1>6, <1>7 DEF ShInv

\* The end of the drain of one pipe.
LEMMA DrainEndStep ==
  ASSUME ShInv, NEW s \in Streams, DrainStop(s) \/ DrainEof(s)
  PROVE  ShInv'
  <1>1. /\ UNCHANGED <<done, buf, trunc, clock, procs, pipe, written>>
        /\ hit' = hit \/ (hit' = hit \cup {"eintr"} /\ "eintr" \in Faults)
        /\ openFd' \subseteq Streams
    BY DEF DrainStop, DrainEof, Fault, ShInv, TypeOK
  <1>2. \/ pc = "drain_out" /\ s = "out" /\ pc' = "drain_err" /\ how' = how /\ fds' = fds
        \/ /\ pc = "drain_err" /\ s = "err" /\ pc' = "done" /\ how' = "timeout"
           /\ fds' = fds \ openFd'
    BY DEF DrainStop, DrainEof, Draining, DrainNext, Streams
  <1>3. pipe[s] = 0 \/ drainOver \/ "eintr" \in hit'
    BY DEF DrainStop, DrainEof, Fault, Eof
  <1>4. TypeOK'
    BY <1>1, <1>2 DEF ShInv, TypeOK
  <1>5. Accounted' /\ Ended'
    BY <1>1, <1>2 DEF ShInv, Accounted, Ended, Writers
  <1>6. Killed' /\ Waited' /\ Closed' /\ AllRead'
    BY <1>1, <1>2 DEF ShInv, Killed, Killing, Waited, Waiting, Closed, Closing, AllRead,
                      GroupAlive, Alive
  <1>7. Drained'
    <2>1. hit' = {} => hit = {}
      BY <1>1
    <2>2. QED
      BY <1>1, <1>2, <1>3, <2>1 DEF ShInv, Drained, Streams
  <1>8. QED
    BY <1>4, <1>5, <1>6, <1>7 DEF ShInv

\* Every step keeps the invariant.
LEMMA NextShInv ==
  ASSUME ShInv, [Next]_vars
  PROVE  ShInv'
  <1>1. CASE UNCHANGED vars
    BY <1>1 DEF vars, ShInv, TypeOK, Accounted, Ended, Killed, Killing, Waited, Waiting,
                Closed, Closing, AllRead, Drained, Writers, GroupAlive, Alive
  <1>2. CASE Returned
    BY <1>1, <1>2 DEF Returned
  <1>3. CASE Command
    BY <1>3, CommandStep
  <1>4. CASE Expire \/ DrainExpire \/ CoordinatorCancels
    BY <1>4, ClockStep
  <1>5. CASE Worker
    BY <1>5, StartStep, LoopStep, KillStep, ReadStep, WaitStep, DrainReadStep, DrainEndStep
       DEF Worker
  <1>6. QED
    BY <1>1, <1>2, <1>3, <1>4, <1>5 DEF Next

-----------------------------------------------------------------------------
(* The theorems.                                                           *)

\* Where the output, the processes and the descriptors of a command are at each
\* point of run_shell_command: the invariant the next theorems rest on.
THEOREM CommandInvariant == Spec => []ShInv
  <1>1. Init => ShInv
    BY InitShInv
  <1>2. ShInv /\ [Next]_vars => ShInv'
    BY NextShInv
  <1>3. QED
    BY <1>1, <1>2, PTL DEF Spec

\* Whatever the command does, a call that ended by its deadline or by a
\* cancellation leaves nothing alive in the command's process group, unless the
\* kill came before the child's setpgid.
THEOREM CommandKillIsComplete == Spec => []KilledGroupIsGone
  <1>1. ShInv => KilledGroupIsGone
    BY DEF ShInv, Killed, Killing, KilledGroupIsGone
  <1>2. QED
    BY <1>1, CommandInvariant, PTL

\* For any limits on the buffers and the pipes, output is either kept or its
\* loss is announced by the truncation flag.
THEOREM CommandOutputAccounted == Spec => []NothingLostSilently
  <1>1. ShInv => NothingLostSilently
    <2>1. SUFFICES ASSUME ShInv, pc = "done", hit = {},
                          \/ how = "exited"
                          \/ /\ how = "timeout" /\ ~drainOver /\ ~missed
                             /\ state["daemon"] = "none",
                          NEW s \in Streams
                   PROVE  buf[s] = written[s] \/ (trunc[s] /\ buf[s] = Cap)
      BY DEF NothingLostSilently
    <2>2. pipe[s] = 0
      BY <2>1 DEF ShInv, AllRead, Ended, Drained
    <2>3. buf[s] \in Nat
      BY <2>1, ShellAssumption DEF ShInv, TypeOK
    <2>4. QED
      BY <2>1, <2>2, <2>3 DEF ShInv, Accounted
  <1>2. QED
    BY <1>1, CommandInvariant, PTL

\* The worker returns to its loop with the shell reaped and the pipes closed,
\* on every way out of run_shell_command that is not excepted by name.
THEOREM CommandReturnsClean == Spec => []CleanReturn
  <1>1. ShInv => CleanReturn
    BY DEF ShInv, Waited, Waiting, Closed, Closing, CleanReturn, ReplyMeansReaped,
           PipesClosedUnlessEnded, TypeOK
  <1>2. QED
    BY <1>1, CommandInvariant, PTL
=============================================================================

---------------------------- MODULE ShellCommand ----------------------------
(***************************************************************************)
(* run_shell_command (src/worker_pool.cpp): a worker runs one bash request.*)
(* It forks the shell, reads its stdout and stderr through two pipes, and  *)
(* stops it when the deadline passes or anything arrives on the socket to  *)
(* the coordinator.                                                        *)
(*                                                                         *)
(* The command is the environment: the shell may write, close a stream,    *)
(* start a background job in its process group, start a daemon that leaves *)
(* the group (setsid), and exit, in any order and at any time, or go on    *)
(* for ever.  One unit of output is one 4096-byte read of the worker.      *)
(***************************************************************************)
EXTENDS Integers, FiniteSets

CONSTANTS
    HasTimeout,  \* timeout_sec > 0
    Cap,         \* MAX_OUTPUT_BYTES, in units
    PipeSize,    \* capacity of a pipe, in units
    MaxWrite,    \* bound on what the command writes to one stream
    Faults       \* subset of {"start", "poll", "eintr"}

ASSUME ShellAssumption ==
    /\ HasTimeout \in BOOLEAN /\ Faults \subseteq {"start", "poll", "eintr"}
    /\ Cap \in Nat /\ PipeSize \in Nat \ {0} /\ MaxWrite \in Nat

Streams == {"out", "err"}
Procs   == {"sh", "job", "daemon"}
Group   == {"sh", "job"}         \* the shell's process group, once it has one

VARIABLES
    pc,          \* where the worker is
    how,         \* how run_shell_command ended
    done,        \* out_done, err_done: the streams whose EOF was read
    fds,         \* streams whose read end is open in the worker
    openFd,      \* open_fd of drain_after_kill: streams it has not read to EOF
    buf,         \* units kept of each stream
    trunc,       \* stdout_truncated, stderr_truncated
    expired,     \* the monotonic deadline has passed
    cancelMsg,   \* the socket to the coordinator is readable
    drainOver,   \* the 200 ms of drain_after_kill have passed
    state,       \* of each process
    grouped,     \* the shell has executed setpgid(0, 0)
    missed,      \* a kill(-child) found no such process group
    holds,       \* write ends held by each process
    pipe,        \* units in each pipe
    written,     \* units written to each stream (history)
    hit          \* the faults that have happened, each at most once

worker  == <<pc, how, done, fds, openFd, buf, trunc>>
clock   == <<expired, cancelMsg, drainOver>>
procs   == <<state, grouped, missed, holds>>
env     == <<clock, hit>>
vars    == <<worker, env, procs, pipe, written>>

TypeOK ==
    /\ pc \in {"start", "check", "poll", "twait", "drain_out", "drain_err",
               "cwait", "reap", "done"}
    /\ how \in {"none", "failed", "exited", "timeout", "cancelled", "unknown"}
    /\ {done, fds, openFd} \subseteq SUBSET Streams
    /\ buf \in [Streams -> 0..MaxWrite] /\ trunc \in [Streams -> BOOLEAN]
    /\ {expired, cancelMsg, drainOver, grouped, missed} \subseteq BOOLEAN
    /\ state \in [Procs -> {"none", "alive", "zombie", "gone"}]
    /\ holds \in [Procs -> SUBSET Streams]
    /\ pipe \in [Streams -> 0..PipeSize]
    /\ written \in [Streams -> 0..MaxWrite] /\ hit \subseteq Faults

Init ==
    /\ pc = "start" /\ how = "none" /\ done = {} /\ fds = {} /\ openFd = Streams
    /\ buf = [s \in Streams |-> 0] /\ trunc = [s \in Streams |-> FALSE]
    /\ expired = FALSE /\ cancelMsg = FALSE /\ drainOver = FALSE
    /\ state = [p \in Procs |-> "none"]
    /\ grouped = FALSE /\ missed = FALSE
    /\ holds = [p \in Procs |-> {}]
    /\ pipe = [s \in Streams |-> 0] /\ written = [s \in Streams |-> 0]
    /\ hit = {}

\* A fault f of the system, out of those the run allows.
Fault(f) == f \in Faults \ hit /\ hit' = hit \cup {f}

-----------------------------------------------------------------------------
(* The command.                                                            *)

Alive(p) == state[p] = "alive"
Writers(s) == {p \in Procs : s \in holds[p]}

\* The first thing the child does; nobody else does it for the child.
ChildSetpgid ==
    /\ Alive("sh") /\ ~grouped
    /\ grouped' = TRUE
    /\ UNCHANGED <<worker, env, state, missed, holds, pipe, written>>

CmdWrite(p, s) ==
    /\ Alive(p) /\ grouped /\ s \in holds[p]
    /\ s \in fds /\ pipe[s] < PipeSize /\ written[s] < MaxWrite
    /\ pipe' = [pipe EXCEPT ![s] = @ + 1]
    /\ written' = [written EXCEPT ![s] = @ + 1]
    /\ UNCHANGED <<worker, env, procs>>

CmdClose(p, s) ==
    /\ Alive(p) /\ grouped /\ s \in holds[p]
    /\ holds' = [holds EXCEPT ![p] = @ \ {s}]
    /\ UNCHANGED <<worker, env, state, grouped, missed, pipe, written>>

CmdSpawn(p) ==
    /\ Alive("sh") /\ grouped /\ state[p] = "none"
    /\ state' = [state EXCEPT ![p] = "alive"]
    /\ holds' = [holds EXCEPT ![p] = holds["sh"]]
    /\ UNCHANGED <<worker, env, grouped, missed, pipe, written>>

CmdExit(p) ==
    /\ Alive(p) /\ grouped
    /\ state' = [state EXCEPT ![p] = IF p = "sh" THEN "zombie" ELSE "gone"]
    /\ holds' = [holds EXCEPT ![p] = {}]
    /\ UNCHANGED <<worker, env, grouped, missed, pipe, written>>

-----------------------------------------------------------------------------
(* The clock and the socket.                                               *)

Expire ==
    /\ HasTimeout /\ ~expired /\ pc # "start"
    /\ expired' = TRUE
    /\ UNCHANGED <<worker, cancelMsg, drainOver, hit, procs, pipe, written>>

DrainExpire ==
    /\ pc \in {"drain_out", "drain_err"} /\ ~drainOver
    /\ drainOver' = TRUE
    /\ UNCHANGED <<worker, expired, cancelMsg, hit, procs, pipe, written>>

CoordinatorCancels ==
    /\ ~cancelMsg /\ cancelMsg' = TRUE
    /\ UNCHANGED <<worker, expired, drainOver, hit, procs, pipe, written>>

-----------------------------------------------------------------------------
(* The worker.                                                             *)

\* pipe(), fork(), and the parent's close of the write ends.
Start ==
    /\ pc = "start"
    /\ pc' = "check" /\ fds' = Streams
    /\ state' = [state EXCEPT !["sh"] = "alive"]
    /\ holds' = [holds EXCEPT !["sh"] = Streams]
    /\ UNCHANGED <<how, done, openFd, buf, trunc, env, grouped, missed, pipe, written>>

\* pipe() or fork() fails.  When only the second pipe() fails the first pipe
\* stays open.
StartFails ==
    /\ pc = "start" /\ Fault("start")
    /\ pc' = "done" /\ how' = "failed"
    /\ fds' \in {{}, {"out"}}
    /\ UNCHANGED <<done, openFd, buf, trunc, clock, procs, pipe, written>>

\* Mutant: kill(child) instead of kill(-child).
KillShellOnly ==
    /\ state' = [state EXCEPT !["sh"] = IF Alive("sh") THEN "zombie" ELSE @]
    /\ holds' = [holds EXCEPT !["sh"] = {}]
    /\ UNCHANGED <<grouped, missed>>

\* Mutant: a signal the command ignores.
KillIgnored == UNCHANGED procs

\* kill(-child, SIGKILL): every live member of the group dies, or the group
\* does not exist yet and nothing does.
KillGroup ==
    IF grouped
    THEN /\ state' = [p \in Procs |->
                        IF p \notin Group \/ ~Alive(p) THEN state[p]
                        ELSE IF p = "sh" THEN "zombie" ELSE "gone"]
         /\ holds' = [p \in Procs |-> IF p \in Group THEN {} ELSE holds[p]]
         /\ UNCHANGED <<grouped, missed>>
    ELSE missed' = TRUE /\ UNCHANGED <<state, grouped, holds>>

\* The deadline test at the head of the loop.
CheckDeadline ==
    /\ pc = "check"
    /\ IF expired THEN pc' = "twait" /\ KillGroup
       ELSE pc' = "poll" /\ UNCHANGED procs
    /\ UNCHANGED <<how, done, fds, openFd, buf, trunc, env, pipe, written>>

Eof(s) == pipe[s] = 0 /\ Writers(s) = {}
ReadyStreams == {s \in Streams \ done : pipe[s] > 0 \/ Eof(s)}

\* poll() returns 0: the deadline was reached with nothing to read.
PollTimeout ==
    /\ pc = "poll" /\ expired /\ ReadyStreams = {} /\ ~cancelMsg
    /\ pc' = "twait" /\ KillGroup
    /\ UNCHANGED <<how, done, fds, openFd, buf, trunc, env, pipe, written>>

\* The socket is readable: kill at once and close both pipes.
PollCancel ==
    /\ pc = "poll" /\ cancelMsg
    /\ pc' = "cwait" /\ fds' = {} /\ KillGroup
    /\ UNCHANGED <<how, done, openFd, buf, trunc, env, pipe, written>>

Keep(S) == [s \in Streams |-> IF s \in S /\ pipe[s] > 0 /\ buf[s] < Cap
                              THEN buf[s] + 1 ELSE buf[s]]
\* Mutant: the truncated flags are never set.
MarkNever(S) == trunc
Mark(S) == [s \in Streams |-> trunc[s] \/ (s \in S /\ pipe[s] > 0 /\ buf[s] >= Cap)]
Take(S) == [s \in Streams |-> IF s \in S /\ pipe[s] > 0 THEN pipe[s] - 1 ELSE pipe[s]]

\* One read from every stream that is ready; the loop ends when both are at
\* end of file, and both read ends are closed then.
PollRead ==
    /\ pc = "poll" /\ ~cancelMsg /\ ReadyStreams # {}
    /\ buf' = Keep(ReadyStreams) /\ trunc' = Mark(ReadyStreams)
    /\ pipe' = Take(ReadyStreams)
    /\ done' = done \cup {s \in ReadyStreams : Eof(s)}
    /\ IF done' = Streams THEN pc' = "reap" /\ fds' = {}
       ELSE pc' = "check" /\ UNCHANGED fds
    /\ UNCHANGED <<how, openFd, env, procs, written>>

PollInterrupted ==
    /\ pc = "poll" /\ Fault("eintr")
    /\ pc' = "check"
    /\ UNCHANGED <<how, done, fds, openFd, buf, trunc, clock, procs, pipe, written>>

\* poll() fails: the loop is left as if both streams had ended.
PollFails ==
    /\ pc = "poll" /\ Fault("poll")
    /\ pc' = "reap" /\ fds' = {}
    /\ UNCHANGED <<how, done, openFd, buf, trunc, clock, procs, pipe, written>>

\* waitpid(child): blocks until the shell has exited; the two calls after a
\* kill ignore their result, so a signal makes them return early.
Reaped == [state EXCEPT !["sh"] = "gone"]

\* Mutant: the killed shell is not waited for.
NoWaitAfterTimeout ==
    /\ pc = "twait" /\ pc' = "drain_out"
    /\ UNCHANGED <<how, done, fds, openFd, buf, trunc, env, procs, pipe, written>>

WaitAfterTimeout ==
    /\ pc = "twait" /\ pc' = "drain_out"
    /\ \/ state["sh"] = "zombie" /\ state' = Reaped /\ UNCHANGED hit
       \/ Fault("eintr") /\ UNCHANGED state
    /\ UNCHANGED <<how, done, fds, openFd, buf, trunc, clock, grouped, missed, holds,
                   pipe, written>>

WaitAfterCancel ==
    /\ pc = "cwait" /\ pc' = "done" /\ how' = "cancelled"
    /\ \/ state["sh"] = "zombie" /\ state' = Reaped /\ UNCHANGED hit
       \/ Fault("eintr") /\ UNCHANGED state
    /\ UNCHANGED <<done, fds, openFd, buf, trunc, clock, grouped, missed, holds, pipe,
                   written>>

(* drain_after_kill, stdout first: read what is left of a stream until     *)
(* EOF, until nothing comes for 50 ms, or until the 200 ms are over.       *)

Draining(s) == pc = IF s = "out" THEN "drain_out" ELSE "drain_err"

\* After both streams the closing loop closes what is still open.
DrainNext(s) ==
    IF s = "out" THEN pc' = "drain_err" /\ UNCHANGED <<how, fds>>
    ELSE pc' = "done" /\ how' = "timeout" /\ fds' = fds \ openFd'

DrainRead(s) ==
    /\ Draining(s) /\ ~drainOver /\ pipe[s] > 0
    /\ buf' = Keep({s}) /\ trunc' = Mark({s}) /\ pipe' = Take({s})
    /\ UNCHANGED <<pc, how, done, fds, openFd, env, procs, written>>

\* The stream is given up without EOF (or poll() fails with EINTR): open_fd
\* stays true.
DrainStop(s) ==
    /\ Draining(s)
    /\ \/ (drainOver \/ (pipe[s] = 0 /\ ~Eof(s))) /\ UNCHANGED hit
       \/ Fault("eintr")
    /\ UNCHANGED openFd /\ DrainNext(s)
    /\ UNCHANGED <<done, buf, trunc, clock, procs, pipe, written>>

\* EOF clears open_fd, so the stream is never closed.
DrainEof(s) ==
    /\ Draining(s) /\ ~drainOver /\ Eof(s)
    /\ openFd' = openFd \ {s} /\ DrainNext(s)
    /\ UNCHANGED <<done, buf, trunc, env, procs, pipe, written>>

\* The final waitpid(), with no deadline and no eye on the socket.  A signal
\* makes it fail and the command is reported with exit code -1.
Reap ==
    /\ pc = "reap" /\ pc' = "done"
    /\ \/ state["sh"] = "zombie" /\ state' = Reaped /\ how' = "exited" /\ UNCHANGED hit
       \/ Fault("eintr") /\ how' = "unknown" /\ UNCHANGED state
    /\ UNCHANGED <<done, fds, openFd, buf, trunc, clock, grouped, missed, holds, pipe,
                   written>>

-----------------------------------------------------------------------------

Command == \/ ChildSetpgid
           \/ \E p \in Procs : CmdExit(p) \/ \E s \in Streams : CmdWrite(p, s) \/ CmdClose(p, s)
           \/ \E p \in Procs \ {"sh"} : CmdSpawn(p)

Worker == \/ Start \/ StartFails \/ CheckDeadline
          \/ PollTimeout \/ PollCancel \/ PollRead \/ PollInterrupted \/ PollFails
          \/ WaitAfterTimeout \/ WaitAfterCancel \/ Reap
          \/ \E s \in Streams : DrainRead(s) \/ DrainStop(s) \/ DrainEof(s)

\* The call has returned; what is left of the command is on its own.
Returned == pc = "done" /\ UNCHANGED vars

Next == Command \/ Expire \/ DrainExpire \/ CoordinatorCancels \/ Worker \/ Returned

Spec == Init /\ [][Next]_vars

(* The worker and the clock make progress and a forked child reaches its   *)
(* first system call; nothing is assumed of the command after that.        *)
FairSpec == /\ Spec /\ WF_vars(Worker) /\ WF_vars(ChildSetpgid)
            /\ WF_vars(Expire) /\ WF_vars(DrainExpire)

-----------------------------------------------------------------------------
(* Properties.                                                             *)

GroupAlive == \E p \in Group : Alive(p)

\* A command stopped by its deadline or by a cancellation leaves no process
\* of its group behind, provided the child had reached setpgid.
KilledGroupIsGone ==
    pc = "done" /\ how \in {"timeout", "cancelled"} /\ ~missed => ~GroupAlive

\* Output is dropped only under the truncation flag: once both streams have
\* ended, or the drain after a timeout was allowed to end, every unit written
\* was kept or its stream is marked.  (A process that left the group before the
\* kill may still write to a stream that has been drained and is not closed
\* yet, and a failing poll() gives output up.)
NothingLostSilently ==
    /\ pc = "done" /\ hit = {}
    /\ \/ how = "exited"
       \/ how = "timeout" /\ ~drainOver /\ ~missed /\ state["daemon"] = "none"
    => \A s \in Streams : buf[s] = written[s] \/ (trunc[s] /\ buf[s] = Cap)

\* A reply is produced only after the shell has been reaped, so the worker
\* never takes the next request with the last command still its child, unless
\* a signal interrupted the wait.
ReplyMeansReaped ==
    /\ pc = "done" /\ how \in {"exited", "timeout", "cancelled"}
    /\ "eintr" \notin hit
    => state["sh"] = "gone"

\* The read ends of both pipes are closed when the call returns, except when
\* the second pipe() failed, and except by drain_after_kill after a timeout: the
\* descriptors it leaves to the worker are those of streams it has read to their
\* end of file, no others.
PipesClosedUnlessEnded ==
    pc = "done" /\ how # "failed" => \A s \in fds : how = "timeout" /\ s \notin openFd

\* What the worker keeps between two requests: the two statements above, and
\* the types of the variables.
CleanReturn == TypeOK /\ ReplyMeansReaped /\ PipesClosedUnlessEnded

\* The ways to outlive the deadline: the final waitpid(), which a command that
\* closed both streams (or a failing poll()) makes the worker enter, and the
\* wait after a kill that came before the child's setpgid and hit nobody.
EvadesDeadline == Alive("sh") /\ (pc = "reap" \/ (missed /\ pc \in {"twait", "cwait"}))

\* A passed deadline, or a cancellation that arrives while the command runs,
\* ends the call, even when a daemon that left the group keeps a pipe open and
\* goes on writing; or the shell runs for ever with the worker in one of the
\* two waits that have no deadline.
EndsUnlessEvaded ==
    (expired \/ (cancelMsg /\ pc # "start")) ~> (pc = "done" \/ []EvadesDeadline)
=============================================================================

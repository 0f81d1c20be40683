-------------------------- MODULE TerminalSessions --------------------------
(***************************************************************************)
(* The table of terminal sessions (terminal.cpp): creation under the limit *)
(* --max-sessions, one reader thread per session, kill, the sweep of       *)
(* exited sessions and the shutdown.  Tool threads run concurrently with   *)
(* each other, with the readers and with the main thread's shutdown.       *)
(*                                                                         *)
(* The processes of a session are its shell, which leads a process group   *)
(* and a session of its own, and at most one job.  A session's style says  *)
(* how they behave:                                                        *)
(*   plain    no job, the shell obeys SIGHUP and SIGTERM                   *)
(*   deaf     no job, the shell ignores both (an interactive shell)        *)
(*   quiet    a job in the group that ignores both and has no terminal     *)
(*   escaped  a job that left the group and keeps the terminal open        *)
(***************************************************************************)
EXTENDS Integers, FiniteSets, FiniteSetsExt

CONSTANTS
    MaxCreated,   \* bound: sessions that can ever be created
    Threads,      \* tool threads
    Styles,       \* how the processes of a session may behave
    MaxOdd,       \* bound: sessions that are not plain
    Faults,       \* failures and expiries that may happen
    MaxFaults,    \* bound: how many of them in a behaviour
    MaxSessions   \* g_cfg.max_sessions

ASSUME LimitsAssumption ==
    /\ MaxSessions \in Nat \ {0} /\ MaxCreated \in Nat
    /\ MaxOdd \in Nat /\ MaxFaults \in Nat
    /\ IsFiniteSet(Threads) /\ Threads # {}
    /\ Styles \subseteq {"plain", "deaf", "quiet", "escaped"}

VARIABLES
    table,    \* TerminalManager::sessions
    style,    \* what was started in a session ("unused": not created yet)
    shell,    \* the shell: none, run, dead (not waited for) or reaped
    job,      \* the job: none, run or dead
    reader,   \* reader thread: none, poll, publish, done or broken (never runs again)
    exited,   \* sessions with s->exited
    exitedAt, \* s->exited_at: the order in which sessions exited
    expired,  \* those of them in the table that are older than ttl_sec
    fresh,    \* history: sessions that exited since the last sweep
    freed,    \* sessions whose vterm is freed
    pc, sid,                   \* tool threads
    mpc, cur, left, owed,      \* the main thread; history: sessions to end
    hit       \* failures and expiries so far

procs == <<style, shell, job>>
ended == <<exited, exitedAt, expired, fresh>>
locals == <<pc, sid>>
main == <<mpc, cur, left, owed>>
vars == <<table, procs, reader, ended, freed, locals, main, hit>>

Sessions == 1..MaxCreated   \* in the order of their creation
NoSession == 0

Init ==
    /\ table = {}
    /\ style = [s \in Sessions |-> "unused"]
    /\ shell = [s \in Sessions |-> "none"]
    /\ job = [s \in Sessions |-> "none"]
    /\ reader = [s \in Sessions |-> "none"]
    /\ exited = {} /\ exitedAt = [s \in Sessions |-> 0]
    /\ expired = {} /\ fresh = {} /\ freed = {}
    /\ pc = [t \in Threads |-> "idle"]
    /\ sid = [t \in Threads |-> NoSession]
    /\ mpc = "serve" /\ cur = NoSession /\ left = {} /\ owed = {}
    /\ hit = 0

-----------------------------------------------------------------------------
(* Processes and signals *)

\* The slave is closed by everyone and the shell is a zombie.
Ended(s) == shell[s] = "dead" /\ ~(job[s] = "run" /\ style[s] = "escaped")

\* kill(-pid, SIGHUP) or kill(-pid, SIGTERM): only who listens dies.
Ask(s) ==
    /\ shell' = [shell EXCEPT ![s] = IF @ = "run" /\ style[s] # "deaf" THEN "dead" ELSE @]
    /\ UNCHANGED <<style, job>>

\* kill(-pid, SIGKILL): the group dies, whoever left it does not.
Kill(s) ==
    /\ shell' = [shell EXCEPT ![s] = IF @ = "run" THEN "dead" ELSE @]
    /\ job' = [job EXCEPT ![s] = IF @ = "run" /\ style[s] = "quiet" THEN "dead" ELSE @]
    /\ UNCHANGED style

Fault(f) == f \in Faults /\ hit < MaxFaults /\ hit' = hit + 1

\* The shell or the job that keeps the terminal ends by itself.
ProcessEnds(s) ==
    /\ mpc # "exit"
    /\ \/ shell[s] = "run" /\ shell' = [shell EXCEPT ![s] = "dead"] /\ UNCHANGED job
       \/ job[s] = "run" /\ style[s] = "escaped" /\ job' = [job EXCEPT ![s] = "dead"] /\ UNCHANGED shell
    /\ UNCHANGED <<table, style, reader, ended, freed, locals, main, hit>>

-----------------------------------------------------------------------------
(* The reader thread of a session *)

\* End of file on the master, the only way in which the thread learns of the
\* shell's death: a job that keeps the terminal open hides it.  publish(true)
\* waits for the shell, which may have closed its terminal and run on, before
\* it takes the lock ...
ReaderEof(s) ==
    /\ mpc # "exit" /\ reader[s] = "poll" /\ Ended(s)
    /\ shell' = [shell EXCEPT ![s] = "reaped"]
    /\ reader' = [reader EXCEPT ![s] = "publish"]
    /\ UNCHANGED <<table, style, job, ended, freed, locals, main, hit>>

\* A failing poll() ends the thread without a word.
ReaderFails(s) ==
    /\ mpc # "exit" /\ reader[s] = "poll" /\ Fault("reader")
    /\ reader' = [reader EXCEPT ![s] = "broken"]
    /\ UNCHANGED <<table, procs, ended, freed, locals, main>>

\* ... then the master is closed and s->exited set under it.
ReaderPublish(s) ==
    /\ mpc # "exit" /\ reader[s] = "publish"
    /\ exited' = exited \cup {s} /\ fresh' = fresh \cup {s}
    /\ exitedAt' = [exitedAt EXCEPT ![s] = Cardinality(exited) + 1]
    /\ reader' = [reader EXCEPT ![s] = "done"]
    /\ UNCHANGED <<table, procs, expired, freed, locals, main, hit>>

\* The exited sessions of the table.
Kept == exited \cap table

\* The time to live of an exited session passes.
Expire(s) ==
    /\ mpc = "serve" /\ s \in Kept \ expired
    /\ Fault("ttl") /\ expired' = expired \cup {s}
    /\ UNCHANGED <<table, procs, reader, exited, exitedAt, fresh, freed, locals, main>>

-----------------------------------------------------------------------------
(* Tool threads: every entry point sweeps first *)

Goto(t, p, s) == pc' = [pc EXCEPT ![t] = p] /\ sid' = [sid EXCEPT ![t] = s]

\* TerminalManager::remove, for a set of sessions.
Drop(gone) == table' = table \ gone /\ expired' = expired \ gone

\* Those that exited later than s.
Later(s) == {u \in Kept : exitedAt[u] > exitedAt[s]}

\* What terminal_sweep reaps: sessions past their time to live and the oldest
\* of more than max_sessions exited ones.
Sweepable == expired \cup {s \in Kept : Cardinality(Later(s)) >= MaxSessions}

\* The loop has started a tool thread, whose call sweeps.  Exited sessions stay
\* exited, so the snapshot of the table that is swept cannot go stale.
Sweep(t) ==
    /\ mpc = "serve" /\ pc[t] = "idle"
    /\ Drop(Sweepable) /\ freed' = freed \cup Sweepable
    /\ fresh' = {}
    /\ UNCHANGED <<exited, exitedAt, reader, main, hit>>

\* list_terminals, and every call that does not change the table.
List(t) == Sweepable # {} /\ Sweep(t) /\ UNCHANGED <<procs, locals>>

\* Mutant: the limit itself is let through.
CountOneMore(t) ==
    /\ Sweep(t) /\ Goto(t, "fork", NoSession)
    /\ Cardinality((table \ exited)') <= MaxSessions
    /\ UNCHANGED procs

\* terminal_create: the limit is tested after the sweep ...
CountLive(t) ==
    /\ Sweep(t) /\ Goto(t, "fork", NoSession)
    /\ Cardinality((table \ exited)') < MaxSessions
    /\ UNCHANGED procs

Unused == {s \in Sessions : style[s] = "unused"}
Odd == {s \in Sessions : style[s] \notin {"unused", "plain"}}

\* ... and later, in one step for everyone else, the PTY is opened, the child
\* forked, the session added and its reader started (a reader that starts late
\* is a slow one).  The PTY or fork() may fail; so may the thread's creation,
\* which leaves a session without a reader in the table.
Create(t) ==
    /\ mpc # "exit" /\ pc[t] = "fork" /\ Goto(t, "idle", NoSession)
    /\ \/ UNCHANGED <<table, procs, reader, hit>>
       \/ \E k \in Styles :
            /\ Unused # {} /\ (k # "plain" => Cardinality(Odd) < MaxOdd)
            /\ LET s == Min(Unused) IN
               /\ style' = [style EXCEPT ![s] = k]
               /\ shell' = [shell EXCEPT ![s] = "run"]
               /\ job' = [job EXCEPT ![s] = IF k \in {"quiet", "escaped"} THEN "run" ELSE "none"]
               /\ table' = table \cup {s}
               /\ \/ reader' = [reader EXCEPT ![s] = "poll"] /\ UNCHANGED hit
                  \/ Fault("reader") /\ reader' = [reader EXCEPT ![s] = "broken"]
    /\ UNCHANGED <<ended, freed, main>>

\* terminal_kill of a session that the sweep has left: one that has exited
\* needs no signal, any other gets SIGHUP.
FindVictim(t, s) ==
    /\ Sweep(t) /\ s \in table'
    /\ IF s \in exited THEN Goto(t, "free", s) /\ UNCHANGED procs
                       ELSE Goto(t, "wait", s) /\ Ask(s)

\* Mutant: a session that does not exit in time is given up without SIGKILL.
WaitGivesUp(t) ==
    /\ mpc # "exit" /\ pc[t] = "wait" /\ Goto(t, "free", sid[t])
    /\ UNCHANGED <<table, procs, reader, ended, freed, main, hit>>

\* Mutant: wait_for_exit has no time limit.
WaitExitOnly(t) ==
    /\ mpc # "exit" /\ pc[t] = "wait"
    /\ sid[t] \in exited /\ Goto(t, "free", sid[t])
    /\ UNCHANGED <<table, procs, reader, ended, freed, main, hit>>

\* wait_for_exit: the session exits, or time runs out and SIGKILL follows.
WaitExit(t) ==
    /\ mpc # "exit" /\ pc[t] = "wait"
    /\ \/ sid[t] \in exited /\ Goto(t, "free", sid[t]) /\ UNCHANGED procs
       \/ sid[t] \notin exited /\ Kill(sid[t]) /\ Goto(t, "killed", sid[t])
    /\ UNCHANGED <<table, reader, ended, freed, main, hit>>

\* Mutant: the vterm is freed while the reader may still write into it.
FreeAlways(t) ==
    /\ mpc # "exit" /\ pc[t] \in {"free", "killed"}
    /\ freed' = freed \cup {sid[t]}
    /\ Drop({sid[t]}) /\ Goto(t, "idle", NoSession)
    /\ UNCHANGED <<procs, reader, exited, exitedAt, fresh, main, hit>>

\* The second wait ends one way or the other, the last output is taken, the
\* vterm is freed if the reader has stopped, and the session dropped.
FreeVterm(t) ==
    /\ mpc # "exit" /\ pc[t] \in {"free", "killed"}
    /\ freed' = IF sid[t] \in exited THEN freed \cup {sid[t]} ELSE freed
    /\ Drop({sid[t]}) /\ Goto(t, "idle", NoSession)
    /\ UNCHANGED <<procs, reader, exited, exitedAt, fresh, main, hit>>

-----------------------------------------------------------------------------
(* terminal_shutdown_all on the main thread, then the end of the process *)

ShutdownStart ==
    /\ mpc = "serve"
    /\ left' = table /\ mpc' = "next"
    /\ owed' = Sessions \ Unused
    /\ UNCHANGED <<table, procs, reader, ended, freed, locals, cur, hit>>

\* One session of the snapshot: SIGTERM whatever its state ...
ShutdownTerm ==
    /\ mpc = "next" /\ mpc' = "wait"
    /\ \E s \in left : Ask(s) /\ cur' = s /\ left' = left \ {s}
    /\ UNCHANGED <<table, reader, ended, freed, locals, owed, hit>>

\* Mutant: no escalation at shutdown.
ShutdownNoKill ==
    /\ mpc = "wait" /\ mpc' = "drop"
    /\ UNCHANGED <<table, procs, reader, ended, freed, locals, cur, left, owed, hit>>

\* ... then, if it has not exited in time, SIGKILL ...
ShutdownKill ==
    /\ mpc = "wait" /\ mpc' = "drop"
    /\ IF cur \in exited THEN UNCHANGED procs ELSE Kill(cur)
    /\ UNCHANGED <<table, reader, ended, freed, locals, cur, left, owed, hit>>

\* ... and exited by now or not, it is dropped.
ShutdownDrop ==
    /\ mpc = "drop" /\ mpc' = "next"
    /\ freed' = IF cur \in exited THEN freed \cup {cur} ELSE freed
    /\ Drop({cur}) /\ cur' = NoSession
    /\ UNCHANGED <<procs, reader, exited, exitedAt, fresh, locals, left, owed, hit>>

\* main returns: the threads and the memory are gone and the masters closed;
\* the kernel hangs up on the sessions that are left.
ProcessExit ==
    /\ mpc = "next" /\ left = {} /\ mpc' = "exit"
    /\ shell' = [s \in Sessions |-> IF shell[s] = "run" /\ style[s] # "deaf"
                                    THEN "dead" ELSE shell[s]]
    /\ table' = {} /\ exited' = {} /\ exitedAt' = [s \in Sessions |-> 0]
    /\ expired' = {} /\ fresh' = {} /\ freed' = {} /\ reader' = [s \in Sessions |-> "none"]
    /\ pc' = [t \in Threads |-> "idle"] /\ sid' = [t \in Threads |-> NoSession]
    /\ UNCHANGED <<style, job, cur, left, owed, hit>>

\* Nothing is left to happen.
Over == mpc = "exit" /\ UNCHANGED vars

Thread(t) == Create(t) \/ WaitExit(t) \/ FreeVterm(t)

Reader(s) == ReaderEof(s) \/ ReaderPublish(s)

Next ==
    \/ \E t \in Threads :
          \/ Thread(t) \/ List(t) \/ CountLive(t)
          \/ \E s \in table : FindVictim(t, s)
    \/ \E s \in Sessions : Reader(s) \/ ReaderFails(s) \/ ProcessEnds(s) \/ Expire(s)
    \/ ShutdownStart \/ ShutdownTerm \/ ShutdownKill \/ ShutdownDrop \/ ProcessExit \/ Over

Spec == Init /\ [][Next]_vars

\* Threads are scheduled, and every wait has a time limit; nothing is assumed
\* of the processes, of the client or of the main thread.
FairSpec ==
    /\ Spec
    /\ \A t \in Threads : WF_vars(Thread(t))
    /\ \A s \in Sessions : WF_vars(Reader(s))

-----------------------------------------------------------------------------
(* Properties *)

\* Types of the variables; no two sessions exited at the same time, and only
\* those that list_terminals shows as exited expire.
TypeOK ==
    /\ {table, exited, fresh, freed, left, owed} \subseteq SUBSET Sessions
    /\ expired \subseteq Kept
    /\ style \in [Sessions -> Styles \cup {"unused"}]
    /\ shell \in [Sessions -> {"none", "run", "dead", "reaped"}]
    /\ job \in [Sessions -> {"none", "run", "dead"}]
    /\ reader \in [Sessions -> {"none", "poll", "publish", "done", "broken"}]
    /\ exitedAt \in [Sessions -> 0..MaxCreated]
    /\ \A s, u \in exited : exitedAt[s] = exitedAt[u] => s = u
    /\ pc \in [Threads -> {"idle", "fork", "wait", "killed", "free"}]
    /\ sid \in [Threads -> Sessions \cup {NoSession}]
    /\ mpc \in {"serve", "next", "wait", "drop", "exit"}
    /\ cur \in Sessions \cup {NoSession} /\ hit \in 0..MaxFaults

\* How far max_sessions can be exceeded: the test and the insertion are two
\* steps, so each other thread can slip one session in, and no more
\* (terminal_create).
LiveBound ==
    Cardinality(table \ exited) + Cardinality({t \in Threads : pc[t] = "fork"})
        <= MaxSessions + Cardinality(Threads) - 1

\* The table stays bounded although exited sessions stay in it and only a call
\* sweeps them: beyond those that exited since the last sweep at most
\* max_sessions exited ones are kept (terminal_sweep).
KeptBound == Cardinality(Kept \ fresh) <= MaxSessions

\* The table of sessions: the two bounds, and the types of the variables.
TableBounds == TypeOK /\ LiveBound /\ KeptBound

\* The vterm of a session is freed only when its reader has stopped writing
\* into it, by whichever of sweep, kill and shutdown comes first; and a
\* session reported as exited has been waited for, so that its exit code is
\* final and it is no zombie (publish waits before it takes the lock).
FreedAfterReader ==
    /\ \A s \in freed : reader[s] = "done"
    /\ \A s \in exited : shell[s] = "reaped"

\* Nothing of the session's process group runs.  A job in the group that
\* ignores SIGHUP or SIGTERM and holds no terminal is missed: the session
\* counts as exited before SIGKILL is sent.
Gone(s) == shell[s] # "run" /\ (job[s] = "run" => style[s] \in {"quiet", "escaped"})

\* When kill_terminal drops a session its shell is dead, whatever it ignores.
\* A session whose jobs were killed with SIGKILL has none left in the group.
KillEndsShell ==
    \A t \in Threads : pc[t] \in {"killed", "free"} =>
        /\ Gone(sid[t])
        /\ (pc[t] = "killed" /\ style[sid[t]] = "quiet") => job[sid[t]] # "run"

\* When boxsh has ended, so has every session it had when the shutdown began,
\* also one that another thread was killing or had dropped half way.  Only a
\* session that was being created escapes: it is not in the snapshot.
ShutdownEndsSessions == mpc = "exit" => \A s \in owed : Gone(s)

\* The end of a session is noticed: once nobody holds its terminal and the
\* shell is dead, a reader that runs sets s->exited.
DeathIsNoticed ==
    \A s \in Sessions :
        (reader[s] = "poll" /\ Ended(s)) ~> (s \in exited \/ reader[s] = "broken" \/ mpc = "exit")

\* Every terminal call returns, also one that kills a session whose terminal an
\* escaped job keeps open: the reader then never sees end of file, the session
\* never counts as exited, and only the waits' time limits let kill_terminal
\* go on (wait_for_exit).
CallsEnd ==
    /\ DeathIsNoticed
    /\ \A t \in Threads : (pc[t] # "idle") ~> (pc[t] = "idle" \/ mpc = "exit")
=============================================================================

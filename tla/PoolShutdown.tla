---------------------------- MODULE PoolShutdown ----------------------------
(***************************************************************************)
(* How boxsh takes its workers and their commands down: WorkerPool::       *)
(* shutdown (src/worker_pool.cpp), or the death of the coordinator.        *)
(*                                                                         *)
(* A worker learns that the coordinator is gone by end of file on its      *)
(* socket.  Workers are forked without exec, so FD_CLOEXEC does nothing    *)
(* for them: a worker inherits the coordinator's end of the socket of      *)
(* every worker forked before it, and end of file reaches a worker only    *)
(* after every worker forked later has exited.  fork time is therefore     *)
(* state; collect() gives a respawned worker the latest one.               *)
(***************************************************************************)
EXTENDS Naturals, FiniteSets

CONSTANTS
    N,          \* --workers
    MaxGen,     \* bound on the number of forks
    Faults      \* subset of {"wedge", "crash"}: see Wedge and WorkerCrash

ASSUME ShutdownAssumption ==
    /\ N \in Nat \ {0} /\ MaxGen \in Nat /\ N <= MaxGen
    /\ Faults \subseteq {"wedge", "crash"}

Workers == 1..N

VARIABLES
    phase,      \* of the coordinator
    idx,        \* worker the shutdown loop is at
    open,       \* the coordinator's ends of the sockets are open
    slot,       \* what the coordinator has asked of each worker: its busy and
                \* inflight_cancelled, which is also what the socket holds
    gen,        \* fork time of each worker's current process
    forks,      \* processes forked so far
    ws,         \* what each worker process does
    cmd,        \* the command each worker has started, while it lives
    hit,        \* what befell each worker process (history)
    orphans     \* what had befallen the workers that were replaced while their
                \* command lived (history)

coord   == <<phase, idx, open>>
history == <<hit, orphans>>
vars    == <<coord, slot, gen, forks, ws, cmd, history>>

Fates == {"wedge", "crash", "missed", "signal"}

TypeOK ==
    /\ phase \in {"serving", "waiting", "sigterm", "sigkill", "gone"}
    /\ idx \in Workers /\ open \in BOOLEAN
    /\ slot \in [Workers -> {"free", "asked", "cancelled"}]
    /\ gen \in [Workers -> 1..MaxGen] /\ forks \in N..MaxGen
    /\ ws \in [Workers -> {"idle", "running", "wedged", "missed", "dead"}]
    /\ cmd \in [Workers -> {"none", "forked", "alive"}]
    /\ hit \in [Workers -> SUBSET Fates] /\ orphans \subseteq SUBSET Fates

\* init() forks the workers in index order.
Init ==
    /\ phase = "serving" /\ idx = 1 /\ open = TRUE
    /\ slot = [w \in Workers |-> "free"]
    /\ gen = [w \in Workers |-> w] /\ forks = N
    /\ ws = [w \in Workers |-> "idle"]
    /\ cmd = [w \in Workers |-> "none"]
    /\ hit = [w \in Workers |-> {}] /\ orphans = {}

-----------------------------------------------------------------------------
(* While the coordinator serves.                                           *)

\* A request is written to the socket of a free slot.
Dispatch(w) ==
    /\ phase = "serving" /\ slot[w] = "free" /\ ws[w] = "idle"
    /\ slot' = [slot EXCEPT ![w] = "asked"]
    /\ UNCHANGED <<coord, gen, forks, ws, cmd, history>>

\* A cancel marker is written behind the request, read or not.
Cancel(w) ==
    /\ phase = "serving" /\ slot[w] = "asked"
    /\ slot' = [slot EXCEPT ![w] = "cancelled"]
    /\ UNCHANGED <<coord, gen, forks, ws, cmd, history>>

Live(w) == cmd[w] # "none"

\* collect() on a busy slot whose worker has gone, some time after it went:
\* the worker is reaped, its command is not looked for, and another worker is
\* forked, which inherits the coordinator's end of every other socket.
Collect(w) ==
    /\ phase = "serving" /\ slot[w] # "free" /\ ws[w] = "dead"
    /\ forks < MaxGen
    /\ orphans' = IF Live(w) THEN orphans \cup {hit[w]} ELSE orphans
    /\ forks' = forks + 1
    /\ gen' = [gen EXCEPT ![w] = forks + 1]
    /\ slot' = [slot EXCEPT ![w] = "free"]
    /\ ws' = [ws EXCEPT ![w] = "idle"]
    /\ cmd' = [cmd EXCEPT ![w] = "none"]
    /\ hit' = [hit EXCEPT ![w] = {}]
    /\ UNCHANGED coord

-----------------------------------------------------------------------------
(* The workers.                                                            *)

\* End of file comes in reverse order of fork time.
Later(w) == {v \in Workers : gen[v] > gen[w]}
EofAt(w) == ~open /\ \A v \in Later(w) : ws[v] = "dead"

\* The socket is readable while a command runs: a marker or end of file.
Heard(w) == slot[w] = "cancelled" \/ EofAt(w)

\* A request in the socket is read and started, whatever has become of the
\* coordinator meanwhile.
StartCmd(w) ==
    /\ ws[w] = "idle" /\ slot[w] # "free"
    /\ ws' = [ws EXCEPT ![w] = "running"]
    /\ cmd' = [cmd EXCEPT ![w] = "forked"]
    /\ UNCHANGED <<coord, slot, gen, forks, history>>

\* The first thing a forked child does: until then kill(-child) misses it.
Setpgid(w) ==
    /\ cmd[w] = "forked"
    /\ cmd' = [cmd EXCEPT ![w] = "alive"]
    /\ UNCHANGED <<coord, slot, gen, forks, ws, history>>

\* Bound: a fault befalls one of the worker processes of a moment.
MayHit(f) == f \in Faults /\ \A w \in Workers : f \notin hit[w]

\* The command closes stdout and stderr and goes on: the worker leaves its
\* poll loop for a waitpid() that does not watch the socket.
Wedge(w) ==
    /\ MayHit("wedge") /\ ws[w] = "running" /\ cmd[w] = "alive"
    /\ ws' = [ws EXCEPT ![w] = "wedged"]
    /\ hit' = [hit EXCEPT ![w] = @ \cup {"wedge"}]
    /\ UNCHANGED <<coord, slot, gen, forks, cmd, orphans>>

\* The command ends by itself or by its timeout.  The reply is written and
\* collected, a marker that came too late is skipped; the write fails when
\* nobody holds the other end any more.  After a kill that missed there is no
\* reply: the worker exits.
FinishCmd(w) ==
    /\ ws[w] \in {"running", "wedged", "missed"} /\ cmd[w] = "alive"
    /\ cmd' = [cmd EXCEPT ![w] = "none"]
    /\ IF ws[w] = "missed" \/ EofAt(w)
       THEN ws' = [ws EXCEPT ![w] = "dead"] /\ UNCHANGED slot
       ELSE ws' = [ws EXCEPT ![w] = "idle"] /\ slot' = [slot EXCEPT ![w] = "free"]
    /\ UNCHANGED <<coord, gen, forks, history>>

\* read_msg() fails: the worker leaves worker_loop.
IdleStop(w) ==
    /\ ws[w] = "idle" /\ slot[w] = "free" /\ EofAt(w)
    /\ ws' = [ws EXCEPT ![w] = "dead"]
    /\ UNCHANGED <<coord, slot, gen, forks, cmd, history>>

\* Mutant: a running worker exits without killing its command.
RunningStopNoKill(w) ==
    /\ ws[w] = "running" /\ Heard(w)
    /\ ws' = [ws EXCEPT ![w] = "dead"]
    /\ UNCHANGED <<coord, slot, gen, forks, cmd, history>>

\* Mutant: a running worker watches its socket for markers only.
RunningStopMarked(w) ==
    /\ ws[w] = "running" /\ slot[w] = "cancelled" /\ cmd[w] = "alive"
    /\ cmd' = [cmd EXCEPT ![w] = "none"]
    /\ ws' = [ws EXCEPT ![w] = "dead"]
    /\ UNCHANGED <<coord, slot, gen, forks, history>>

\* A running worker kills the command's process group, waits for the shell and
\* exits.  A child that has not executed setpgid() yet has no group: the kill
\* hits nobody and the worker waits for as long as the command runs.
RunningStop(w) ==
    /\ ws[w] = "running" /\ Heard(w)
    /\ IF cmd[w] = "forked"
       THEN /\ ws' = [ws EXCEPT ![w] = "missed"]
            /\ hit' = [hit EXCEPT ![w] = @ \cup {"missed"}] /\ UNCHANGED cmd
       ELSE /\ ws' = [ws EXCEPT ![w] = "dead"]
            /\ cmd' = [cmd EXCEPT ![w] = "none"] /\ UNCHANGED hit
    /\ UNCHANGED <<coord, slot, gen, forks, orphans>>

\* The worker process dies, at any time; its command is in a process group of
\* its own and lives on.  A dead worker that was busy is noticed by Collect.
WorkerCrash(w) ==
    /\ MayHit("crash") /\ ws[w] # "dead"
    /\ ws' = [ws EXCEPT ![w] = "dead"]
    /\ hit' = [hit EXCEPT ![w] = @ \cup {"crash"}]
    /\ UNCHANGED <<coord, slot, gen, forks, cmd, orphans>>

-----------------------------------------------------------------------------
(* The coordinator stops.                                                  *)

\* main() after rpc_run_loop: shutdown() closes its end of every socket.
Close ==
    /\ phase = "serving"
    /\ phase' = "waiting" /\ open' = FALSE /\ idx' = 1
    /\ UNCHANGED <<slot, gen, forks, ws, cmd, history>>

\* The process is killed outright: the kernel closes its descriptors.
KilledOutright ==
    /\ phase = "serving"
    /\ phase' = "gone" /\ open' = FALSE
    /\ UNCHANGED <<idx, slot, gen, forks, ws, cmd, history>>

Advance(next) ==
    IF idx = N THEN phase' = next /\ idx' = 1
    ELSE idx' = idx + 1 /\ UNCHANGED phase

\* Mutant: no grace period.
WaitWorkerNot ==
    /\ phase = "waiting" /\ Advance("sigterm")
    /\ UNCHANGED <<open, slot, gen, forks, ws, cmd, history>>

\* A worker is about to react to its socket.
Reacts(w) == \/ ws[w] = "idle" /\ (slot[w] # "free" \/ EofAt(w))
             \/ ws[w] = "running" /\ Heard(w)

\* wait_pid(pid, 3000): until the worker has gone, or the grace period is
\* over.  The period is long against the reaction of a worker, so it runs out
\* only when no worker is about to react.
WaitWorker ==
    /\ phase = "waiting"
    /\ ws[idx] = "dead" \/ \A w \in Workers : ~Reacts(w)
    /\ Advance("sigterm")
    /\ UNCHANGED <<open, slot, gen, forks, ws, cmd, history>>

Signalled == [hit EXCEPT ![idx] = IF ws[idx] = "dead" THEN @ ELSE @ \cup {"signal"}]

\* The handler of SIGTERM, inherited from the coordinator, only sets a flag:
\* poll() and read() are tried again, but a waitpid() fails with EINTR.  A
\* wedged worker forgets its command and replies; one whose kill missed exits.
SendTerm ==
    /\ phase = "sigterm"
    /\ ws' = [ws EXCEPT ![idx] = CASE @ = "wedged" -> "idle"
                                   [] @ = "missed" -> "dead"
                                   [] OTHER -> @]
    /\ slot' = [slot EXCEPT ![idx] = IF ws[idx] = "wedged" THEN "free" ELSE @]
    /\ hit' = Signalled /\ Advance("sigkill")
    /\ UNCHANGED <<open, gen, forks, cmd, orphans>>

SendKill ==
    /\ phase = "sigkill"
    /\ ws' = [ws EXCEPT ![idx] = "dead"]
    /\ hit' = Signalled /\ Advance("gone")
    /\ UNCHANGED <<open, slot, gen, forks, cmd, orphans>>

-----------------------------------------------------------------------------

Coordinator == WaitWorker \/ SendTerm \/ SendKill
Worker(w)   == StartCmd(w) \/ IdleStop(w) \/ RunningStop(w)

AllGone == \A w \in Workers : ws[w] = "dead"

Stopped == phase = "gone" /\ AllGone /\ UNCHANGED vars

Next == \/ Close \/ KilledOutright \/ Coordinator \/ Stopped
        \/ \E w \in Workers : Dispatch(w) \/ Cancel(w) \/ Collect(w) \/ Setpgid(w)
                              \/ Wedge(w) \/ FinishCmd(w) \/ WorkerCrash(w) \/ Worker(w)

Spec == Init /\ [][Next]_vars

\* The coordinator and the workers are scheduled; commands need not end.
FairSpec == Spec /\ WF_vars(Coordinator) /\ \A w \in Workers : WF_vars(Worker(w))

-----------------------------------------------------------------------------
(* Properties.                                                             *)

\* A worker sits in one of the two waits for its command that have no deadline
\* and do not watch the socket.
Stuck(w) == ws[w] \in {"wedged", "missed"}

\* A worker of the pool has been in one of them.
SomeStuck == \E w \in Workers : hit[w] \cap {"wedge", "missed"} # {}

\* A command is left running without its worker only if that worker crashed
\* (collect() does not know the command's group), or if shutdown() had to
\* signal it, which takes a worker that was stuck.
NoOrphanUnlessFault ==
    /\ \A h \in orphans : "crash" \in h
    /\ \A w \in Workers : ws[w] = "dead" /\ Live(w) =>
          "crash" \in hit[w] \/ ("signal" \in hit[w] /\ SomeStuck)

\* The grace period is enough: every worker has left by itself before the
\* coordinator resorts to signals, in whatever order they were respawned and
\* whatever was still in their sockets.  Only a worker that was stuck makes it
\* escalate; a crash does not.  With it, the types of the variables.
NoEscalation ==
    /\ TypeOK
    /\ phase \in {"sigterm", "sigkill"} /\ ~SomeStuck => AllGone

\* Once the coordinator is gone, orderly or not, every worker follows, even one
\* whose command would run for ever, unless a worker is stuck for ever; and
\* shutdown() itself comes to an end whatever the workers and their commands do.
Cascade ==
    /\ ~open ~> (AllGone \/ \E w \in Workers : []Stuck(w))
    /\ phase = "waiting" ~> phase = "gone" /\ AllGone
=============================================================================

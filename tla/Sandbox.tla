------------------------------- MODULE Sandbox -------------------------------
(***************************************************************************)
(* The life of a Linux sandbox on its host (sandbox_apply, sandbox.cpp):   *)
(* the wrapper that waits and cleans up, the child that builds the new     *)
(* root, the copy-on-write directories with their work directories in      *)
(* .boxsh, and the placeholders that protected paths leave on the host.    *)
(*                                                                         *)
(* Several sandboxes run on one host and share a parent directory and a    *)
(* home.  Every system call that reads or changes what they share is a     *)
(* step; what happens inside a mount namespace is not seen from outside    *)
(* and is left out, apart from whether it can fail and from what it keeps  *)
(* busy: a wrapper shares the namespace of its child (unshare comes before *)
(* fork), so mounts last until both are gone, and what the child has bound *)
(* over a path keeps the wrapper from removing it.                         *)
(***************************************************************************)
EXTENDS Naturals, FiniteSets, Sequences

CONSTANTS Boxes,
          Starts,       \* host and configurations to start from
          MaxFaults,    \* failing system calls and killed wrappers
          MaxUser       \* changes the user makes on the host meanwhile

ASSUME SandboxAssumption == MaxFaults \in Nat /\ MaxUser \in Nat

VARIABLES
    start,    \* [rpc, dst, protect, host, dirs, work, overlay, fuse]
    host,     \* protected path -> "none", "empty" (a placeholder) or "user"
    dirs,     \* destinations that exist
    dot,      \* the directory .boxsh exists
    work,     \* entries of .boxsh
    pc,       \* where each sandbox's child is in sandbox_apply
    idx,      \* index of the path it is protecting
    todo,     \* entries of .boxsh it has still to look at
    cur,      \* the entry it found stale
    rec,      \* paths in its clean-up file
    bound,    \* recorded paths it has bound something over
    mounted,  \* "no", "kernel" or "fuse": its overlay
    wrap,     \* its wrapper process
    stop,     \* sandboxes whose program has been asked to shut down
    faults, changes,
    \* History:
    lost,     \* paths whose user data a clean-up removed
    covered,  \* paths the user wrote while a sandbox was taking them over
    loose,    \* placeholders made and not recorded, or not removed by a fault
    raced,    \* sandboxes another one's clean-up got in the way of
    swept,    \* destinations whose entry in .boxsh had lost its sibling
    termed,   \* sandboxes sent a termination signal that is to be acted on
    missed    \* and those it reached between the test for it and poll(2)

hostVars == <<host, dirs, dot, work>>
boxVars  == <<pc, idx, todo, cur, rec, bound, mounted, wrap, stop>>
histVars == <<lost, covered, loose, raced, swept, termed, missed>>
vars == <<start, hostVars, boxVars, faults, changes, histVars>>

(* The protected paths, in the order of the code's tables: files first.    *)
PathSeq == <<"file", "dir">>
Paths   == {"file", "dir"}
Path(b) == PathSeq[idx[b]]
Dst(b)  == start.dst[b]

(* Before the first sandbox a protected path is missing or is the user's.  *)
ASSUME StartsAssumption == \A s \in Starts : s.host \in [Paths -> {"none", "user"}]

Init ==
    /\ start \in Starts
    /\ host = start.host /\ dirs = start.dirs /\ work = start.work
    /\ dot = (start.work # {})
    /\ pc = [b \in Boxes |-> "apply"]
    /\ idx = [b \in Boxes |-> 1]
    /\ todo = [b \in Boxes |-> {}]
    /\ cur = [b \in Boxes |-> "none"]
    /\ rec = [b \in Boxes |-> {}]
    /\ bound = [b \in Boxes |-> {}]
    /\ mounted = [b \in Boxes |-> "no"]
    /\ wrap = [b \in Boxes |-> "none"]
    /\ stop = {}
    /\ faults = 0 /\ changes = 0
    /\ lost = {} /\ covered = {} /\ loose = {} /\ raced = {}
    /\ termed = {} /\ missed = {}
    /\ swept = start.work \ start.dirs

Goto(b, l) == pc' = [pc EXCEPT ![b] = l]

(* sandbox_apply returns an error in the child: main exits with 1.         *)
Die(b) == Goto(b, "failed")

Dead(b) == pc[b] \in {"failed", "ended"}
Over(b) == Dead(b) /\ wrap[b] \in {"gone", "killed"}

(* An overlay is there for as long as a process is in its namespace.       *)
Holds(b) == mounted[b] # "no" /\ ~Over(b)

(***************************************************************************)
(* Checks, namespaces and the fork.  A failure here leaves no trace.       *)
(***************************************************************************)
Apply(b) ==
    /\ pc[b] = "apply"
    /\ Goto(b, IF Dst(b) # "none" THEN "scan" ELSE IF start.protect THEN "check" ELSE "pivot")
    /\ wrap' = [wrap EXCEPT ![b] = "early"]
    /\ UNCHANGED <<start, hostVars, idx, todo, cur, rec, bound, mounted, stop, faults, changes, histVars>>

Refuse(b) ==
    /\ pc[b] = "apply" /\ faults < MaxFaults
    /\ faults' = faults + 1
    /\ Goto(b, "failed")
    /\ wrap' = [wrap EXCEPT ![b] = "gone"]
    /\ UNCHANGED <<start, hostVars, idx, todo, cur, rec, bound, mounted, stop, changes, histVars>>

(***************************************************************************)
(* Lazy clean-up of .boxsh: entries without a sibling go, then .boxsh      *)
(* itself if that emptied it.                                              *)
(***************************************************************************)
Scan(b) ==
    /\ pc[b] = "scan"
    /\ IF dot THEN todo' = [todo EXCEPT ![b] = work] /\ Goto(b, "look")
              ELSE UNCHANGED todo /\ Goto(b, "mkdst")
    /\ UNCHANGED <<start, hostVars, idx, cur, rec, bound, mounted, wrap, stop, faults, changes, histVars>>

(* A mutant: every entry is stale.                                         *)
AnyStale(e) == e = e

IsStale(e) == e \notin dirs

Look(b) ==
    /\ pc[b] = "look"
    /\ IF todo[b] = {} THEN Goto(b, "rmdot") /\ UNCHANGED <<todo, cur>>
       ELSE \E e \in todo[b] :
              /\ todo' = [todo EXCEPT ![b] = @ \ {e}]
              /\ IF IsStale(e)
                 THEN cur' = [cur EXCEPT ![b] = e] /\ Goto(b, "stale")
                 ELSE UNCHANGED <<cur, pc>>
    /\ UNCHANGED <<start, hostVars, idx, rec, bound, mounted, wrap, stop, faults, changes, histVars>>

(* rmdir(2) of the entry and of the "work" directory in it; it fails when  *)
(* that one is not empty.                                                  *)
Stale(b) ==
    /\ pc[b] = "stale"
    /\ work' \in {work, work \ {cur[b]}}
    /\ raced' = IF work' = work THEN raced
                ELSE raced \cup {c \in Boxes \ {b} : Dst(c) = cur[b] /\ pc[c] \in {"mount", "fuse"}}
    /\ Goto(b, "look")
    /\ UNCHANGED <<start, host, dirs, dot, idx, todo, cur, rec, bound, mounted, wrap, stop, faults, changes,
                   lost, covered, loose, swept, termed, missed>>

Rmdot(b) ==
    /\ pc[b] = "rmdot"
    /\ dot' = (dot /\ work # {})
    /\ raced' = IF dot' = dot THEN raced
                ELSE raced \cup {c \in Boxes \ {b} : pc[c] = "mkwork"}
    /\ Goto(b, "mkdst")
    /\ UNCHANGED <<start, host, dirs, work, idx, todo, cur, rec, bound, mounted, wrap, stop, faults, changes,
                   lost, covered, loose, swept, termed, missed>>

(***************************************************************************)
(* The destination, then its entry in .boxsh, then the overlay.            *)
(***************************************************************************)
Mkdst(b) ==
    /\ pc[b] = "mkdst"
    /\ dirs' = dirs \cup {Dst(b)}
    /\ Goto(b, "mkdot")
    /\ UNCHANGED <<start, host, dot, work, idx, todo, cur, rec, bound, mounted, wrap, stop, faults, changes, histVars>>

(* A mutant of Mkdot: mkdir_p takes what exists for a failure.             *)
MkdotOnce(b) ==
    /\ pc[b] = "mkdot"
    /\ dot' = TRUE
    /\ IF dot THEN Die(b) ELSE Goto(b, "mkwork")
    /\ UNCHANGED <<start, host, dirs, work, idx, todo, cur, rec, bound, mounted, wrap, stop, faults, changes, histVars>>

(* mkdir_p makes .boxsh and the entry in two steps; the second one fails   *)
(* if .boxsh is gone again.                                                *)
Mkdot(b) ==
    /\ pc[b] = "mkdot"
    /\ dot' = TRUE
    /\ Goto(b, "mkwork")
    /\ UNCHANGED <<start, host, dirs, work, idx, todo, cur, rec, bound, mounted, wrap, stop, faults, changes, histVars>>

Mkwork(b) ==
    /\ pc[b] = "mkwork"
    /\ IF dot THEN work' = work \cup {Dst(b)} /\ Goto(b, "mount")
              ELSE UNCHANGED work /\ Die(b)
    /\ UNCHANGED <<start, host, dirs, dot, idx, todo, cur, rec, bound, mounted, wrap, stop, faults, changes, histVars>>

AfterMount == IF start.protect THEN "check" ELSE "pivot"

InUse(b) == \E c \in Boxes \ {b} : Holds(c) /\ Dst(c) = Dst(b)

(* The errors of mount(2) that lead to fuse-overlayfs, with a mount that   *)
(* comes out read-only: what the kernel cannot do, never EBUSY or ENOENT.  *)
FallsBack(b) == start.overlay # "works" /\ {Dst(b)} \subseteq dirs \cap work

(* A destination that another overlay has is refused with EBUSY only where *)
(* the kernel keeps an index, which the options do not ask for; it is      *)
(* mounted with a warning elsewhere.                                       *)
Mount(b) ==
    /\ pc[b] = "mount"
    /\ \/ FallsBack(b) /\ Goto(b, "fuse") /\ UNCHANGED mounted
       \/ /\ ~FallsBack(b) /\ (Dst(b) \notin dirs \cap work \/ InUse(b))
          /\ Die(b) /\ UNCHANGED mounted
       \/ /\ ~FallsBack(b) /\ Dst(b) \in dirs \cap work
          /\ mounted' = [mounted EXCEPT ![b] = "kernel"] /\ Goto(b, AfterMount)
    /\ UNCHANGED <<start, hostVars, idx, todo, cur, rec, bound, wrap, stop, faults, changes, histVars>>

(* try_fuse_overlayfs: the SIGCHLD handler of PID 1 may have reaped the    *)
(* child before waitpid(2) asks for it, which then fails.                  *)
Fuse(b) ==
    /\ pc[b] = "fuse"
    /\ \/ /\ start.fuse /\ Dst(b) \in dirs \cap work
          /\ mounted' = [mounted EXCEPT ![b] = "fuse"] /\ Goto(b, AfterMount)
       \/ Die(b) /\ UNCHANGED mounted
    /\ UNCHANGED <<start, hostVars, idx, todo, cur, rec, bound, wrap, stop, faults, changes, histVars>>

(***************************************************************************)
(* Protection of paths that a writable bind of the home exposes            *)
(* (protect_path_deny_write, once per path).  What does not exist gets a   *)
(* placeholder on the host, recorded in the clean-up file.                 *)
(***************************************************************************)
NextPath(b) ==
    IF idx[b] < Len(PathSeq)
    THEN idx' = [idx EXCEPT ![b] = @ + 1] /\ Goto(b, "check")
    ELSE UNCHANGED idx /\ Goto(b, "pivot")

(* Making a path that must exist as a mount point, through the bind: an    *)
(* empty one appears on the host when it has gone meanwhile.               *)
Ensure(b) ==
    /\ host' = [host EXCEPT ![Path(b)] = IF @ = "none" THEN "empty" ELSE @]
    /\ loose' = IF host[Path(b)] = "none" /\ Path(b) \notin rec[b]
                THEN loose \cup {Path(b)} ELSE loose

Check(b) ==
    /\ pc[b] = "check"
    /\ Goto(b, IF host[Path(b)] # "none" THEN "anchor" ELSE "create")
    /\ UNCHANGED <<start, hostVars, idx, todo, cur, rec, bound, mounted, wrap, stop, faults, changes, histVars>>

(* protect_path_readonly: the path is bound over itself.                   *)
Anchor(b) ==
    /\ pc[b] = "anchor"
    /\ Ensure(b)
    /\ Goto(b, "bindold")
    /\ UNCHANGED <<start, dirs, dot, work, idx, todo, cur, rec, bound, mounted, wrap, stop, faults, changes,
                   lost, covered, raced, swept, termed, missed>>

(* bind_mount fails if its source, the path on the host, has gone.         *)
BindOld(b) ==
    /\ pc[b] = "bindold"
    /\ IF host[Path(b)] = "none" THEN Die(b) /\ UNCHANGED idx ELSE NextPath(b)
    /\ UNCHANGED <<start, hostVars, todo, cur, rec, bound, mounted, wrap, stop, faults, changes, histVars>>

(* A mutant of Create: the placeholder is made without a second look.      *)
CreateBlind(b) ==
    /\ pc[b] = "create"
    /\ Goto(b, "make")
    /\ UNCHANGED <<start, hostVars, idx, todo, cur, rec, bound, mounted, wrap, stop, faults, changes, histVars>>

(* protect_missing_path_readonly looks again: what exists is not its own.  *)
Create(b) ==
    /\ pc[b] = "create"
    /\ Goto(b, IF host[Path(b)] # "none" THEN "bind" ELSE "make")
    /\ UNCHANGED <<start, hostVars, idx, todo, cur, rec, bound, mounted, wrap, stop, faults, changes, histVars>>

(* open(2) without O_EXCL and mkdir(2) that takes EEXIST: what has come to *)
(* exist since is taken for the placeholder.                               *)
Make(b) ==
    /\ pc[b] = "make"
    /\ host' = [host EXCEPT ![Path(b)] = IF @ = "none" THEN "empty" ELSE @]
    /\ Goto(b, "record")
    /\ UNCHANGED <<start, dirs, dot, work, idx, todo, cur, rec, bound, mounted, wrap, stop, faults, changes, histVars>>

Record(b) ==
    /\ pc[b] = "record"
    /\ rec' = [rec EXCEPT ![b] = @ \cup {Path(b)}]
    /\ Goto(b, "bind")
    /\ UNCHANGED <<start, hostVars, idx, todo, cur, bound, mounted, wrap, stop, faults, changes, histVars>>

Bind(b) ==
    /\ pc[b] = "bind"
    /\ Ensure(b)
    /\ bound' = [bound EXCEPT ![b] = @ \cup ({Path(b)} \cap rec[b])]
    /\ NextPath(b)
    /\ UNCHANGED <<start, dirs, dot, work, todo, cur, rec, mounted, wrap, stop, faults, changes,
                   lost, covered, raced, swept, termed, missed>>

(* pivot_root, the working directory, seccomp and the scratch directory.   *)
Pivot(b) ==
    /\ pc[b] = "pivot"
    /\ Goto(b, "run")
    /\ UNCHANGED <<start, hostVars, idx, todo, cur, rec, bound, mounted, wrap, stop, faults, changes, histVars>>

Setup == {"scan", "mkdst", "mkdot", "mkwork", "mount", "check", "anchor", "bindold",
          "create", "make", "record", "bind", "pivot"}

(* Any other system call of the set-up may fail: no space, no permission.  *)
(* A placeholder whose path cannot be recorded stays behind.               *)
SetupFails(b) ==
    /\ pc[b] \in Setup /\ faults < MaxFaults
    /\ faults' = faults + 1
    /\ loose' = IF pc[b] = "record" /\ host[Path(b)] = "empty"
                THEN loose \cup {Path(b)} ELSE loose
    /\ Die(b)
    /\ UNCHANGED <<start, hostVars, idx, todo, cur, rec, bound, mounted, wrap, stop, changes,
                   lost, covered, raced, swept, termed, missed>>

(***************************************************************************)
(* The program: it ends by itself, or, an RPC server, when asked to.       *)
(***************************************************************************)
Exit(b) ==
    /\ pc[b] = "run"
    /\ Goto(b, "ended")
    /\ UNCHANGED <<start, hostVars, idx, todo, cur, rec, bound, mounted, wrap, stop, faults, changes, histVars>>

Stopped(b) == b \in stop /\ Exit(b)

(***************************************************************************)
(* The wrapper: it forwards signals, waits, and removes the placeholders.  *)
(***************************************************************************)
InstallHandlers(b) ==
    /\ wrap[b] = "early"
    /\ wrap' = [wrap EXCEPT ![b] = "waiting"]
    /\ UNCHANGED <<start, hostVars, pc, idx, todo, cur, rec, bound, mounted, stop, faults, changes, histVars>>

(* A mutant of Forward: only a program that runs is told.                  *)
ForwardIfRunning(b) == IF pc[b] = "run" THEN stop \cup {b} ELSE stop

(* kill(child, sig): the handler that an RPC server set before the sandbox *)
(* was inherited by the child; PID 1 ignores a signal it has none for.     *)
Forward(b) == IF start.rpc THEN stop \cup {b} ELSE stop

(* The loop tests the flag the handler sets and then blocks in poll(2): in *)
(* between a signal does not end the program, until something else wakes   *)
(* it or another signal comes.  Set-up is over before the first test.      *)
MissesTest(b) ==
    /\ start.rpc /\ pc[b] = "run"
    /\ missed' = missed \cup {b}
    /\ UNCHANGED stop

(* SIGTERM, SIGINT or SIGHUP.  Before the fork an RPC server remembers it  *)
(* in a flag the child inherits; between the fork and signal(2) the flag   *)
(* is the wrapper's own and nobody reads it.  Without RPC mode the default *)
(* action ends the wrapper.                                                *)
Term(b) ==
    /\ changes < MaxUser
    /\ changes' = changes + 1
    /\ \/ /\ pc[b] = "apply"
          /\ IF start.rpc THEN stop' = stop \cup {b} /\ UNCHANGED <<pc, wrap>>
                          ELSE Goto(b, "ended") /\ wrap' = [wrap EXCEPT ![b] = "gone"] /\ UNCHANGED stop
          /\ termed' = termed \cup {b} /\ UNCHANGED missed
       \/ /\ wrap[b] = "early"
          /\ wrap' = IF start.rpc THEN wrap ELSE [wrap EXCEPT ![b] = "killed"]
          /\ UNCHANGED <<pc, stop, termed, missed>>
       \/ /\ wrap[b] = "waiting"
          /\ (stop' = Forward(b) /\ UNCHANGED missed) \/ MissesTest(b)
          /\ termed' = IF start.rpc THEN termed \cup {b} ELSE termed
          /\ UNCHANGED <<pc, wrap>>
    /\ UNCHANGED <<start, hostVars, idx, todo, cur, rec, bound, mounted, faults,
                   lost, covered, loose, raced, swept>>

KillWrapper(b) ==
    /\ wrap[b] \in {"early", "waiting", "clean"} /\ faults < MaxFaults
    /\ faults' = faults + 1
    /\ wrap' = [wrap EXCEPT ![b] = "killed"]
    /\ UNCHANGED <<start, hostVars, pc, idx, todo, cur, rec, bound, mounted, stop, changes, histVars>>

WaitChild(b) ==
    /\ wrap[b] = "waiting" /\ Dead(b)
    /\ wrap' = [wrap EXCEPT ![b] = "clean"]
    /\ UNCHANGED <<start, hostVars, pc, idx, todo, cur, rec, bound, mounted, stop, faults, changes, histVars>>

(* cleanup_host_mountpoints, whose calls may all fail.  A path the child   *)
(* has bound something over is a mount point in the wrapper's namespace    *)
(* too, and EBUSY; rmdir(2) leaves a directory the user has filled;        *)
(* unlink(2) asks nothing.                                                 *)
Remove(b, p) ==
    IF p \in bound[b] \/ (p = "dir" /\ host[p] = "user") THEN host[p] ELSE "none"

Cleanup(b) ==
    /\ wrap[b] = "clean"
    /\ IF rec[b] = {}
       THEN wrap' = [wrap EXCEPT ![b] = "gone"] /\ UNCHANGED <<host, rec, lost, raced>>
       ELSE \E p \in rec[b] :
              /\ host' = [host EXCEPT ![p] = Remove(b, p)]
              /\ lost' = IF host[p] = "user" /\ host'[p] = "none" THEN lost \cup {p} ELSE lost
              /\ raced' = IF host'[p] = "none"
                          THEN raced \cup {c \in Boxes : pc[c] = "bindold" /\ Path(c) = p}
                          ELSE raced
              /\ rec' = [rec EXCEPT ![b] = @ \ {p}]
              /\ UNCHANGED wrap
    /\ UNCHANGED <<start, dirs, dot, work, pc, idx, todo, cur, bound, mounted, stop, faults, changes,
                   covered, loose, swept, termed, missed>>

(* One of them fails for another reason, and nobody looks.                 *)
CleanupFails(b) ==
    /\ wrap[b] = "clean" /\ faults < MaxFaults
    /\ faults' = faults + 1
    /\ \E p \in rec[b] :
          /\ rec' = [rec EXCEPT ![b] = @ \ {p}]
          /\ loose' = IF host[p] = "empty" THEN loose \cup {p} ELSE loose
    /\ UNCHANGED <<start, hostVars, pc, idx, todo, cur, bound, mounted, wrap, stop, changes,
                   lost, covered, raced, swept, termed, missed>>

(***************************************************************************)
(* The user, on the host.                                                  *)
(***************************************************************************)
Taken(p) ==
    \E c \in Boxes : p \in rec[c] \/ (pc[c] \in {"make", "record"} /\ Path(c) = p)

UserWrites(p) ==
    /\ changes < MaxUser
    /\ changes' = changes + 1
    /\ host' = [host EXCEPT ![p] = "user"]
    /\ covered' = IF Taken(p) THEN covered \cup {p} ELSE covered
    /\ UNCHANGED <<start, dirs, dot, work, boxVars, faults, lost, loose, raced, swept, termed, missed>>

(* The results of a sandbox that has ended are thrown away.                *)
UserRemovesDst(d) ==
    /\ changes < MaxUser /\ d \in dirs
    /\ \A c \in Boxes : Dst(c) = d => ~Holds(c)
    /\ changes' = changes + 1
    /\ dirs' = dirs \ {d}
    /\ swept' = swept \cup {d}
    /\ UNCHANGED <<start, host, dot, work, boxVars, faults, lost, covered, loose, raced, termed, missed>>

(* Nothing is left to do: the model stutters.                              *)
AllOver == (\A b \in Boxes : Over(b)) /\ UNCHANGED vars

ChildStep(b) ==
    \/ Apply(b) \/ Scan(b) \/ Look(b) \/ Stale(b) \/ Rmdot(b)
    \/ Mkdst(b) \/ Mkdot(b) \/ Mkwork(b) \/ Mount(b) \/ Fuse(b)
    \/ Check(b) \/ Anchor(b) \/ BindOld(b) \/ Create(b) \/ Make(b) \/ Record(b) \/ Bind(b)
    \/ Pivot(b) \/ Stopped(b)

WrapperStep(b) == InstallHandlers(b) \/ WaitChild(b) \/ Cleanup(b)

Next ==
    \/ \E b \in Boxes : \/ ChildStep(b) \/ WrapperStep(b)
                        \/ Exit(b) \/ Refuse(b) \/ SetupFails(b) \/ Term(b)
                        \/ CleanupFails(b) \/ KillWrapper(b)
    \/ \E p \in Paths : UserWrites(p)
    \/ \E d \in dirs : UserRemovesDst(d)
    \/ AllOver

(* Both processes of a sandbox are scheduled; nothing makes a program end, *)
(* a user act, a call fail or a signal arrive.                             *)
Fairness == \A b \in Boxes : WF_vars(ChildStep(b)) /\ WF_vars(WrapperStep(b))

Spec == Init /\ [][Next]_vars /\ Fairness

-----------------------------------------------------------------------------
(* Every variable has its type, and an entry of .boxsh has .boxsh.         *)
TypeOK ==
    /\ host \in [Paths -> {"none", "empty", "user"}]
    /\ dot \in BOOLEAN /\ (work # {} => dot)
    /\ pc \in [Boxes -> Setup \cup {"apply", "look", "stale", "rmdot", "fuse", "run", "failed", "ended"}]
    /\ idx \in [Boxes -> 1..Len(PathSeq)]
    /\ rec \in [Boxes -> SUBSET Paths] /\ bound \in [Boxes -> SUBSET Paths]
    /\ mounted \in [Boxes -> {"no", "kernel", "fuse"}]
    /\ wrap \in [Boxes -> {"none", "early", "waiting", "clean", "gone", "killed"}]
    /\ {stop, termed, missed} \subseteq SUBSET Boxes
    /\ faults \in 0..MaxFaults /\ changes \in 0..MaxUser

(* A clean-up never removes a directory that the user has filled, and a    *)
(* file of the user's only if it was written where a sandbox that had not  *)
(* ended had its placeholder (protect_missing_path_readonly,               *)
(* cleanup_host_mountpoints).                                              *)
UserDataKept == lost \subseteq covered \cap {"file"}

(* When all sandboxes are over a placeholder is left on the host only if   *)
(* nobody had recorded it, or its removal failed: for a fault, or because  *)
(* the sandbox that recorded it had got as far as binding over it, or a    *)
(* wrapper was killed (cleanup_host_mountpoints).                          *)
NoLeftover ==
    (\A b \in Boxes : Dead(b) /\ wrap[b] = "gone")
        => \A p \in Paths : host[p] = "empty" => p \in loose \/ \E b \in Boxes : p \in bound[b]

(* The host is given back as it was, as far as it is: the two statements   *)
(* above, and the types of the variables.                                  *)
HostKept == TypeOK /\ UserDataKept /\ NoLeftover

(* The lazy clean-up of one sandbox leaves alone the work directory that   *)
(* another one has its overlay on, unless the entry was stale before the   *)
(* overlay was mounted.                                                    *)
WorkKept == \A b \in Boxes : Holds(b) /\ Dst(b) \notin swept => Dst(b) \in work

(* While no call fails and the user keeps off, set-up fails only where     *)
(* fuse-overlayfs is needed (it may be missing, or its exit status lost to *)
(* the handler of SIGCHLD), for a destination another sandbox has, or      *)
(* because the clean-up of another one came in between (mkdir_p,           *)
(* bind_mount).                                                            *)
StartsUnlessBlocked ==
    \A b \in Boxes :
        pc[b] = "failed" /\ faults = 0 /\ changes = 0 =>
            \/ b \in raced
            \/ start.overlay # "works"
            \/ \E c \in Boxes \ {b} : Dst(c) = Dst(b)

(* A termination signal that reached a handler ends the sandbox, set-up or *)
(* not, and its wrapper with it, unless it fell between the loop's test    *)
(* and poll(2) (main.cpp, the forwarding in the wrapper, rpc_run_loop).    *)
StopIsHonoured ==
    \A b \in Boxes : b \in termed ~> Over(b) \/ b \in missed
=============================================================================

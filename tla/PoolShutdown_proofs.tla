------------------------ MODULE PoolShutdown_proofs -------------------------
(***************************************************************************)
(* Proofs about PoolShutdown for any number of workers and any number of   *)
(* respawns: the grace period is enough unless a worker is stuck, and no   *)
(* command outlives its worker unless that one crashed or was signalled.   *)
(***************************************************************************)
EXTENDS PoolShutdown, TLAPS, WellFoundedInduction

\* The coordinator's socket ends are open as long as it serves.
OpenIffServing == open <=> phase = "serving"

\* No two worker processes were forked at the same time, and none later than
\* the count says.
ForkTimes ==
    /\ \A w \in Workers : gen[w] <= forks
    /\ \A v, w \in Workers : gen[v] = gen[w] => v = w

\* Who is stuck is known to be; a live command has a worker that runs it, or one
\* that crashed or was signalled; and only a pool in which a worker was stuck
\* is signalled.
Blamed ==
    /\ \A w \in Workers : Stuck(w) => hit[w] \cap {"wedge", "missed"} # {}
    /\ \A w \in Workers : Live(w) => \/ ws[w] \in {"running", "wedged", "missed"}
                                     \/ "crash" \in hit[w] \/ "signal" \in hit[w]
    /\ \A w \in Workers : "signal" \in hit[w] => phase # "serving" /\ SomeStuck
    /\ \A h \in orphans : "crash" \in h

\* Unless a worker was stuck, shutdown() leaves only dead workers behind its
\* index, and sends signals only to dead ones.
DeadBehind ==
    ~SomeStuck =>
        /\ phase = "waiting" => \A w \in Workers : w < idx => ws[w] = "dead"
        /\ phase \in {"sigterm", "sigkill"} => AllGone

\* The inductive invariant.
SInv == TypeOK /\ OpenIffServing /\ ForkTimes /\ Blamed /\ DeadBehind

-----------------------------------------------------------------------------
(* Who hears the end of file.                                              *)

\* A non-empty set of naturals has a least element.
LEMMA LeastNatural ==
  ASSUME NEW T, T \subseteq Nat, T # {}
  PROVE  \E x \in T : \A y \in T : x <= y
  <1>1. PICK x \in T : \A y \in T : <<y, x>> \notin OpToRel(<, Nat)
    BY WFMin, NatLessThanWellFounded, Zenon
  <1>2. \A y \in T : ~(y < x)
    BY <1>1, Zenon DEF OpToRel
  <1>3. QED
    BY <1>2

\* While any worker is left, one of those left was forked after all the others
\* that are: end of file reaches it once the coordinator's ends are closed.
LEMMA SomeoneHears ==
  ASSUME TypeOK, ~open, ~AllGone
  PROVE  \E w \in Workers : ws[w] # "dead" /\ EofAt(w)
  <1> DEFINE Left == {w \in Workers : ws[w] # "dead"}
             Age(w) == MaxGen - gen[w]
             T == {Age(w) : w \in Left}
  <1>1. \A w \in Workers : gen[w] \in Nat /\ Age(w) \in Nat
    BY ShutdownAssumption DEF TypeOK
  <1>2. T \subseteq Nat
    BY <1>1
  <1>3. T # {}
    BY DEF AllGone
  <1>4. PICK x \in T : \A y \in T : x <= y
    BY <1>2, <1>3, LeastNatural
  <1>5. PICK w \in Left : x = Age(w)
    BY <1>4
  <1>6. ASSUME NEW v \in Later(w) PROVE ws[v] = "dead"
    <2>1. v \in Workers /\ gen[v] > gen[w]
      BY <1>6 DEF Later
    <2>2. ~(Age(w) <= Age(v))
      BY <1>1, <1>5, <2>1, ShutdownAssumption
    <2>3. Age(v) \notin T
      BY <1>4, <1>5, <2>2
    <2>4. QED
      BY <2>1, <2>3
  <1>7. QED
    BY <1>5, <1>6 DEF EofAt

-----------------------------------------------------------------------------
(* The invariant.                                                          *)

\* The invariant holds when the pool has been forked.
LEMMA InitSInv == Init => SInv
  <1>1. SUFFICES ASSUME Init PROVE SInv
    OBVIOUS
  <1>2. TypeOK
    BY <1>1, ShutdownAssumption DEF Init, TypeOK, Workers
  <1>3. ForkTimes
    BY <1>1, ShutdownAssumption DEF Init, ForkTimes, Workers
  <1>4. QED
    BY <1>1, <1>2, <1>3 DEF Init, SInv, OpenIffServing, Blamed, Stuck, Live, DeadBehind

\* A fork: the new process is the latest, its worker idle.  While the
\* coordinator serves nobody was signalled, so what is left behind alive was
\* left by a crash.
LEMMA CollectStep ==
  ASSUME SInv, NEW w \in Workers, Collect(w)
  PROVE  SInv'
  <1> USE ShutdownAssumption
  <1>1. TypeOK /\ Blamed /\ phase = "serving" /\ phase' = "serving" /\ ws[w] = "dead"
    BY DEF SInv, Collect, coord
  <1>2. /\ forks \in Nat /\ forks < MaxGen /\ forks' = forks + 1
        /\ gen' = [gen EXCEPT ![w] = forks + 1]
        /\ ws' = [ws EXCEPT ![w] = "idle"] /\ cmd' = [cmd EXCEPT ![w] = "none"]
        /\ hit' = [hit EXCEPT ![w] = {}] /\ slot' = [slot EXCEPT ![w] = "free"]
        /\ orphans' = IF Live(w) THEN orphans \cup {hit[w]} ELSE orphans
        /\ UNCHANGED <<phase, idx, open>>
        /\ gen \in [Workers -> 1..MaxGen] /\ N \in Nat /\ MaxGen \in Nat /\ N <= forks
    BY <1>1 DEF Collect, coord, TypeOK
  <1>3. Live(w) => "crash" \in hit[w]
    BY <1>1 DEF Blamed
  <1>4. TypeOK'
    <2>1. orphans' \subseteq SUBSET Fates /\ hit' \in [Workers -> SUBSET Fates]
      BY <1>1, <1>2 DEF TypeOK
    <2>2. QED
      BY <1>1, <1>2, <2>1 DEF TypeOK
  <1>5. ForkTimes'
    <2>1. \A v \in Workers : gen'[v] = IF v = w THEN forks + 1 ELSE gen[v]
      BY <1>2
    <2>2. \A v \in Workers : gen[v] \in Nat /\ gen[v] <= forks
      BY <1>2 DEF SInv, ForkTimes
    <2>3. \A u, v \in Workers : gen[u] = gen[v] => u = v
      BY DEF SInv, ForkTimes
    <2>4. QED
      BY <1>2, <2>1, <2>2, <2>3 DEF ForkTimes
  <1>6. Blamed'
    <2>1. \A v \in Workers : \/ v = w /\ ws'[v] = "idle" /\ cmd'[v] = "none" /\ hit'[v] = {}
                             \/ v # w /\ ws'[v] = ws[v] /\ cmd'[v] = cmd[v] /\ hit'[v] = hit[v]
      BY <1>1, <1>2 DEF TypeOK
    <2>2. \A h \in orphans' : "crash" \in h
      BY <1>1, <1>2, <1>3 DEF Blamed
    <2>3. \A v \in Workers : "signal" \notin hit[v]
      BY <1>1 DEF Blamed
    <2>4. QED
      BY <1>1, <2>1, <2>2, <2>3 DEF Blamed, Stuck, Live
  <1>7. OpenIffServing' /\ DeadBehind'
    BY <1>1, <1>2 DEF SInv, OpenIffServing, DeadBehind
  <1>8. QED
    BY <1>4, <1>5, <1>6, <1>7 DEF SInv

\* What is asked of a worker.
LEMMA AskStep ==
  ASSUME SInv, NEW w \in Workers, Dispatch(w) \/ Cancel(w)
  PROVE  SInv'
  <1>1. UNCHANGED <<phase, idx, open, gen, forks, ws, cmd, hit, orphans>>
        /\ slot' \in [Workers -> {"free", "asked", "cancelled"}]
    BY DEF Dispatch, Cancel, coord, history, SInv, TypeOK
  <1>2. TypeOK'
    BY <1>1 DEF SInv, TypeOK
  <1>3. QED
    BY <1>1, <1>2 DEF SInv, OpenIffServing, ForkTimes, Blamed, SomeStuck, Stuck, Live,
                      DeadBehind, AllGone

\* The commands and the workers' own steps: each concerns one worker, adds to
\* what befell it, and wakes no dead one once the coordinator is gone.
LEMMA WorkerStep ==
  ASSUME SInv, NEW w \in Workers,
         Setpgid(w) \/ Wedge(w) \/ FinishCmd(w) \/ WorkerCrash(w) \/ Worker(w)
  PROVE  SInv'
  <1>1. TypeOK /\ Blamed
    BY DEF SInv
  <1>2. UNCHANGED <<phase, idx, open, gen, forks, orphans>>
    BY DEF Setpgid, Wedge, FinishCmd, WorkerCrash, Worker, StartCmd, IdleStop, RunningStop,
           coord, history
  <1>3. PICK a \in {"idle", "running", "wedged", "missed", "dead"},
             c \in {"none", "forked", "alive"},
             h \in SUBSET Fates,
             s \in {"free", "asked", "cancelled"} :
           /\ ws' = [ws EXCEPT ![w] = a] /\ cmd' = [cmd EXCEPT ![w] = c]
           /\ hit' = [hit EXCEPT ![w] = h] /\ slot' = [slot EXCEPT ![w] = s]
           /\ hit[w] \subseteq h /\ ("signal" \in h => "signal" \in hit[w])
           /\ a \in {"wedged", "missed"} => h \cap {"wedge", "missed"} # {}
           /\ c # "none" => \/ a \in {"running", "wedged", "missed"}
                            \/ "crash" \in h \/ "signal" \in h
           /\ ws[w] = "dead" => a = "dead"
    <2>1. /\ ws[w] \in {"idle", "running", "wedged", "missed", "dead"}
          /\ cmd[w] \in {"none", "forked", "alive"}
          /\ hit[w] \in SUBSET Fates /\ slot[w] \in {"free", "asked", "cancelled"}
          /\ ws = [ws EXCEPT ![w] = ws[w]] /\ cmd = [cmd EXCEPT ![w] = cmd[w]]
          /\ hit = [hit EXCEPT ![w] = hit[w]] /\ slot = [slot EXCEPT ![w] = slot[w]]
      BY <1>1 DEF TypeOK
    <2>2. /\ ws[w] \in {"wedged", "missed"} => hit[w] \cap {"wedge", "missed"} # {}
          /\ cmd[w] # "none" => \/ ws[w] \in {"running", "wedged", "missed"}
                                \/ "crash" \in hit[w] \/ "signal" \in hit[w]
      BY <1>1 DEF Blamed, Stuck, Live
    <2>3. CASE Setpgid(w)
      BY <2>1, <2>2, <2>3 DEF Setpgid, history
    <2>4. CASE Wedge(w)
      <3>1. /\ ws' = [ws EXCEPT ![w] = "wedged"] /\ cmd' = cmd /\ slot' = slot
            /\ hit' = [hit EXCEPT ![w] = hit[w] \cup {"wedge"}] /\ ws[w] = "running"
        BY <2>4 DEF Wedge
      <3>2. hit[w] \cup {"wedge"} \in SUBSET Fates
        BY <2>1, SMTT(30) DEF Fates
      <3>3. QED
        BY <2>1, <3>1, <3>2, ZenonT(30)
    <2>5. CASE FinishCmd(w)
      <3>1. /\ cmd' = [cmd EXCEPT ![w] = "none"] /\ hit' = hit
            /\ \/ ws' = [ws EXCEPT ![w] = "dead"] /\ slot' = slot
               \/ ws' = [ws EXCEPT ![w] = "idle"] /\ slot' = [slot EXCEPT ![w] = "free"]
            /\ ws[w] # "dead"
        BY <2>5 DEF FinishCmd, history
      <3>2. CASE ws' = [ws EXCEPT ![w] = "dead"] /\ slot' = slot
        BY <2>1, <3>1, <3>2, ZenonT(30)
      <3>3. CASE ws' = [ws EXCEPT ![w] = "idle"] /\ slot' = [slot EXCEPT ![w] = "free"]
        BY <2>1, <3>1, <3>3
      <3>4. QED
        BY <3>1, <3>2, <3>3
    <2>6. CASE WorkerCrash(w)
      <3>1. /\ ws' = [ws EXCEPT ![w] = "dead"] /\ cmd' = cmd /\ slot' = slot
            /\ hit' = [hit EXCEPT ![w] = hit[w] \cup {"crash"}]
        BY <2>6 DEF WorkerCrash
      <3>2. hit[w] \cup {"crash"} \in SUBSET Fates
        BY <2>1 DEF Fates
      <3>3. QED
        BY <2>1, <3>1, <3>2
    <2>7. CASE StartCmd(w)
      <3>1. /\ ws' = [ws EXCEPT ![w] = "running"] /\ cmd' = [cmd EXCEPT ![w] = "forked"]
            /\ hit' = hit /\ slot' = slot /\ ws[w] = "idle"
        BY <2>7 DEF StartCmd, history
      <3>2. QED
        BY <2>1, <3>1
    <2>8. CASE IdleStop(w)
      <3>1. /\ ws' = [ws EXCEPT ![w] = "dead"] /\ cmd' = cmd /\ hit' = hit /\ slot' = slot
            /\ ws[w] = "idle"
        BY <2>8 DEF IdleStop, history
      <3>2. QED
        BY <2>1, <2>2, <3>1, ZenonT(30)
    <2>9. CASE RunningStop(w) /\ cmd[w] = "forked"
      <3>1. /\ ws' = [ws EXCEPT ![w] = "missed"] /\ cmd' = cmd /\ slot' = slot
            /\ hit' = [hit EXCEPT ![w] = hit[w] \cup {"missed"}] /\ ws[w] = "running"
        BY <2>9 DEF RunningStop
      <3>2. hit[w] \cup {"missed"} \in SUBSET Fates
        BY <2>1 DEF Fates
      <3>3. QED
        BY <2>1, <3>1, <3>2, ZenonT(30)
    <2>10. CASE RunningStop(w) /\ cmd[w] # "forked"
      <3>1. /\ ws' = [ws EXCEPT ![w] = "dead"] /\ cmd' = [cmd EXCEPT ![w] = "none"]
            /\ hit' = hit /\ slot' = slot /\ ws[w] = "running"
        BY <2>10 DEF RunningStop
      <3>2. QED
        BY <2>1, <3>1
    <2>11. QED
      BY <2>3, <2>4, <2>5, <2>6, <2>7, <2>8, <2>9, <2>10 DEF Worker
  <1>4. \A v \in Workers :
           \/ v # w /\ ws'[v] = ws[v] /\ cmd'[v] = cmd[v] /\ hit'[v] = hit[v]
           \/ v = w /\ ws'[v] = a /\ cmd'[v] = c /\ hit'[v] = h
    BY <1>1, <1>3 DEF TypeOK
  <1>5. TypeOK'
    BY <1>1, <1>2, <1>3 DEF TypeOK
  <1>6. SomeStuck => SomeStuck'
    BY <1>3, <1>4 DEF SomeStuck
  <1>7. Blamed'
    BY <1>1, <1>2, <1>3, <1>4, <1>6 DEF Blamed, Stuck, Live
  <1>8. DeadBehind'
    <2>1. \A v \in Workers : ws[v] = "dead" => ws'[v] = "dead"
      BY <1>3, <1>4
    <2>2. QED
      BY <1>2, <1>6, <2>1 DEF SInv, DeadBehind, AllGone
  <1>9. OpenIffServing' /\ ForkTimes'
    BY <1>2 DEF SInv, OpenIffServing, ForkTimes
  <1>10. QED
    BY <1>5, <1>7, <1>8, <1>9 DEF SInv

\* The coordinator stops serving.
LEMMA StopStep ==
  ASSUME SInv, Close \/ KilledOutright
  PROVE  SInv'
  <1>1. UNCHANGED <<slot, gen, forks, ws, cmd, hit, orphans>> /\ open' = FALSE
        /\ phase = "serving"
    BY DEF Close, KilledOutright, history
  <1>2. (phase' = "waiting" /\ idx' = 1) \/ (phase' = "gone" /\ idx' = idx)
    BY DEF Close, KilledOutright
  <1>3. 1 \in Workers /\ \A w \in Workers : ~(w < 1)
    BY ShutdownAssumption DEF Workers
  <1>4. TypeOK'
    BY <1>1, <1>2, <1>3 DEF SInv, TypeOK
  <1>5. OpenIffServing' /\ DeadBehind'
    BY <1>1, <1>2, <1>3 DEF OpenIffServing, DeadBehind
  <1>6. ForkTimes' /\ Blamed'
    BY <1>1 DEF SInv, ForkTimes, Blamed, Stuck, Live
  <1>7. QED
    BY <1>4, <1>5, <1>6 DEF SInv

\* One of those left after the coordinator is about to react, or is stuck.
LEMMA SomeoneMoves ==
  ASSUME SInv, ~open, ~AllGone
  PROVE  \E w \in Workers : Reacts(w) \/ Stuck(w)
  <1>1. PICK w \in Workers : ws[w] # "dead" /\ EofAt(w)
    BY SomeoneHears DEF SInv
  <1>2. ws[w] \in {"idle", "running", "wedged", "missed", "dead"}
    BY DEF SInv, TypeOK
  <1>3. QED
    BY <1>1, <1>2 DEF Reacts, Heard, Stuck

\* The grace period: it runs out with the worker at idx still there only when
\* a worker is stuck.
LEMMA WaitStep ==
  ASSUME SInv, WaitWorker
  PROVE  SInv'
  <1> USE ShutdownAssumption
  <1>1. /\ phase = "waiting" /\ ~open /\ Advance("sigterm")
        /\ UNCHANGED <<open, slot, gen, forks, ws, cmd, hit, orphans>>
    BY DEF WaitWorker, SInv, OpenIffServing, history
  <1>2. /\ idx \in 1..N /\ N \in Nat
        /\ \/ idx = N /\ phase' = "sigterm" /\ idx' = 1
           \/ idx # N /\ idx' = idx + 1 /\ phase' = "waiting"
    BY <1>1 DEF Advance, SInv, TypeOK, Workers
  <1>3. ~SomeStuck => ws[idx] = "dead"
    <2>1. SUFFICES ASSUME ~SomeStuck, ws[idx] # "dead" PROVE FALSE
      OBVIOUS
    <2>2. \A w \in Workers : ~Reacts(w)
      BY <2>1 DEF WaitWorker
    <2>3. ~AllGone
      BY <1>2, <2>1 DEF AllGone, Workers
    <2>4. PICK w \in Workers : Stuck(w)
      BY <1>1, <2>2, <2>3, SomeoneMoves
    <2>5. QED
      BY <2>1, <2>4 DEF SInv, Blamed, SomeStuck
  <1>4. TypeOK'
    BY <1>1, <1>2 DEF SInv, TypeOK, Workers
  <1>5. DeadBehind'
    <2>1. SUFFICES ASSUME ~SomeStuck
                   PROVE  /\ phase' = "waiting" => \A w \in Workers : w < idx' => ws[w] = "dead"
                          /\ phase' = "sigterm" => AllGone
      BY <1>1, <1>2 DEF DeadBehind, AllGone, SomeStuck
    <2>2. \A w \in Workers : w \in Nat /\ w <= N /\ (w < idx => ws[w] = "dead")
      BY <1>1, <2>1 DEF SInv, DeadBehind, Workers
    <2>3. \A w \in Workers : w < idx + 1 => ws[w] = "dead"
      BY <1>2, <1>3, <2>1, <2>2
    <2>4. QED
      BY <1>2, <2>2, <2>3 DEF AllGone
  <1>6. OpenIffServing' /\ ForkTimes' /\ Blamed'
    BY <1>1, <1>2 DEF SInv, OpenIffServing, ForkTimes, Blamed, Stuck, Live, SomeStuck
  <1>7. QED
    BY <1>4, <1>5, <1>6 DEF SInv

\* The signals: a worker that is still there gets one, and then some worker
\* was stuck.
LEMMA SignalStep ==
  ASSUME SInv, SendTerm \/ SendKill
  PROVE  SInv'
  <1> USE ShutdownAssumption
  <1>1. /\ UNCHANGED <<open, gen, forks, cmd, orphans>> /\ hit' = Signalled
        /\ phase \in {"sigterm", "sigkill"} /\ phase' \in {"sigterm", "sigkill", "gone"}
        /\ idx \in Workers /\ idx' \in Workers
    <2>1. idx \in 1..N /\ N \in Nat /\ N # 0
      BY DEF SInv, TypeOK, Workers
    <2>2. QED
      BY <2>1 DEF SendTerm, SendKill, Advance, Workers
  <1>2. /\ ws \in [Workers -> {"idle", "running", "wedged", "missed", "dead"}]
        /\ hit \in [Workers -> SUBSET Fates] /\ slot \in [Workers -> {"free", "asked", "cancelled"}]
    BY DEF SInv, TypeOK
  <1>3. PICK a \in {"idle", "running", "dead"}, s \in {"free", "asked", "cancelled"} :
           /\ ws' = [ws EXCEPT ![idx] = a] /\ slot' = [slot EXCEPT ![idx] = s]
           /\ ws[idx] = "dead" => a = "dead"
    <2>1. /\ ws[idx] \in {"idle", "running", "wedged", "missed", "dead"}
          /\ slot[idx] \in {"free", "asked", "cancelled"} /\ slot = [slot EXCEPT ![idx] = slot[idx]]
      BY <1>1, <1>2
    <2>2. CASE SendTerm
      BY <2>1, <2>2 DEF SendTerm
    <2>3. CASE SendKill
      BY <2>1, <2>3 DEF SendKill
    <2>4. QED
      BY <2>2, <2>3
  <1>4. \A w \in Workers :
           \/ w # idx /\ ws'[w] = ws[w] /\ hit'[w] = hit[w]
           \/ w = idx /\ ws'[w] = a /\ hit[w] \subseteq hit'[w]
              /\ hit'[w] = IF ws[w] = "dead" THEN hit[w] ELSE hit[w] \cup {"signal"}
    BY <1>1, <1>2, <1>3 DEF Signalled
  <1>5. TypeOK'
    <2>1. hit' \in [Workers -> SUBSET Fates]
      BY <1>1, <1>2 DEF Signalled, Fates
    <2>2. QED
      BY <1>1, <1>2, <1>3, <2>1 DEF SInv, TypeOK
  <1>6. SomeStuck => SomeStuck'
    BY <1>4 DEF SomeStuck
  <1>7. ws[idx] # "dead" => SomeStuck
    BY <1>1 DEF SInv, DeadBehind, AllGone
  <1>8. Blamed'
    <2>1. Blamed /\ phase' # "serving"
      BY <1>1 DEF SInv
    <2>2. \A w \in Workers : Stuck(w)' => hit'[w] \cap {"wedge", "missed"} # {}
      BY <1>4, <2>1 DEF Blamed, Stuck
    <2>3. ASSUME NEW w \in Workers, Live(w)'
          PROVE  \/ ws'[w] \in {"running", "wedged", "missed"}
                 \/ "crash" \in hit'[w] \/ "signal" \in hit'[w]
      <3>1. Live(w)
        BY <1>1, <2>3 DEF Live
      <3>2. CASE w # idx
        BY <1>4, <2>1, <3>1, <3>2 DEF Blamed
      <3>3. CASE w = idx
        BY <1>4, <2>1, <3>1, <3>3 DEF Blamed
      <3>4. QED
        BY <3>2, <3>3
    <2>4. \A w \in Workers : "signal" \in hit'[w] => SomeStuck'
      BY <1>4, <1>6, <1>7, <2>1 DEF Blamed
    <2>5. QED
      BY <1>1, <2>1, <2>2, <2>3, <2>4 DEF Blamed
  <1>9. DeadBehind'
    <2>1. \A w \in Workers : ws[w] = "dead" => ws'[w] = "dead"
      BY <1>3, <1>4
    <2>2. QED
      BY <1>1, <1>6, <2>1 DEF SInv, DeadBehind, AllGone
  <1>10. OpenIffServing' /\ ForkTimes'
    BY <1>1 DEF SInv, OpenIffServing, ForkTimes
  <1>11. QED
    BY <1>5, <1>8, <1>9, <1>10 DEF SInv

\* Every step keeps it.
LEMMA NextSInv ==
  ASSUME SInv, [Next]_vars
  PROVE  SInv'
  <1>1. CASE UNCHANGED vars
    BY <1>1 DEF vars, coord, history, SInv, TypeOK, OpenIffServing, ForkTimes, Blamed,
                Stuck, Live, SomeStuck, DeadBehind, AllGone
  <1>2. CASE Stopped
    BY <1>1, <1>2 DEF Stopped
  <1>3. CASE Close \/ KilledOutright
    BY <1>3, StopStep
  <1>4. CASE Coordinator
    BY <1>4, WaitStep, SignalStep DEF Coordinator
  <1>5. ASSUME NEW w \in Workers,
               Setpgid(w) \/ Wedge(w) \/ FinishCmd(w) \/ WorkerCrash(w) \/ Worker(w)
        PROVE  SInv'
    BY <1>5, WorkerStep
  <1>6. ASSUME NEW w \in Workers, Dispatch(w) \/ Cancel(w) PROVE SInv'
    BY <1>6, AskStep
  <1>7. ASSUME NEW w \in Workers, Collect(w) PROVE SInv'
    BY <1>7, CollectStep
  <1>8. QED
    BY <1>1, <1>2, <1>3, <1>4, <1>5, <1>6, <1>7 DEF Next

-----------------------------------------------------------------------------
(* The theorems.                                                           *)

\* Types, fork times, what a live command implies and what shutdown() has left
\* behind: the invariant the other theorems rest on.
THEOREM ShutdownInvariant == Spec => []SInv
  <1>1. Init => SInv
    BY InitSInv
  <1>2. SInv /\ [Next]_vars => SInv'
    BY NextSInv
  <1>3. QED
    BY <1>1, <1>2, PTL DEF Spec

\* For any number of workers, forked and respawned in any order, the grace
\* period of shutdown() is enough unless a worker was stuck, in the final
\* waitpid() or after a kill that came before its child's setpgid().
THEOREM ShutdownNeverEscalates == Spec => []NoEscalation
  <1>1. SInv => NoEscalation
    BY DEF SInv, DeadBehind, NoEscalation
  <1>2. QED
    BY <1>1, ShutdownInvariant, PTL

\* A command left without its worker is that of a crashed worker, or of one
\* that was signalled because some worker was stuck, however the coordinator
\* stopped.
THEOREM ShutdownLeavesNoOrphan == Spec => []NoOrphanUnlessFault
  <1>1. SInv => NoOrphanUnlessFault
    BY DEF SInv, Blamed, NoOrphanUnlessFault
  <1>2. QED
    BY <1>1, ShutdownInvariant, PTL

\* Respawns only lengthen the cascade: whenever the coordinator's ends are
\* closed and any worker is left, one of those left is about to react to its
\* socket, or sits in a wait that does not watch it; the descriptors the
\* workers hold of one another never stop them all.
THEOREM CascadeNeverStuck ==
    Spec => [](~open /\ ~AllGone => \E w \in Workers : Reacts(w) \/ Stuck(w))
  <1>1. SInv => (~open /\ ~AllGone => \E w \in Workers : Reacts(w) \/ Stuck(w))
    BY SomeoneMoves
  <1>2. QED
    BY <1>1, ShutdownInvariant, PTL
=============================================================================

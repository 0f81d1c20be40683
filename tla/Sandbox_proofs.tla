--------------------------- MODULE Sandbox_proofs ---------------------------
(***************************************************************************)
(* Proofs about Sandbox, for any number of sandboxes on one host and any   *)
(* configurations: what they leave on the host and what they take from it, *)
(* whether an overlay keeps its directories, and why a set-up fails.       *)
(***************************************************************************)
EXTENDS Sandbox, TLAPS

(* A wrapper cleans up after its child, and is gone when that is done.     *)
WrapperLast ==
    \A b \in Boxes : /\ pc[b] = "apply" => rec[b] = {}
                     /\ wrap[b] \in {"clean", "gone"} => Dead(b)
                     /\ wrap[b] = "gone" => rec[b] = {}

(* Every placeholder on the host has been recorded, or its maker is about  *)
(* to, or it is known to have been left or to be bound over.               *)
Owner(b, p) == p \in rec[b] \/ (pc[b] = "record" /\ Path(b) = p)
PlaceholdersOwned ==
    \A p \in Paths : host[p] = "empty" => p \in loose \/ \E b \in Boxes : Owner(b, p) \/ p \in bound[b]

(* What the user has where a sandbox thinks its placeholder is was written *)
(* after the sandbox had looked.                                           *)
WritesCovered == \A p \in Paths : Taken(p) /\ host[p] = "user" => p \in covered

(* Between making its destination and mounting over it.                    *)
Mounting == {"mkdot", "mkwork", "mount", "fuse"}

(* An entry of .boxsh without its sibling is one whose sibling the user    *)
(* removed or that was there from the start.                               *)
StaleIsSwept ==
    /\ work \subseteq dirs \cup swept
    /\ DOMAIN todo = Boxes /\ DOMAIN cur = Boxes
    /\ \A b \in Boxes : /\ todo[b] \subseteq dirs \cup swept
                        /\ pc[b] = "stale" => cur[b] \in swept
                        /\ pc[b] \in Mounting => Dst(b) \in dirs \cup swept

(* A destination that was mounted over keeps its entry.                    *)
MountKept == \A b \in Boxes : mounted[b] # "no" /\ Dst(b) \notin swept => Dst(b) \in work

(* Who finds its directories gone is known to have been in another's way,  *)
(* and so is who finds the path gone that it is about to bind.             *)
RaceKnown ==
    \A b \in Boxes :
        /\ pc[b] = "mkwork" /\ ~dot => b \in raced
        /\ pc[b] \in {"mount", "fuse"} /\ Dst(b) \notin work => b \in raced
        /\ pc[b] \in Mounting /\ changes = 0 => Dst(b) \in dirs
        /\ pc[b] = "fuse" => start.overlay # "works"
AnchorKnown == \A b \in Boxes : pc[b] = "bindold" /\ host[Path(b)] = "none" => b \in raced

(* The inductive invariant.                                                *)
BInv == /\ TypeOK /\ WrapperLast
        /\ PlaceholdersOwned /\ WritesCovered /\ UserDataKept
        /\ StaleIsSwept /\ MountKept
        /\ RaceKnown /\ AnchorKnown /\ StartsUnlessBlocked

-----------------------------------------------------------------------------
(* The path a sandbox is protecting is one of the protected paths.         *)
LEMMA PathFacts ==
    ASSUME TypeOK
    PROVE  /\ Len(PathSeq) = 2
           /\ \A b \in Boxes : idx[b] \in 1..2 /\ Path(b) \in Paths
<1>1. PathSeq = <<"file", "dir">>
  BY DEF PathSeq
<1>2. Len(PathSeq) = 2
  BY <1>1
<1>3. \A b \in Boxes : idx[b] \in 1..2
  BY <1>2 DEF TypeOK
<1>4. \A b \in Boxes : idx[b] = 1 \/ idx[b] = 2
  BY <1>3
<1>5. \A b \in Boxes : Path(b) \in Paths
  BY <1>1, <1>4 DEF Path, Paths
<1> QED
  BY <1>2, <1>3, <1>5

\* The invariant holds before any sandbox has started.
LEMMA BoxesInit == Init => BInv
<1> SUFFICES ASSUME Init PROVE BInv
  OBVIOUS
<1>1. TypeOK
  <2>1. host \in [Paths -> {"none", "empty", "user"}]
    BY StartsAssumption DEF Init
  <2>2. Len(PathSeq) = 2
    BY DEF PathSeq
  <2>3. faults \in 0..MaxFaults /\ changes \in 0..MaxUser
    BY SandboxAssumption DEF Init
  <2>4. idx \in [Boxes -> 1..Len(PathSeq)]
    BY <2>2 DEF Init
  <2>5. dot \in BOOLEAN /\ (work # {} => dot)
    BY DEF Init
  <2>6. /\ rec \in [Boxes -> SUBSET Paths] /\ mounted \in [Boxes -> {"no", "kernel", "fuse"}]
        /\ bound \in [Boxes -> SUBSET Paths]
        /\ wrap \in [Boxes -> {"none", "early", "waiting", "clean", "gone", "killed"}]
        /\ pc \in [Boxes -> {"apply"}] /\ stop = {} /\ termed = {} /\ missed = {}
    BY DEF Init
  <2> QED
    BY <2>1, <2>3, <2>4, <2>5, <2>6 DEF TypeOK
<1>2. WrapperLast
  BY DEF WrapperLast, Init
<1>3. PlaceholdersOwned
  BY StartsAssumption DEF PlaceholdersOwned, Init
<1>4. WritesCovered /\ UserDataKept
  BY DEF WritesCovered, UserDataKept, Taken, Init
<1>5. StaleIsSwept
  BY DEF StaleIsSwept, Mounting, Init
<1>6. MountKept /\ StartsUnlessBlocked
  BY DEF MountKept, StartsUnlessBlocked, Init
<1>7. RaceKnown /\ AnchorKnown
  BY DEF RaceKnown, AnchorKnown, Mounting, Init
<1> QED
  BY <1>1, <1>2, <1>3, <1>4, <1>5, <1>6, <1>7 DEF BInv

-----------------------------------------------------------------------------
(***************************************************************************)
(* Types.                                                                  *)
(***************************************************************************)
LEMMA TypeStep ==
    ASSUME TypeOK, [Next]_vars
    PROVE  TypeOK'
<1>p. \A b \in Boxes : Path(b) \in Paths
  BY PathFacts
<1>i. \A b \in Boxes : idx[b] < Len(PathSeq) => idx[b] + 1 \in 1..Len(PathSeq)
  BY PathFacts
<1>c. /\ faults < MaxFaults => faults + 1 \in 0..MaxFaults
      /\ changes < MaxUser => changes + 1 \in 0..MaxUser
  BY SandboxAssumption DEF TypeOK
<1> USE DEF TypeOK, Setup, hostVars, boxVars, histVars, Goto, Die
<1>1. ASSUME NEW b \in Boxes, Apply(b) PROVE TypeOK'
  BY <1>1 DEF Apply
<1>2. ASSUME NEW b \in Boxes, Refuse(b) PROVE TypeOK'
  BY <1>2, <1>c DEF Refuse
<1>3. ASSUME NEW b \in Boxes, Scan(b) PROVE TypeOK'
  BY <1>3 DEF Scan
<1>4. ASSUME NEW b \in Boxes, Look(b) PROVE TypeOK'
  BY <1>4, ZenonT(30) DEF Look
<1>5. ASSUME NEW b \in Boxes, Stale(b) PROVE TypeOK'
  BY <1>5 DEF Stale
<1>6. ASSUME NEW b \in Boxes, Rmdot(b) PROVE TypeOK'
  BY <1>6 DEF Rmdot
<1>7. ASSUME NEW b \in Boxes, Mkdst(b) PROVE TypeOK'
  BY <1>7 DEF Mkdst
<1>8. ASSUME NEW b \in Boxes, Mkdot(b) PROVE TypeOK'
  BY <1>8 DEF Mkdot
<1>9. ASSUME NEW b \in Boxes, Mkwork(b) PROVE TypeOK'
  BY <1>9 DEF Mkwork
<1>10. ASSUME NEW b \in Boxes, Mount(b) PROVE TypeOK'
  BY <1>10, ZenonT(30) DEF Mount, AfterMount
<1>11. ASSUME NEW b \in Boxes, Fuse(b) PROVE TypeOK'
  BY <1>11, ZenonT(30) DEF Fuse, AfterMount
<1>12. ASSUME NEW b \in Boxes, Check(b) PROVE TypeOK'
  BY <1>12 DEF Check
<1>13. ASSUME NEW b \in Boxes, Anchor(b) PROVE TypeOK'
  BY <1>13, <1>p DEF Anchor, Ensure
<1>14. ASSUME NEW b \in Boxes, BindOld(b) PROVE TypeOK'
  BY <1>14, <1>i DEF BindOld, NextPath
<1>15. ASSUME NEW b \in Boxes, Create(b) PROVE TypeOK'
  BY <1>15 DEF Create
<1>16. ASSUME NEW b \in Boxes, Make(b) PROVE TypeOK'
  BY <1>16, <1>p DEF Make
<1>17. ASSUME NEW b \in Boxes, Record(b) PROVE TypeOK'
  BY <1>17, <1>p DEF Record
<1>18. ASSUME NEW b \in Boxes, Bind(b) PROVE TypeOK'
  BY <1>18, <1>p, <1>i, ZenonT(30) DEF Bind, Ensure, NextPath
<1>19. ASSUME NEW b \in Boxes, Pivot(b) PROVE TypeOK'
  BY <1>19 DEF Pivot
<1>20. ASSUME NEW b \in Boxes, SetupFails(b) PROVE TypeOK'
  BY <1>20, <1>c DEF SetupFails
<1>21. ASSUME NEW b \in Boxes, Exit(b) PROVE TypeOK'
  BY <1>21 DEF Exit
<1>22. ASSUME NEW b \in Boxes, Stopped(b) PROVE TypeOK'
  BY <1>22 DEF Stopped, Exit
<1>23. ASSUME NEW b \in Boxes, InstallHandlers(b) PROVE TypeOK'
  BY <1>23 DEF InstallHandlers
<1>24. ASSUME NEW b \in Boxes, KillWrapper(b) PROVE TypeOK'
  BY <1>24, <1>c DEF KillWrapper
<1>25. ASSUME NEW b \in Boxes, WaitChild(b) PROVE TypeOK'
  BY <1>25 DEF WaitChild
<1>26. ASSUME NEW b \in Boxes, Cleanup(b) PROVE TypeOK'
  <2>1. CASE rec[b] = {}
    BY <1>26, <2>1 DEF Cleanup
  <2>2. ASSUME NEW p \in rec[b], host' = [host EXCEPT ![p] = Remove(b, p)],
               rec' = [rec EXCEPT ![b] = @ \ {p}], UNCHANGED wrap
        PROVE  TypeOK'
    <3>0. p \in Paths
      BY <2>2
    <3>1. rec' \in [Boxes -> SUBSET Paths] /\ Remove(b, p) \in {"none", "empty", "user"}
      BY <2>2, <3>0 DEF Remove
    <3>2. host' \in [Paths -> {"none", "empty", "user"}]
      BY <2>2, <3>1
    <3> QED
      BY <1>26, <2>2, <3>1, <3>2 DEF Cleanup
  <2> QED
    BY <1>26, <2>1, <2>2 DEF Cleanup
<1>27. ASSUME NEW b \in Boxes, Term(b) PROVE TypeOK'
  <2>1. changes' \in 0..MaxUser /\ UNCHANGED <<hostVars, idx, rec, bound, mounted, faults>>
    BY <1>27, <1>c DEF Term
  <2>2. /\ pc' \in {pc, [pc EXCEPT ![b] = "ended"]}
        /\ wrap' \in {wrap, [wrap EXCEPT ![b] = "gone"], [wrap EXCEPT ![b] = "killed"]}
        /\ stop' \subseteq stop \cup {b} /\ termed' \subseteq termed \cup {b}
        /\ missed' \subseteq missed \cup {b}
    BY <1>27 DEF Term, Forward, MissesTest
  <2> QED
    BY <2>1, <2>2
<1>28. ASSUME NEW p \in Paths, UserWrites(p) PROVE TypeOK'
  BY <1>28, <1>c DEF UserWrites
<1>29. ASSUME NEW d \in dirs, UserRemovesDst(d) PROVE TypeOK'
  BY <1>29, <1>c DEF UserRemovesDst
<1>30. ASSUME UNCHANGED vars PROVE TypeOK'
  BY <1>30 DEF vars
<1>31. ASSUME NEW b \in Boxes, CleanupFails(b) PROVE TypeOK'
  BY <1>31, <1>c DEF CleanupFails
<1> QED
  BY <1>1, <1>2, <1>3, <1>4, <1>5, <1>6, <1>7, <1>8, <1>9, <1>10, <1>11, <1>12, <1>13, <1>14, <1>15,
     <1>16, <1>17, <1>18, <1>19, <1>20, <1>21, <1>22, <1>23, <1>24, <1>25, <1>26, <1>27, <1>28, <1>29, <1>30, <1>31
  DEF Next, ChildStep, WrapperStep, AllOver

(* The steps of one sandbox: its child, its wrapper, and what befalls them *)
(* from outside.                                                           *)
BoxStep(b) == \/ ChildStep(b) \/ WrapperStep(b)
              \/ Exit(b) \/ Refuse(b) \/ SetupFails(b) \/ Term(b)
              \/ CleanupFails(b) \/ KillWrapper(b)

(* No step of a sandbox changes what another one keeps for itself.         *)
Apart(b) ==
    /\ start' = start
    /\ \A c \in Boxes \ {b} :
        /\ pc'[c] = pc[c] /\ idx'[c] = idx[c] /\ todo'[c] = todo[c] /\ cur'[c] = cur[c]
        /\ rec'[c] = rec[c] /\ bound'[c] = bound[c] /\ mounted'[c] = mounted[c] /\ wrap'[c] = wrap[c]

\* A step of one sandbox leaves what the others remember alone.
LEMMA StepsApart ==
    ASSUME TypeOK, StaleIsSwept, NEW b \in Boxes, BoxStep(b)
    PROVE  Apart(b)
<1>t. /\ DOMAIN pc = Boxes /\ DOMAIN idx = Boxes /\ DOMAIN todo = Boxes /\ DOMAIN cur = Boxes
      /\ DOMAIN rec = Boxes /\ DOMAIN bound = Boxes /\ DOMAIN mounted = Boxes /\ DOMAIN wrap = Boxes
  BY DEF TypeOK, StaleIsSwept
<1> USE DEF Apart, hostVars, boxVars, histVars, Goto, Die
<1>1. ASSUME Apply(b) \/ Refuse(b) \/ Scan(b) \/ Look(b) \/ Stale(b) \/ Rmdot(b) PROVE Apart(b)
  BY <1>t, <1>1 DEF Apply, Refuse, Scan, Look, Stale, Rmdot
<1>2. ASSUME Mkdst(b) \/ Mkdot(b) \/ Mkwork(b) \/ Mount(b) \/ Fuse(b) PROVE Apart(b)
  BY <1>t, <1>2 DEF Mkdst, Mkdot, Mkwork, Mount, Fuse
<1>3. ASSUME Check(b) \/ Anchor(b) \/ BindOld(b) \/ Create(b) \/ Make(b) PROVE Apart(b)
  BY <1>t, <1>3 DEF Check, Anchor, Ensure, BindOld, NextPath, Create, Make
<1>4. ASSUME Record(b) \/ Bind(b) \/ Pivot(b) \/ SetupFails(b) \/ Exit(b) \/ Stopped(b) PROVE Apart(b)
  BY <1>t, <1>4 DEF Record, Bind, NextPath, Pivot, SetupFails, Exit, Stopped
<1>5. ASSUME InstallHandlers(b) \/ WaitChild(b) \/ KillWrapper(b) PROVE Apart(b)
  BY <1>t, <1>5 DEF InstallHandlers, WaitChild, KillWrapper
<1>6. ASSUME Cleanup(b) \/ CleanupFails(b) \/ Term(b) PROVE Apart(b)
  BY <1>t, <1>6 DEF Cleanup, CleanupFails, Term
<1> QED
  BY <1>1, <1>2, <1>3, <1>4, <1>5, <1>6 DEF BoxStep, ChildStep, WrapperStep

(***************************************************************************)
(* The wrapper and its child.                                              *)
(***************************************************************************)
WrapperLastOf(b) ==
    /\ pc[b] = "apply" => rec[b] = {}
    /\ wrap[b] \in {"clean", "gone"} => Dead(b)
    /\ wrap[b] = "gone" => rec[b] = {}

\* Every step keeps WrapperLast.
LEMMA WrapperLastStep ==
    ASSUME TypeOK, StaleIsSwept, WrapperLast, [Next]_vars
    PROVE  WrapperLast'
<1>a. ASSUME UNCHANGED <<pc, rec, wrap>> PROVE WrapperLast'
  BY <1>a DEF WrapperLast, Dead
<1>1. ASSUME NEW b \in Boxes, BoxStep(b), WrapperLastOf(b)' PROVE WrapperLast'
  BY <1>1, StepsApart DEF WrapperLast, WrapperLastOf, Apart, Dead
<1>2. ASSUME NEW b \in Boxes, BoxStep(b) PROVE WrapperLastOf(b)'
  <2>t. /\ DOMAIN pc = Boxes /\ DOMAIN rec = Boxes /\ DOMAIN wrap = Boxes /\ WrapperLastOf(b)
    BY DEF TypeOK, WrapperLast, WrapperLastOf
  (* While its child lives a wrapper neither cleans up nor is gone.        *)
  <2>l. ~Dead(b) => wrap[b] \notin {"clean", "gone"}
    BY <2>t DEF WrapperLastOf
  <2>1. ASSUME ~Dead(b), pc[b] # "apply", pc'[b] # "apply", UNCHANGED wrap PROVE WrapperLastOf(b)'
    BY <2>1, <2>l DEF WrapperLastOf
  <2>2. ASSUME pc[b] \in Setup \cup {"look", "stale", "rmdot", "fuse", "run"}
        PROVE  ~Dead(b) /\ pc[b] # "apply"
    BY <2>2 DEF Setup, Dead
  <2> USE DEF hostVars, boxVars, histVars, Goto, Die
  <2>3. CASE Scan(b) \/ Look(b) \/ Stale(b) \/ Rmdot(b) \/ Mkdst(b) \/ Mkdot(b) \/ Mkwork(b)
    BY <2>3, <2>t, <2>1, <2>2 DEF Scan, Look, Stale, Rmdot, Mkdst, Mkdot, Mkwork, Setup
  <2>4. CASE Mount(b) \/ Fuse(b) \/ Check(b) \/ Create(b) \/ Make(b) \/ Record(b) \/ Pivot(b)
    BY <2>4, <2>t, <2>1, <2>2 DEF Mount, Fuse, AfterMount, Check, Create, Make, Record, Pivot, Setup
  <2>5. CASE Anchor(b) \/ BindOld(b) \/ Bind(b) \/ SetupFails(b) \/ Exit(b) \/ Stopped(b)
    BY <2>5, <2>t, <2>1, <2>2
    DEF Anchor, BindOld, Bind, NextPath, SetupFails, Exit, Stopped, Setup
  <2>6. CASE Apply(b) \/ Refuse(b) \/ Term(b)
    BY <2>6, <2>t DEF Apply, Refuse, Term, WrapperLastOf, Dead
  <2>7. CASE InstallHandlers(b) \/ WaitChild(b) \/ KillWrapper(b)
    BY <2>7, <2>t DEF InstallHandlers, WaitChild, KillWrapper, WrapperLastOf, Dead
  <2>8. CASE Cleanup(b) \/ CleanupFails(b)
    BY <2>8, <2>t DEF Cleanup, CleanupFails, WrapperLastOf, Dead
  <2> QED
    BY <1>2, <2>3, <2>4, <2>5, <2>6, <2>7, <2>8 DEF BoxStep, ChildStep, WrapperStep
<1>3. ASSUME NEW p \in Paths, UserWrites(p) PROVE WrapperLast'
  BY <1>3, <1>a DEF UserWrites, boxVars
<1>4. ASSUME NEW d \in dirs, UserRemovesDst(d) PROVE WrapperLast'
  BY <1>4, <1>a DEF UserRemovesDst, boxVars
<1>5. ASSUME UNCHANGED vars PROVE WrapperLast'
  BY <1>5, <1>a DEF vars, boxVars
<1> QED
  BY <1>1, <1>2, <1>3, <1>4, <1>5 DEF Next, BoxStep, AllOver

(***************************************************************************)
(* The host: placeholders, and what the user writes.                       *)
(***************************************************************************)
HostPart == PlaceholdersOwned /\ WritesCovered /\ UserDataKept

(* A step that makes no placeholder, takes none over and removes none.     *)
Quiet(b) ==
    /\ UNCHANGED <<host, rec, bound, lost, covered, loose>>
    /\ pc[b] \notin {"make", "record"} /\ pc'[b] \notin {"make", "record"}

\* Steps that change neither the host's files nor a record.
LEMMA HostQuiet ==
    ASSUME TypeOK, HostPart, NEW b \in Boxes, Apart(b), Quiet(b)
    PROVE  HostPart'
<1>1. \A c \in Boxes, p \in Paths : Owner(c, p)' <=> Owner(c, p)
  BY DEF Owner, Path, Apart, Quiet
<1>2. \A p \in Paths : Taken(p)' <=> Taken(p)
  BY DEF Taken, Path, Apart, Quiet
<1> QED
  BY <1>1, <1>2 DEF HostPart, PlaceholdersOwned, WritesCovered, UserDataKept, Quiet

\* Which steps those are.
LEMMA QuietSteps ==
    ASSUME TypeOK, NEW b \in Boxes, BoxStep(b)
    PROVE  \/ Quiet(b)
           \/ Anchor(b) \/ Bind(b) \/ Create(b) \/ Make(b) \/ Record(b)
           \/ SetupFails(b) \/ Cleanup(b) \/ CleanupFails(b)
           \/ UNCHANGED <<host, rec, bound, lost, covered, loose, pc, idx>>
<1>t. DOMAIN pc = Boxes
  BY DEF TypeOK
<1> USE DEF Quiet, hostVars, boxVars, histVars, Goto, Die
<1>1. ASSUME Apply(b) \/ Refuse(b) \/ Scan(b) \/ Look(b) \/ Stale(b) \/ Rmdot(b) PROVE Quiet(b)
  BY <1>1, <1>t DEF Apply, Refuse, Scan, Look, Stale, Rmdot
<1>2. ASSUME Mkdst(b) \/ Mkdot(b) \/ Mkwork(b) \/ Mount(b) \/ Fuse(b) PROVE Quiet(b)
  BY <1>2, <1>t DEF Mkdst, Mkdot, Mkwork, Mount, Fuse, AfterMount
<1>3. ASSUME Check(b) \/ BindOld(b) \/ Pivot(b) \/ Exit(b) \/ Stopped(b) PROVE Quiet(b)
  BY <1>3, <1>t DEF Check, BindOld, NextPath, Pivot, Exit, Stopped
<1>4. ASSUME Term(b), pc[b] = "apply" PROVE Quiet(b)
  BY <1>4, <1>t DEF Term
<1>5. ASSUME InstallHandlers(b) \/ WaitChild(b) \/ KillWrapper(b)
      PROVE  UNCHANGED <<host, rec, bound, lost, covered, loose, pc, idx>>
  BY <1>5 DEF InstallHandlers, WaitChild, KillWrapper
<1>6. ASSUME Term(b), pc[b] # "apply"
      PROVE  UNCHANGED <<host, rec, bound, lost, covered, loose, pc, idx>>
  BY <1>6 DEF Term
<1> QED
  BY <1>1, <1>2, <1>3, <1>4, <1>5, <1>6 DEF BoxStep, ChildStep, WrapperStep

(* The same when nothing that the statements are about changes.            *)
LEMMA HostSame ==
    ASSUME HostPart, UNCHANGED <<host, rec, bound, lost, covered, loose, pc, idx>>
    PROVE  HostPart'
BY DEF HostPart, PlaceholdersOwned, Owner, WritesCovered, Taken, UserDataKept, Path

(* The mount point that is made when the path has gone is in the record    *)
(* already, or is known to be left.                                        *)
LEMMA HostEnsure ==
    ASSUME TypeOK, HostPart, NEW b \in Boxes, Apart(b), Ensure(b), UNCHANGED <<rec, lost, covered>>,
           \A c \in Boxes : bound[c] \subseteq bound'[c],
           pc[b] \notin {"make", "record"}, pc'[b] \notin {"make", "record"}
    PROVE  HostPart'
<1> DEFINE q == Path(b)
<1>q. q \in Paths
  BY PathFacts
<1>h. /\ \A p \in Paths \ {q} : host'[p] = host[p]
      /\ host'[q] = "user" <=> host[q] = "user"
      /\ loose \subseteq loose'
  BY DEF Ensure, TypeOK
<1>1. \A c \in Boxes, p \in Paths : Owner(c, p)' <=> Owner(c, p)
  BY DEF Owner, Path, Apart
<1>2. \A p \in Paths : Taken(p)' <=> Taken(p)
  BY DEF Taken, Path, Apart
<1>3. host'[q] = "empty" => host[q] = "empty" \/ q \in loose' \/ Owner(b, q)
  BY DEF Ensure, TypeOK, Owner
<1>4. PlaceholdersOwned'
  BY <1>h, <1>1, <1>3 DEF HostPart, PlaceholdersOwned
<1>5. WritesCovered'
  BY <1>h, <1>2 DEF HostPart, WritesCovered
<1> QED
  BY <1>4, <1>5 DEF HostPart, UserDataKept

\* Every step keeps what is known of the host's files.
LEMMA HostStep ==
    ASSUME TypeOK, StaleIsSwept, HostPart, [Next]_vars
    PROVE  HostPart'
<1>t. DOMAIN pc = Boxes /\ rec \in [Boxes -> SUBSET Paths] /\ DOMAIN bound = Boxes /\ host \in [Paths -> {"none", "empty", "user"}]
  BY DEF TypeOK
<1> USE DEF hostVars, boxVars, histVars, Goto
<1>1. ASSUME NEW b \in Boxes, BoxStep(b) PROVE HostPart'
  <2>a. Apart(b)
    BY <1>1, StepsApart
  <2>q. Path(b) \in Paths
    BY PathFacts
  <2>1. CASE Anchor(b) \/ Bind(b)
    <3>1. \A c \in Boxes : bound[c] \subseteq bound'[c]
      BY <2>1, <1>t DEF Anchor, Bind
    <3> QED
      BY <2>a, <2>1, <3>1, <1>t, HostEnsure DEF Anchor, Bind, NextPath
  <2>2. CASE Create(b)
    <3>1. CASE host[Path(b)] # "none"
      BY <2>a, <2>2, <3>1, <1>t, HostQuiet DEF Create, Quiet
    <3>2. CASE host[Path(b)] = "none"
      <4>1. \A c \in Boxes, p \in Paths : Owner(c, p)' <=> Owner(c, p)
        BY <2>a, <2>2, <1>t DEF Owner, Path, Apart, Create
      <4>2. \A p \in Paths : host[p] = "user" => (Taken(p)' => Taken(p))
        BY <2>a, <2>2, <3>2, <1>t DEF Taken, Path, Apart, Create
      <4> QED
        BY <2>2, <4>1, <4>2 DEF HostPart, PlaceholdersOwned, WritesCovered, UserDataKept, Create
    <3> QED
      BY <3>1, <3>2
  <2>3. CASE Make(b)
    <3>h. \A p \in Paths : /\ p # Path(b) => host'[p] = host[p]
                           /\ host'[p] = "user" <=> host[p] = "user"
      BY <2>3, <2>q, <1>t DEF Make
    <3>1. \A c \in Boxes, p \in Paths : Owner(c, p) => Owner(c, p)'
      BY <2>a, <2>3, <1>t DEF Owner, Path, Apart, Make
    <3>2. Owner(b, Path(b))'
      BY <2>3, <1>t DEF Owner, Path, Make
    <3>3. \A p \in Paths : Taken(p)' => Taken(p)
      BY <2>a, <2>3, <1>t DEF Taken, Path, Apart, Make
    <3>4. PlaceholdersOwned'
      <4> SUFFICES ASSUME NEW p \in Paths, host'[p] = "empty"
                   PROVE  p \in loose' \/ \E c \in Boxes : Owner(c, p)' \/ p \in bound'[c]
        BY DEF PlaceholdersOwned
      <4>1. CASE p = Path(b)
        <5>1. Path(b)' = Path(b)
          BY <2>3 DEF Path, Make
        <5>2. Owner(b, p)'
          BY <2>3, <1>t, <5>1, <4>1 DEF Owner, Path, Make
        <5> QED
          BY <5>2
      <4>2. CASE p # Path(b)
        BY <2>3, <3>h, <3>1, <4>2 DEF HostPart, PlaceholdersOwned, Make
      <4> QED
        BY <4>1, <4>2
    <3> QED
      BY <2>3, <3>h, <3>3, <3>4 DEF HostPart, WritesCovered, UserDataKept, Make
  <2>4. CASE Record(b)
    <3>1. \A c \in Boxes, p \in Paths : Owner(c, p) => Owner(c, p)'
      BY <2>a, <2>4, <1>t DEF Owner, Path, Apart, Record
    <3>2. \A p \in Paths : Taken(p)' => Taken(p)
      BY <2>a, <2>4, <1>t DEF Taken, Path, Apart, Record
    <3> QED
      BY <2>4, <3>1, <3>2 DEF HostPart, PlaceholdersOwned, WritesCovered, UserDataKept, Record
  <2>5. CASE SetupFails(b)
    <3> USE DEF Die
    <3>1. \A c \in Boxes, p \in Paths : Owner(c, p) /\ host[p] = "empty" => Owner(c, p)' \/ p \in loose'
      BY <2>a, <2>5, <1>t DEF Owner, Path, Apart, SetupFails
    <3>2. \A p \in Paths : Taken(p)' => Taken(p)
      BY <2>a, <2>5, <1>t DEF Taken, Path, Apart, SetupFails
    <3>3. loose \subseteq loose' /\ UNCHANGED <<host, bound, lost, covered>>
      BY <2>5 DEF SetupFails
    <3> QED
      BY <3>1, <3>2, <3>3 DEF HostPart, PlaceholdersOwned, WritesCovered, UserDataKept
  <2>6. CASE Cleanup(b)
    <3>1. CASE rec[b] = {}
      BY <2>6, <3>1, HostSame DEF Cleanup
    <3>2. ASSUME NEW p \in rec[b], host' = [host EXCEPT ![p] = Remove(b, p)],
                 lost' = IF host[p] = "user" /\ host'[p] = "none" THEN lost \cup {p} ELSE lost,
                 rec' = [rec EXCEPT ![b] = @ \ {p}]
          PROVE  HostPart'
      <4>0. UNCHANGED <<bound, covered, loose, pc, idx>> /\ p \in Paths
        BY <2>6, <3>2, <1>t DEF Cleanup
      <4>1. host'[p] = Remove(b, p) /\ \A r \in Paths \ {p} : host'[r] = host[r]
        BY <3>2, <4>0, <1>t
      <4>2. \A c \in Boxes, r \in Paths \ {p} : Owner(c, r) => Owner(c, r)'
        BY <3>2, <4>0, <1>t DEF Owner, Path
      <4>3. PlaceholdersOwned'
        <5>1. host'[p] = "empty" => p \in bound[b]
          BY <4>1 DEF Remove
        <5> QED
          BY <4>0, <4>1, <4>2, <5>1 DEF HostPart, PlaceholdersOwned
      <4>4. \A r \in Paths : Taken(r)' => Taken(r)
        BY <3>2, <4>0, <1>t DEF Taken, Path
      <4>5. Taken(p)
        BY <3>2 DEF Taken
      <4>6. WritesCovered'
        <5>1. \A r \in Paths : host'[r] = "user" => host[r] = "user"
          BY <4>0, <4>1 DEF Remove
        <5> QED
          BY <4>0, <4>4, <5>1 DEF HostPart, WritesCovered
      <4>7. UserDataKept'
        <5>1. CASE host[p] = "user" /\ host'[p] = "none"
          <6>1. p \in covered /\ p = "file"
            BY <4>0, <4>1, <4>5, <5>1 DEF HostPart, WritesCovered, Remove, Paths
          <6> QED
            BY <3>2, <4>0, <5>1, <6>1 DEF HostPart, UserDataKept
        <5>2. CASE ~(host[p] = "user" /\ host'[p] = "none")
          BY <3>2, <4>0, <5>2 DEF HostPart, UserDataKept
        <5> QED
          BY <5>1, <5>2
      <4> QED
        BY <4>3, <4>6, <4>7 DEF HostPart
    <3> QED
      BY <2>6, <3>1, <3>2 DEF Cleanup
  <2>7. CASE CleanupFails(b)
    <3>1. \A c \in Boxes, p \in Paths : Owner(c, p) /\ host[p] = "empty" => Owner(c, p)' \/ p \in loose'
      BY <2>a, <2>7, <1>t DEF Owner, Path, Apart, CleanupFails
    <3>2. \A p \in Paths : Taken(p)' => Taken(p)
      BY <2>a, <2>7, <1>t DEF Taken, Path, Apart, CleanupFails
    <3>3. loose \subseteq loose' /\ UNCHANGED <<host, bound, lost, covered>>
      BY <2>7 DEF CleanupFails
    <3> QED
      BY <3>1, <3>2, <3>3 DEF HostPart, PlaceholdersOwned, WritesCovered, UserDataKept
  <2> QED
    BY <1>1, <2>a, <2>1, <2>2, <2>3, <2>4, <2>5, <2>6, <2>7, QuietSteps, HostQuiet, HostSame
<1>2. ASSUME NEW p \in Paths, UserWrites(p) PROVE HostPart'
  <2>1. UNCHANGED <<pc, idx, rec, bound, lost, loose>> /\ covered \subseteq covered'
    BY <1>2 DEF UserWrites
  <2>2. host'[p] = "user" /\ \A r \in Paths \ {p} : host'[r] = host[r]
    BY <1>2, <1>t DEF UserWrites
  <2>3. \A c \in Boxes, r \in Paths : Owner(c, r)' <=> Owner(c, r)
    BY <2>1 DEF Owner, Path
  <2>4. \A r \in Paths : Taken(r)' <=> Taken(r)
    BY <2>1 DEF Taken, Path
  <2>5. Taken(p) => p \in covered'
    BY <1>2 DEF UserWrites
  <2>6. PlaceholdersOwned'
    BY <2>1, <2>2, <2>3 DEF HostPart, PlaceholdersOwned
  <2>7. WritesCovered'
    BY <2>1, <2>2, <2>4, <2>5 DEF HostPart, WritesCovered
  <2> QED
    BY <2>1, <2>6, <2>7 DEF HostPart, UserDataKept
<1>3. ASSUME NEW d \in dirs, UserRemovesDst(d) PROVE HostPart'
  BY <1>3, HostSame DEF UserRemovesDst
<1>4. ASSUME UNCHANGED vars PROVE HostPart'
  BY <1>4, HostSame DEF vars
<1> QED
  BY <1>1, <1>2, <1>3, <1>4 DEF Next, BoxStep, AllOver

(***************************************************************************)
(* The directories of copy-on-write sandboxes: only what is stale is taken *)
(* away, and who is hindered is known.                                     *)
(***************************************************************************)
DirPart == StaleIsSwept /\ MountKept /\ RaceKnown /\ StartsUnlessBlocked

(* What the statements say of one sandbox.                                 *)
DirOf(b) ==
    /\ todo[b] \subseteq dirs \cup swept
    /\ pc[b] = "stale" => cur[b] \in swept
    /\ pc[b] \in Mounting => Dst(b) \in dirs \cup swept
    /\ mounted[b] # "no" /\ Dst(b) \notin swept => Dst(b) \in work
    /\ pc[b] = "mkwork" /\ ~dot => b \in raced
    /\ pc[b] \in {"mount", "fuse"} /\ Dst(b) \notin work => b \in raced
    /\ pc[b] \in Mounting /\ changes = 0 => Dst(b) \in dirs
    /\ pc[b] = "fuse" => start.overlay # "works"

Blocked(b) == \/ b \in raced
              \/ start.overlay # "works"
              \/ \E c \in Boxes \ {b} : Dst(c) = Dst(b)

FailsBlocked(b) == pc[b] = "failed" /\ faults = 0 /\ changes = 0 => Blocked(b)

\* DirPart, one sandbox at a time.
LEMMA DirPartOf ==
    DirPart <=> /\ work \subseteq dirs \cup swept
                /\ DOMAIN todo = Boxes /\ DOMAIN cur = Boxes
                /\ \A b \in Boxes : DirOf(b) /\ FailsBlocked(b)
BY DEF DirPart, StaleIsSwept, MountKept, RaceKnown, StartsUnlessBlocked, DirOf, FailsBlocked, Blocked

(* A step of b that leaves the shared directories alone, or only adds to   *)
(* them, keeps what is said of the others.                                 *)
Grows ==
    /\ dirs \subseteq dirs' /\ work \subseteq work' /\ swept' = swept /\ raced \subseteq raced'
    /\ dot => dot'
    /\ faults \in Nat /\ changes \in Nat /\ (faults' = 0 => faults = 0) /\ (changes' = 0 => changes = 0)

\* A step of one sandbox keeps the others' part of DirPart.
LEMMA OthersKept ==
    ASSUME NEW b \in Boxes, NEW c \in Boxes \ {b}, Apart(b), Grows, DirOf(c), FailsBlocked(c)
    PROVE  DirOf(c)' /\ FailsBlocked(c)'
<1>1. Dst(c)' = Dst(c) /\ \A a \in Boxes : Dst(a)' = Dst(a)
  BY DEF Apart, Dst
<1>2. pc'[c] = pc[c] /\ todo'[c] = todo[c] /\ cur'[c] = cur[c] /\ mounted'[c] = mounted[c]
  BY DEF Apart
<1>3. DirOf(c)'
  BY <1>1, <1>2 DEF DirOf, Grows, Mounting, Apart
<1>4. Blocked(c) => Blocked(c)'
  BY <1>1 DEF Blocked, Grows, Apart
<1> QED
  BY <1>2, <1>3, <1>4 DEF FailsBlocked, Grows

(* A step of b need only establish what is said of b, when the directories *)
(* grow.                                                                   *)
LEMMA DirGrows ==
    ASSUME TypeOK, DirPart, NEW b \in Boxes, Apart(b), Grows,
           work' \subseteq dirs' \cup swept', DOMAIN todo' = Boxes, DOMAIN cur' = Boxes,
           DirOf(b)', FailsBlocked(b)'
    PROVE  DirPart'
<1>1. \A c \in Boxes : DirOf(c)' /\ FailsBlocked(c)'
  BY OthersKept, DirPartOf
<1>2. /\ work' \subseteq dirs' \cup swept' /\ DOMAIN todo' = Boxes /\ DOMAIN cur' = Boxes
      /\ \A c \in Boxes : DirOf(c)' /\ FailsBlocked(c)'
  BY <1>1
<1> QED
  BY <1>2 DEF DirPart, StaleIsSwept, MountKept, RaceKnown, StartsUnlessBlocked, DirOf, FailsBlocked, Blocked

(* The steps that have nothing to do with the directories.                 *)
Elsewhere(b) ==
    /\ UNCHANGED <<dirs, work, dot, swept, todo, cur, mounted>> /\ raced \subseteq raced'
    /\ faults' = faults \/ faults' = faults + 1
    /\ changes' = changes \/ changes' = changes + 1
    /\ pc'[b] = pc[b] \/ pc'[b] \notin Mounting \cup {"stale"}
    /\ pc'[b] = "failed" => pc[b] = "failed" \/ faults' = faults + 1

\* Steps that touch no overlay directory.
LEMMA DirElsewhere ==
    ASSUME TypeOK, DirPart, NEW b \in Boxes, Apart(b), Elsewhere(b)
    PROVE  DirPart'
<1>1. faults \in Nat /\ changes \in Nat
  BY SandboxAssumption DEF TypeOK
<1>2. Grows
  BY <1>1 DEF Grows, Elsewhere
<1>3. DirOf(b) /\ FailsBlocked(b)
  BY DirPartOf
<1>4. \A a \in Boxes : Dst(a)' = Dst(a)
  BY DEF Apart, Dst
<1>5. DirOf(b)'
  BY <1>1, <1>3, <1>4 DEF DirOf, Elsewhere, Apart, Mounting
<1>6. FailsBlocked(b)'
  BY <1>1, <1>3, <1>4 DEF FailsBlocked, Blocked, Elsewhere, Apart
<1>7. work' \subseteq dirs' \cup swept' /\ DOMAIN todo' = Boxes /\ DOMAIN cur' = Boxes
  BY DEF DirPart, StaleIsSwept, Elsewhere
<1> QED
  BY <1>2, <1>5, <1>6, <1>7, DirGrows

\* Which steps those are.
LEMMA ElsewhereSteps ==
    ASSUME TypeOK, NEW b \in Boxes, BoxStep(b)
    PROVE  \/ Elsewhere(b)
           \/ Scan(b) \/ Look(b) \/ Stale(b) \/ Rmdot(b) \/ Mkdst(b) \/ Mkdot(b) \/ Mkwork(b)
           \/ Mount(b) \/ Fuse(b) \/ BindOld(b)
<1>t. DOMAIN pc = Boxes /\ DOMAIN mounted = Boxes
  BY DEF TypeOK
<1> USE DEF Elsewhere, Mounting, hostVars, boxVars, histVars, Goto, Die
<1>1. ASSUME Apply(b) \/ Refuse(b) \/ Check(b) \/ Anchor(b) \/ Create(b) \/ Make(b) PROVE Elsewhere(b)
  BY <1>1, <1>t DEF Apply, Refuse, Check, Anchor, Create, Make
<1>2. ASSUME Record(b) \/ Bind(b) \/ Pivot(b) \/ SetupFails(b) \/ Exit(b) \/ Stopped(b) PROVE Elsewhere(b)
  BY <1>2, <1>t DEF Record, Bind, NextPath, Pivot, SetupFails, Exit, Stopped
<1>3. ASSUME InstallHandlers(b) \/ WaitChild(b) \/ KillWrapper(b) PROVE Elsewhere(b)
  BY <1>3, <1>t DEF InstallHandlers, WaitChild, KillWrapper
<1>4. ASSUME Cleanup(b) \/ CleanupFails(b) \/ Term(b) PROVE Elsewhere(b)
  BY <1>4, <1>t DEF Cleanup, CleanupFails, Term
<1> QED
  BY <1>1, <1>2, <1>3, <1>4 DEF BoxStep, ChildStep, WrapperStep

\* Every step keeps what is known of the overlay directories.
LEMMA DirStep ==
    ASSUME TypeOK, AnchorKnown, DirPart, [Next]_vars
    PROVE  DirPart'
<1>t. /\ DOMAIN pc = Boxes /\ DOMAIN mounted = Boxes /\ DOMAIN todo = Boxes /\ DOMAIN cur = Boxes
      /\ faults \in Nat /\ changes \in Nat /\ dot \in BOOLEAN
      /\ work \subseteq dirs \cup swept
  BY SandboxAssumption DEF TypeOK, DirPart, StaleIsSwept
<1>d. \A c \in Boxes : DirOf(c) /\ FailsBlocked(c)
  BY DirPartOf
<1> USE DEF hostVars, boxVars, histVars, Goto
<1>1. ASSUME NEW b \in Boxes, BoxStep(b) PROVE DirPart'
  <2>a. Apart(b) /\ DirOf(b) /\ FailsBlocked(b)
    BY <1>1, <1>d, StepsApart DEF DirPart
  <2>s. \A c \in Boxes : Dst(c)' = Dst(c)
    BY <2>a DEF Apart, Dst
  <2>1. CASE Scan(b)
    <3>1. Grows /\ mounted' = mounted /\ DOMAIN todo' = Boxes /\ DOMAIN cur' = Boxes /\ UNCHANGED <<dirs, work, swept>>
      BY <2>1, <1>t DEF Scan, Grows
    <3>2. DirOf(b)' /\ FailsBlocked(b)'
      BY <2>1, <2>a, <2>s, <1>t DEF Scan, DirOf, FailsBlocked, Mounting
    <3> QED
      BY <2>a, <3>1, <3>2, <1>t, DirGrows
  <2>2. CASE Look(b)
    <3>1. Grows /\ mounted' = mounted /\ DOMAIN todo' = Boxes /\ DOMAIN cur' = Boxes /\ UNCHANGED <<dirs, work, swept>>
      BY <2>2, <1>t DEF Look, Grows
    <3>2. DirOf(b)' /\ FailsBlocked(b)'
      BY <2>2, <2>a, <2>s, <1>t DEF Look, IsStale, DirOf, FailsBlocked, Mounting
    <3> QED
      BY <2>a, <3>1, <3>2, <1>t, DirGrows
  <2>3. CASE Mkdst(b) \/ Mkdot(b)
    <3>1. Grows /\ mounted' = mounted /\ DOMAIN todo' = Boxes /\ DOMAIN cur' = Boxes /\ UNCHANGED <<work, swept>>
      BY <2>3, <1>t DEF Mkdst, Mkdot, Grows
    <3>2. DirOf(b)' /\ FailsBlocked(b)'
      BY <2>3, <2>a, <2>s, <1>t DEF Mkdst, Mkdot, DirOf, FailsBlocked, Mounting
    <3> QED
      BY <2>a, <3>1, <3>2, <1>t, DirGrows DEF Grows
  <2>4. CASE Mkwork(b)
    <3>1. /\ Grows /\ mounted' = mounted
          /\ DOMAIN todo' = Boxes /\ DOMAIN cur' = Boxes /\ UNCHANGED <<dirs, swept>>
          /\ work' \subseteq dirs \cup swept
      BY <2>4, <2>a, <1>t DEF Mkwork, Grows, Die, DirOf, Mounting
    <3>2. DirOf(b)' /\ FailsBlocked(b)'
      <4>1. CASE dot
        BY <2>4, <2>a, <2>s, <1>t, <4>1 DEF Mkwork, DirOf, FailsBlocked, Mounting
      <4>2. CASE ~dot
        BY <2>4, <2>a, <2>s, <1>t, <4>2 DEF Mkwork, Die, DirOf, FailsBlocked, Blocked, Mounting
      <4> QED
        BY <4>1, <4>2
    <3> QED
      BY <2>a, <3>1, <3>2, DirGrows
  <2>5. CASE Mount(b)
    <3>1. /\ Grows /\ DOMAIN todo' = Boxes /\ DOMAIN cur' = Boxes /\ UNCHANGED <<dirs, work, swept, dot, raced, faults, changes>>
          /\ pc[b] = "mount" /\ todo' = todo /\ cur' = cur /\ start' = start
      BY <2>5, <1>t DEF Mount, Grows
    <3>2. CASE FallsBack(b)
      <4>1. pc'[b] = "fuse" /\ mounted' = mounted
        BY <2>5, <3>2, <1>t DEF Mount
      <4>2. DirOf(b)' /\ FailsBlocked(b)'
        BY <2>a, <2>s, <3>1, <3>2, <4>1 DEF FallsBack, DirOf, FailsBlocked, Mounting
      <4> QED
        BY <2>a, <3>1, <4>1, <4>2, <1>t, DirGrows
    <3>3. CASE ~FallsBack(b) /\ (Dst(b) \notin dirs \cap work \/ InUse(b)) /\ Die(b) /\ UNCHANGED mounted
      <4>1. pc'[b] = "failed" /\ mounted' = mounted
        BY <3>3, <1>t DEF Die
      <4>2. changes = 0 => Blocked(b)
        BY <2>a, <3>1, <3>3 DEF Blocked, DirOf, InUse, Mounting
      <4>3. DirOf(b)' /\ FailsBlocked(b)'
        BY <2>a, <2>s, <3>1, <4>1, <4>2 DEF DirOf, FailsBlocked, Blocked, Mounting
      <4> QED
        BY <2>a, <3>1, <4>1, <4>3, <1>t, DirGrows
    <3>4. CASE /\ ~FallsBack(b) /\ Dst(b) \in dirs \cap work
               /\ mounted' = [mounted EXCEPT ![b] = "kernel"] /\ Goto(b, AfterMount)
      <4>1. /\ mounted' = [mounted EXCEPT ![b] = "kernel"]
            /\ pc'[b] \in {"check", "pivot"} /\ Dst(b) \in work
        BY <3>4, <1>t DEF AfterMount
      <4>2. DirOf(b)' /\ FailsBlocked(b)'
        BY <2>a, <2>s, <3>1, <4>1, <1>t DEF DirOf, FailsBlocked, Mounting
      <4> QED
        BY <2>a, <3>1, <4>2, <1>t, DirGrows
    <3> QED
      BY <2>5, <3>2, <3>3, <3>4 DEF Mount
  <2>6. CASE Fuse(b)
    <3>1. /\ Grows /\ DOMAIN todo' = Boxes /\ DOMAIN cur' = Boxes /\ UNCHANGED <<dirs, work, swept, dot, raced, faults, changes>>
          /\ pc[b] = "fuse" /\ todo' = todo /\ cur' = cur /\ start' = start
      BY <2>6, <1>t DEF Fuse, Grows
    <3>2. CASE start.fuse /\ Dst(b) \in work /\ pc'[b] \in {"check", "pivot"}
      <4>1. DirOf(b)' /\ FailsBlocked(b)'
        BY <2>a, <2>s, <3>1, <3>2 DEF DirOf, FailsBlocked, Mounting
      <4> QED
        BY <2>a, <3>1, <4>1, <1>t, DirGrows
    <3>3. CASE Die(b) /\ UNCHANGED mounted
      <4>1. pc'[b] = "failed" /\ mounted' = mounted
        BY <3>3, <1>t DEF Die
      <4>2. Blocked(b)'
        BY <2>a, <3>1 DEF Blocked, DirOf
      <4>3. DirOf(b)' /\ FailsBlocked(b)'
        BY <2>a, <2>s, <3>1, <4>1, <4>2 DEF DirOf, FailsBlocked, Mounting
      <4> QED
        BY <2>a, <3>1, <4>3, <1>t, DirGrows
    <3> QED
      BY <2>6, <1>t, <3>2, <3>3 DEF Fuse, AfterMount
  <2>7. CASE BindOld(b)
    <3>1. CASE host[Path(b)] = "none"
      <4>1. /\ Grows /\ DOMAIN todo' = Boxes /\ DOMAIN cur' = Boxes /\ UNCHANGED <<dirs, work, swept>>
            /\ pc'[b] = "failed" /\ mounted' = mounted /\ b \in raced'
            /\ todo' = todo
        BY <2>7, <3>1, <1>t DEF BindOld, Grows, Die, AnchorKnown
      <4>2. DirOf(b)' /\ FailsBlocked(b)'
        BY <2>a, <2>s, <4>1 DEF DirOf, FailsBlocked, Blocked, Mounting
      <4> QED
        BY <2>a, <4>1, <4>2, <1>t, DirGrows
    <3>2. CASE host[Path(b)] # "none"
      <4>1. Elsewhere(b)
        BY <2>7, <3>2, <1>t DEF BindOld, NextPath, Elsewhere, Mounting
      <4> QED
        BY <2>a, <4>1, DirElsewhere
    <3> QED
      BY <3>1, <3>2
  <2>8. CASE Stale(b)
    <3>1. /\ pc[b] = "stale" /\ pc'[b] = "look" /\ cur[b] \in swept
          /\ UNCHANGED <<start, dirs, dot, swept, todo, cur, mounted, faults, changes>>
          /\ work' \in {work, work \ {cur[b]}}
          /\ raced \subseteq raced'
      BY <2>8, <2>a, <1>t DEF Stale, DirOf
    <3>2. \A c \in Boxes \ {b} : DirOf(c)'
      <4> SUFFICES ASSUME NEW c \in Boxes \ {b} PROVE DirOf(c)'
        OBVIOUS
      <4>1. pc'[c] = pc[c] /\ todo'[c] = todo[c] /\ cur'[c] = cur[c] /\ mounted'[c] = mounted[c]
        BY <2>a DEF Apart
      <4>2. pc[c] \in {"mount", "fuse"} /\ Dst(c) \notin work' => c \in raced'
        <5>1. CASE work' = work
          BY <1>d, <3>1, <5>1 DEF DirOf
        <5>2. CASE work' # work
          BY <1>d, <2>8, <3>1, <5>2 DEF DirOf, Stale
        <5> QED
          BY <5>1, <5>2
      <4> QED
        BY <1>d, <2>s, <3>1, <4>1, <4>2 DEF DirOf, Mounting
    <3>3. DirOf(b)'
      BY <2>a, <2>s, <3>1 DEF DirOf, Mounting
    <3>4. \A c \in Boxes : FailsBlocked(c)'
      BY <1>d, <2>a, <2>s, <3>1 DEF FailsBlocked, Blocked, Apart
    <3>5. work' \subseteq dirs' \cup swept' /\ DOMAIN todo' = Boxes /\ DOMAIN cur' = Boxes
      BY <3>1, <1>t
    <3> QED
      BY <3>2, <3>3, <3>4, <3>5
      DEF DirPart, StaleIsSwept, MountKept, RaceKnown, StartsUnlessBlocked, DirOf, FailsBlocked, Blocked
  <2>9. CASE Rmdot(b)
    <3>1. /\ pc[b] = "rmdot" /\ pc'[b] = "mkdst"
          /\ UNCHANGED <<start, dirs, work, swept, todo, cur, mounted, faults, changes>>
          /\ raced \subseteq raced'
      BY <2>9, <1>t DEF Rmdot
    <3>2. \A c \in Boxes \ {b} : DirOf(c)'
      <4> SUFFICES ASSUME NEW c \in Boxes \ {b} PROVE DirOf(c)'
        OBVIOUS
      <4>1. pc'[c] = pc[c] /\ todo'[c] = todo[c] /\ cur'[c] = cur[c] /\ mounted'[c] = mounted[c]
        BY <2>a DEF Apart
      <4>2. pc[c] = "mkwork" /\ ~dot' => c \in raced'
        <5>1. CASE dot' = dot
          BY <1>d, <3>1, <5>1 DEF DirOf
        <5>2. CASE dot' # dot
          BY <2>9, <5>2 DEF Rmdot
        <5> QED
          BY <5>1, <5>2
      <4> QED
        BY <1>d, <2>s, <3>1, <4>1, <4>2 DEF DirOf, Mounting
    <3>3. DirOf(b)'
      BY <2>a, <2>s, <3>1 DEF DirOf, Mounting
    <3>4. \A c \in Boxes : FailsBlocked(c)'
      BY <1>d, <2>a, <2>s, <3>1 DEF FailsBlocked, Blocked, Apart
    <3>5. work' \subseteq dirs' \cup swept' /\ DOMAIN todo' = Boxes /\ DOMAIN cur' = Boxes
      BY <3>1, <1>t
    <3> QED
      BY <3>2, <3>3, <3>4, <3>5
      DEF DirPart, StaleIsSwept, MountKept, RaceKnown, StartsUnlessBlocked, DirOf, FailsBlocked, Blocked
  <2> QED
    BY <1>1, <2>a, <2>1, <2>2, <2>3, <2>4, <2>5, <2>6, <2>7, <2>8, <2>9, ElsewhereSteps, DirElsewhere
<1>2. ASSUME NEW d \in dirs, UserRemovesDst(d) PROVE DirPart'
  <2>1. /\ UNCHANGED <<start, work, dot, pc, todo, cur, mounted, raced, faults>>
        /\ dirs' \cup swept' = dirs \cup swept \cup {d} /\ swept \subseteq swept' /\ changes' # 0
    BY <1>2, <1>t DEF UserRemovesDst
  <2>2. \A c \in Boxes : Dst(c)' = Dst(c)
    BY <2>1 DEF Dst
  <2>3. \A c \in Boxes : DirOf(c)' /\ FailsBlocked(c)'
    BY <1>d, <2>1, <2>2 DEF DirOf, FailsBlocked
  <2>4. work' \subseteq dirs' \cup swept' /\ DOMAIN todo' = Boxes /\ DOMAIN cur' = Boxes
    BY <2>1, <1>t
  <2> QED
    BY <2>3, <2>4
    DEF DirPart, StaleIsSwept, MountKept, RaceKnown, StartsUnlessBlocked, DirOf, FailsBlocked, Blocked
<1>3. ASSUME UNCHANGED <<start, dirs, dot, work, pc, todo, cur, mounted, raced, swept, faults>>,
             changes' = changes \/ changes' = changes + 1
      PROVE  DirPart'
  <2>1. \A c \in Boxes : Dst(c)' = Dst(c)
    BY <1>3 DEF Dst
  <2>2. \A c \in Boxes : DirOf(c)' /\ FailsBlocked(c)'
    BY <1>d, <1>3, <1>t, <2>1 DEF DirOf, FailsBlocked, Blocked
  <2>3. work' \subseteq dirs' \cup swept' /\ DOMAIN todo' = Boxes /\ DOMAIN cur' = Boxes
    BY <1>3, <1>t
  <2> QED
    BY <2>2, <2>3
    DEF DirPart, StaleIsSwept, MountKept, RaceKnown, StartsUnlessBlocked, DirOf, FailsBlocked, Blocked
<1>4. ASSUME NEW p \in Paths, UserWrites(p) PROVE DirPart'
  BY <1>3, <1>4 DEF UserWrites
<1>5. ASSUME UNCHANGED vars PROVE DirPart'
  BY <1>3, <1>5 DEF vars
<1> QED
  BY <1>1, <1>2, <1>4, <1>5 DEF Next, BoxStep, AllOver

(***************************************************************************)
(* Binding a path over itself: it is missing only when a clean-up took it. *)
(***************************************************************************)
LEMMA AnchorStep ==
    ASSUME TypeOK, StaleIsSwept, AnchorKnown, [Next]_vars
    PROVE  AnchorKnown'
<1>t. DOMAIN pc = Boxes /\ rec \in [Boxes -> SUBSET Paths] /\ host \in [Paths -> {"none", "empty", "user"}]
  BY DEF TypeOK
<1>p. \A c \in Boxes : Path(c) \in Paths
  BY PathFacts
(* A path stays, and who is known stays known.                             *)
<1> DEFINE Stays == /\ \A p \in Paths : host'[p] = "none" => host[p] = "none"
                    /\ raced \subseteq raced'
<1> USE DEF hostVars, boxVars, histVars, Goto, Die
<1>1. ASSUME NEW b \in Boxes, BoxStep(b) PROVE AnchorKnown'
  <2>a. \A c \in Boxes \ {b} : pc'[c] = pc[c] /\ Path(c)' = Path(c)
    BY <1>1, StepsApart DEF Apart, Path
  <2>1. ASSUME Stays, pc'[b] # "bindold" PROVE AnchorKnown'
    BY <2>1, <2>a, <1>p DEF AnchorKnown
  <2>2. ASSUME UNCHANGED <<host, raced, pc, idx>> PROVE AnchorKnown'
    BY <2>2 DEF AnchorKnown, Path
  <2>3. CASE Apply(b) \/ Refuse(b) \/ Scan(b) \/ Look(b) \/ Stale(b) \/ Rmdot(b)
    BY <2>3, <2>1, <1>t DEF Apply, Refuse, Scan, Look, Stale, Rmdot
  <2>4. CASE Mkdst(b) \/ Mkdot(b) \/ Mkwork(b) \/ Mount(b) \/ Fuse(b)
    BY <2>4, <2>1, <1>t DEF Mkdst, Mkdot, Mkwork, Mount, Fuse, AfterMount
  <2>5. CASE Check(b) \/ BindOld(b) \/ Create(b) \/ Record(b) \/ Pivot(b) \/ SetupFails(b)
    BY <2>5, <2>1, <1>t DEF Check, BindOld, NextPath, Create, Record, Pivot, SetupFails
  <2>6. CASE Make(b) \/ Bind(b)
    BY <2>6, <2>1, <1>t, <1>p DEF Make, Bind, Ensure, NextPath
  <2>7. CASE Exit(b) \/ Stopped(b)
    BY <2>7, <2>1, <1>t DEF Exit, Stopped
  <2>8. CASE InstallHandlers(b) \/ WaitChild(b) \/ KillWrapper(b) \/ CleanupFails(b)
    BY <2>8, <2>2 DEF InstallHandlers, WaitChild, KillWrapper, CleanupFails
  <2>9. CASE Term(b)
    <3>1. CASE pc[b] = "apply"
      BY <2>9, <3>1, <2>1, <1>t DEF Term
    <3>2. CASE pc[b] # "apply"
      BY <2>9, <3>2, <2>2 DEF Term
    <3> QED
      BY <3>1, <3>2
  <2>10. CASE Anchor(b)
    <3>1. Stays /\ Path(b)' = Path(b) /\ host'[Path(b)] # "none"
      BY <2>10, <1>t, <1>p DEF Anchor, Ensure, Path
    <3> QED
      BY <2>a, <3>1, <1>p DEF AnchorKnown
  <2>11. CASE Cleanup(b)
    <3>1. CASE rec[b] = {}
      BY <2>11, <3>1, <2>2 DEF Cleanup
    <3>2. ASSUME NEW p \in rec[b], host' = [host EXCEPT ![p] = Remove(b, p)],
                 raced' = IF host'[p] = "none"
                          THEN raced \cup {c \in Boxes : pc[c] = "bindold" /\ Path(c) = p}
                          ELSE raced
          PROVE  AnchorKnown'
      <4>1. UNCHANGED <<pc, idx>>
        BY <2>11 DEF Cleanup
      <4>2. \A r \in Paths \ {p} : host'[r] = host[r]
        BY <3>2, <1>t
      <4>3. \A c \in Boxes : Path(c)' = Path(c)
        BY <4>1 DEF Path
      <4> SUFFICES ASSUME NEW c \in Boxes, pc[c] = "bindold", host'[Path(c)] = "none"
                   PROVE  c \in raced'
        BY <4>1, <4>3 DEF AnchorKnown
      <4>4. CASE Path(c) = p
        BY <3>2, <4>4
      <4>5. CASE Path(c) # p
        BY <3>2, <4>2, <4>5, <1>p DEF AnchorKnown
      <4> QED
        BY <4>4, <4>5
    <3> QED
      BY <2>11, <3>1, <3>2 DEF Cleanup
  <2> QED
    BY <1>1, <2>3, <2>4, <2>5, <2>6, <2>7, <2>8, <2>9, <2>10, <2>11 DEF BoxStep, ChildStep, WrapperStep
<1>2. ASSUME NEW p \in Paths, UserWrites(p) PROVE AnchorKnown'
  BY <1>2, <1>t, <1>p DEF UserWrites, AnchorKnown, Path
<1>3. ASSUME NEW d \in dirs, UserRemovesDst(d) PROVE AnchorKnown'
  BY <1>3 DEF UserRemovesDst, AnchorKnown, Path
<1>4. ASSUME UNCHANGED vars PROVE AnchorKnown'
  BY <1>4 DEF vars, AnchorKnown, Path
<1> QED
  BY <1>1, <1>2, <1>3, <1>4 DEF Next, BoxStep, AllOver

-----------------------------------------------------------------------------
(***************************************************************************)
(* The theorems.                                                           *)
(***************************************************************************)
LEMMA BoxesStep == BInv /\ [Next]_vars => BInv'
<1> SUFFICES ASSUME BInv, [Next]_vars PROVE BInv'
  OBVIOUS
<1>1. TypeOK'
  BY TypeStep DEF BInv
<1>2. WrapperLast'
  BY WrapperLastStep DEF BInv
<1>3. HostPart'
  BY HostStep DEF BInv, HostPart
<1>4. DirPart'
  BY DirStep DEF BInv, DirPart
<1>5. AnchorKnown'
  BY AnchorStep DEF BInv
<1> QED
  BY <1>1, <1>2, <1>3, <1>4, <1>5 DEF BInv, HostPart, DirPart

(* The invariant holds in every state, for any number of sandboxes on the  *)
(* host, any failing call, killed wrapper or change by the user            *)
(* (sandbox_apply and the wrapper's clean-up).                             *)
THEOREM SandboxInvariant == Spec => []BInv
BY BoxesInit, BoxesStep, PTL DEF Spec

(* The host is given back as it was, as far as it is:                      *)
(* cleanup_host_mountpoints removes nothing of the user's that was there   *)
(* when the sandbox looked and never a directory that has been filled, and *)
(* when all sandboxes are over a recorded placeholder is left only if its  *)
(* removal failed or the sandbox had bound over it.                        *)
THEOREM SandboxHostKept == Spec => []HostKept
<1>1. BInv => HostKept
  <2> SUFFICES ASSUME BInv PROVE NoLeftover
    BY DEF HostKept, BInv
  <2>1. ASSUME \A b \in Boxes : Dead(b) /\ wrap[b] = "gone", NEW p \in Paths, NEW b \in Boxes
        PROVE  ~Owner(b, p)
    BY <2>1 DEF BInv, WrapperLast, Owner, Dead
  <2> QED
    BY <2>1 DEF BInv, PlaceholdersOwned, NoLeftover
<1> QED
  BY <1>1, SandboxInvariant, PTL

(* An overlay keeps its work directory: the lazy clean-up of .boxsh takes  *)
(* only entries whose destination was seen to be missing (clean-up before  *)
(* mount_overlay_at).                                                      *)
THEOREM SandboxWorkKept == Spec => []WorkKept
<1>1. BInv => WorkKept
  BY DEF BInv, MountKept, WorkKept, Holds
<1> QED
  BY <1>1, SandboxInvariant, PTL

(* While no call fails and the user keeps off, a set-up fails only for the *)
(* reasons listed there: each step at which sandbox_apply returns an error *)
(* is reached only when another sandbox was in the way or fuse-overlayfs   *)
(* was needed.                                                             *)
THEOREM SandboxStartsUnlessBlocked == Spec => []StartsUnlessBlocked
<1>1. BInv => StartsUnlessBlocked
  BY DEF BInv
<1> QED
  BY <1>1, SandboxInvariant, PTL
=============================================================================

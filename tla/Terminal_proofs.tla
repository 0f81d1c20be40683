-------------------------- MODULE Terminal_proofs ---------------------------
(***************************************************************************)
(* What the raw log of a terminal session promises, for every limit,       *)
(* slack, number of callers and length of the session (TerminalLog), and   *)
(* what the table of sessions does, for any number of sessions, tool       *)
(* threads and any limit: whose vterm is freed when, what kill and         *)
(* shutdown leave behind, how far the table can grow (TerminalSessions).   *)
(*                                                                         *)
(* The invariant of the log ties the ring to the history of the session    *)
(* (base + len = produced until a sweep empties it) and every cursor to    *)
(* the session's read position: a cursor was once the end of a result, so  *)
(* it is at most readCursor, and readCursor at most produced.  Without     *)
(* that bound log_slice could clamp a cursor that lies beyond the end and  *)
(* a follower would be sent back.                                          *)
(***************************************************************************)
EXTENDS TerminalLog, TerminalSessions, FiniteSetTheorems, WellFoundedInduction, TLAPS

-----------------------------------------------------------------------------
(* The raw log. *)


Bounds ==
    /\ readCursor <= produced /\ Total <= produced
    /\ \A r \in Readers : cursor[r] <= readCursor

LogInv == LogTypeOK /\ RingAccounting /\ Bounds /\ PollExact /\ FollowerExact

\* The slack of the ring is a natural number.
LEMMA SlackNat == Slack \in Nat
  BY LogAssumption DEF Slack

\* log_append drops no more than it holds, and what it leaves is between
\* limit and limit + slack.
LEMMA ExcessBounds ==
    ASSUME LogTypeOK, RingAccounting, NEW n \in Nat, n > 0
    PROVE  /\ Excess(n) \in 0..(len + n)
           /\ Limit > 0 => len + n - Excess(n) <= Limit + Slack
           /\ Excess(n) > 0 => len + n - Excess(n) = Limit
  BY SlackNat, LogAssumption DEF LogTypeOK, RingAccounting, Excess

\* The initial state satisfies the invariant.
LEMMA InitLogInv == LogInit => LogInv
  <1>1. SUFFICES ASSUME LogInit PROVE LogInv
    OBVIOUS
  <1>2. LogTypeOK
    <2>1. {} \subseteq Positions /\ 0 \in 0..MaxTotal
      BY LogAssumption
    <2>2. QED
      BY <1>1, <2>1 DEF LogInit, LogTypeOK
  <1>3. RingAccounting /\ Bounds
    BY <1>1, SlackNat, LogAssumption DEF LogInit, RingAccounting, Bounds, Total
  <1>4. PollExact /\ FollowerExact
    BY <1>1, LogAssumption DEF LogInit, PollExact, FollowerExact, Total
  <1>5. QED
    BY <1>1, <1>2, <1>3, <1>4 DEF LogInv, LogInit

\* What a read returns and what it declares dropped are disjoint, and are
\* together exactly the positions from the cursor to the end of the log.
LEMMA WindowExact ==
    ASSUME LogInv, NEW c \in Nat
    PROVE  /\ c <= Total => Window(c) \cup Gap(c) = c..(Total - 1)
           /\ Window(c) \cap Gap(c) = {}
           /\ Gap(c) \subseteq 0..(dropped - 1)
           /\ Window(c) \subseteq Positions /\ Gap(c) \subseteq Positions
  BY LogAssumption DEF LogInv, LogTypeOK, RingAccounting, Bounds, Window, Gap, Begin,
     Truncated, Total, Positions

\* A read, whatever cursor it is given, leaves the ring alone and moves the
\* session's read position to the end unless it is already beyond (the log was
\* emptied).
LEMMA ReadStep ==
    ASSUME LogInv, NEW c, Read(c)
    PROVE  /\ readCursor' = IF Total > readCursor THEN Total ELSE readCursor
           /\ produced' = produced /\ Total' = Total /\ dropped' = dropped
           /\ cleared' = cleared /\ RingAccounting'
           /\ readCursor \in Nat /\ readCursor' \in Nat /\ Total \in Nat
           /\ readCursor' <= produced
  BY DEF Read, LogInv, LogTypeOK, Bounds, RingAccounting, Total, logVars

\* What an explicit read moves the session's read position over joins what is
\* accounted for, and nothing of it was before.
LEMMA ExplicitStep ==
    ASSUME LogInv, NEW c, Read(c), Explicit
    PROVE  PollExact' /\ {delivered', reported', taken'} \subseteq SUBSET Positions
  <1>1. /\ readCursor' = IF Total > readCursor THEN Total ELSE readCursor
        /\ dropped' = dropped /\ readCursor \in Nat /\ Total \in Nat /\ Total <= MaxTotal
    BY ReadStep, LogAssumption DEF LogInv, LogTypeOK, Bounds
  <1>2. readCursor..(Total - 1) \subseteq Positions
    BY <1>1, LogAssumption DEF Positions
  <1>3. /\ 0..(readCursor' - 1) = 0..(readCursor - 1) \cup readCursor..(Total - 1)
        /\ 0..(readCursor - 1) \cap readCursor..(Total - 1) = {}
    BY <1>1
  <1>4. /\ taken' = taken \cup readCursor..(Total - 1)
        /\ delivered' = delivered /\ reported' = reported
    BY DEF Explicit
  <1>5. /\ delivered \cup reported \cup taken = 0..(readCursor - 1)
        /\ delivered \cap reported = {} /\ taken \cap (delivered \cup reported) = {}
        /\ reported \subseteq 0..(dropped - 1)
    BY DEF LogInv, PollExact
  <1>6. PollExact'
    BY <1>1, <1>3, <1>4, <1>5 DEF PollExact
  <1>7. {delivered', reported', taken'} \subseteq SUBSET Positions
    BY <1>2, <1>4 DEF LogInv, LogTypeOK
  <1>8. QED
    BY <1>6, <1>7

\* Every step preserves the invariant.
LEMMA NextLogInv == LogInv /\ [LogNext]_logState => LogInv'
  <1>1. SUFFICES ASSUME LogInv, [LogNext]_logState PROVE LogInv'
    OBVIOUS
  <1>2. ASSUME NEW n \in 1..MaxTotal, Publish(n) PROVE LogInv'
    <2>0. n \in Nat /\ n > 0
      BY LogAssumption
    <2>1. /\ n \in Nat /\ n > 0
          /\ Excess(n) \in 0..(len + n)
          /\ Limit > 0 => len + n - Excess(n) <= Limit + Slack
          /\ Excess(n) > 0 => len + n - Excess(n) = Limit
      BY <1>1, <2>0, ExcessBounds DEF LogInv
    <2>2. LogTypeOK'
      BY <1>1, <1>2, <2>1, LogAssumption DEF LogInv, LogTypeOK, Publish, histVars
    <2>3. RingAccounting'
      <3>1. ~cleared' => ~cleared
        BY <1>2 DEF Publish
      <3>2. base' = dropped' /\ (Limit > 0 => len' <= Limit + Slack)
        BY <1>1, <1>2, <2>1 DEF LogInv, LogTypeOK, Publish, RingAccounting
      <3>3. ASSUME ~cleared
            PROVE  Total' = produced' /\ (base' > 0 => len' >= Limit)
        <4>1. base + len = produced /\ (base > 0 => len >= Limit)
          BY <1>1, <3>3 DEF LogInv, RingAccounting, Total
        <4>2. QED
          BY <1>1, <1>2, <2>1, <4>1, LogAssumption DEF LogInv, LogTypeOK, Publish, Total
      <3>4. QED
        BY <3>1, <3>2, <3>3 DEF RingAccounting
    <2>4. Bounds'
      BY <1>1, <1>2, <2>1 DEF LogInv, LogTypeOK, Publish, Bounds, Total, histVars
    <2>5. FollowerExact' /\ PollExact'
      <3>1. dropped' >= dropped /\ dropped \in Nat /\ dropped' \in Nat
        BY <1>1, <1>2, <2>1 DEF LogInv, LogTypeOK, Publish
      <3>2. \A a, b \in Nat : a <= b => 0..(a - 1) \subseteq 0..(b - 1)
        OBVIOUS
      <3>3. QED
        BY <1>1, <1>2, <3>1, <3>2 DEF LogInv, Publish, FollowerExact, PollExact, histVars
    <2>6. QED
      BY <2>2, <2>3, <2>4, <2>5 DEF LogInv
  <1>3. CASE Exit
    BY <1>1, <1>3 DEF LogInv, LogTypeOK, RingAccounting, Bounds, PollExact,
       FollowerExact, Exit, Total, logVars, histVars
  <1>4. ASSUME NEW c, Read(c), UNCHANGED <<cursor, seen, lost>>, PollExact',
               {delivered', reported', taken'} \subseteq SUBSET Positions
        PROVE  LogInv'
    <2>1. /\ readCursor' = IF Total > readCursor THEN Total ELSE readCursor
          /\ produced' = produced /\ Total' = Total /\ dropped' = dropped
          /\ cleared' = cleared /\ RingAccounting'
          /\ readCursor \in Nat /\ readCursor' \in Nat /\ Total \in Nat
          /\ readCursor' <= produced
      BY <1>1, <1>4, ReadStep
    <2>2. LogTypeOK'
      <3>1. over' \in BOOLEAN /\ cleared' \in BOOLEAN
        BY <1>1, <1>4 DEF LogInv, LogTypeOK, Read
      <3>2. QED
        BY <1>1, <1>4, <2>1, <3>1 DEF LogInv, LogTypeOK, Read, logVars
    <2>3. Bounds'
      BY <1>1, <1>4, <2>1 DEF LogInv, LogTypeOK, Bounds, Total
    <2>4. FollowerExact'
      BY <1>1, <1>4, <2>1 DEF LogInv, FollowerExact
    <2>5. QED
      BY <1>4, <2>1, <2>2, <2>3, <2>4 DEF LogInv
  <1>5. CASE ReadOn
    <2> DEFINE c == readCursor
    <2>1. /\ readCursor' = IF Total > readCursor THEN Total ELSE readCursor
          /\ dropped' = dropped /\ c \in Nat /\ Total \in Nat
      BY <1>1, <1>5, ReadStep DEF ReadOn
    <2>2. /\ Window(c) \cup Gap(c) \subseteq c..(readCursor' - 1)
          /\ c..(Total - 1) \subseteq Window(c) \cup Gap(c)
      BY <1>1, <2>1 DEF Window, Gap, Begin, Truncated, Total, LogInv, LogTypeOK
    <2>3. /\ Window(c) \cap Gap(c) = {} /\ Gap(c) \subseteq 0..(dropped - 1)
          /\ Window(c) \subseteq Positions /\ Gap(c) \subseteq Positions
      BY <1>1, <2>1, WindowExact
    <2>4. /\ 0..(readCursor' - 1) = 0..(c - 1) \cup c..(readCursor' - 1)
          /\ 0..(c - 1) \cap c..(readCursor' - 1) = {}
          /\ c..(readCursor' - 1) = c..(Total - 1)
      BY <2>1
    <2>5. /\ delivered' = delivered \cup Window(c) /\ reported' = reported \cup Gap(c)
          /\ taken' = taken
      BY <1>5 DEF ReadOn
    <2>6. /\ delivered \cup reported \cup taken = 0..(c - 1)
          /\ delivered \cap reported = {} /\ taken \cap (delivered \cup reported) = {}
          /\ reported \subseteq 0..(dropped - 1)
      BY <1>1 DEF LogInv, PollExact
    <2>7. PollExact'
      <3>1. delivered' \cup reported' \cup taken' = 0..(readCursor' - 1)
        BY <2>2, <2>4, <2>5, <2>6
      <3>2. delivered' \cap reported' = {} /\ taken' \cap (delivered' \cup reported') = {}
        BY <2>2, <2>3, <2>4, <2>5, <2>6
      <3>3. reported' \subseteq 0..(dropped' - 1)
        BY <2>1, <2>3, <2>5, <2>6
      <3>4. QED
        BY <3>1, <3>2, <3>3 DEF PollExact
    <2>8. {delivered', reported', taken'} \subseteq SUBSET Positions
      BY <1>1, <2>3, <2>5 DEF LogInv, LogTypeOK
    <2>9. QED
      BY <1>4, <1>5, <2>7, <2>8 DEF ReadOn
  <1>6. ASSUME NEW c \in 0..MaxTotal, ReadAt(c) PROVE LogInv'
    BY <1>1, <1>4, <1>6, ExplicitStep DEF ReadAt
  <1>7. ASSUME NEW r \in Readers, Follow(r) PROVE LogInv'
    <2> DEFINE c == cursor[r]
    <2>1. /\ c \in Nat /\ c <= readCursor /\ Total \in Nat
          /\ ~cleared => c <= Total
      BY <1>1 DEF LogInv, LogTypeOK, Bounds, RingAccounting, Total
    <2>2. /\ readCursor' = IF Total > readCursor THEN Total ELSE readCursor
          /\ produced' = produced /\ Total' = Total /\ dropped' = dropped
          /\ cleared' = cleared /\ RingAccounting'
          /\ PollExact' /\ {delivered', reported', taken'} \subseteq SUBSET Positions
      BY <1>1, <1>7, ReadStep, ExplicitStep DEF Follow
    <2>3. /\ c <= Total => Window(c) \cup Gap(c) = c..(Total - 1)
          /\ Window(c) \cap Gap(c) = {}
          /\ Gap(c) \subseteq 0..(dropped - 1)
          /\ Window(c) \subseteq Positions /\ Gap(c) \subseteq Positions
      BY <1>1, <2>1, WindowExact
    <2>4. /\ cursor' = [cursor EXCEPT ![r] = Total]
          /\ seen' = [seen EXCEPT ![r] = @ \cup Window(c)]
          /\ lost' = [lost EXCEPT ![r] = @ \cup Gap(c)]
      BY <1>7 DEF Follow
    <2>5. LogTypeOK'
      BY <1>1, <1>7, <2>1, <2>2, <2>3, <2>4 DEF LogInv, LogTypeOK, Follow, Read, logVars
    <2>6. Bounds'
      BY <1>1, <2>1, <2>2, <2>4 DEF LogInv, LogTypeOK, Bounds
    <2>7. FollowerExact'
      <3>1. SUFFICES ASSUME ~cleared', NEW q \in Readers
                     PROVE  /\ seen'[q] \cup lost'[q] = 0..(cursor'[q] - 1)
                            /\ seen'[q] \cap lost'[q] = {}
                            /\ lost'[q] \subseteq 0..(dropped' - 1)
        BY DEF FollowerExact
      <3>2. /\ seen[q] \cup lost[q] = 0..(cursor[q] - 1)
            /\ seen[q] \cap lost[q] = {}
            /\ lost[q] \subseteq 0..(dropped - 1)
        BY <1>1, <2>2, <3>1 DEF LogInv, FollowerExact
      <3>3. CASE q # r
        BY <1>1, <2>2, <2>4, <3>2, <3>3 DEF LogInv, LogTypeOK
      <3>4. CASE q = r
        <4>1. /\ seen'[q] = seen[q] \cup Window(c)
              /\ lost'[q] = lost[q] \cup Gap(c)
              /\ cursor'[q] = Total
          BY <1>1, <2>4, <3>4 DEF LogInv, LogTypeOK
        <4>2. c <= Total
          BY <2>1, <2>2, <3>1
        <4>3. /\ 0..(c - 1) \cup c..(Total - 1) = 0..(Total - 1)
              /\ 0..(c - 1) \cap c..(Total - 1) = {}
          BY <2>1, <4>2
        <4>4. QED
          BY <2>2, <2>3, <3>2, <3>4, <4>1, <4>2, <4>3
      <3>5. QED
        BY <3>3, <3>4
    <2>8. QED
      BY <2>2, <2>5, <2>6, <2>7 DEF LogInv
  <1>8. CASE Reap
    <2>1. LogTypeOK' /\ PollExact' /\ FollowerExact'
      BY <1>1, <1>8 DEF LogInv, LogTypeOK, PollExact, FollowerExact, Reap, histVars
    <2>2. RingAccounting' /\ Bounds'
      BY <1>1, <1>8, SlackNat, LogAssumption
      DEF LogInv, LogTypeOK, RingAccounting, Bounds, Reap, Total
    <2>3. QED
      BY <2>1, <2>2 DEF LogInv
  <1>9. CASE UNCHANGED logState
    BY <1>1, <1>9 DEF LogInv, LogTypeOK, RingAccounting, Bounds, PollExact,
       FollowerExact, Total, logState, logVars, histVars
  <1>10. QED
    BY <1>1, <1>2, <1>3, <1>5, <1>6, <1>7, <1>8, <1>9 DEF LogNext

\* The invariant holds in every state the session can reach.
THEOREM LogInvariant == LogSpec => []LogInv
  BY InitLogInv, NextLogInv, PTL DEF LogSpec

\* Every variable keeps its type.
THEOREM LogTypes == LogSpec => []LogTypeOK
  <1>1. LogInv => LogTypeOK
    BY DEF LogInv
  <1>2. QED
    BY <1>1, LogInvariant, PTL

\* The ring accounts for every byte the PTY produced and stays within
\* limit + slack (log_append).
THEOREM LogAccounting == LogSpec => []RingAccounting
  <1>1. LogInv => RingAccounting
    BY DEF LogInv
  <1>2. QED
    BY <1>1, LogInvariant, PTL

\* Whoever reads, with a cursor of his own or without one, receives every byte
\* exactly once, is told that it was dropped, or lost it to an explicit read
\* that moved the session's cursor (log_slice, advance_read_cursor).
THEOREM LogReadersExact == LogSpec => []ReadersExact
  <1>1. LogInv => ReadersExact
    BY DEF LogInv, ReadersExact
  <1>2. QED
    BY <1>1, LogInvariant, PTL

\* log_slice never starts its substr() beyond the retained bytes, whatever
\* cursor it is given and even after the log was emptied.
THEOREM LogSliceInBounds == LogSpec => []SliceInBounds
  <1>1. LogInv => SliceInBounds
    BY LogAssumption DEF LogInv, LogTypeOK, SliceInBounds, Begin, Total
  <1>2. QED
    BY <1>1, LogInvariant, PTL

\* No operation moves a cursor backwards while the session is not reaped: a
\* result's next_cursor is never before the position it was asked for.
THEOREM LogCursorsForward == LogSpec => CursorsForward
  <1> DEFINE Forward == /\ readCursor' >= readCursor
                        /\ ~cleared => \A r \in Readers : cursor'[r] >= cursor[r]
  <1>1. LogInv /\ [LogNext]_logState => [Forward]_logState
    <2>1. SUFFICES ASSUME LogInv, LogNext PROVE Forward
      OBVIOUS
    <2>2. /\ readCursor \in Nat /\ Total \in Nat /\ \A r \in Readers : cursor[r] \in Nat
          /\ ~cleared => \A r \in Readers : cursor[r] <= Total
          /\ cursor \in [Readers -> Nat]
      BY <2>1 DEF LogInv, LogTypeOK, Bounds, RingAccounting, Total
    <2>3. ASSUME NEW c, Read(c) PROVE readCursor' >= readCursor
      BY <2>2, <2>3 DEF Read
    <2>4. ASSUME NEW n \in 1..MaxTotal, Publish(n) PROVE Forward
      BY <2>2, <2>4 DEF Publish
    <2>5. CASE Exit \/ Reap
      BY <2>2, <2>5 DEF Exit, Reap
    <2>6. CASE ReadOn
      BY <2>2, <2>3, <2>6 DEF ReadOn
    <2>7. ASSUME NEW c \in 0..MaxTotal, ReadAt(c) PROVE Forward
      BY <2>2, <2>3, <2>7 DEF ReadAt
    <2>8. ASSUME NEW r \in Readers, Follow(r) PROVE Forward
      BY <2>2, <2>3, <2>8 DEF Follow
    <2>9. QED
      BY <2>1, <2>4, <2>5, <2>6, <2>7, <2>8 DEF LogNext
  <1>2. QED
    BY <1>1, LogInvariant, PTL DEF LogSpec, CursorsForward

-----------------------------------------------------------------------------
(* The table of sessions. *)


Used == Sessions \ Unused

\* What has been created, and who may still refer to it.
Referred ==
    /\ \A s \in Unused : shell[s] = "none" /\ job[s] = "none" /\ reader[s] = "none"
    /\ table \subseteq Used /\ exited \subseteq Used /\ owed \subseteq Used /\ left \subseteq Used
    /\ mpc \in {"wait", "drop"} => cur \in Used
    /\ \A t \in Threads : pc[t] \in {"wait", "killed", "free"} => sid[t] \in Used
    /\ \A s \in Sessions : job[s] = "run" => style[s] \in {"quiet", "escaped"}

\* The life of a session's reader: it waits for the shell before it publishes,
\* and is done when the session counts as exited.
ReaderLife ==
    /\ \A s \in Sessions : reader[s] = "publish" => shell[s] = "reaped" /\ s \notin exited
    /\ \A s \in exited : shell[s] = "reaped" /\ reader[s] = "done"
    /\ freed \subseteq exited

\* Times of exit are counted.
ExitTimes ==
    \A s \in exited : exitedAt[s] <= Cardinality(exited)

\* A thread that frees a session has seen it exit or has killed it.
Victims ==
    \A t \in Threads :
        /\ pc[t] = "free" => sid[t] \in exited
        /\ pc[t] = "killed" => /\ shell[sid[t]] # "run"
                               /\ style[sid[t]] = "quiet" => job[sid[t]] # "run"

\* A session that is no longer in the table has no running shell.
Outside == mpc # "exit" => \A s \in Used \ table : shell[s] # "run"

\* The shutdown leaves no shell behind it.
Shutdown ==
    /\ mpc = "serve" => owed = {}
    /\ mpc \in {"wait", "drop"} => \A s \in owed \ left : s # cur => shell[s] # "run"
    /\ mpc = "drop" => shell[cur] # "run"
    /\ mpc \in {"next", "exit"} => \A s \in owed \ left : shell[s] # "run"
    /\ mpc = "exit" => left = {}

\* The inductive invariant.
TInv == /\ TypeOK /\ Referred /\ ReaderLife /\ ExitTimes /\ Victims /\ Outside
        /\ Shutdown /\ LiveBound /\ KeptBound

USE DEF procs, ended, locals, main

-----------------------------------------------------------------------------
(* Counting.                                                               *)

\* There are MaxCreated sessions.
LEMMA SessionsFinite == IsFiniteSet(Sessions) /\ Cardinality(Sessions) = MaxCreated
  <1>1. MaxCreated \in Nat /\ 1 \in Int
    BY LimitsAssumption
  <1>2. /\ IsFiniteSet(1..MaxCreated)
        /\ Cardinality(1..MaxCreated) = IF 1 > MaxCreated THEN 0 ELSE MaxCreated - 1 + 1
    BY <1>1, FS_Interval
  <1>3. QED
    BY <1>1, <1>2 DEF Sessions

\* A set of sessions can be counted, and a part of it counts no more.
LEMMA CountPart ==
  ASSUME NEW A \in SUBSET Sessions, NEW B \in SUBSET A
  PROVE  /\ IsFiniteSet(A) /\ IsFiniteSet(B)
         /\ Cardinality(A) \in Nat /\ Cardinality(B) \in Nat
         /\ Cardinality(B) <= Cardinality(A) /\ Cardinality(A) <= MaxCreated
  <1>1. IsFiniteSet(A) /\ Cardinality(A) <= MaxCreated
    BY SessionsFinite, FS_Subset
  <1>2. IsFiniteSet(B) /\ Cardinality(B) <= Cardinality(A)
    BY <1>1, FS_Subset
  <1>3. QED
    BY <1>1, <1>2, FS_CardinalityType

Forking == {t \in Threads : pc[t] = "fork"}

\* The threads that are creating a session can be counted.
LEMMA CountForking ==
  /\ IsFiniteSet(Forking) /\ Cardinality(Forking) \in Nat
  /\ IsFiniteSet(Forking') /\ Cardinality(Forking') \in Nat
  /\ Cardinality(Forking) <= Cardinality(Threads)
  /\ Cardinality(Forking') <= Cardinality(Threads)
  /\ Cardinality(Threads) \in Nat
  <1>1. IsFiniteSet(Threads) /\ Forking \subseteq Threads /\ Forking' \subseteq Threads
    BY LimitsAssumption DEF Forking
  <1>2. QED
    BY <1>1, FS_Subset, FS_CardinalityType

\* A non-empty set of naturals has a least element.
LEMMA LeastNatural ==
  ASSUME NEW T, T \subseteq Nat, T # {}
  PROVE  \E x \in T : \A y \in T : x <= y
  <1>1. PICK x \in T : \A y \in T : <<y, x>> \notin OpToRel(<, Nat)
    BY WFMin, NatLessThanWellFounded, Zenon
  <1>2. \A y \in T : ~(y < x)
    BY <1>1, Zenon DEF OpToRel
  <1>3. QED
    BY <1>2

\* The next identifier is an unused one.
LEMMA MinUnused ==
  ASSUME Unused # {}
  PROVE  Min(Unused) \in Unused
  <1>1. Unused \subseteq Nat
    BY LimitsAssumption DEF Unused, Sessions
  <1>2. PICK x \in Unused : \A y \in Unused : x <= y
    BY <1>1, LeastNatural
  <1>3. QED
    BY <1>2 DEF Min

-----------------------------------------------------------------------------
(* What changes and what does not.                                         *)

SStates == {"none", "run", "dead", "reaped"}
JStates == {"none", "run", "dead"}

\* Processes only die: what signals and their own ends do to them.
Fade == /\ style' = style
        /\ shell' \in [Sessions -> SStates] /\ job' \in [Sessions -> JStates]
        /\ \A s \in Sessions : /\ shell'[s] = shell[s] \/ (shell[s] = "run" /\ shell'[s] = "dead")
                               /\ job'[s] = job[s] \/ (job[s] = "run" /\ job'[s] = "dead")

\* Processes that are left alone do not start again,
LEMMA FadeUnchanged == ASSUME TypeOK, UNCHANGED procs PROVE Fade
  BY DEF TypeOK, Fade, SStates, JStates

\* nor do those that are asked to end,
LEMMA FadeAsk ==
  ASSUME TypeOK, NEW s \in Sessions, Ask(s)
  PROVE  Fade
  <1>1. shell \in [Sessions -> SStates] /\ job \in [Sessions -> JStates]
    BY DEF TypeOK, SStates, JStates
  <1>2. /\ shell' = [shell EXCEPT ![s] = IF shell[s] = "run" /\ style[s] # "deaf"
                                         THEN "dead" ELSE shell[s]]
        /\ UNCHANGED <<style, job>>
    BY DEF Ask
  <1>3. QED
    BY <1>1, <1>2 DEF Fade, SStates

\* nor those that are killed, and the shell is among these.
LEMMA FadeKill ==
  ASSUME TypeOK, NEW s \in Sessions, Kill(s)
  PROVE  /\ Fade /\ shell'[s] # "run"
         /\ style[s] = "quiet" => job'[s] # "run"
  <1>1. shell \in [Sessions -> SStates] /\ job \in [Sessions -> JStates]
    BY DEF TypeOK, SStates, JStates
  <1>2. /\ shell' = [shell EXCEPT ![s] = IF shell[s] = "run" THEN "dead" ELSE shell[s]]
        /\ job' = [job EXCEPT ![s] = IF job[s] = "run" /\ style[s] = "quiet" THEN "dead" ELSE job[s]]
        /\ style' = style
    BY DEF Kill
  <1>3. QED
    BY <1>1, <1>2 DEF Fade, SStates, JStates

\* While processes die and sessions leave the table, the records stay right
\* provided no session leaves with a running shell or is freed with a reader.
LEMMA RecordsKept ==
  ASSUME TInv, mpc # "exit", Fade, UNCHANGED <<reader, exited, exitedAt, owed>>,
         table' \subseteq table, expired' \subseteq Kept', freed' \subseteq exited,
         fresh' \subseteq Sessions, left' \subseteq Used,
         \A s \in table \ table' : shell'[s] # "run",
         pc' \in [Threads -> {"idle", "fork", "wait", "killed", "free"}],
         sid' \in [Threads -> Sessions \cup {NoSession}],
         \A t \in Threads : pc'[t] \in {"wait", "killed", "free"} => sid'[t] \in Used,
         mpc' \in {"serve", "next", "wait", "drop"}, cur' \in Sessions \cup {NoSession},
         mpc' \in {"wait", "drop"} => cur' \in Used, hit' \in 0..MaxFaults
  PROVE  TypeOK' /\ Referred' /\ ReaderLife' /\ ExitTimes' /\ Outside'
  <1>1. Used' = Used /\ Unused' = Unused /\ Used \subseteq Sessions
    BY DEF Used, Unused, Fade
  <1>2. TypeOK'
    <2>1. {table, exited, fresh, freed, left, owed}' \subseteq SUBSET Sessions
      BY <1>1 DEF TInv, TypeOK
    <2>2. QED
      BY <2>1 DEF TInv, TypeOK, Fade, SStates, JStates
  <1>3. Referred'
    <2>1. \A s \in Unused : shell'[s] = "none" /\ job'[s] = "none"
      BY DEF TInv, Referred, Fade, Unused
    <2>2. QED
      BY <1>1, <2>1 DEF TInv, Referred, Fade
  <1>4. ReaderLife'
    BY DEF TInv, TypeOK, ReaderLife, Fade
  <1>5. ExitTimes'
    BY DEF TInv, ExitTimes
  <1>6. Outside'
    <2>1. \A s \in Used \ table : shell'[s] # "run"
      BY <1>1 DEF TInv, Outside, Fade
    <2>2. QED
      BY <1>1, <2>1 DEF Outside
  <1>7. QED
    BY <1>2, <1>3, <1>4, <1>5, <1>6

\* The calls under way see the same when one of them moves on rightly.
LEMMA VictimsKept ==
  ASSUME TInv, Fade, exited' = exited,
         \A t \in Threads :
            \/ pc'[t] = pc[t] /\ sid'[t] = sid[t]
            \/ pc'[t] \in {"idle", "fork", "wait"}
            \/ pc'[t] = "free" /\ sid'[t] \in exited
            \/ /\ pc'[t] = "killed" /\ shell'[sid'[t]] # "run"
               /\ style[sid'[t]] = "quiet" => job'[sid'[t]] # "run"
  PROVE  Victims'
  <1>1. ASSUME NEW t \in Threads
        PROVE  /\ pc'[t] = "free" => sid'[t] \in exited
               /\ pc'[t] = "killed" => /\ shell'[sid'[t]] # "run"
                                       /\ style[sid'[t]] = "quiet" => job'[sid'[t]] # "run"
    <2>1. CASE pc'[t] = pc[t] /\ sid'[t] = sid[t]
      <3>1. pc[t] = "killed" => sid[t] \in Sessions
        BY DEF TInv, Referred, Used
      <3>2. QED
        BY <2>1, <3>1 DEF TInv, Victims, Fade
    <2>2. QED
      BY <2>1
  <1>2. QED
    BY <1>1 DEF Victims, Fade

\* The shutdown's account is kept by steps of others that start no shell.
LEMMA ShutdownKept ==
  ASSUME TInv, Fade, UNCHANGED main
  PROVE  Shutdown'
  BY DEF TInv, TypeOK, Shutdown, Fade, Referred, Used

\* The limit on live sessions is kept when there are no more of them,
LEMMA LiveShrinks ==
  ASSUME TInv, (table \ exited)' \subseteq table \ exited, Forking' \subseteq Forking
  PROVE  LiveBound'
  <1>1. table \ exited \in SUBSET Sessions
    BY DEF TInv, TypeOK
  <1>2. /\ Cardinality(table \ exited) \in Nat /\ Cardinality((table \ exited)') \in Nat
        /\ Cardinality((table \ exited)') <= Cardinality(table \ exited)
    BY <1>1, CountPart
  <1>3. Cardinality(Forking') <= Cardinality(Forking)
    BY CountForking, FS_Subset
  <1>4. QED
    BY <1>2, <1>3, CountForking, LimitsAssumption DEF TInv, LiveBound, Forking

\* and so is the limit on ended ones.
LEMMA KeptShrinks ==
  ASSUME TInv, (Kept \ fresh)' \subseteq Kept \ fresh
  PROVE  KeptBound'
  <1>1. Kept \ fresh \in SUBSET Sessions
    BY DEF TInv, TypeOK, Kept
  <1>2. /\ Cardinality(Kept \ fresh) \in Nat /\ Cardinality((Kept \ fresh)') \in Nat
        /\ Cardinality((Kept \ fresh)') <= Cardinality(Kept \ fresh)
    BY <1>1, CountPart
  <1>3. QED
    BY <1>2, LimitsAssumption DEF TInv, KeptBound

-----------------------------------------------------------------------------
(* The sweep keeps the youngest.                                           *)

\* What a sweep leaves of the exited sessions is no more than max_sessions: all
\* the others in it exited after the one that exited first.
LEMMA SweepBound ==
  ASSUME TInv
  PROVE  /\ Kept \ Sweepable \subseteq Sessions
         /\ Cardinality(Kept \ Sweepable) <= MaxSessions
  <1> DEFINE K == Kept \ Sweepable
             T == {exitedAt[s] : s \in K}
  <1>1. Kept \subseteq Sessions /\ K \subseteq Kept
    BY DEF TInv, TypeOK, Kept
  <1>2. /\ \A s \in Kept : exitedAt[s] \in Nat
        /\ \A s, u \in Kept : exitedAt[s] = exitedAt[u] => s = u
    BY <1>1, LimitsAssumption DEF TInv, TypeOK, Kept
  <1>3. CASE K = {}
    BY <1>1, <1>3, FS_EmptySet, LimitsAssumption
  <1>4. CASE K # {}
    <2>1. T \subseteq Nat /\ T # {}
      BY <1>1, <1>2, <1>4
    <2>2. PICK x \in T : \A y \in T : x <= y
      BY <2>1, LeastNatural
    <2>3. PICK s \in K : x = exitedAt[s]
      BY <2>2
    <2>4. \A u \in K \ {s} : u \in Later(s)
      <3>1. TAKE u \in K \ {s}
      <3>2. exitedAt[u] # exitedAt[s] /\ exitedAt[s] <= exitedAt[u]
        BY <1>1, <1>2, <2>2, <2>3, <3>1
      <3>3. QED
        BY <1>1, <1>2, <3>2 DEF Later
    <2>5. ~(Cardinality(Later(s)) >= MaxSessions)
      BY <1>1, <2>3 DEF Sweepable
    <2>6. Later(s) \in SUBSET Sessions /\ K \ {s} \in SUBSET Later(s)
      BY <1>1, <2>4 DEF Later
    <2>7. /\ Cardinality(Later(s)) \in Nat /\ Cardinality(K \ {s}) \in Nat
          /\ Cardinality(K \ {s}) <= Cardinality(Later(s))
      BY <2>6, CountPart
    <2>8. IsFiniteSet(K) /\ Cardinality(K) \in Nat
      BY <1>1, CountPart
    <2>9. Cardinality(K \ {s}) = Cardinality(K) - 1
      BY <2>3, <2>8, FS_RemoveElement
    <2>10. QED
      BY <1>1, <2>5, <2>7, <2>8, <2>9, LimitsAssumption
  <1>5. QED
    BY <1>3, <1>4

\* A call that sweeps, and goes on to no victim or to one that has exited, or
\* asks one to go.
LEMMA SweepStep ==
  ASSUME TInv, NEW t \in Threads, Sweep(t), Fade,
         \A u \in Threads : u # t => pc'[u] = pc[u] /\ sid'[u] = sid[u],
         pc' \in [Threads -> {"idle", "fork", "wait", "killed", "free"}],
         sid' \in [Threads -> Sessions \cup {NoSession}],
         pc'[t] # "fork" \/ Cardinality((table \ exited)') < MaxSessions,
         \/ pc'[t] \in {"idle", "fork"}
         \/ pc'[t] = "wait" /\ sid'[t] \in Used
         \/ pc'[t] = "free" /\ sid'[t] \in exited
  PROVE  TInv'
  <1>1. /\ mpc = "serve" /\ pc[t] = "idle" /\ fresh' = {}
        /\ table' = table \ Sweepable /\ expired' = expired \ Sweepable
        /\ freed' = freed \cup Sweepable
        /\ UNCHANGED <<exited, exitedAt, reader, main, hit>>
    BY DEF Sweep, Drop
  <1>2. expired \subseteq Kept /\ Sweepable \subseteq exited /\ Kept \subseteq exited
    BY DEF TInv, TypeOK, Sweepable, Kept
  <1>3. TypeOK' /\ Referred' /\ ReaderLife' /\ ExitTimes' /\ Outside'
    <2>1. expired' \subseteq Kept' /\ freed' \subseteq exited
      BY <1>1, <1>2 DEF TInv, Kept, ReaderLife
    <2>2. \A s \in table \ table' : shell'[s] # "run"
      BY <1>1, <1>2 DEF TInv, TypeOK, ReaderLife, Fade
    <2>3. \A u \in Threads : pc'[u] \in {"wait", "killed", "free"} => sid'[u] \in Used
      BY DEF TInv, Referred
    <2>4. /\ mpc' \in {"serve", "next", "wait", "drop"} /\ cur' \in Sessions \cup {NoSession}
          /\ mpc' \notin {"wait", "drop"} /\ hit' \in 0..MaxFaults
          /\ left' \subseteq Used /\ owed' = owed
      BY <1>1 DEF TInv, TypeOK, Referred
    <2>5. QED
      BY <1>1, <2>1, <2>2, <2>3, <2>4, RecordsKept
  <1>4. Victims'
    <2>1. \A u \in Threads : \/ pc'[u] = pc[u] /\ sid'[u] = sid[u]
                             \/ pc'[u] \in {"idle", "fork", "wait"}
                             \/ pc'[u] = "free" /\ sid'[u] \in exited
      OBVIOUS
    <2>2. QED
      BY <1>1, <2>1, VictimsKept
  <1>5. Shutdown'
    BY <1>1, ShutdownKept
  <1>6. LiveBound'
    <2>1. CASE pc'[t] # "fork"
      <3>1. (table \ exited)' \subseteq table \ exited /\ Forking' \subseteq Forking
        BY <1>1, <2>1 DEF Forking
      <3>2. QED
        BY <3>1, LiveShrinks
    <2>2. CASE Cardinality((table \ exited)') < MaxSessions
      <3>1. Cardinality((table \ exited)') \in Nat
        <4>1. (table \ exited)' \in SUBSET Sessions
          BY <1>3 DEF TypeOK
        <4>2. QED
          BY <4>1, CountPart
      <3>2. QED
        BY <2>2, <3>1, CountForking, LimitsAssumption DEF LiveBound, Forking
    <2>3. QED
      BY <2>1, <2>2
  <1>7. KeptBound'
    <2>1. (Kept \ fresh)' = Kept \ Sweepable
      BY <1>1 DEF Kept
    <2>2. QED
      BY <2>1, SweepBound DEF KeptBound
  <1>8. QED
    BY <1>3, <1>4, <1>5, <1>6, <1>7 DEF TInv

\* The tool calls that begin with a sweep.
LEMMA CallStep ==
  ASSUME TInv, NEW t \in Threads,
         List(t) \/ CountLive(t) \/ \E s \in table : FindVictim(t, s)
  PROVE  TInv'
  <1>1. /\ TypeOK /\ pc \in [Threads -> {"idle", "fork", "wait", "killed", "free"}]
        /\ sid \in [Threads -> Sessions \cup {NoSession}] /\ table \subseteq Sessions
    BY DEF TInv, TypeOK
  <1>2. CASE List(t)
    <2>1. Sweep(t) /\ UNCHANGED <<procs, locals>> /\ pc[t] = "idle"
      BY <1>2 DEF List, Sweep
    <2>2. Fade
      BY <1>1, <2>1, FadeUnchanged
    <2>3. QED
      BY <1>1, <2>1, <2>2, SweepStep
  <1>3. CASE CountLive(t)
    <2>1. /\ Sweep(t) /\ UNCHANGED procs /\ Cardinality((table \ exited)') < MaxSessions
          /\ pc' = [pc EXCEPT ![t] = "fork"] /\ sid' = [sid EXCEPT ![t] = NoSession]
      BY <1>3 DEF CountLive, Goto
    <2>2. Fade
      BY <1>1, <2>1, FadeUnchanged
    <2>3. /\ \A u \in Threads : u # t => pc'[u] = pc[u] /\ sid'[u] = sid[u]
          /\ pc'[t] = "fork"
          /\ pc' \in [Threads -> {"idle", "fork", "wait", "killed", "free"}]
          /\ sid' \in [Threads -> Sessions \cup {NoSession}]
      BY <1>1, <2>1
    <2>4. QED
      BY <2>1, <2>2, <2>3, SweepStep
  <1>4. ASSUME NEW s \in table, FindVictim(t, s) PROVE TInv'
    <2>1. s \in Sessions /\ s \in Used /\ Sweep(t)
      BY <1>1, <1>4 DEF FindVictim, TInv, Referred
    <2>2. Fade
      BY <1>1, <1>4, <2>1, FadeUnchanged, FadeAsk DEF FindVictim
    <2>3. PICK p \in {"wait", "free"} : /\ Goto(t, p, s)
                                        /\ p = "free" => s \in exited
      BY <1>4 DEF FindVictim
    <2>4. /\ \A u \in Threads : u # t => pc'[u] = pc[u] /\ sid'[u] = sid[u]
          /\ pc'[t] = p /\ sid'[t] = s
          /\ pc' \in [Threads -> {"idle", "fork", "wait", "killed", "free"}]
          /\ sid' \in [Threads -> Sessions \cup {NoSession}]
      BY <1>1, <2>1, <2>3 DEF Goto
    <2>5. QED
      BY <2>1, <2>2, <2>3, <2>4, SweepStep
  <1>5. QED
    BY <1>2, <1>3, <1>4

-----------------------------------------------------------------------------
(* The other steps.                                                        *)

\* Processes die and nothing else happens but a call moving on.
LEMMA ProcessStep ==
  ASSUME TInv, \/ \E s \in Sessions : ProcessEnds(s)
               \/ \E t \in Threads : WaitExit(t)
  PROVE  TInv'
  <1>1. /\ TypeOK /\ pc \in [Threads -> {"idle", "fork", "wait", "killed", "free"}]
        /\ sid \in [Threads -> Sessions \cup {NoSession}] /\ table \subseteq Sessions
    BY DEF TInv, TypeOK
  <1>2. mpc # "exit" /\ UNCHANGED <<table, reader, ended, freed, main, hit>>
    BY DEF ProcessEnds, WaitExit
  <1>3. ASSUME NEW s \in Sessions, ProcessEnds(s) PROVE TInv'
    <2>1. /\ UNCHANGED <<style, locals>>
          /\ \/ shell[s] = "run" /\ shell' = [shell EXCEPT ![s] = "dead"] /\ job' = job
             \/ job[s] = "run" /\ job' = [job EXCEPT ![s] = "dead"] /\ shell' = shell
      BY <1>3 DEF ProcessEnds
    <2>2. Fade
      BY <1>1, <2>1 DEF TypeOK, Fade, SStates, JStates
    <2>3. TypeOK' /\ Referred' /\ ReaderLife' /\ ExitTimes' /\ Outside'
      BY <1>2, <2>1, <2>2, RecordsKept DEF TInv, TypeOK, Referred, ReaderLife, Kept
    <2>4. Victims' /\ Shutdown'
      BY <1>2, <2>1, <2>2, VictimsKept, ShutdownKept
    <2>5. LiveBound' /\ KeptBound'
      BY <1>2, <2>1 DEF TInv, LiveBound, KeptBound, Kept
    <2>6. QED
      BY <2>3, <2>4, <2>5 DEF TInv
  <1>4. ASSUME NEW t \in Threads, WaitExit(t) PROVE TInv'
    <2>1. sid[t] \in Used /\ sid[t] \in Sessions
      BY <1>4 DEF WaitExit, TInv, Referred, Used
    <2>2. /\ pc[t] = "wait" /\ Fade
          /\ \/ sid[t] \in exited /\ Goto(t, "free", sid[t])
             \/ /\ Goto(t, "killed", sid[t]) /\ shell'[sid[t]] # "run"
                /\ style[sid[t]] = "quiet" => job'[sid[t]] # "run"
      BY <1>1, <1>4, <2>1, FadeUnchanged, FadeKill DEF WaitExit
    <2>3. PICK p \in {"free", "killed"} :
             /\ pc' = [pc EXCEPT ![t] = p] /\ sid' = [sid EXCEPT ![t] = sid[t]]
             /\ p = "free" => sid[t] \in exited
             /\ p = "killed" => /\ shell'[sid[t]] # "run"
                                /\ style[sid[t]] = "quiet" => job'[sid[t]] # "run"
      BY <2>2 DEF Goto
    <2>4. /\ \A u \in Threads : u # t => pc'[u] = pc[u]
          /\ sid' = sid /\ pc'[t] = p
          /\ pc' \in [Threads -> {"idle", "fork", "wait", "killed", "free"}]
      BY <1>1, <2>3
    <2>5. TypeOK' /\ Referred' /\ ReaderLife' /\ ExitTimes' /\ Outside'
      <3>1. \A u \in Threads : pc'[u] \in {"wait", "killed", "free"} => sid'[u] \in Used
        BY <2>1, <2>4 DEF TInv, Referred
      <3>2. QED
        BY <1>1, <1>2, <2>2, <2>4, <3>1, RecordsKept DEF TInv, TypeOK, Referred, ReaderLife, Kept
    <2>6. Victims'
      BY <1>2, <2>2, <2>3, <2>4, VictimsKept
    <2>7. Shutdown'
      BY <1>2, <2>2, ShutdownKept
    <2>8. LiveBound'
      <3>1. Forking' \subseteq Forking
        BY <2>4 DEF Forking
      <3>2. QED
        BY <1>2, <3>1, LiveShrinks
    <2>9. KeptBound'
      BY <1>2 DEF TInv, KeptBound, Kept
    <2>10. QED
      BY <2>5, <2>6, <2>7, <2>8, <2>9 DEF TInv
  <1>5. QED
    BY <1>3, <1>4

\* A killed or exited session leaves the table.
LEMMA FreeStep ==
  ASSUME TInv, NEW t \in Threads, FreeVterm(t)
  PROVE  TInv'
  <1>1. /\ TypeOK /\ pc \in [Threads -> {"idle", "fork", "wait", "killed", "free"}]
        /\ sid \in [Threads -> Sessions \cup {NoSession}] /\ table \subseteq Sessions
    BY DEF TInv, TypeOK
  <1>2. /\ mpc # "exit" /\ pc[t] \in {"free", "killed"}
        /\ table' = table \ {sid[t]} /\ expired' = expired \ {sid[t]}
        /\ freed' = IF sid[t] \in exited THEN freed \cup {sid[t]} ELSE freed
        /\ pc' = [pc EXCEPT ![t] = "idle"] /\ sid' = [sid EXCEPT ![t] = NoSession]
        /\ UNCHANGED <<procs, reader, exited, exitedAt, fresh, main, hit>>
    BY DEF FreeVterm, Drop, Goto
  <1>3. Fade
    BY <1>1, <1>2, FadeUnchanged
  <1>4. shell[sid[t]] # "run"
    BY <1>2 DEF TInv, Victims, ReaderLife
  <1>5. /\ \A u \in Threads : u # t => pc'[u] = pc[u] /\ sid'[u] = sid[u]
        /\ pc'[t] = "idle"
        /\ pc' \in [Threads -> {"idle", "fork", "wait", "killed", "free"}]
        /\ sid' \in [Threads -> Sessions \cup {NoSession}]
    BY <1>1, <1>2
  <1>6. TypeOK' /\ Referred' /\ ReaderLife' /\ ExitTimes' /\ Outside'
    <2>1. \A u \in Threads : pc'[u] \in {"wait", "killed", "free"} => sid'[u] \in Used
      BY <1>5 DEF TInv, Referred
    <2>2. freed' \subseteq exited /\ expired' \subseteq Kept'
      BY <1>2 DEF TInv, TypeOK, ReaderLife, Kept
    <2>3. /\ table' \subseteq table /\ \A s \in table \ table' : shell'[s] # "run"
      BY <1>2, <1>4
    <2>4. QED
      BY <1>2, <1>3, <1>5, <2>1, <2>2, <2>3, RecordsKept DEF TInv, TypeOK, Referred
  <1>7. Victims' /\ Shutdown'
    BY <1>2, <1>3, <1>5, VictimsKept, ShutdownKept
  <1>8. LiveBound'
    <2>1. Forking' \subseteq Forking /\ (table \ exited)' \subseteq table \ exited
      BY <1>2, <1>5 DEF Forking
    <2>2. QED
      BY <2>1, LiveShrinks
  <1>9. KeptBound'
    <2>1. (Kept \ fresh)' \subseteq Kept \ fresh
      BY <1>2 DEF Kept
    <2>2. QED
      BY <2>1, KeptShrinks
  <1>10. QED
    BY <1>6, <1>7, <1>8, <1>9 DEF TInv

\* The shutdown takes one session after the other.
LEMMA ShutdownStep ==
  ASSUME TInv, ShutdownStart \/ ShutdownTerm \/ ShutdownKill \/ ShutdownDrop
  PROVE  TInv'
  <1>1. /\ TypeOK /\ pc \in [Threads -> {"idle", "fork", "wait", "killed", "free"}]
        /\ sid \in [Threads -> Sessions \cup {NoSession}] /\ table \subseteq Sessions
        /\ left \subseteq Used /\ Used \subseteq Sessions
    BY DEF TInv, TypeOK, Referred, Used
  <1>2. /\ mpc # "exit" /\ UNCHANGED <<reader, exited, exitedAt, fresh, locals, hit>>
    BY DEF ShutdownStart, ShutdownTerm, ShutdownKill, ShutdownDrop
  <1>3. CASE ShutdownStart
    <2>1. /\ mpc = "serve" /\ left' = table /\ mpc' = "next" /\ owed' = Used
          /\ UNCHANGED <<table, procs, reader, ended, freed, locals, cur, hit>>
      BY <1>3 DEF ShutdownStart, Used
    <2>2. Used' = Used /\ Unused' = Unused
      BY <2>1 DEF Used, Unused
    <2>3. TypeOK' /\ Referred' /\ ReaderLife' /\ ExitTimes' /\ Outside' /\ Victims'
      BY <1>1, <2>1, <2>2 DEF TInv, TypeOK, Referred, ReaderLife, ExitTimes, Outside, Victims, Kept
    <2>4. Shutdown'
      BY <2>1 DEF TInv, Outside, Shutdown
    <2>5. LiveBound' /\ KeptBound'
      BY <2>1 DEF TInv, LiveBound, KeptBound, Kept
    <2>6. QED
      BY <2>3, <2>4, <2>5 DEF TInv
  <1>4. ASSUME Fade, owed' = owed, left' \subseteq Used, mpc' \in {"next", "wait", "drop"},
               table' \subseteq table, \A s \in table \ table' : shell'[s] # "run",
               cur' \in Sessions \cup {NoSession}, mpc' \in {"wait", "drop"} => cur' \in Used,
               expired' \subseteq Kept', freed' \subseteq exited, Shutdown'
        PROVE  TInv'
    <2>1. TypeOK' /\ Referred' /\ ReaderLife' /\ ExitTimes' /\ Outside'
      BY <1>1, <1>2, <1>4, RecordsKept DEF TInv, TypeOK, Referred
    <2>2. Victims'
      BY <1>2, <1>4, VictimsKept
    <2>3. (table \ exited)' \subseteq table \ exited /\ Forking' \subseteq Forking
          /\ (Kept \ fresh)' \subseteq Kept \ fresh
      BY <1>2, <1>4 DEF Kept, Forking
    <2>4. QED
      BY <1>4, <2>1, <2>2, <2>3, LiveShrinks, KeptShrinks DEF TInv
  <1>5. freed \subseteq exited /\ expired \subseteq Kept /\ cur \in Sessions \cup {NoSession}
    BY DEF TInv, TypeOK, ReaderLife
  <1>6. CASE ShutdownTerm
    <2>1. PICK s \in left : /\ mpc = "next" /\ mpc' = "wait" /\ Ask(s) /\ cur' = s
                            /\ left' = left \ {s}
                            /\ UNCHANGED <<table, ended, freed, owed>>
      BY <1>6 DEF ShutdownTerm
    <2>2. Fade
      BY <1>1, <2>1, FadeAsk
    <2>3. Shutdown'
      BY <1>1, <2>1, <2>2 DEF TInv, TypeOK, Shutdown, Fade
    <2>4. QED
      BY <1>1, <1>4, <1>5, <2>1, <2>2, <2>3 DEF Kept
  <1>7. CASE ShutdownKill
    <2>1. /\ mpc = "wait" /\ mpc' = "drop" /\ UNCHANGED <<table, ended, freed, cur, left, owed>>
          /\ IF cur \in exited THEN UNCHANGED procs ELSE Kill(cur)
      BY <1>7 DEF ShutdownKill
    <2>2. cur \in Used /\ cur \in Sessions
      BY <1>1, <2>1 DEF TInv, Referred
    <2>3. Fade /\ shell'[cur] # "run"
      <3>1. CASE cur \in exited
        BY <1>1, <2>1, <3>1, FadeUnchanged DEF TInv, ReaderLife
      <3>2. CASE cur \notin exited
        BY <1>1, <2>1, <2>2, <3>2, FadeKill
      <3>3. QED
        BY <3>1, <3>2
    <2>4. Shutdown'
      BY <1>1, <2>1, <2>3 DEF TInv, TypeOK, Shutdown, Fade
    <2>5. QED
      BY <1>1, <1>4, <1>5, <2>1, <2>2, <2>3, <2>4 DEF Kept
  <1>8. CASE ShutdownDrop
    <2>1. /\ mpc = "drop" /\ mpc' = "next" /\ cur' = NoSession
          /\ freed' = IF cur \in exited THEN freed \cup {cur} ELSE freed
          /\ table' = table \ {cur} /\ expired' = expired \ {cur}
          /\ UNCHANGED <<procs, left, owed>>
      BY <1>8 DEF ShutdownDrop, Drop
    <2>2. Fade
      BY <1>1, <2>1, FadeUnchanged
    <2>3. shell[cur] # "run" /\ Shutdown'
      BY <2>1 DEF TInv, Shutdown
    <2>4. expired' \subseteq Kept' /\ freed' \subseteq exited
      BY <1>2, <1>5, <2>1 DEF Kept
    <2>5. QED
      BY <1>1, <1>4, <2>1, <2>2, <2>3, <2>4
  <1>9. QED
    BY <1>3, <1>6, <1>7, <1>8

\* The reader stops: at the end of file, having waited for the shell, or by an
\* error.
LEMMA ReaderStops ==
  ASSUME TInv, NEW s \in Sessions, ReaderEof(s) \/ ReaderFails(s)
  PROVE  TInv'
  <1>1. /\ TypeOK /\ mpc # "exit" /\ reader[s] = "poll"
        /\ UNCHANGED <<table, style, job, ended, freed, locals, main>>
        /\ hit' \in 0..MaxFaults
        /\ \/ /\ shell[s] = "dead" /\ shell' = [shell EXCEPT ![s] = "reaped"]
              /\ reader' = [reader EXCEPT ![s] = "publish"]
           \/ shell' = shell /\ reader' = [reader EXCEPT ![s] = "broken"]
    BY LimitsAssumption DEF ReaderEof, ReaderFails, Fault, Ended, TInv, TypeOK
  <1>2. s \notin exited /\ s \in Used /\ Used' = Used /\ Unused' = Unused
    BY <1>1 DEF TInv, Referred, ReaderLife, Used, Unused
  <1>3. /\ \A u \in Sessions : /\ u # s => shell'[u] = shell[u] /\ reader'[u] = reader[u]
                               /\ shell'[u] = "run" => shell[u] = "run"
        /\ shell' \in [Sessions -> SStates]
        /\ reader' \in [Sessions -> {"none", "poll", "publish", "done", "broken"}]
        /\ \/ shell'[s] = "reaped" /\ reader'[s] = "publish"
           \/ reader'[s] = "broken"
    BY <1>1 DEF TypeOK, SStates
  <1>4. TypeOK'
    BY <1>1, <1>3 DEF TypeOK, SStates, Kept
  <1>5. Referred'
    <2>1. \A u \in Unused : shell'[u] = "none" /\ job'[u] = "none" /\ reader'[u] = "none"
      BY <1>1, <1>2, <1>3 DEF TInv, Referred, Used, Unused
    <2>2. QED
      BY <1>1, <1>2, <2>1 DEF TInv, Referred
  <1>6. ReaderLife' /\ ExitTimes'
    BY <1>1, <1>2, <1>3 DEF TInv, TypeOK, ReaderLife, ExitTimes
  <1>7. Victims'
    BY <1>1, <1>3 DEF TInv, Referred, Used, Victims
  <1>8. Outside' /\ Shutdown'
    BY <1>1, <1>2, <1>3 DEF TInv, TypeOK, Referred, Used, Outside, Shutdown
  <1>9. LiveBound' /\ KeptBound'
    BY <1>1 DEF TInv, LiveBound, KeptBound, Kept
  <1>10. QED
    BY <1>4, <1>5, <1>6, <1>7, <1>8, <1>9 DEF TInv

\* The reader reports the end of its session: one more exited session, the
\* latest, and one fewer live one.
LEMMA PublishStep ==
  ASSUME TInv, NEW s \in Sessions, ReaderPublish(s)
  PROVE  TInv'
  <1>1. /\ TypeOK /\ mpc # "exit" /\ reader[s] = "publish"
        /\ exited' = exited \cup {s} /\ fresh' = fresh \cup {s}
        /\ exitedAt' = [exitedAt EXCEPT ![s] = Cardinality(exited) + 1]
        /\ reader' = [reader EXCEPT ![s] = "done"]
        /\ UNCHANGED <<table, procs, expired, freed, locals, main, hit>>
    BY DEF ReaderPublish, TInv
  <1>2. s \notin exited /\ shell[s] = "reaped" /\ s \in Used /\ Used' = Used /\ Unused' = Unused
    BY <1>1 DEF TInv, Referred, ReaderLife, Used, Unused
  <1>3. /\ Cardinality(exited') = Cardinality(exited) + 1 /\ Cardinality(exited) \in Nat
        /\ Cardinality(exited') <= MaxCreated /\ exited' \subseteq Sessions
    <2>1. exited \in SUBSET Sessions /\ exited' \in SUBSET Sessions
      BY <1>1 DEF TypeOK
    <2>2. /\ IsFiniteSet(exited) /\ Cardinality(exited) \in Nat
          /\ Cardinality(exited') <= MaxCreated
      BY <2>1, CountPart
    <2>3. Cardinality(exited') = Cardinality(exited) + 1
      BY <1>1, <1>2, <2>2, FS_AddElement
    <2>4. QED
      BY <2>1, <2>2, <2>3
  <1>4. /\ \A u \in Sessions : u # s => exitedAt'[u] = exitedAt[u] /\ reader'[u] = reader[u]
        /\ exitedAt'[s] = Cardinality(exited) + 1 /\ reader'[s] = "done"
        /\ exitedAt' \in [Sessions -> 0..MaxCreated]
        /\ \A u \in Sessions : exitedAt[u] \in Nat
    BY <1>1, <1>3, LimitsAssumption DEF TypeOK
  <1>5. ExitTimes'
    BY <1>1, <1>3, <1>4 DEF TInv, TypeOK, ExitTimes
  <1>6. TypeOK'
    <2>1. \A u, v \in exited' : exitedAt'[u] = exitedAt'[v] => u = v
      <3>1. \A u \in exited : exitedAt'[u] = exitedAt[u] /\ exitedAt'[u] # exitedAt'[s]
        BY <1>1, <1>2, <1>3, <1>4 DEF TInv, TypeOK, ExitTimes
      <3>2. \A u, v \in exited : exitedAt[u] = exitedAt[v] => u = v
        BY <1>1 DEF TypeOK
      <3>3. QED
        BY <1>1, <3>1, <3>2
    <2>2. {table, exited, fresh, freed, left, owed}' \subseteq SUBSET Sessions
          /\ expired' \subseteq Kept'
      BY <1>1, <1>3 DEF TypeOK, Kept
    <2>3. QED
      BY <1>1, <1>4, <2>1, <2>2 DEF TypeOK
  <1>7. Referred'
    BY <1>1, <1>2, <1>4 DEF TInv, Referred, Used
  <1>8. ReaderLife'
    BY <1>1, <1>2, <1>4 DEF TInv, TypeOK, ReaderLife
  <1>9. Victims' /\ Outside' /\ Shutdown'
    BY <1>1, <1>2 DEF TInv, Victims, Outside, Shutdown
  <1>10. LiveBound'
    <2>1. (table \ exited)' \subseteq table \ exited /\ Forking' \subseteq Forking
      BY <1>1 DEF Forking
    <2>2. QED
      BY <2>1, LiveShrinks
  <1>11. KeptBound'
    <2>1. (Kept \ fresh)' \subseteq Kept \ fresh
      BY <1>1 DEF Kept
    <2>2. QED
      BY <2>1, KeptShrinks
  <1>12. QED
    BY <1>5, <1>6, <1>7, <1>8, <1>9, <1>10, <1>11 DEF TInv

\* A session that has ended becomes old enough to be swept.
LEMMA ExpireStep ==
  ASSUME TInv, NEW s \in Sessions, Expire(s)
  PROVE  TInv'
  <1>1. /\ s \in Kept /\ expired' = expired \cup {s} /\ hit' \in 0..MaxFaults
        /\ UNCHANGED <<table, procs, reader, exited, exitedAt, fresh, freed, locals, main>>
    BY LimitsAssumption DEF Expire, Fault, TInv, TypeOK
  <1>2. TypeOK'
    BY <1>1 DEF TInv, TypeOK, Kept
  <1>3. Referred' /\ ReaderLife' /\ ExitTimes' /\ Victims' /\ Outside' /\ Shutdown'
    BY <1>1 DEF TInv, Referred, ReaderLife, ExitTimes, Victims, Outside, Shutdown, Used, Unused
  <1>4. LiveBound' /\ KeptBound'
    BY <1>1 DEF TInv, LiveBound, KeptBound, Kept
  <1>5. QED
    BY <1>2, <1>3, <1>4 DEF TInv

\* A new session: one live session more and one creation fewer under way.
LEMMA CreateStep ==
  ASSUME TInv, NEW t \in Threads, Create(t)
  PROVE  TInv'
  <1>1. /\ TypeOK /\ mpc # "exit" /\ pc[t] = "fork"
        /\ pc' = [pc EXCEPT ![t] = "idle"] /\ sid' = [sid EXCEPT ![t] = NoSession]
        /\ UNCHANGED <<ended, freed, main>>
    BY DEF Create, Goto, TInv
  <1>2. /\ \A u \in Threads : u # t => pc'[u] = pc[u] /\ sid'[u] = sid[u]
        /\ pc'[t] = "idle"
        /\ pc' \in [Threads -> {"idle", "fork", "wait", "killed", "free"}]
        /\ sid' \in [Threads -> Sessions \cup {NoSession}]
    BY <1>1 DEF TypeOK
  <1>3. Forking' = Forking \ {t} /\ t \in Forking
    BY <1>1, <1>2 DEF Forking
  <1>4. /\ Cardinality(Forking') = Cardinality(Forking) - 1
        /\ Cardinality(Forking) \in Nat /\ Cardinality(Forking') \in Nat
    BY <1>3, CountForking, FS_RemoveElement
  <1>5. CASE UNCHANGED <<table, procs, reader, hit>>
    <2>1. Fade
      BY <1>1, <1>5, FadeUnchanged
    <2>2. \A u \in Threads : pc'[u] \in {"wait", "killed", "free"} => sid'[u] \in Used
      BY <1>2 DEF TInv, Referred
    <2>3. TypeOK' /\ Referred' /\ ReaderLife' /\ ExitTimes' /\ Outside'
      BY <1>1, <1>2, <1>5, <2>1, <2>2, RecordsKept DEF TInv, TypeOK, Referred, ReaderLife, Kept
    <2>4. Victims' /\ Shutdown'
      BY <1>1, <1>2, <2>1, VictimsKept, ShutdownKept
    <2>5. LiveBound'
      BY <1>1, <1>3, <1>5, LiveShrinks
    <2>6. KeptBound'
      BY <1>1, <1>5 DEF TInv, KeptBound, Kept
    <2>7. QED
      BY <2>3, <2>4, <2>5, <2>6 DEF TInv
  <1>6. ASSUME NEW k \in Styles, Unused # {}, NEW s, s = Min(Unused),
               style' = [style EXCEPT ![s] = k],
               shell' = [shell EXCEPT ![s] = "run"],
               job' = [job EXCEPT ![s] = IF k \in {"quiet", "escaped"} THEN "run" ELSE "none"],
               table' = table \cup {s},
               \/ reader' = [reader EXCEPT ![s] = "poll"] /\ UNCHANGED hit
               \/ Fault("reader") /\ reader' = [reader EXCEPT ![s] = "broken"]
        PROVE  TInv'
    <2>1. s \in Unused /\ s \in Sessions /\ s \notin Used
      BY <1>6, MinUnused DEF Unused, Used
    <2>2. s \notin exited /\ s \notin owed /\ s \notin left
      BY <2>1 DEF TInv, Referred
    <2>3. k # "unused" /\ k \in Styles
      BY <1>6, LimitsAssumption
    <2>4. /\ \A u \in Sessions \ {s} : /\ style'[u] = style[u] /\ shell'[u] = shell[u]
                                       /\ job'[u] = job[u] /\ reader'[u] = reader[u]
          /\ style'[s] = k /\ reader'[s] \in {"poll", "broken"}
          /\ job'[s] = "run" => k \in {"quiet", "escaped"}
          /\ hit' \in 0..MaxFaults
      BY <1>1, <1>6, <2>1, LimitsAssumption DEF TypeOK, Fault
    <2>5. /\ style' \in [Sessions -> Styles \cup {"unused"}]
          /\ shell' \in [Sessions -> SStates] /\ job' \in [Sessions -> JStates]
          /\ reader' \in [Sessions -> {"none", "poll", "publish", "done", "broken"}]
      BY <1>1, <1>6, <2>1 DEF TypeOK, SStates, JStates
    <2>6. Used' = Used \cup {s} /\ Unused' = Unused \ {s} /\ Used \subseteq Sessions
      BY <2>1, <2>3, <2>4 DEF Used, Unused
    <2>7. TypeOK'
      <3>1. {table, exited, fresh, freed, left, owed}' \subseteq SUBSET Sessions
            /\ expired' \subseteq Kept'
        BY <1>1, <1>6, <2>1 DEF TypeOK, Kept
      <3>2. QED
        BY <1>1, <1>2, <2>4, <2>5, <3>1 DEF TypeOK, SStates, JStates
    <2>8. Referred'
      <3>1. \A u \in Unused' : shell'[u] = "none" /\ job'[u] = "none" /\ reader'[u] = "none"
        BY <2>4, <2>6 DEF TInv, Referred, Unused
      <3>2. \A u \in Sessions : job'[u] = "run" => style'[u] \in {"quiet", "escaped"}
        BY <2>4 DEF TInv, Referred
      <3>3. \A u \in Threads : pc'[u] \in {"wait", "killed", "free"} => sid'[u] \in Used'
        BY <1>2, <2>6 DEF TInv, Referred
      <3>4. QED
        BY <1>1, <1>6, <2>6, <3>1, <3>2, <3>3 DEF TInv, Referred
    <2>9. ReaderLife' /\ ExitTimes'
      BY <1>1, <2>2, <2>4 DEF TInv, TypeOK, ReaderLife, ExitTimes
    <2>10. Victims'
      <3>1. ASSUME NEW u \in Threads, u # t, pc[u] = "killed"
            PROVE  sid[u] \in Sessions \ {s}
        BY <2>1, <3>1 DEF TInv, Referred, Used
      <3>2. QED
        BY <1>1, <1>2, <2>4, <3>1 DEF TInv, Victims
    <2>11. Outside' /\ Shutdown'
      <3>1. Outside'
        BY <1>1, <1>6, <2>4, <2>6 DEF TInv, Outside
      <3>2. \A u \in owed \cup left : shell'[u] = shell[u]
        BY <1>1, <2>2, <2>4 DEF TypeOK
      <3>3. mpc = "drop" => shell'[cur] = shell[cur]
        BY <2>1, <2>4, <2>6 DEF TInv, Referred
      <3>4. Shutdown'
        BY <1>1, <3>2, <3>3 DEF TInv, Shutdown
      <3>5. QED
        BY <3>1, <3>4
    <2>12. LiveBound'
      <3>1. table \ exited \in SUBSET Sessions
        BY <1>1 DEF TypeOK
      <3>2. IsFiniteSet(table \ exited) /\ Cardinality(table \ exited) \in Nat
        BY <3>1, CountPart
      <3>3. (table \ exited)' = (table \ exited) \cup {s}
        BY <1>1, <1>6, <2>2
      <3>4. /\ Cardinality((table \ exited)') \in Nat
            /\ Cardinality((table \ exited)') <= Cardinality(table \ exited) + 1
        <4>1. s \notin table \ exited
          BY <2>1 DEF TInv, Referred
        <4>2. Cardinality((table \ exited) \cup {s}) = Cardinality(table \ exited) + 1
          BY <3>2, <4>1, FS_AddElement
        <4>3. Cardinality((table \ exited)') = Cardinality(table \ exited) + 1
          BY <3>3, <4>2, Zenon
        <4>4. QED
          BY <3>2, <4>3
      <3>5. QED
        BY <1>4, <3>2, <3>4, CountForking, LimitsAssumption DEF TInv, LiveBound, Forking
    <2>13. KeptBound'
      <3>1. (Kept \ fresh)' \subseteq Kept \ fresh
        BY <1>1, <1>6, <2>2 DEF Kept
      <3>2. QED
        BY <3>1, KeptShrinks
    <2>14. QED
      BY <2>7, <2>8, <2>9, <2>10, <2>11, <2>12, <2>13 DEF TInv
  <1>7. QED
    BY <1>5, <1>6 DEF Create

\* The end of the process: what it knew is gone, what it owed is dead.
LEMMA ExitStep ==
  ASSUME TInv, ProcessExit
  PROVE  TInv'
  <1>1. /\ TypeOK /\ mpc = "next" /\ left = {} /\ mpc' = "exit"
        /\ shell' = [s \in Sessions |-> IF shell[s] = "run" /\ style[s] # "deaf"
                                        THEN "dead" ELSE shell[s]]
        /\ table' = {} /\ exited' = {} /\ exitedAt' = [s \in Sessions |-> 0]
        /\ expired' = {} /\ fresh' = {} /\ freed' = {}
        /\ reader' = [s \in Sessions |-> "none"]
        /\ pc' = [t \in Threads |-> "idle"] /\ sid' = [t \in Threads |-> NoSession]
        /\ UNCHANGED <<style, job, cur, left, owed, hit>>
    BY DEF ProcessExit, TInv
  <1>2. \A s \in Sessions : shell'[s] = shell[s] \/ (shell[s] = "run" /\ shell'[s] = "dead")
    BY <1>1
  <1>3. Used' = Used /\ Unused' = Unused /\ Unused \subseteq Sessions /\ owed \subseteq Sessions
    BY <1>1 DEF Used, Unused, TypeOK
  <1>4. TypeOK'
    <2>1. exitedAt' \in [Sessions -> 0..MaxCreated]
      BY <1>1, LimitsAssumption
    <2>2. QED
      BY <1>1, <2>1 DEF TypeOK, Kept
  <1>5. Referred'
    BY <1>1, <1>2, <1>3 DEF TInv, Referred
  <1>6. ReaderLife' /\ ExitTimes' /\ Victims' /\ Outside'
    BY <1>1 DEF ReaderLife, ExitTimes, Victims, Outside
  <1>7. Shutdown'
    BY <1>1, <1>2, <1>3 DEF TInv, Shutdown
  <1>8. LiveBound' /\ KeptBound'
    <2>1. (table \ exited)' = {} /\ Forking' = {} /\ (Kept \ fresh)' = {}
      BY <1>1 DEF Forking, Kept
    <2>2. Cardinality({}) = 0
      BY FS_EmptySet
    <2>3. Cardinality(Threads) \in Nat /\ Cardinality(Threads) # 0
      BY LimitsAssumption, FS_CardinalityType, FS_EmptySet
    <2>4. /\ Cardinality((table \ exited)') = 0 /\ Cardinality(Forking') = 0
          /\ Cardinality((Kept \ fresh)') = 0
      BY <2>1, <2>2
    <2>5. LiveBound'
      BY <2>3, <2>4, LimitsAssumption DEF LiveBound, Forking
    <2>6. KeptBound'
      BY <2>4, LimitsAssumption DEF KeptBound
    <2>7. QED
      BY <2>5, <2>6
  <1>9. QED
    BY <1>4, <1>5, <1>6, <1>7, <1>8 DEF TInv

\* The invariant holds when the service starts.
LEMMA InitTInv == Init => TInv
  <1>1. SUFFICES ASSUME Init PROVE TInv
    OBVIOUS
  <1>2. TypeOK
    BY <1>1, LimitsAssumption DEF Init, TypeOK, Kept
  <1>3. Unused = Sessions /\ Used = {}
    BY <1>1 DEF Init, Unused, Used
  <1>4. Referred /\ ReaderLife /\ ExitTimes /\ Victims /\ Outside /\ Shutdown
    BY <1>1, <1>3 DEF Init, Referred, ReaderLife, ExitTimes, Victims, Outside, Shutdown
  <1>5. LiveBound /\ KeptBound
    <2>1. table \ exited = {} /\ Forking = {} /\ Kept \ fresh = {}
      BY <1>1 DEF Init, Forking, Kept
    <2>2. Cardinality({}) = 0
      BY FS_EmptySet
    <2>3. Cardinality(Threads) \in Nat /\ Cardinality(Threads) # 0
      BY LimitsAssumption, FS_CardinalityType, FS_EmptySet
    <2>4. /\ Cardinality(table \ exited) = 0 /\ Cardinality(Forking) = 0
          /\ Cardinality(Kept \ fresh) = 0
      BY <2>1, <2>2
    <2>5. LiveBound
      BY <2>3, <2>4, LimitsAssumption DEF LiveBound, Forking
    <2>6. KeptBound
      BY <2>4, LimitsAssumption DEF KeptBound
    <2>7. QED
      BY <2>5, <2>6
  <1>6. QED
    BY <1>2, <1>4, <1>5 DEF TInv

\* Every step keeps it.
LEMMA NextTInv ==
  ASSUME TInv, [Next]_vars
  PROVE  TInv'
  <1>1. CASE UNCHANGED vars
    <2>1. TypeOK' /\ Referred' /\ ReaderLife' /\ ExitTimes' /\ Victims'
      BY <1>1 DEF vars, TInv, TypeOK, Referred, ReaderLife, ExitTimes, Victims, Kept, Used, Unused
    <2>2. Outside' /\ Shutdown' /\ LiveBound' /\ KeptBound'
      BY <1>1 DEF vars, TInv, Outside, Shutdown, LiveBound, KeptBound, Kept, Used, Unused
    <2>3. QED
      BY <2>1, <2>2 DEF TInv
  <1>2. CASE Over
    BY <1>1, <1>2 DEF Over
  <1>3. ASSUME NEW t \in Threads,
               Thread(t) \/ List(t) \/ CountLive(t) \/ \E s \in table : FindVictim(t, s)
        PROVE  TInv'
    BY <1>3, CallStep, CreateStep, ProcessStep, FreeStep DEF Thread
  <1>4. ASSUME NEW s \in Sessions, Reader(s) \/ ReaderFails(s) \/ ProcessEnds(s) \/ Expire(s)
        PROVE  TInv'
    BY <1>4, ReaderStops, PublishStep, ProcessStep, ExpireStep DEF Reader
  <1>5. CASE ShutdownStart \/ ShutdownTerm \/ ShutdownKill \/ ShutdownDrop \/ ProcessExit
    BY <1>5, ShutdownStep, ExitStep
  <1>6. QED
    BY <1>1, <1>2, <1>3, <1>4, <1>5 DEF Next

-----------------------------------------------------------------------------
(* The theorems.                                                           *)

\* Who may still refer to a session, what its reader has done and what a kill
\* or the shutdown has left of it: the invariant the next theorems rest on.
THEOREM SessionsInvariant == Spec => []TInv
  <1>1. Init => TInv
    BY InitTInv
  <1>2. TInv /\ [Next]_vars => TInv'
    BY NextTInv
  <1>3. QED
    BY <1>1, <1>2, PTL DEF Spec

\* Whatever the limit and the number of threads, the race between counting and
\* inserting exceeds --max-sessions by less than the number of threads, and a
\* sweep keeps at most --max-sessions records of exited sessions.
THEOREM SessionsTableBounded == Spec => []TableBounds
  <1>1. TInv => TableBounds
    BY DEF TInv, TableBounds
  <1>2. QED
    BY <1>1, SessionsInvariant, PTL

\* Sweep, kill and shutdown free a vterm only after its reader has finished, and
\* an exited session has been waited for.
THEOREM SessionsFreedAfterReader == Spec => []FreedAfterReader
  <1>1. TInv => FreedAfterReader
    BY DEF TInv, ReaderLife, FreedAfterReader
  <1>2. QED
    BY <1>1, SessionsInvariant, PTL

\* kill_terminal drops a session only when its shell is dead, whatever other
\* threads do to the same session meanwhile.
THEOREM SessionsKillEndsShell == Spec => []KillEndsShell
  <1>1. ASSUME TInv, NEW t \in Threads, pc[t] \in {"killed", "free"}
        PROVE  /\ Gone(sid[t])
               /\ (pc[t] = "killed" /\ style[sid[t]] = "quiet") => job[sid[t]] # "run"
    <2>1. sid[t] \in Sessions
      BY <1>1 DEF TInv, Referred, Used
    <2>2. shell[sid[t]] # "run"
      BY <1>1 DEF TInv, Victims, ReaderLife
    <2>3. job[sid[t]] = "run" => style[sid[t]] \in {"quiet", "escaped"}
      BY <1>1, <2>1 DEF TInv, Referred
    <2>4. QED
      BY <1>1, <2>2, <2>3 DEF TInv, Victims, Gone
  <1>2. TInv => KillEndsShell
    BY <1>1 DEF KillEndsShell
  <1>3. QED
    BY <1>2, SessionsInvariant, PTL

\* Every session that existed when terminal_shutdown_all took its snapshot is
\* dead when the process ends, also one that a tool thread was killing.
THEOREM SessionsEndAtShutdown == Spec => []ShutdownEndsSessions
  <1>1. ASSUME TInv, mpc = "exit", NEW s \in owed PROVE Gone(s)
    <2>1. s \in Sessions /\ s \in owed \ left
      BY <1>1 DEF TInv, TypeOK, Shutdown
    <2>2. QED
      BY <1>1, <2>1 DEF TInv, Shutdown, Referred, Gone
  <1>2. TInv => ShutdownEndsSessions
    BY <1>1 DEF ShutdownEndsSessions
  <1>3. QED
    BY <1>2, SessionsInvariant, PTL
=============================================================================
